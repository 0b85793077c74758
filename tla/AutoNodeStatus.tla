--------------------------- MODULE AutoNodeStatus ---------------------------
(***************************************************************************)
(* The autonode-status controller (pkg/controllers/hcp/autonodestatus): it *)
(* reports the number of Karpenter's Nodes, of NodeClaims and of their     *)
(* vCPUs in the status of the HostedControlPlane.                          *)
(*                                                                         *)
(* Every event maps to one request.  Nodes and NodeClaims are filtered by  *)
(* predicates that let only changes of the counts through; the caches of   *)
(* the three kinds lag independently, the two lists are read one after the *)
(* other, and the status is applied with forced ownership, whatever its    *)
(* resourceVersion.                                                        *)
(***************************************************************************)
EXTENDS Naturals, FiniteSetsExt

CONSTANTS
    Names,      \* of nodes; the NodeClaim of a node has the same name
    CPUs,       \* capacities of NodeClaims; 0 stands for one that is not reported
    Budget      \* bound on the environment's steps

ASSUME ConstantsAreTyped ==
    IsFiniteSet(Names) /\ IsFiniteSet(CPUs) /\ CPUs \subseteq Nat /\ 0 \in CPUs /\ Budget \in Nat

VARIABLES
    hcp, node, claim,       \* the objects in the API servers
    chcp, cnode, cclaim,    \* the informer caches of them
    fhcp,                   \* is the cached resourceVersion of the HCP current?
    queued, worker, budget

vars == <<hcp, node, claim, chcp, cnode, cclaim, fhcp, queued, worker, budget>>

-----------------------------------------------------------------------------
(* Objects *)

(* status.autoNode; set is FALSE while the counts are nil *)
NoStatus == [set |-> FALSE, nodes |-> 0, claims |-> 0, vcpus |-> 0]
Status == {NoStatus} \cup
    [set : {TRUE}, nodes : 0..Cardinality(Names), claims : 0..Cardinality(Names),
     vcpus : 0..Cardinality(Names) * Max(CPUs)]

HCP == [exists : BOOLEAN, status : Status]

(* labelled: has the NodePool label *)
Node == {"absent", "plain", "labelled"}

(* named: status.nodeName is set *)
Claim == [exists : BOOLEAN, named : BOOLEAN, cpu : CPUs]
NoClaim == [exists |-> FALSE, named |-> FALSE, cpu |-> 0]

(* A reconcile holds the status it read and what it counted of the Nodes. *)
Worker == [pc : {"idle", "claims", "apply"}, status : Status, nodes : [Names -> Node],
           desired : Status]
Idle == [pc |-> "idle", status |-> NoStatus, nodes |-> [n \in Names |-> "absent"],
         desired |-> NoStatus]

TypeOK ==
    /\ hcp \in HCP /\ chcp \in HCP /\ fhcp \in BOOLEAN
    /\ node \in [Names -> Node] /\ cnode \in [Names -> Node]
    /\ claim \in [Names -> Claim] /\ cclaim \in [Names -> Claim]
    /\ queued \in BOOLEAN /\ worker \in Worker /\ budget \in Nat

Init ==
    /\ hcp \in [exists : BOOLEAN, status : {NoStatus}] /\ chcp = hcp /\ fhcp = TRUE
    /\ node = [n \in Names |-> "absent"] /\ cnode = node
    /\ claim = [n \in Names |-> NoClaim] /\ cclaim = claim
    /\ queued = hcp.exists /\ worker = Idle /\ budget = Budget

-----------------------------------------------------------------------------
(* HyperShift, Karpenter and kubelets (external) *)

Spend == budget > 0 /\ budget' = budget - 1

ChangeHCP(h) ==
    /\ Spend /\ hcp' = h /\ fhcp' = FALSE
    /\ UNCHANGED <<node, claim, chcp, cnode, cclaim, queued, worker>>

CreateHCP == ~hcp.exists /\ ChangeHCP([exists |-> TRUE, status |-> NoStatus])
RemoveHCP == hcp.exists /\ ChangeHCP([exists |-> FALSE, status |-> NoStatus])

(* The fields are shared with the HyperShift operator, which may write them. *)
ResetStatus == hcp.exists /\ hcp.status # NoStatus /\ ChangeHCP([hcp EXCEPT !.status = NoStatus])

ChangeNode(n, to) ==
    /\ Spend /\ node[n] # to /\ node' = [node EXCEPT ![n] = to]
    /\ UNCHANGED <<hcp, claim, chcp, cnode, cclaim, fhcp, queued, worker>>

ChangeClaim(n, to) ==
    /\ Spend /\ claim[n] # to /\ claim' = [claim EXCEPT ![n] = to]
    /\ UNCHANGED <<hcp, node, chcp, cnode, cclaim, fhcp, queued, worker>>

(* Nodes come and go, with or without a NodeClaim; Karpenter labels those it *)
(* recognises and records name and capacity in the NodeClaim.                *)
JoinNode(n) == node[n] = "absent" /\ ChangeNode(n, "plain")
LabelNode(n) == node[n] = "plain" /\ claim[n].exists /\ ChangeNode(n, "labelled")
UnlabelNode(n) == node[n] = "labelled" /\ ChangeNode(n, "plain")
RemoveNode(n) == ChangeNode(n, "absent")

CreateClaim(n) == ~claim[n].exists /\ ChangeClaim(n, [NoClaim EXCEPT !.exists = TRUE])
NameClaim(n) ==
    claim[n].exists /\ node[n] # "absent" /\ ChangeClaim(n, [claim[n] EXCEPT !.named = TRUE])
SetCapacity(n, cpu) == claim[n].exists /\ cpu # 0 /\ ChangeClaim(n, [claim[n] EXCEPT !.cpu = cpu])
RemoveClaim(n) == ChangeClaim(n, NoClaim)

-----------------------------------------------------------------------------
(* The informers *)

(* Mutant: only changes of the spec, as of a generation, queue. *)
SyncHCPOfGeneration ==
    /\ chcp' = hcp /\ fhcp' = TRUE /\ queued' = (queued \/ chcp.exists # hcp.exists)
    /\ UNCHANGED <<hcp, node, claim, cnode, cclaim, worker, budget>>

(* Every change of the HostedControlPlane queues. *)
SyncHCP ==
    /\ chcp' = hcp /\ fhcp' = TRUE /\ queued' = (queued \/ ~fhcp)
    /\ UNCHANGED <<hcp, node, claim, cnode, cclaim, worker, budget>>

(* countChangePredicate: creations, deletions, and the label's presence. *)
countChangePredicate(old, new) == old # new

SyncNodes ==
    /\ cnode' = node
    /\ queued' = (queued \/ \E n \in Names : countChangePredicate(cnode[n], node[n]))
    /\ UNCHANGED <<hcp, node, claim, chcp, cclaim, fhcp, worker, budget>>

(* nodeClaimPredicate: creations, deletions, and the capacity or node name. *)
nodeClaimPredicate(old, new) ==
    \/ old.exists # new.exists
    \/ old.cpu # new.cpu
    \/ old.named # new.named

SyncClaims ==
    /\ cclaim' = claim
    /\ queued' = (queued \/ \E n \in Names : nodeClaimPredicate(cclaim[n], claim[n]))
    /\ UNCHANGED <<hcp, node, claim, chcp, cnode, fhcp, worker, budget>>

-----------------------------------------------------------------------------
(* The worker *)

Done == worker' = Idle /\ UNCHANGED queued
Fail == worker' = Idle /\ queued' = TRUE

(* Mutant: NodeClaims count after their Node has gone. *)
sumNodeClaimVCPUsOfAll(claims, nodes) ==
    SumFunctionOnSet([n \in Names |-> claims[n].cpu], {n \in Names : claims[n].exists /\ claims[n].named})

(* sumNodeClaimVCPUs: NodeClaims whose Node still exists; one without node   *)
(* name or without capacity counts nothing.                                  *)
sumNodeClaimVCPUs(claims, nodes) ==
    SumFunctionOnSet([n \in Names |-> claims[n].cpu],
        {n \in Names : claims[n].exists /\ claims[n].named /\ nodes[n] # "absent"})

(* The desired status, from the Nodes and NodeClaims that were listed. *)
Counts(claims, nodes) ==
    [set |-> TRUE,
     nodes |-> Cardinality({n \in Names : nodes[n] = "labelled"}),
     claims |-> Cardinality({n \in Names : claims[n].exists}),
     vcpus |-> sumNodeClaimVCPUs(claims, nodes)]

(* Reconcile reads the HostedControlPlane and lists the Nodes. *)
Reconcile ==
    /\ worker.pc = "idle" /\ queued /\ queued' = FALSE
    /\ worker' = IF chcp.exists
                   THEN [Idle EXCEPT !.pc = "claims", !.status = chcp.status, !.nodes = cnode]
                   ELSE Idle
    /\ UNCHANGED <<hcp, node, claim, chcp, cnode, cclaim, fhcp, budget>>

(* Then it lists the NodeClaims; a status that is as desired stays. *)
ListClaims ==
    LET desired == Counts(cclaim, worker.nodes)
    IN  /\ worker.pc = "claims"
        /\ worker' = IF desired = worker.status
                       THEN Idle ELSE [worker EXCEPT !.pc = "apply", !.desired = desired]
        /\ UNCHANGED <<hcp, node, claim, chcp, cnode, cclaim, fhcp, queued, budget>>

(* The apply forces ownership; without the object it fails. *)
Apply ==
    /\ worker.pc = "apply"
    /\ IF hcp.exists
         THEN /\ hcp' = [hcp EXCEPT !.status = worker.desired]
              /\ fhcp' = (fhcp /\ hcp' = hcp) /\ Done
         ELSE Fail /\ UNCHANGED <<hcp, fhcp>>
    /\ UNCHANGED <<node, claim, chcp, cnode, cclaim, budget>>

WorkerStep == ListClaims \/ Apply

CallFails ==
    /\ Spend /\ worker.pc # "idle" /\ Fail
    /\ UNCHANGED <<hcp, node, claim, chcp, cnode, cclaim, fhcp>>

(* A restarted operator lists everything and sees it as created. *)
Restart ==
    /\ Spend /\ worker' = Idle
    /\ chcp' = hcp /\ fhcp' = TRUE /\ cnode' = node /\ cclaim' = claim
    /\ queued' = (hcp.exists \/ \E n \in Names : node[n] # "absent" \/ claim[n].exists)
    /\ UNCHANGED <<hcp, node, claim>>

Environment ==
    \/ CreateHCP \/ RemoveHCP \/ ResetStatus
    \/ \E n \in Names :
          \/ JoinNode(n) \/ LabelNode(n) \/ UnlabelNode(n) \/ RemoveNode(n)
          \/ CreateClaim(n) \/ NameClaim(n) \/ RemoveClaim(n)
          \/ \E cpu \in CPUs : SetCapacity(n, cpu)

Next ==
    \/ SyncHCP \/ SyncNodes \/ SyncClaims \/ Reconcile \/ WorkerStep
    \/ CallFails \/ Restart \/ Environment

Spec == Init /\ [][Next]_vars

(* Informers catch up, the queue is served and calls return. *)
Fairness ==
    /\ WF_vars(SyncHCP) /\ WF_vars(SyncNodes) /\ WF_vars(SyncClaims)
    /\ WF_vars(Reconcile) /\ WF_vars(WorkerStep)

FairSpec == Spec /\ Fairness

-----------------------------------------------------------------------------
(* Properties *)

(* What the HostedControlPlane should report: Karpenter's Nodes, its         *)
(* NodeClaims, and the capacity of each Node that a NodeClaim accounts for.  *)
Exact ==
    /\ hcp.status.set
    /\ hcp.status.nodes = Cardinality({n \in Names : node[n] = "labelled"})
    /\ hcp.status.claims = Cardinality({n \in Names : claim[n] # NoClaim})
    /\ hcp.status.vcpus =
         SumFunctionOnSet([n \in Names |-> IF claim[n].named THEN claim[n].cpu ELSE 0],
                          {n \in Names : node[n] # "absent"})

(* Once Nodes and NodeClaims stay as they are, the reported counts become    *)
(* exact and stay so, although the two lists of reconcileAutoNodeStatus come *)
(* from caches of different age, the status compared with is stale after the *)
(* controller's own write, and others write the same fields.                 *)
StatusConverges == <>[](hcp.exists => Exact)

(* At rest, with caches that are current, the report is exact: no event that *)
(* matters is dropped by nodeClaimPredicate, countChangePredicate or the     *)
(* watch of the HostedControlPlane.                                          *)
ExactAtRest ==
    (/\ ~queued /\ worker.pc = "idle" /\ hcp.exists
     /\ chcp = hcp /\ fhcp /\ cnode = node /\ cclaim = claim)
    => Exact
=============================================================================
