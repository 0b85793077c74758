-------------------------- MODULE MachineApprover --------------------------
(***************************************************************************)
(* The karpenter-machine-approver controller                               *)
(* (pkg/controllers/machineapprover) with the AWS node identity verifier:  *)
(* it approves the certificate signing requests (CSRs) of nodes that       *)
(* Karpenter launched, and leaves those of other nodes to others.          *)
(*                                                                         *)
(* A node is its private DNS name; a node of Karpenter has one NodeClaim   *)
(* and one instance.  The kubelet of a node asks for a client certificate  *)
(* (as the node bootstrapper), then for a serving certificate; when it     *)
(* waits too long it asks again with a new CSR, which here takes the place *)
(* of the old one.  Clients are free to send a CSR that does not parse or  *)
(* names no node.  CSRs are watched, NodeClaims are only read.             *)
(***************************************************************************)
EXTENDS Naturals, FiniteSets

CONSTANTS
    Nodes,        \* names of nodes in CSRs
    NoName,       \* stands for the name in a CSR that does not parse or names no node
    Karpenter,    \* the nodes that Karpenter launches
    Kinds,        \* of CSRs; a renewal is requested by the node, not the bootstrapper
    BatchSize,    \* maxInstanceIDsPerDescribeCall
    Budget        \* bound on the environment's free steps

ASSUME ConstantsAreTyped ==
    NoName \in Nodes /\ Karpenter \subseteq Nodes \ {NoName} /\ Kinds \subseteq {"client", "renewal", "serving"}
    /\ BatchSize \in Nat \ {0} /\ Budget \in Nat

VARIABLES
    csr, claim, instance,   \* CSRs, NodeClaims; instances in EC2
    ccsr, cclaim, fcsr,     \* the caches; is the cached resourceVersion current?
    queue, worker, budget,
    patient                 \* do kubelets repeat requests that get no answer?  (never changes)

vars == <<csr, claim, instance, ccsr, cclaim, fcsr, queue, worker, budget, patient>>

-----------------------------------------------------------------------------
(* Objects *)

Keys == Nodes \X Kinds
Reconciled == {k \in Keys : k[2] # "renewal"}

(* approved: by this operator; settled: approved or denied by somebody else. *)
CSR == {"absent", "pending", "approved", "settled"}

(* A NodeClaim gets its provider ID when its instance is launched, and its   *)
(* node name when the node has registered.  One without a provider ID is as  *)
(* good as absent: Verify skips it.                                          *)
NodeClaim == {"absent", "launched", "registered"}

Worker == [pc : {"idle", "verify", "approve"}, key : Keys \cup {<<>>}, fresh : BOOLEAN, ids : SUBSET Nodes]
Idle == [pc |-> "idle", key |-> <<>>, fresh |-> FALSE, ids |-> {}]

TypeOK ==
    /\ csr \in [Keys -> CSR] /\ ccsr \in [Keys -> CSR] /\ fcsr \in [Keys -> BOOLEAN]
    /\ claim \in [Karpenter -> NodeClaim] /\ cclaim \in [Karpenter -> NodeClaim]
    /\ instance \in [Karpenter -> {"none", "running", "terminated"}]
    /\ queue \subseteq Reconciled
    /\ worker \in Worker /\ budget \in Nat /\ patient \in BOOLEAN

Init ==
    /\ csr = [k \in Keys |-> "absent"] /\ ccsr = csr /\ fcsr = [k \in Keys |-> TRUE]
    /\ claim = [n \in Karpenter |-> "absent"] /\ cclaim = claim
    /\ instance = [n \in Karpenter |-> "none"]
    /\ queue = {} /\ budget = Budget /\ patient \in BOOLEAN
    /\ worker = Idle

-----------------------------------------------------------------------------
(* Karpenter, kubelets and other approvers (external) *)

Spend == budget > 0 /\ budget' = budget - 1

ChangeClaim(n, to) ==
    /\ claim' = [claim EXCEPT ![n] = to]
    /\ UNCHANGED <<csr, ccsr, cclaim, fcsr, queue, worker, patient>>

(* The instance runs before the NodeClaim's status says so. *)
Launch(n) ==
    /\ Spend /\ instance[n] = "none"
    /\ instance' = [instance EXCEPT ![n] = "running"]
    /\ UNCHANGED <<csr, claim, ccsr, cclaim, fcsr, queue, worker, patient>>

SetProviderID(n) ==
    /\ claim[n] = "absent" /\ instance[n] = "running"
    /\ ChangeClaim(n, "launched") /\ UNCHANGED <<instance, budget>>

Registered(n) == csr[<<n, "client">>] \in {"approved", "settled"}

Register(n) ==
    /\ claim[n] = "launched" /\ instance[n] = "running" /\ Registered(n)
    /\ ChangeClaim(n, "registered") /\ UNCHANGED <<instance, budget>>

Terminate(n) ==
    /\ Spend /\ instance[n] = "running"
    /\ instance' = [instance EXCEPT ![n] = "terminated"]
    /\ UNCHANGED <<csr, claim, ccsr, cclaim, fcsr, queue, worker, patient>>

(* Karpenter collects NodeClaims whose instance is gone. *)
RemoveClaim(n) ==
    /\ claim[n] # "absent" /\ instance[n] = "terminated"
    /\ ChangeClaim(n, "absent") /\ UNCHANGED <<instance, budget>>

WriteCSR(k, to) ==
    /\ csr' = [csr EXCEPT ![k] = to]
    /\ fcsr' = [fcsr EXCEPT ![k] = FALSE]
    /\ worker' = IF worker.key = k THEN [worker EXCEPT !.fresh = FALSE] ELSE worker
    /\ UNCHANGED <<claim, instance, ccsr, cclaim, queue, patient>>

Up(n) == n \in Karpenter => instance[n] = "running"

(* The kubelet asks for the client certificate, with that for the serving    *)
(* certificate, and later for a renewal of the former.                       *)
Request(n, kind) ==
    /\ Up(n) /\ csr[<<n, kind>>] = "absent"
    /\ kind # "client" => Registered(n)
    /\ WriteCSR(<<n, kind>>, "pending")
    /\ IF n \in Karpenter /\ kind # "renewal" THEN UNCHANGED budget ELSE Spend

(* It repeats a request that got no answer.  Its timeout of 15 minutes is    *)
(* longer than a reconcile; occasionally it restarts and asks sooner.        *)
Unanswered(k) ==
    csr[k] = "pending" /\ fcsr[k] /\ k \notin queue /\ worker.key # k

Retry(k) == patient /\ Up(k[1]) /\ Unanswered(k) /\ WriteCSR(k, "pending") /\ UNCHANGED budget
RetryEarly(k) == Spend /\ Up(k[1]) /\ csr[k] = "pending" /\ WriteCSR(k, "pending")

(* Another approver, or an administrator, approves or denies a CSR. *)
Settle(k) == Spend /\ csr[k] = "pending" /\ WriteCSR(k, "settled")

-----------------------------------------------------------------------------
(* The informers.  Only CSRs are watched. *)

isCertificateRequestPending(phase) == phase = "pending"

(* csrFilterFn: pending, and a client CSR of the bootstrapper or a serving   *)
(* CSR of a node.                                                            *)
csrFilterFn(kind, phase) ==
    isCertificateRequestPending(phase) /\ kind \in {"client", "serving"}

SyncCSRs ==
    /\ ccsr' = csr /\ fcsr' = [k \in Keys |-> TRUE]
    /\ queue' = queue \cup {k \in Keys : ~fcsr[k] /\ csrFilterFn(k[2], csr[k])}
    /\ UNCHANGED <<csr, claim, instance, cclaim, worker, budget, patient>>

SyncClaims ==
    /\ cclaim' = claim
    /\ UNCHANGED <<csr, claim, instance, ccsr, fcsr, queue, worker, budget, patient>>

-----------------------------------------------------------------------------
(* The worker *)

Done == worker' = Idle /\ UNCHANGED queue
Fail == worker' = Idle /\ queue' = queue \cup {worker.key}

(* Mutant: serving CSRs are matched like client CSRs. *)
CandidatesWithoutNode(k) == {n \in Karpenter : cclaim[n] = "launched"}

(* The instances of the NodeClaims that may belong to a CSR: for a client    *)
(* CSR those without a node yet (authorizeClientCSR), for a serving CSR that *)
(* of its node (findTargetNodeClaim).  Verify skips those without provider ID.*)
Candidates(k) ==
    IF k[2] = "client" THEN {n \in Karpenter : cclaim[n] = "launched"}
                       ELSE {n \in Karpenter : n = k[1] /\ cclaim[n] = "registered"}

(* authorizeClientCSR, authorizeServingCSR: an error, before any call, for a *)
(* CSR that does not parse or names no node.                                 *)
AuthorizeFails(k) == isCertificateRequestPending(ccsr[k]) /\ k[1] = NoName

(* Mutant: CSRs that somebody else has approved or denied are approved too. *)
ReconcileDecided(k) ==
    /\ worker.pc = "idle" /\ k \in queue /\ ~AuthorizeFails(k) /\ queue' = queue \ {k}
    /\ worker' = IF ccsr[k] # "absent" /\ Candidates(k) # {}
                   THEN [pc |-> "verify", key |-> k, fresh |-> fcsr[k] /\ ccsr[k] = "pending",
                         ids |-> Candidates(k)]
                   ELSE Idle
    /\ UNCHANGED <<csr, claim, instance, ccsr, cclaim, fcsr, budget, patient>>

(* Reconcile up to its first call: a CSR that is gone or decided, or without *)
(* candidates, needs nothing, now or later; one that cannot be authorized    *)
(* goes back to the queue.                                                   *)
Reconcile(k) ==
    /\ worker.pc = "idle" /\ k \in queue
    /\ \/ AuthorizeFails(k) /\ UNCHANGED <<queue, worker>>
       \/ /\ ~AuthorizeFails(k) /\ queue' = queue \ {k}
          /\ worker' = IF isCertificateRequestPending(ccsr[k]) /\ Candidates(k) # {}
                         THEN [pc |-> "verify", key |-> k, fresh |-> fcsr[k], ids |-> Candidates(k)]
                         ELSE Idle
    /\ UNCHANGED <<csr, claim, instance, ccsr, cclaim, fcsr, budget, patient>>

(* Mutant: an instance that is found counts as the node's. *)
matchesPrivateDNSNameOfAny(batch, n) == \E m \in batch : instance[m] = "running"

(* A terminated instance has no private DNS name any more. *)
matchesPrivateDNSName(batch, n) == n \in batch /\ instance[n] = "running"

(* slices.Chunk of a list in any order *)
Batches(ids) ==
    {b \in SUBSET ids : Cardinality(b) = BatchSize \/ (b = ids /\ Cardinality(b) < BatchSize)}

(* Verify, one DescribeInstances call: it fails as a whole for an instance   *)
(* that EC2 has forgotten.                                                   *)
Verify ==
    /\ worker.pc = "verify"
    /\ \E batch \in Batches(worker.ids) :
          \/ (\E m \in batch : instance[m] = "terminated") /\ Fail
          \/ /\ matchesPrivateDNSName(batch, worker.key[1])
             /\ worker' = [worker EXCEPT !.pc = "approve", !.ids = {}] /\ UNCHANGED queue
          \/ /\ ~matchesPrivateDNSName(batch, worker.key[1])
             /\ IF batch = worker.ids THEN Done
                ELSE worker' = [worker EXCEPT !.ids = @ \ batch] /\ UNCHANGED queue
    /\ UNCHANGED <<csr, claim, instance, ccsr, cclaim, fcsr, budget, patient>>

(* approve: UpdateApproval of the CSR as it was read. *)
Approve ==
    /\ worker.pc = "approve"
    /\ \/ /\ worker.fresh
          /\ csr' = [csr EXCEPT ![worker.key] = "approved"]
          /\ fcsr' = [fcsr EXCEPT ![worker.key] = FALSE] /\ Done
       \/ ~worker.fresh /\ Fail /\ UNCHANGED <<csr, fcsr>>
    /\ UNCHANGED <<claim, instance, ccsr, cclaim, budget, patient>>

WorkerStep == Verify \/ Approve

CallFails ==
    /\ Spend /\ worker.pc # "idle" /\ Fail
    /\ UNCHANGED <<csr, claim, instance, ccsr, cclaim, fcsr, patient>>

Restart ==
    /\ Spend
    /\ ccsr' = csr /\ cclaim' = claim /\ fcsr' = [k \in Keys |-> TRUE]
    /\ queue' = {k \in Keys : csrFilterFn(k[2], csr[k])}
    /\ worker' = Idle
    /\ UNCHANGED <<csr, claim, instance, patient>>

Environment ==
    \/ \E n \in Karpenter : \/ Launch(n) \/ SetProviderID(n) \/ Register(n)
                            \/ Terminate(n) \/ RemoveClaim(n)
    \/ \E n \in Nodes, kind \in Kinds : Request(n, kind)
    \/ \E k \in Keys : Retry(k) \/ RetryEarly(k) \/ Settle(k)

Next ==
    \/ \E k \in Keys : Reconcile(k)
    \/ WorkerStep \/ CallFails \/ Restart \/ SyncCSRs \/ SyncClaims \/ Environment

Spec == Init /\ [][Next]_vars

(* What Karpenter and the kubelet do for a node, each only once. *)
Progress(n) ==
    \/ SetProviderID(n) \/ Register(n) \/ RemoveClaim(n)
    \/ Request(n, "client") \/ Request(n, "serving")

(* CSRs are served in turn, informers catch up, calls return; Karpenter and  *)
(* the kubelets go on, and patient kubelets ask again.                       *)
Fairness ==
    /\ WF_vars(SyncCSRs) /\ WF_vars(SyncClaims) /\ WF_vars(WorkerStep)
    /\ SF_vars(\E n \in Nodes \ Karpenter, kind \in Kinds : Reconcile(<<n, kind>>))
    /\ \A n \in Karpenter :
          /\ SF_vars(\E kind \in Kinds : Reconcile(<<n, kind>>)) /\ WF_vars(Progress(n))
          /\ SF_vars(Retry(<<n, "client">>) \/ Retry(<<n, "serving">>))

FairSpec == Spec /\ Fairness

-----------------------------------------------------------------------------
(* Properties *)

(* Only CSRs of nodes that Karpenter launched are approved, although the     *)
(* verifier sees all instances of a batch and other nodes of the cluster ask *)
(* at the same time (authorize, Verify).                                     *)
OnlyKarpenterNodes ==
    \A k \in Keys : csr[k] = "approved" => k[1] \in Karpenter /\ instance[k[1]] # "none"

(* No CSR that names a node keeps the controller busy forever: neither one    *)
(* that somebody else decided meanwhile, nor a batch spoilt by an instance    *)
(* that is gone (the comment in Reconcile: approving a decided CSR would      *)
(* "cause a loop"), as long as no kubelet keeps asking.  One that names none  *)
(* is retried for as long as it is pending, and no longer.                    *)
RestsButForNameless ==
    <>[](patient \/ (worker.pc = "idle" /\ \A k \in queue : k[1] = NoName /\ csr[k] = "pending"))

(* Every node of Karpenter that keeps running gets its serving certificate   *)
(* approved, however late Karpenter's status updates arrive, as long as its  *)
(* kubelet repeats its requests.                                             *)
NodesGetCertificates ==
    \A n \in Karpenter :
        patient /\ instance[n] = "running"
          ~> instance[n] = "terminated" \/ csr[<<n, "serving">>] \in {"approved", "settled"}
=============================================================================
