---------------------------- MODULE HCPDeletion ----------------------------
(***************************************************************************)
(* The hcp-deletion controller (pkg/controllers/hcp/deletion): it keeps a  *)
(* finalizer on the HostedControlPlane, and while the cluster is deleted   *)
(* removes the NodePools and NodeClaims of the hosted cluster before it    *)
(* gives the finalizer up.                                                 *)
(*                                                                         *)
(* The HostedControlPlane and the CAPI Cluster live in the management      *)
(* cluster and are watched.  NodePools and NodeClaims live in the hosted   *)
(* cluster; they are read from a cache and not watched, so the controller  *)
(* polls them.  Karpenter creates NodeClaims from decisions it took        *)
(* earlier, and finishes deleted ones: gracefully, which may take forever, *)
(* or by force once they carry the termination timestamp annotation.       *)
(***************************************************************************)
EXTENDS Naturals

CONSTANTS
    Pools, Claims,   \* NodePools and NodeClaims
    Env,             \* the kinds of environment steps that may happen
    Budget           \* bound on the environment's steps

ASSUME BudgetIsNatural == Budget \in Nat

VARIABLES
    hcp, capi, pool, claim,        \* the objects in the API servers
    chcp, ccapi, cpool, cclaim,    \* the informer caches of them
    fhcp,                          \* is the cached resourceVersion of the HCP current?
    inflight,                      \* NodeClaims Karpenter has decided to create
    queued,                        \* is the one request of this controller queued?
    worker, budget

apiVars == <<hcp, capi, pool, claim>>
cacheVars == <<chcp, ccapi, cpool, cclaim, fhcp>>
vars == <<hcp, capi, pool, claim, chcp, ccapi, cpool, cclaim, fhcp, inflight,
          queued, worker, budget>>

-----------------------------------------------------------------------------
(* Objects *)

Phase == {"absent", "live", "deleting"}

(* infraID: the name of the CAPI Cluster is set; finalizer: the operator's;  *)
(* foreign: HyperShift's own finalizer.                                      *)
HCP == [exists : BOOLEAN, deleting : BOOLEAN, infraID : BOOLEAN,
        finalizer : BOOLEAN, foreign : BOOLEAN]
NoHCP == [exists |-> FALSE, deleting |-> FALSE, infraID |-> FALSE,
          finalizer |-> FALSE, foreign |-> FALSE]

CAPI == {"none", "live", "deleting", "gone"}

(* NodeClaims have generated names, so one that is gone never comes back.    *)
(* annotated: karpenter.sh/nodeclaim-termination-timestamp is set.           *)
Claim == [phase : Phase \cup {"gone"}, annotated : BOOLEAN]
NoClaim == [phase |-> "absent", annotated |-> FALSE]
GoneClaim == [phase |-> "gone", annotated |-> FALSE]

ListedPools(list) == {p \in Pools : list[p] # "absent"}
ListedClaims(list) == {c \in Claims : list[c].phase \in {"live", "deleting"}}

(* What a reconcile holds: the HostedControlPlane it read and whether that is *)
(* still current; whether a list it got was empty; the NodePools it has still *)
(* to delete; the NodeClaims it has still to delete and to annotate.          *)
Worker == [pc : {"idle", "finalize", "pools", "claims", "unfinalize"},
           hcp : HCP, fresh : BOOLEAN, empty : BOOLEAN, pools : SUBSET Pools,
           live : SUBSET Claims, deleting : SUBSET Claims]

Idle == [pc |-> "idle", hcp |-> NoHCP, fresh |-> FALSE, empty |-> FALSE, pools |-> {},
         live |-> {}, deleting |-> {}]

TypeOK ==
    /\ hcp \in HCP /\ chcp \in HCP /\ capi \in CAPI /\ ccapi \in CAPI
    /\ pool \in [Pools -> Phase] /\ cpool \in [Pools -> Phase]
    /\ claim \in [Claims -> Claim] /\ cclaim \in [Claims -> Claim]
    /\ fhcp \in BOOLEAN /\ inflight \subseteq Claims /\ queued \in BOOLEAN
    /\ worker \in Worker /\ budget \in Nat
    /\ worker.pools # {} => worker.pc = "pools"
    /\ worker.live # {} \/ worker.deleting # {} => worker.pc = "claims"

(* The operator starts beside a HostedControlPlane, with a CAPI Cluster or    *)
(* before it has one, and NodePools that exist already.                       *)
Init ==
    /\ \E foreign, infraID \in BOOLEAN :
          hcp = [NoHCP EXCEPT !.exists = TRUE, !.foreign = foreign, !.infraID = infraID]
    /\ capi \in IF hcp.infraID THEN {"none", "live"} ELSE {"none"}
    /\ pool \in [Pools -> {"absent", "live"}]
    /\ claim = [c \in Claims |-> NoClaim]
    /\ chcp = hcp /\ ccapi = capi /\ cpool = pool /\ cclaim = claim
    /\ fhcp = TRUE /\ inflight = {} /\ queued = TRUE
    /\ worker = Idle /\ budget = Budget

-----------------------------------------------------------------------------
(* HyperShift, users and Karpenter (external) *)

Spend(kind) == kind \in Env /\ budget > 0 /\ budget' = budget - 1

(* A deleted HostedControlPlane stays until its last finalizer is removed. *)
Settle(h) == IF h.deleting /\ ~h.finalizer /\ ~h.foreign THEN NoHCP ELSE h

HyperShiftWrites(h) ==
    /\ Spend("hypershift") /\ hcp.exists /\ hcp' = Settle(h) /\ fhcp' = FALSE
    /\ worker' = [worker EXCEPT !.fresh = FALSE]
    /\ UNCHANGED <<capi, pool, claim, chcp, ccapi, cpool, cclaim, inflight, queued>>

SetInfraID == ~hcp.infraID /\ HyperShiftWrites([hcp EXCEPT !.infraID = TRUE])
AddForeign == ~hcp.deleting /\ ~hcp.foreign /\ HyperShiftWrites([hcp EXCEPT !.foreign = TRUE])
DropForeign == hcp.foreign /\ HyperShiftWrites([hcp EXCEPT !.foreign = FALSE])
DeleteHCP == ~hcp.deleting /\ HyperShiftWrites([hcp EXCEPT !.deleting = TRUE])

ChangeCAPI(from, to) ==
    /\ Spend("capi") /\ capi = from /\ capi' = to
    /\ UNCHANGED <<hcp, pool, claim, cacheVars, inflight, queued, worker>>
CreateCAPI == hcp.infraID /\ ChangeCAPI("none", "live")
DeleteCAPI == ChangeCAPI("live", "deleting")
FinishCAPI == ChangeCAPI("deleting", "gone")

ChangePool(p, from, to) ==
    /\ pool[p] = from /\ pool' = [pool EXCEPT ![p] = to]
    /\ UNCHANGED <<hcp, capi, claim, cacheVars, inflight, queued, worker>>
CreatePool(p) == Spend("pool") /\ ChangePool(p, "absent", "live")
UserDeletesPool(p) == Spend("pool") /\ ChangePool(p, "live", "deleting")
FinishPool(p) == ChangePool(p, "deleting", "absent") /\ UNCHANGED budget

(* Karpenter's provisioner decides on a NodeClaim for a NodePool, then       *)
(* creates it; in between the NodePool may go.                               *)
DecideClaim(c) ==
    /\ Spend("claim") /\ claim[c].phase = "absent" /\ c \notin inflight
    /\ \E p \in Pools : pool[p] = "live"
    /\ inflight' = inflight \cup {c}
    /\ UNCHANGED <<apiVars, cacheVars, queued, worker>>

CreateClaim(c) ==
    /\ c \in inflight
    /\ inflight' = inflight \ {c}
    /\ claim' = [claim EXCEPT ![c].phase = "live"]
    /\ UNCHANGED <<hcp, capi, pool, cacheVars, queued, worker, budget>>

(* Disruption deletes a NodeClaim; so does the garbage collector, which      *)
(* follows the owner references of gone NodePools.                           *)
DeleteClaim(c) ==
    /\ Spend("claim") /\ claim[c].phase = "live"
    /\ claim' = [claim EXCEPT ![c].phase = "deleting"]
    /\ UNCHANGED <<hcp, capi, pool, cacheVars, inflight, queued, worker>>

FinishClaim(c) ==
    /\ claim[c].phase = "deleting"
    /\ claim' = [claim EXCEPT ![c] = GoneClaim]
    /\ UNCHANGED <<hcp, capi, pool, cacheVars, inflight, queued, worker, budget>>

ForceFinishClaim(c) == claim[c].annotated /\ FinishClaim(c)

-----------------------------------------------------------------------------
(* The informers.  Only the management cluster's enqueue the request. *)

SyncHCP ==
    /\ chcp' = hcp /\ fhcp' = TRUE
    /\ queued' = (queued \/ ~fhcp)
    /\ UNCHANGED <<apiVars, ccapi, cpool, cclaim, inflight, worker, budget>>

(* Mutant: the CAPI Cluster is read, but not watched. *)
SyncCAPIUnwatched ==
    /\ ccapi' = capi
    /\ UNCHANGED <<apiVars, chcp, cpool, cclaim, fhcp, inflight, queued, worker, budget>>

SyncCAPI ==
    /\ ccapi' = capi
    /\ queued' = (queued \/ ccapi # capi)
    /\ UNCHANGED <<apiVars, chcp, cpool, cclaim, fhcp, inflight, worker, budget>>

SyncPools ==
    /\ cpool' = pool
    /\ UNCHANGED <<apiVars, chcp, ccapi, cclaim, fhcp, inflight, queued, worker, budget>>

SyncClaims ==
    /\ cclaim' = claim
    /\ UNCHANGED <<apiVars, chcp, ccapi, cpool, fhcp, inflight, queued, worker, budget>>

-----------------------------------------------------------------------------
(* The worker: one action per call to an API server.  Lists and Gets read    *)
(* caches and belong to the action before the first call that uses them.     *)

Done == worker' = Idle /\ UNCHANGED queued
(* An error, retried with a delay, or a RequeueAfter. *)
Again == worker' = Idle /\ queued' = TRUE

(* Mutant: a CAPI Cluster that is not found counts as deleted. *)
IsClusterDeletingUnlessFound(h, c) ==
    h.deleting \/ (h.infraID /\ c # "live")

(* IsClusterDeleting: a CAPI Cluster that is not found is not being deleted. *)
IsClusterDeleting(h, c) ==
    h.deleting \/ (h.infraID /\ c = "deleting")

(* Reconcile up to its first call.  For a cluster that is being deleted it   *)
(* lists the NodePools (deleteNodePools).                                    *)
Reconcile ==
    /\ queued /\ worker.pc = "idle" /\ queued' = FALSE
    /\ LET begin(pc) == [Idle EXCEPT !.pc = pc, !.hcp = chcp, !.fresh = fhcp]
           deleting == IsClusterDeleting(chcp, ccapi)
       IN  \/ /\ ~chcp.exists \/ (deleting <=> ~chcp.finalizer)
              /\ worker' = Idle
           \/ /\ chcp.exists /\ deleting /\ chcp.finalizer
              /\ worker' = [begin("pools") EXCEPT !.empty = ListedPools(cpool) = {},
                                                  !.pools = {p \in Pools : cpool[p] = "live"}]
           \/ /\ chcp.exists /\ ~deleting /\ ~chcp.finalizer
              /\ worker' = begin("finalize")
    /\ UNCHANGED <<apiVars, cacheVars, inflight, budget>>

(* Mutant: the merge patch carries no resourceVersion; it replaces the whole *)
(* list of finalizers.                                                       *)
PatchFinalizersUnlocked(finalizer) ==
    /\ \/ /\ hcp.exists
          /\ hcp' = Settle([hcp EXCEPT !.finalizer = finalizer, !.foreign = worker.hcp.foreign])
          /\ fhcp' = FALSE /\ Done
       \/ ~hcp.exists /\ Again /\ UNCHANGED <<hcp, fhcp>>
    /\ UNCHANGED <<capi, pool, claim, chcp, ccapi, cpool, cclaim, inflight, budget>>

(* A patch of the HostedControlPlane's finalizers with an optimistic lock. *)
PatchFinalizers(finalizer) ==
    /\ \/ /\ worker.fresh
          /\ hcp' = Settle([worker.hcp EXCEPT !.finalizer = finalizer])
          /\ fhcp' = FALSE /\ Done
       \/ ~worker.fresh /\ Again /\ UNCHANGED <<hcp, fhcp>>
    /\ UNCHANGED <<capi, pool, claim, chcp, ccapi, cpool, cclaim, inflight, budget>>

AddFinalizer == worker.pc = "finalize" /\ PatchFinalizers(TRUE)

(* A live Delete of an object: it is marked, or gone if nothing holds it; if *)
(* it is gone already the error ends the reconcile.                          *)
DeletePool(p) ==
    /\ worker.pc = "pools" /\ p \in worker.pools
    /\ \/ /\ pool[p] # "absent"
          /\ \E after \in {"deleting", "absent"} : pool' = [pool EXCEPT ![p] = after]
          /\ worker' = [worker EXCEPT !.pools = @ \ {p}] /\ UNCHANGED queued
       \/ pool[p] = "absent" /\ Again /\ UNCHANGED pool
    /\ UNCHANGED <<hcp, capi, claim, cacheVars, inflight, budget>>

(* Mutant: the remaining NodePools are left to an event that never comes. *)
ListClaimsWithoutPolling ==
    /\ worker.pc = "pools" /\ worker.pools = {}
    /\ \/ ~worker.empty /\ Done
       \/ /\ worker.empty
          /\ worker' = [worker EXCEPT !.pc = "claims",
                           !.empty = ListedClaims(cclaim) = {},
                           !.live = {c \in Claims : cclaim[c].phase = "live"},
                           !.deleting = {c \in Claims : cclaim[c].phase = "deleting"
                                                        /\ ~cclaim[c].annotated}]
          /\ UNCHANGED queued
    /\ UNCHANGED <<apiVars, cacheVars, inflight, budget>>

(* Mutant: NodeClaims are handled before the loop over NodePools has ended. *)
ListClaimsEarly ==
    /\ worker.pc = "pools"
    /\ worker' = [worker EXCEPT !.pc = "claims",
                     !.empty = ListedClaims(cclaim) = {},
                     !.live = {c \in Claims : cclaim[c].phase = "live"},
                     !.deleting = {c \in Claims : cclaim[c].phase = "deleting"
                                                  /\ ~cclaim[c].annotated}]
    /\ UNCHANGED <<apiVars, cacheVars, inflight, queued, budget>>

(* The end of deleteNodePools: if it listed any the reconcile is repeated    *)
(* after 15 seconds.  Otherwise deleteNodeClaims lists the NodeClaims; those *)
(* that are deleted and annotated need nothing.                              *)
ListClaims ==
    /\ worker.pc = "pools" /\ worker.pools = {}
    /\ \/ ~worker.empty /\ Again
       \/ /\ worker.empty
          /\ worker' = [worker EXCEPT !.pc = "claims",
                           !.empty = ListedClaims(cclaim) = {},
                           !.live = {c \in Claims : cclaim[c].phase = "live"},
                           !.deleting = {c \in Claims : cclaim[c].phase = "deleting"
                                                        /\ ~cclaim[c].annotated}]
          /\ UNCHANGED queued
    /\ UNCHANGED <<apiVars, cacheVars, inflight, budget>>

(* deleteNodeClaims: a NodeClaim that was listed live is deleted, ... *)
DeleteNodeClaim(c) ==
    /\ worker.pc = "claims" /\ c \in worker.live
    /\ \/ /\ c \in ListedClaims(claim)
          /\ \/ claim' = [claim EXCEPT ![c].phase = "deleting"]
             \/ claim' = [claim EXCEPT ![c] = GoneClaim]
          /\ worker' = [worker EXCEPT !.live = @ \ {c}] /\ UNCHANGED queued
       \/ c \notin ListedClaims(claim) /\ Again /\ UNCHANGED claim
    /\ UNCHANGED <<hcp, capi, pool, cacheVars, inflight, budget>>

(* ... and one that was listed deleting and not annotated is annotated. *)
handleForcefulNodeClaimDeletion(c) ==
    /\ worker.pc = "claims" /\ c \in worker.deleting
    /\ \/ /\ c \in ListedClaims(claim)
          /\ claim' = [claim EXCEPT ![c].annotated = TRUE]
          /\ worker' = [worker EXCEPT !.deleting = @ \ {c}] /\ UNCHANGED queued
       \/ c \notin ListedClaims(claim) /\ Again /\ UNCHANGED claim
    /\ UNCHANGED <<hcp, capi, pool, cacheVars, inflight, budget>>

(* Mutant: the finalizer is given up once everything is cleaned up. *)
CleanedUpAlways ==
    /\ worker.pc = "claims" /\ worker.live = {} /\ worker.deleting = {}
    /\ \/ ~worker.empty /\ Again
       \/ worker.empty /\ worker' = [worker EXCEPT !.pc = "unfinalize"] /\ UNCHANGED queued
    /\ UNCHANGED <<apiVars, cacheVars, inflight, budget>>

(* The end of reconcileDeletion's cleanup: if NodeClaims were listed the     *)
(* reconcile is repeated after 15 seconds; otherwise it goes on if the       *)
(* HostedControlPlane itself is being deleted, and ends if it is not.        *)
CleanedUp ==
    /\ worker.pc = "claims" /\ worker.live = {} /\ worker.deleting = {}
    /\ \/ ~worker.empty /\ Again
       \/ worker.empty /\ ~worker.hcp.deleting /\ Done
       \/ /\ worker.empty /\ worker.hcp.deleting
          /\ worker' = [worker EXCEPT !.pc = "unfinalize"] /\ UNCHANGED queued
    /\ UNCHANGED <<apiVars, cacheVars, inflight, budget>>

RemoveFinalizer == worker.pc = "unfinalize" /\ PatchFinalizers(FALSE)

WorkerStep ==
    \/ AddFinalizer \/ ListClaims \/ CleanedUp \/ RemoveFinalizer
    \/ \E p \in Pools : DeletePool(p)
    \/ \E c \in Claims : DeleteNodeClaim(c) \/ handleForcefulNodeClaimDeletion(c)

(* Any call may fail without effect. *)
CallFails ==
    /\ Spend("fail") /\ worker.pc # "idle" /\ Again
    /\ UNCHANGED <<apiVars, cacheVars, inflight>>

(* The operator restarts: caches are listed anew, and the initial events     *)
(* enqueue the request.                                                      *)
Restart ==
    /\ Spend("restart")
    /\ chcp' = hcp /\ ccapi' = capi /\ cpool' = pool /\ cclaim' = claim /\ fhcp' = TRUE
    /\ queued' = (hcp.exists \/ capi \in {"live", "deleting"})
    /\ worker' = Idle
    /\ UNCHANGED <<apiVars, inflight>>

Informers == SyncHCP \/ SyncCAPI \/ SyncPools \/ SyncClaims

Environment ==
    \/ SetInfraID \/ AddForeign \/ DropForeign \/ DeleteHCP
    \/ CreateCAPI \/ DeleteCAPI \/ FinishCAPI
    \/ \E p \in Pools : CreatePool(p) \/ UserDeletesPool(p) \/ FinishPool(p)
    \/ \E c \in Claims : DecideClaim(c) \/ CreateClaim(c) \/ DeleteClaim(c) \/ FinishClaim(c)

Next == Reconcile \/ WorkerStep \/ CallFails \/ Restart \/ Informers \/ Environment

Spec == Init /\ [][Next]_vars

(* The request is served, informers catch up and calls return.  Karpenter    *)
(* finishes deleted NodePools, and deleted NodeClaims only once they are     *)
(* annotated: a graceful deletion may wait for a blocked drain forever.      *)
Fairness ==
    /\ WF_vars(SyncHCP) /\ WF_vars(SyncCAPI) /\ WF_vars(SyncPools) /\ WF_vars(SyncClaims)
    /\ WF_vars(Reconcile) /\ WF_vars(WorkerStep)
    /\ \A p \in Pools : WF_vars(FinishPool(p))
    /\ \A c \in Claims : WF_vars(ForceFinishClaim(c))

FairSpec == Spec /\ Fairness

-----------------------------------------------------------------------------
(* Properties *)

(* The cluster is really being torn down, whatever the caches show. *)
TeardownStarted == ~hcp.exists \/ hcp.deleting \/ capi \in {"deleting", "gone"}

(* A reconcile that deletes NodePools and NodeClaims runs only in a cluster  *)
(* that is being torn down: no combination of outdated caches, a CAPI        *)
(* Cluster that is not there yet or an infraID that is not set makes the     *)
(* operator delete the nodes of a living cluster (IsClusterDeleting).        *)
OnlyTeardownDeletes ==
    worker.pc \in {"pools", "claims", "unfinalize"} => TeardownStarted

(* Adding or removing its finalizer, the operator never removes or brings    *)
(* back a finalizer of somebody else: the merge patch replaces the whole     *)
(* list, so a concurrent change must end in a conflict (Reconcile,           *)
(* reconcileDeletion).                                                       *)
ForeignFinalizersKept ==
    [][hcp.finalizer # hcp'.finalizer /\ hcp'.exists => hcp'.foreign = hcp.foreign]_vars

(* The finalizer is removed only from a HostedControlPlane that is being     *)
(* deleted itself; the deletion of the CAPI Cluster alone keeps it, also if  *)
(* the deletion of both races with the cleanup (reconcileDeletion).          *)
FinalizerKeptUntilDeletion ==
    [][hcp.finalizer /\ ~hcp'.finalizer => hcp.deleting]_vars

(* Once the HostedControlPlane is being deleted the finalizer is removed,    *)
(* whatever NodePools and NodeClaims appear meanwhile and although deleted   *)
(* NodeClaims may never drain (the polling and the annotation).              *)
TeardownCompletes == hcp.deleting /\ hcp.finalizer ~> ~hcp.finalizer

(* The deletion of the CAPI Cluster alone starts the cleanup: a NodePool that *)
(* is known when the deletion is noticed goes without waiting for the         *)
(* HostedControlPlane, unless the CAPI Cluster finishes first (the watch in   *)
(* SetupWithManager).                                                         *)
EarlyCleanup ==
    \A p \in Pools :
        capi = "deleting" /\ ccapi # "deleting" /\ cpool[p] = "live" /\ hcp.finalizer
          ~> capi = "gone" \/ hcp.deleting \/ pool[p] = "absent"

(* "cleanupKarpenterResources returns true once all NodePools and NodeClaims *)
(* are gone": when the finalizer is removed, none is left.                   *)
CleanWhenReleased ==
    [][hcp.finalizer /\ ~hcp'.finalizer => ListedPools(pool) = {} /\ ListedClaims(claim) = {}]_vars
=============================================================================
