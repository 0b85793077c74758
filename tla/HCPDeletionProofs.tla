------------------------- MODULE HCPDeletionProofs -------------------------
(***************************************************************************)
(* Proofs about the hcp-deletion controller, for any NodePools, NodeClaims *)
(* and bound on the environment.                                           *)
(*                                                                         *)
(* OnlyTeardownDeletes is not inductive: a reconcile decides by caches.    *)
(* It holds because deletions are final.  The invariant therefore says     *)
(* what an old copy still tells: once the copy was being deleted the       *)
(* object is, or is gone, and a copy with the current resourceVersion is   *)
(* the object.                                                             *)
(***************************************************************************)
EXTENDS HCPDeletion, TLAPS

(* The copies of the cache *)
CacheHolds ==
    /\ fhcp => chcp = hcp
    /\ chcp.deleting => ~hcp.exists \/ hcp.deleting
    /\ ccapi = "deleting" => capi \in {"deleting", "gone"}

(* What the worker relies on at its calls *)
WorkerHolds ==
    /\ worker.fresh => worker.hcp = hcp
    /\ worker.pc # "idle" => worker.hcp.exists
    /\ worker.pc = "unfinalize" => worker.hcp.deleting

Held == TypeOK /\ CacheHolds /\ WorkerHolds /\ OnlyTeardownDeletes

-----------------------------------------------------------------------------
(* Building blocks *)

(* A write either stays as it is or completes the deletion. *)
LEMMA SettleCases ==
    ASSUME NEW h \in HCP
    PROVE  /\ Settle(h) \in HCP
           /\ \/ Settle(h) = h
              \/ Settle(h) = NoHCP /\ h.deleting /\ h.finalizer = FALSE
  BY DEF Settle, HCP, NoHCP

LEMMA NoHCPFields ==
    /\ NoHCP \in HCP /\ NoHCP.exists = FALSE /\ NoHCP.deleting = FALSE
    /\ NoHCP.finalizer = FALSE /\ NoHCP.foreign = FALSE /\ NoHCP.infraID = FALSE
  BY DEF NoHCP, HCP

(* What each write of HyperShift keeps *)
LEMMA HCPWrites ==
    ASSUME NEW h \in HCP
    PROVE  /\ LET w == [h EXCEPT !.foreign = TRUE]
              IN  /\ w \in HCP /\ w.exists = h.exists
                  /\ w.deleting = h.deleting /\ w.finalizer = h.finalizer
           /\ LET w == [h EXCEPT !.foreign = FALSE]
              IN  /\ w \in HCP /\ w.exists = h.exists
                  /\ w.deleting = h.deleting /\ w.finalizer = h.finalizer
           /\ LET w == [h EXCEPT !.infraID = TRUE]
              IN  /\ w \in HCP /\ w.exists = h.exists
                  /\ w.deleting = h.deleting /\ w.finalizer = h.finalizer
           /\ LET w == [h EXCEPT !.deleting = TRUE]
              IN  /\ w \in HCP /\ w.exists = h.exists
                  /\ w.deleting = TRUE /\ w.finalizer = h.finalizer
  BY DEF HCP

LEMMA IdleType ==
    /\ Idle \in Worker /\ Idle.pc = "idle" /\ Idle.fresh = FALSE
    /\ Idle.pools = {} /\ Idle.live = {} /\ Idle.deleting = {}
  BY DEF Idle, Worker, NoHCP, HCP

(* What each write of a NodeClaim keeps *)
LEMMA ClaimWrites ==
    ASSUME TypeOK, NEW c \in Claims
    PROVE  /\ [claim EXCEPT ![c].phase = "live"] \in [Claims -> Claim]
           /\ [claim EXCEPT ![c].phase = "deleting"] \in [Claims -> Claim]
           /\ [claim EXCEPT ![c].annotated = TRUE] \in [Claims -> Claim]
           /\ [claim EXCEPT ![c] = GoneClaim] \in [Claims -> Claim]
<1>1. claim \in [Claims -> Claim] /\ GoneClaim \in Claim /\ claim[c] \in Claim
  BY DEF TypeOK, GoneClaim, Claim
<1>2. /\ [claim[c] EXCEPT !.phase = "live"] \in Claim
      /\ [claim[c] EXCEPT !.phase = "deleting"] \in Claim
  BY <1>1 DEF Claim, Phase
<1>3. [claim[c] EXCEPT !.annotated = TRUE] \in Claim
  BY <1>1 DEF Claim
<1>4. QED
  BY <1>1, <1>2, <1>3

LEMMA WorkerFields ==
    ASSUME TypeOK
    PROVE  /\ worker.pc \in {"idle", "finalize", "pools", "claims", "unfinalize"}
           /\ worker.hcp \in HCP /\ worker.fresh \in BOOLEAN /\ worker.empty \in BOOLEAN
           /\ worker.pools \subseteq Pools
           /\ worker.live \subseteq Claims /\ worker.deleting \subseteq Claims
  BY DEF TypeOK, Worker

(* A reconcile that ends leaves nothing behind, whatever was queued. *)
LEMMA WorkerEnds ==
    ASSUME Held, worker' = Idle
    PROVE  /\ worker' \in Worker /\ WorkerHolds' /\ OnlyTeardownDeletes'
           /\ worker'.pools = {} /\ worker'.live = {} /\ worker'.deleting = {}
  BY IdleType DEF WorkerHolds, OnlyTeardownDeletes

LEMMA AgainType ==
    ASSUME Held, Again \/ Done
    PROVE  /\ worker' \in Worker /\ WorkerHolds' /\ OnlyTeardownDeletes' /\ queued' \in BOOLEAN
           /\ worker'.pools = {} /\ worker'.live = {} /\ worker'.deleting = {}
  BY WorkerEnds DEF Again, Done, Held, TypeOK

LEMMA SpendType == ASSUME Held, NEW k, Spend(k) PROVE budget' \in Nat
  BY DEF Held, TypeOK, Spend

(* The deletion of the cluster is final: if the HostedControlPlane and the   *)
(* CAPI Cluster only advance, what is known of them stays true.              *)
LEMMA TeardownIsFinal ==
    ASSUME TeardownStarted,
           ~hcp.exists \/ hcp.deleting => ~hcp'.exists \/ hcp'.deleting,
           capi \in {"deleting", "gone"} => capi' \in {"deleting", "gone"}
    PROVE  TeardownStarted'
  BY DEF TeardownStarted

-----------------------------------------------------------------------------
(* The environment *)

(* HyperShift writes the HostedControlPlane. *)
LEMMA HyperShiftHolds ==
    ASSUME Held, NEW h \in HCP, HyperShiftWrites(h), h.exists = hcp.exists,
           hcp.deleting => h.deleting
    PROVE  Held'
<1>1. hcp' \in HCP /\ (~hcp.exists \/ hcp.deleting => ~hcp'.exists \/ hcp'.deleting)
  <2>1. hcp' = Settle(h)
    BY DEF HyperShiftWrites
  <2>2. CASE Settle(h) = h
    BY <2>1, <2>2
  <2>3. CASE Settle(h) = NoHCP
    BY <2>1, <2>3, NoHCPFields
  <2>4. QED
    BY <2>2, <2>3, SettleCases
<1>2. /\ worker' \in Worker /\ worker'.fresh = FALSE /\ worker'.pc = worker.pc
      /\ worker'.hcp = worker.hcp /\ worker'.pools = worker.pools
      /\ worker'.live = worker.live /\ worker'.deleting = worker.deleting
  BY DEF HyperShiftWrites, Held, TypeOK, Worker
<1>3. TypeOK'
  BY <1>1, <1>2, SpendType DEF HyperShiftWrites, Held, TypeOK
<1>4. CacheHolds'
  BY <1>1 DEF HyperShiftWrites, Held, CacheHolds
<1>5. WorkerHolds'
  BY <1>2 DEF Held, WorkerHolds
<1>6. OnlyTeardownDeletes'
  BY <1>1, <1>2, TeardownIsFinal DEF Held, OnlyTeardownDeletes, HyperShiftWrites
<1>7. QED
  BY <1>3, <1>4, <1>5, <1>6 DEF Held

LEMMA CAPIHolds ==
    ASSUME Held, NEW from \in CAPI, NEW to \in CAPI, ChangeCAPI(from, to),
           from \in {"deleting", "gone"} => to \in {"deleting", "gone"}
    PROVE  Held'
<1>1. TypeOK'
  BY SpendType DEF ChangeCAPI, Held, TypeOK, cacheVars
<1>2. CacheHolds' /\ WorkerHolds'
  BY DEF ChangeCAPI, Held, CacheHolds, WorkerHolds, cacheVars
<1>3. OnlyTeardownDeletes'
  BY TeardownIsFinal DEF ChangeCAPI, Held, OnlyTeardownDeletes
<1>4. QED
  BY <1>1, <1>2, <1>3 DEF Held

(* Whatever happens in the hosted cluster concerns the types only. *)
LEMMA HostedClusterHolds ==
    ASSUME Held, UNCHANGED <<hcp, capi, chcp, ccapi, fhcp, worker>>,
           pool' \in [Pools -> Phase], cpool' \in [Pools -> Phase],
           claim' \in [Claims -> Claim], cclaim' \in [Claims -> Claim],
           inflight' \subseteq Claims, queued' \in BOOLEAN, budget' \in Nat
    PROVE  Held'
<1>1. TypeOK'
  BY DEF Held, TypeOK
<1>2. CacheHolds' /\ WorkerHolds'
  BY DEF Held, CacheHolds, WorkerHolds
<1>3. OnlyTeardownDeletes'
  BY DEF Held, OnlyTeardownDeletes, TeardownStarted
<1>4. QED
  BY <1>1, <1>2, <1>3 DEF Held

LEMMA EnvironmentHolds == ASSUME Held, Environment PROVE Held'
<1>1. CASE SetInfraID \/ AddForeign \/ DropForeign \/ DeleteHCP
  <2>1. hcp \in HCP
    BY DEF Held, TypeOK
  <2>2. CASE SetInfraID
    BY <2>1, <2>2, HCPWrites, HyperShiftHolds DEF SetInfraID
  <2>3. CASE AddForeign
    BY <2>1, <2>3, HCPWrites, HyperShiftHolds DEF AddForeign
  <2>4. CASE DropForeign
    <3> DEFINE h == [hcp EXCEPT !.foreign = FALSE]
    <3>1. h \in HCP /\ h.exists = hcp.exists /\ h.deleting = hcp.deleting
      BY <2>1, HCPWrites
    <3>2. HyperShiftWrites(h)
      BY <2>4 DEF DropForeign
    <3> HIDE DEF h
    <3>3. QED
      BY <3>1, <3>2, HyperShiftHolds
  <2>5. CASE DeleteHCP
    BY <2>1, <2>5, HCPWrites, HyperShiftHolds DEF DeleteHCP
  <2>6. QED
    BY <1>1, <2>2, <2>3, <2>4, <2>5
<1>2. CASE CreateCAPI \/ DeleteCAPI \/ FinishCAPI
  BY <1>2, CAPIHolds DEF CreateCAPI, DeleteCAPI, FinishCAPI, CAPI
<1>3. ASSUME NEW p \in Pools, CreatePool(p) \/ UserDeletesPool(p) \/ FinishPool(p)
      PROVE  Held'
  <2>1. budget' \in Nat
    BY <1>3, SpendType DEF CreatePool, UserDeletesPool, FinishPool, Held, TypeOK
  <2>2. PICK to \in Phase : pool' = [pool EXCEPT ![p] = to]
    BY <1>3 DEF CreatePool, UserDeletesPool, FinishPool, ChangePool, Phase
  <2>3. UNCHANGED <<hcp, capi, claim, cacheVars, inflight, queued, worker>>
    BY <1>3 DEF CreatePool, UserDeletesPool, FinishPool, ChangePool
  <2>4. pool' \in [Pools -> Phase]
    BY <2>2 DEF Held, TypeOK
  <2>5. QED
    BY <2>1, <2>3, <2>4, HostedClusterHolds DEF cacheVars, Held, TypeOK
<1>4. ASSUME NEW c \in Claims,
             DecideClaim(c) \/ CreateClaim(c) \/ DeleteClaim(c) \/ FinishClaim(c)
      PROVE  Held'
  <2>1. budget' \in Nat
    BY <1>4, SpendType DEF DecideClaim, CreateClaim, DeleteClaim, FinishClaim, Held, TypeOK
  <2>2. claim' \in [Claims -> Claim] /\ inflight' \subseteq Claims
    <3>1. TypeOK /\ claim \in [Claims -> Claim] /\ inflight \subseteq Claims
      BY DEF Held, TypeOK
    <3>2. QED
      BY <1>4, <3>1, ClaimWrites DEF DecideClaim, CreateClaim, DeleteClaim, FinishClaim, apiVars
  <2>3. UNCHANGED <<hcp, capi, pool, cacheVars, queued, worker>>
    BY <1>4 DEF DecideClaim, CreateClaim, DeleteClaim, FinishClaim, apiVars
  <2>4. QED
    BY <2>1, <2>2, <2>3, HostedClusterHolds DEF cacheVars, Held, TypeOK
<1>5. QED
  BY <1>1, <1>2, <1>3, <1>4 DEF Environment

LEMMA InformersHold == ASSUME Held, Informers PROVE Held'
<1>1. CASE SyncHCP
  <2>1. TypeOK'
    BY <1>1 DEF SyncHCP, Held, TypeOK, apiVars
  <2>2. CacheHolds' /\ WorkerHolds'
    BY <1>1 DEF SyncHCP, Held, CacheHolds, WorkerHolds, apiVars
  <2>3. OnlyTeardownDeletes'
    BY <1>1 DEF SyncHCP, Held, OnlyTeardownDeletes, TeardownStarted, apiVars
  <2>4. QED
    BY <2>1, <2>2, <2>3 DEF Held
<1>2. CASE SyncCAPI
  <2>1. TypeOK'
    BY <1>2 DEF SyncCAPI, Held, TypeOK, apiVars
  <2>2. CacheHolds' /\ WorkerHolds'
    BY <1>2 DEF SyncCAPI, Held, CacheHolds, WorkerHolds, apiVars
  <2>3. OnlyTeardownDeletes'
    BY <1>2 DEF SyncCAPI, Held, OnlyTeardownDeletes, TeardownStarted, apiVars
  <2>4. QED
    BY <2>1, <2>2, <2>3 DEF Held
<1>3. CASE SyncPools \/ SyncClaims
  BY <1>3, HostedClusterHolds DEF SyncPools, SyncClaims, apiVars, Held, TypeOK
<1>4. QED
  BY <1>1, <1>2, <1>3 DEF Informers

-----------------------------------------------------------------------------
(* The worker *)

(* The patch is of the current object, so that neither the deletion nor a    *)
(* finalizer of somebody else is undone.                                     *)
LEMMA PatchedCurrent ==
    ASSUME Held, NEW finalizer \in BOOLEAN, PatchFinalizers(finalizer), worker.pc # "idle"
    PROVE  \/ UNCHANGED <<hcp, fhcp>>
           \/ /\ fhcp' = FALSE /\ hcp.exists /\ worker.hcp = hcp
              /\ hcp' = Settle([hcp EXCEPT !.finalizer = finalizer])
  BY DEF PatchFinalizers, Held, WorkerHolds

LEMMA PatchHolds ==
    ASSUME Held, NEW finalizer \in BOOLEAN, PatchFinalizers(finalizer), worker.pc # "idle"
    PROVE  Held'
<1>1. Again \/ Done
  BY DEF PatchFinalizers
<1>2. /\ hcp' \in HCP /\ fhcp' \in BOOLEAN
      /\ ~hcp.exists \/ hcp.deleting => ~hcp'.exists \/ hcp'.deleting
      /\ fhcp' => fhcp /\ hcp' = hcp
  <2> DEFINE h == [hcp EXCEPT !.finalizer = finalizer]
  <2>1. h \in HCP /\ h.exists = hcp.exists /\ h.deleting = hcp.deleting
    BY DEF Held, TypeOK, HCP
  <2> HIDE DEF h
  <2>2. hcp \in HCP /\ fhcp \in BOOLEAN
    BY DEF Held, TypeOK
  <2>3. CASE UNCHANGED <<hcp, fhcp>>
    BY <2>2, <2>3
  <2>4. CASE fhcp' = FALSE /\ hcp' = Settle(h)
    <3>1. CASE Settle(h) = h
      BY <2>1, <2>4, <3>1
    <3>2. CASE Settle(h) = NoHCP
      BY <2>4, <3>2, NoHCPFields
    <3>3. QED
      BY <2>1, <3>1, <3>2, SettleCases
  <2>5. QED
    BY <2>3, <2>4, PatchedCurrent DEF h
<1>3. TypeOK'
  BY <1>1, <1>2, AgainType DEF PatchFinalizers, Held, TypeOK
<1>4. CacheHolds'
  BY <1>2 DEF PatchFinalizers, Held, CacheHolds
<1>5. QED
  BY <1>1, <1>3, <1>4, AgainType DEF Held

(* Calls to the hosted cluster, and lists: the worker goes on with the       *)
(* HostedControlPlane it has, or ends.                                       *)
LEMMA WorkerGoesOn ==
    ASSUME Held, UNCHANGED <<hcp, capi, cacheVars, inflight, budget>>,
           pool' \in [Pools -> Phase], claim' \in [Claims -> Claim],
           \/ Again \/ Done
           \/ /\ UNCHANGED queued
              /\ worker.pc \in {"pools", "claims", "unfinalize"}
              /\ worker' \in Worker /\ worker'.hcp = worker.hcp /\ worker'.fresh = worker.fresh
              /\ worker'.pc = "unfinalize" => worker.hcp.deleting
              /\ worker'.pools # {} => worker'.pc = "pools"
              /\ worker'.live # {} \/ worker'.deleting # {} => worker'.pc = "claims"
    PROVE  Held'
<1>1. CacheHolds'
  BY DEF Held, CacheHolds, cacheVars
<1>2. CASE Again \/ Done
  <2>1. TypeOK'
    BY <1>2, AgainType DEF Held, TypeOK, cacheVars
  <2>2. QED
    BY <1>1, <1>2, <2>1, AgainType DEF Held
<1>3. CASE ~(Again \/ Done)
  <2>1. TypeOK'
    BY <1>3 DEF Held, TypeOK, cacheVars
  <2>2. WorkerHolds'
    BY <1>3 DEF Held, WorkerHolds
  <2>3. OnlyTeardownDeletes'
    BY <1>3 DEF Held, OnlyTeardownDeletes, TeardownStarted
  <2>4. QED
    BY <1>1, <2>1, <2>2, <2>3 DEF Held
<1>4. QED
  BY <1>2, <1>3

(* A reconcile begins.  It deletes only if a cached copy is being deleted. *)
LEMMA ReconcileHolds == ASSUME Held, Reconcile PROVE Held'
<1> DEFINE begin(pc) == [Idle EXCEPT !.pc = pc, !.hcp = chcp, !.fresh = fhcp]
           toPools == [begin("pools") EXCEPT !.empty = ListedPools(cpool) = {},
                                             !.pools = {p \in Pools : cpool[p] = "live"}]
<1>1. UNCHANGED <<hcp, capi, pool, claim, chcp, ccapi, cpool, cclaim, fhcp, inflight, budget>>
      /\ queued' = FALSE
  BY DEF Reconcile, apiVars, cacheVars
<1>2. CacheHolds'
  BY <1>1 DEF Held, CacheHolds
<1>3. chcp \in HCP /\ fhcp \in BOOLEAN
  BY DEF Held, TypeOK
<1>4. CASE worker' = Idle
  <2>1. TypeOK'
    BY <1>1, <1>4, WorkerEnds DEF Held, TypeOK
  <2>2. QED
    BY <1>2, <1>4, <2>1, WorkerEnds DEF Held
<1>5. CASE chcp.exists /\ IsClusterDeleting(chcp, ccapi) /\ worker' = toPools
  <2>1. /\ worker' \in Worker /\ worker'.pc = "pools" /\ worker'.hcp = chcp
        /\ worker'.fresh = fhcp /\ worker'.live = {} /\ worker'.deleting = {}
    BY <1>3, <1>5 DEF Idle, Worker
  <2>2. TypeOK'
    BY <1>1, <2>1 DEF Held, TypeOK
  <2>3. WorkerHolds'
    BY <1>1, <1>5, <2>1 DEF Held, CacheHolds, WorkerHolds
  <2>4. TeardownStarted
    BY <1>5 DEF Held, CacheHolds, IsClusterDeleting, TeardownStarted
  <2>5. QED
    BY <1>1, <1>2, <2>2, <2>3, <2>4 DEF Held, OnlyTeardownDeletes, TeardownStarted
<1>6. CASE chcp.exists /\ worker' = begin("finalize")
  <2>1. /\ worker' \in Worker /\ worker'.pc = "finalize" /\ worker'.hcp = chcp
        /\ worker'.fresh = fhcp /\ worker'.pools = {} /\ worker'.live = {} /\ worker'.deleting = {}
    BY <1>3, <1>6 DEF Idle, Worker
  <2>2. TypeOK'
    BY <1>1, <2>1 DEF Held, TypeOK
  <2>3. WorkerHolds'
    BY <1>1, <1>6, <2>1 DEF Held, CacheHolds, WorkerHolds
  <2>4. QED
    BY <1>2, <2>1, <2>2, <2>3 DEF Held, OnlyTeardownDeletes
<1>7. QED
  BY <1>4, <1>5, <1>6 DEF Reconcile

LEMMA WorkerStepHolds == ASSUME Held, WorkerStep PROVE Held'
<1> USE WorkerFields DEF Held
<1>1. CASE AddFinalizer \/ RemoveFinalizer
  BY <1>1, PatchHolds DEF AddFinalizer, RemoveFinalizer
<1>2. CASE ListClaims
  <2>1. UNCHANGED <<hcp, capi, cacheVars, inflight, budget, pool, claim>>
        /\ worker.pc = "pools" /\ worker.pools = {}
    BY <1>2 DEF ListClaims, apiVars
  <2>2. pool' \in [Pools -> Phase] /\ claim' \in [Claims -> Claim]
    BY <2>1 DEF TypeOK
  <2>3. CASE Again
    BY <2>1, <2>2, <2>3, WorkerGoesOn
  <2>4. CASE ~Again
    <3>1. /\ worker' \in Worker /\ worker'.pc = "claims" /\ worker'.hcp = worker.hcp
          /\ worker'.fresh = worker.fresh /\ worker'.pools = worker.pools /\ UNCHANGED queued
      <4> DEFINE none == ListedClaims(cclaim) = {}
                 live == {c \in Claims : cclaim[c].phase = "live"}
                 deleting == {c \in Claims : cclaim[c].phase = "deleting" /\ ~cclaim[c].annotated}
      <4>1. worker' = [worker EXCEPT !.pc = "claims", !.empty = none, !.live = live,
                                     !.deleting = deleting] /\ UNCHANGED queued
        BY <1>2, <2>4 DEF ListClaims
      <4>2. none \in BOOLEAN /\ live \subseteq Claims /\ deleting \subseteq Claims
        OBVIOUS
      <4> HIDE DEF none, live, deleting
      <4>3. QED
        BY <4>1, <4>2 DEF TypeOK, Worker
    <3>2. QED
      BY <2>1, <2>2, <3>1, WorkerGoesOn
  <2>5. QED
    BY <2>3, <2>4
<1>3. CASE CleanedUp
  <2>1. UNCHANGED <<hcp, capi, cacheVars, inflight, budget, pool, claim>>
        /\ worker.pc = "claims" /\ worker.live = {} /\ worker.deleting = {} /\ worker.pools = {}
    BY <1>3 DEF CleanedUp, apiVars, TypeOK
  <2>2. pool' \in [Pools -> Phase] /\ claim' \in [Claims -> Claim]
    BY <2>1 DEF TypeOK
  <2>3. CASE Again \/ Done
    BY <2>1, <2>2, <2>3, WorkerGoesOn
  <2>4. CASE ~(Again \/ Done)
    <3>1. /\ worker' \in Worker /\ worker'.pc = "unfinalize" /\ worker'.hcp = worker.hcp
          /\ worker'.fresh = worker.fresh /\ worker'.pools = {} /\ worker'.live = {}
          /\ worker'.deleting = {} /\ worker.hcp.deleting /\ UNCHANGED queued
      BY <1>3, <2>1, <2>4 DEF CleanedUp, TypeOK, Worker
    <3>2. QED
      BY <2>1, <2>2, <3>1, WorkerGoesOn
  <2>5. QED
    BY <2>3, <2>4
<1>4. ASSUME NEW p \in Pools, DeletePool(p) PROVE Held'
  <2>1. UNCHANGED <<hcp, capi, cacheVars, inflight, budget, claim>> /\ worker.pc = "pools"
    BY <1>4 DEF DeletePool
  <2>2. pool' \in [Pools -> Phase] /\ claim' \in [Claims -> Claim]
    BY <1>4 DEF DeletePool, TypeOK, Phase
  <2>3. CASE Again
    BY <2>1, <2>2, <2>3, WorkerGoesOn
  <2>4. CASE ~Again
    <3>1. worker' = [worker EXCEPT !.pools = @ \ {p}] /\ UNCHANGED queued
      BY <1>4, <2>4 DEF DeletePool
    <3>2. /\ worker' \in Worker /\ worker'.pc = worker.pc /\ worker'.hcp = worker.hcp
          /\ worker'.fresh = worker.fresh /\ worker'.live = worker.live
          /\ worker'.deleting = worker.deleting
      BY <3>1 DEF TypeOK, Worker
    <3>3. QED
      BY <2>1, <2>2, <3>1, <3>2, WorkerGoesOn DEF TypeOK
  <2>5. QED
    BY <2>3, <2>4
<1>5. ASSUME NEW c \in Claims, DeleteNodeClaim(c) \/ handleForcefulNodeClaimDeletion(c)
      PROVE  Held'
  <2>1. UNCHANGED <<hcp, capi, cacheVars, inflight, budget, pool>> /\ worker.pc = "claims"
    BY <1>5 DEF DeleteNodeClaim, handleForcefulNodeClaimDeletion
  <2>2. pool' \in [Pools -> Phase] /\ claim' \in [Claims -> Claim]
    <3>1. TypeOK /\ pool \in [Pools -> Phase] /\ claim \in [Claims -> Claim]
      BY DEF TypeOK
    <3>2. QED
      BY <1>5, <2>1, <3>1, ClaimWrites DEF DeleteNodeClaim, handleForcefulNodeClaimDeletion
  <2>3. CASE Again
    BY <2>1, <2>2, <2>3, WorkerGoesOn
  <2>4. CASE ~Again
    <3>1. /\ \/ worker' = [worker EXCEPT !.live = @ \ {c}]
             \/ worker' = [worker EXCEPT !.deleting = @ \ {c}]
          /\ UNCHANGED queued
      BY <1>5, <2>4 DEF DeleteNodeClaim, handleForcefulNodeClaimDeletion
    <3>2. /\ worker' \in Worker /\ worker'.pc = worker.pc /\ worker'.hcp = worker.hcp
          /\ worker'.fresh = worker.fresh /\ worker'.pools = worker.pools
      BY <3>1 DEF TypeOK, Worker
    <3>3. QED
      BY <2>1, <2>2, <3>1, <3>2, WorkerGoesOn DEF TypeOK
  <2>5. QED
    BY <2>3, <2>4
<1>6. QED
  BY <1>1, <1>2, <1>3, <1>4, <1>5 DEF WorkerStep

LEMMA CallFailsHolds == ASSUME Held, CallFails PROVE Held'
<1>1. TypeOK'
  BY AgainType, SpendType DEF CallFails, Held, TypeOK, apiVars, cacheVars
<1>2. CacheHolds'
  BY DEF CallFails, Held, CacheHolds, apiVars, cacheVars
<1>3. QED
  BY <1>1, <1>2, AgainType DEF CallFails, Held

LEMMA RestartHolds == ASSUME Held, Restart PROVE Held'
<1>1. TypeOK'
  BY WorkerEnds, SpendType DEF Restart, Held, TypeOK, apiVars
<1>2. CacheHolds'
  BY DEF Restart, Held, CacheHolds, apiVars
<1>3. QED
  BY <1>1, <1>2, WorkerEnds DEF Restart, Held

-----------------------------------------------------------------------------
LEMMA InitHolds == ASSUME Init PROVE Held
<1>1. hcp \in HCP /\ hcp.exists /\ ~hcp.deleting /\ capi \in {"none", "live"}
  <2>1. PICK foreign \in BOOLEAN, infraID \in BOOLEAN :
            hcp = [NoHCP EXCEPT !.exists = TRUE, !.foreign = foreign, !.infraID = infraID]
    BY DEF Init
  <2>2. hcp = [exists |-> TRUE, deleting |-> FALSE, infraID |-> infraID,
               finalizer |-> FALSE, foreign |-> foreign]
    BY <2>1 DEF NoHCP
  <2>3. capi \in {"none", "live"}
    BY DEF Init
  <2>4. QED
    BY <2>2, <2>3 DEF HCP
<1>2. TypeOK
  <2>1. /\ pool \in [Pools -> {"absent", "live"}] /\ claim = [c \in Claims |-> NoClaim]
        /\ chcp = hcp /\ ccapi = capi /\ cpool = pool /\ cclaim = claim
        /\ fhcp = TRUE /\ inflight = {} /\ queued = TRUE /\ worker = Idle /\ budget = Budget
    BY DEF Init
  <2>2. capi \in CAPI /\ pool \in [Pools -> Phase]
    BY <1>1, <2>1 DEF CAPI, Phase
  <2>3. claim \in [Claims -> Claim]
    BY <2>1 DEF Claim, NoClaim, Phase
  <2>4. QED
    BY <1>1, <2>1, <2>2, <2>3, IdleType, BudgetIsNatural DEF TypeOK
<1>3. CacheHolds /\ WorkerHolds /\ OnlyTeardownDeletes
  <2>1. chcp = hcp /\ ccapi = capi /\ worker = Idle
    BY DEF Init
  <2>2. QED
    BY <1>1, <2>1, IdleType DEF CacheHolds, WorkerHolds, OnlyTeardownDeletes
<1>4. QED
  BY <1>2, <1>3 DEF Held

LEMMA AlwaysHeld == Spec => []Held
<1>1. Init => Held
  BY InitHolds
<1>2. Held /\ [Next]_vars => Held'
  <2> SUFFICES ASSUME Held, [Next]_vars PROVE Held'
    OBVIOUS
  <2>1. CASE Next
    BY <2>1, ReconcileHolds, WorkerStepHolds, CallFailsHolds, RestartHolds, InformersHold,
       EnvironmentHolds DEF Next
  <2>2. CASE UNCHANGED vars
    BY <2>2 DEF vars, Held, TypeOK, CacheHolds, WorkerHolds, OnlyTeardownDeletes, TeardownStarted
  <2>3. QED
    BY <2>1, <2>2
<1>3. QED
  BY <1>1, <1>2, PTL DEF Spec

(* The hcp-deletion controller is well typed; in particular the worker has   *)
(* deletions left only at the call that makes them.                          *)
THEOREM TypeCorrect == Spec => []TypeOK
<1>1. Held => TypeOK
  BY DEF Held
<1>2. QED
  BY <1>1, AlwaysHeld, PTL

(* No reconcile deletes the nodes of a cluster that is not being torn down,  *)
(* however outdated its caches and whatever fails (IsClusterDeleting).       *)
THEOREM OnlyTeardownDeletesTheorem == Spec => []OnlyTeardownDeletes
<1>1. Held => OnlyTeardownDeletes
  BY DEF Held
<1>2. QED
  BY <1>1, AlwaysHeld, PTL

(* Who changes the operator's finalizer: only the worker's patch. *)
LEMMA FinalizerChanges ==
    ASSUME Held, [Next]_vars, hcp.finalizer # hcp'.finalizer
    PROVE  AddFinalizer \/ RemoveFinalizer
<1>1. hcp \in HCP /\ hcp' # hcp
  BY DEF Held, TypeOK
<1>2. ASSUME NEW h \in HCP, HyperShiftWrites(h), h.finalizer = hcp.finalizer
      PROVE  FALSE
  <2>1. hcp' = Settle(h)
    BY <1>2 DEF HyperShiftWrites
  <2>2. QED
    BY <1>2, <2>1, SettleCases, NoHCPFields
<1>3. ~(SetInfraID \/ AddForeign \/ DropForeign \/ DeleteHCP)
  BY <1>1, <1>2, HCPWrites DEF SetInfraID, AddForeign, DropForeign, DeleteHCP
<1>4. ~(CreateCAPI \/ DeleteCAPI \/ FinishCAPI)
  BY <1>1 DEF CreateCAPI, DeleteCAPI, FinishCAPI, ChangeCAPI
<1>5. \A p \in Pools : ~(CreatePool(p) \/ UserDeletesPool(p) \/ FinishPool(p) \/ DeletePool(p))
  BY <1>1 DEF CreatePool, UserDeletesPool, FinishPool, ChangePool, DeletePool
<1>6. \A c \in Claims :
         /\ ~(DecideClaim(c) \/ CreateClaim(c) \/ DeleteClaim(c) \/ FinishClaim(c))
         /\ ~(DeleteNodeClaim(c) \/ handleForcefulNodeClaimDeletion(c))
  BY <1>1 DEF DecideClaim, CreateClaim, DeleteClaim, FinishClaim, DeleteNodeClaim,
              handleForcefulNodeClaimDeletion, apiVars
<1>7. ~(Informers \/ Reconcile \/ CallFails \/ Restart \/ ListClaims \/ CleanedUp)
  BY <1>1 DEF Informers, SyncHCP, SyncCAPI, SyncPools, SyncClaims, Reconcile, CallFails, Restart,
              ListClaims, CleanedUp, apiVars
<1>8. QED
  BY <1>1, <1>3, <1>4, <1>5, <1>6, <1>7 DEF Next, Environment, WorkerStep, vars

(* The patch of the finalizers never takes or returns somebody else's: it is *)
(* made with the resourceVersion that was read, and a stale one conflicts.   *)
THEOREM ForeignFinalizersKeptTheorem == Spec => ForeignFinalizersKept
<1> DEFINE Kept == hcp.finalizer # hcp'.finalizer /\ hcp'.exists => hcp'.foreign = hcp.foreign
<1>1. Held /\ [Next]_vars => [Kept]_vars
  <2> SUFFICES ASSUME Held, [Next]_vars, hcp.finalizer # hcp'.finalizer, hcp'.exists
               PROVE  hcp'.foreign = hcp.foreign
    OBVIOUS
  <2>1. PICK f \in BOOLEAN : PatchFinalizers(f) /\ worker.pc # "idle"
    BY FinalizerChanges DEF AddFinalizer, RemoveFinalizer
  <2>2. hcp' = Settle([hcp EXCEPT !.finalizer = f])
    BY <2>1, PatchedCurrent
  <2>3. hcp \in HCP
    BY DEF Held, TypeOK
  <2>4. hcp' = NoHCP \/ hcp' = [hcp EXCEPT !.finalizer = f]
    BY <2>2, <2>3 DEF Settle
  <2>5. [hcp EXCEPT !.finalizer = f].foreign = hcp.foreign
    BY <2>3 DEF HCP
  <2>6. QED
    BY <2>4, <2>5, NoHCPFields
<1>2. QED
  BY <1>1, AlwaysHeld, PTL DEF Spec, ForeignFinalizersKept

(* The finalizer goes only once the HostedControlPlane is being deleted. *)
THEOREM FinalizerKeptTheorem == Spec => FinalizerKeptUntilDeletion
<1> DEFINE Kept == hcp.finalizer /\ ~hcp'.finalizer => hcp.deleting
<1>1. Held /\ [Next]_vars => [Kept]_vars
  <2> SUFFICES ASSUME Held, [Next]_vars, hcp.finalizer, ~hcp'.finalizer
               PROVE  hcp.deleting
    OBVIOUS
  <2>1. CASE AddFinalizer
    <3>1. hcp' = Settle([hcp EXCEPT !.finalizer = TRUE])
      BY <2>1, PatchedCurrent DEF AddFinalizer
    <3>2. hcp \in HCP
      BY DEF Held, TypeOK
    <3>3. [hcp EXCEPT !.finalizer = TRUE] \in HCP /\ [hcp EXCEPT !.finalizer = TRUE].finalizer
      BY <3>2 DEF HCP
    <3>4. QED
      BY <3>1, <3>3, SettleCases
  <2>2. CASE RemoveFinalizer
    BY <2>2, PatchedCurrent DEF RemoveFinalizer, Held, WorkerHolds
  <2>3. QED
    BY <2>1, <2>2, FinalizerChanges
<1>2. QED
  BY <1>1, AlwaysHeld, PTL DEF Spec, FinalizerKeptUntilDeletion
=============================================================================
