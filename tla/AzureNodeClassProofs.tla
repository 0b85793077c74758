------------------------ MODULE AzureNodeClassProofs ------------------------
(***************************************************************************)
(* Proofs about the azure-nodeclass controller, for any set of NodeClasses *)
(* and any bounds.                                                         *)
(***************************************************************************)
EXTENDS AzureNodeClass, TLAPS

-----------------------------------------------------------------------------
(* Types of the building blocks *)

LEMMA NoConditionsType == NoConditions \in Conditions
  BY NowIsATime DEF NoConditions, Conditions, NoCondition, Condition

LEMMA EmptyObjects == NoNodeClass \in NodeClass /\ NoAKSNodeClass \in AKSNodeClass
  BY NoConditionsType DEF NoNodeClass, NodeClass, NoAKSNodeClass, AKSNodeClass, DiskSizes

(* SyncConditions returns a list of conditions. *)
LEMMA SyncConditionsType ==
  ASSUME NEW c \in Conditions, NEW p \in Conditions
  PROVE  SyncConditions(c, p) \in Conditions
<1>1. NotReady \in Condition
  BY NowIsATime DEF NotReady, Condition
<1>2. \A t \in CondTypes : c[t] \in Condition /\ p[t] \in Condition
  BY DEF Conditions
<1>3. "Ready" \in CondTypes
  BY DEF CondTypes
<1> DEFINE copied == [t \in CondTypes |->
                        IF t # "Ready" /\ p[t].status # "None"
                          THEN SetStatusCondition(c[t], p[t]) ELSE c[t]]
           ready == IF copied["VersionResolved"].status # "True"
                      THEN SetStatusCondition(c["Ready"], NotReady)
                    ELSE IF p["Ready"].status # "None"
                      THEN SetStatusCondition(c["Ready"], p["Ready"])
                    ELSE c["Ready"]
<1>4. copied \in Conditions
  BY <1>2 DEF Conditions, SetStatusCondition
<1>5. ready \in Condition
  BY <1>1, <1>2, <1>3 DEF SetStatusCondition
<1>6. SyncConditions(c, p) = [copied EXCEPT !["Ready"] = ready]
  BY DEF SyncConditions
<1> QED
  BY <1>4, <1>5, <1>6 DEF Conditions

LEMMA WorkerType ==
  ASSUME TypeOK
  PROVE  worker.key \in Names /\ worker.obj \in NodeClass /\ worker.provider \in Conditions
  BY DEF TypeOK, Worker

LEMMA IdleType == ASSUME NEW w \in Worker PROVE Idle(w) \in Worker
  BY NoConditionsType, EmptyObjects DEF Idle, Worker

(* The effect of somebody else's write of a NodeClass on the types. *)
LEMMA WriteNodeClassType ==
  ASSUME TypeOK, NEW n \in Names, NEW obj \in NodeClass, WriteNodeClass(n, obj)
  PROVE  nc' \in [Names -> NodeClass] /\ fnc' \in [Names -> BOOLEAN] /\ worker' \in Worker
  BY DEF TypeOK, WriteNodeClass, Worker

LEMMA WriteAKSNodeClassType ==
  ASSUME TypeOK, NEW n \in Names, NEW obj \in AKSNodeClass, WriteAKSNodeClass(n, obj)
  PROVE  aks' \in [Names -> AKSNodeClass] /\ faks' \in [Names -> BOOLEAN]
  BY DEF TypeOK, WriteAKSNodeClass

(* A patch of the worker's own NodeClass, and an error. *)
LEMMA PatchNodeClassType ==
  ASSUME TypeOK, NEW obj \in NodeClass, NEW next \in Worker, PatchNodeClass(obj, next)
  PROVE  nc' \in [Names -> NodeClass] /\ fnc' \in [Names -> BOOLEAN] /\ worker' \in Worker
  BY WorkerType DEF TypeOK, PatchNodeClass

LEMMA FailType ==
  ASSUME TypeOK, Fail
  PROVE  worker' \in Worker /\ queue' \subseteq Names
<1>1. Idle(worker) \in Worker
  BY IdleType DEF TypeOK
<1> QED
  BY <1>1, WorkerType DEF TypeOK, Fail, Done

LEMMA DeletedType ==
  /\ \A obj \in NodeClass, b \in BOOLEAN : Deleted(obj, b, NoNodeClass) \in NodeClass
  /\ \A obj \in AKSNodeClass, b \in BOOLEAN : Deleted(obj, b, NoAKSNodeClass) \in AKSNodeClass
  BY EmptyObjects DEF Deleted, NodeClass, AKSNodeClass

-----------------------------------------------------------------------------
(* Type correctness: every variable keeps its type, in particular an         *)
(* AKSNodeClass never gets user data, an image or a disk size that is not a  *)
(* number the code can produce.                                              *)
THEOREM TypeCorrect == Spec => []TypeOK
<1>1. Init => TypeOK
  <2> SUFFICES ASSUME Init PROVE TypeOK
    OBVIOUS
  <2>1. nc \in [Names -> NodeClass] /\ secrets \in [Names -> SUBSET Nat] /\ queue \subseteq Names
        /\ lastSecret \in Nat
    <3>1. [NoNodeClass EXCEPT !.exists = TRUE] \in NodeClass
      BY EmptyObjects DEF NodeClass
    <3>2. CASE nc = [n \in Names |-> NoNodeClass] /\ secrets = [n \in Names |-> {}]
               /\ queue = {} /\ lastSecret = 0
      BY <3>2, EmptyObjects
    <3>3. CASE nc = [n \in Names |-> [NoNodeClass EXCEPT !.exists = TRUE]]
               /\ secrets = [n \in Names |-> {1}] /\ queue = Names /\ lastSecret = 1
      <4>1. nc \in [Names -> NodeClass]
        BY <3>1, <3>3
      <4>2. secrets \in [Names -> SUBSET Nat]
        <5>1. {1} \in SUBSET Nat
          OBVIOUS
        <5> QED
          BY <3>3, <5>1
      <4> QED
        BY <4>1, <4>2, <3>3
    <3> QED
      BY <3>2, <3>3 DEF Init
  <2>2. aks \in [Names -> AKSNodeClass]
    BY EmptyObjects DEF Init
  <2>3. hcp \in HostedControlPlane
    BY DEF Init, HostedControlPlane
  <2>4. worker \in Worker
    BY EmptyObjects, NoConditionsType DEF Init, Worker
  <2> QED
    BY <2>1, <2>2, <2>3, <2>4, BoundsAreNaturals DEF Init, TypeOK
<1>2. TypeOK /\ [Next]_vars => TypeOK'
  <2> SUFFICES ASSUME TypeOK, [Next]_vars PROVE TypeOK'
    OBVIOUS
  <2> USE NoConditionsType, EmptyObjects, IdleType, BoundsAreNaturals
  <2>1. CASE \E n \in Names : Reconcile(n)
    <3>1. PICK n \in Names : Reconcile(n)
      BY <2>1
    <3>2. worker' \in Worker
      <4>1. CASE ~cnc[n].exists
        BY <3>1, <4>1 DEF Reconcile, TypeOK, Worker
      <4>2. CASE cnc[n].exists
        BY <3>1, <4>2 DEF Reconcile, TypeOK, Worker
      <4> QED BY <4>1, <4>2
    <3> QED
      BY <3>1, <3>2 DEF Reconcile, TypeOK, apiVars, cacheVars
  <2>2. CASE AddFinalizer
    <3>1. [worker.obj EXCEPT !.finalizer = TRUE] \in NodeClass
      BY DEF TypeOK, Worker, NodeClass
    <3>2. nc' \in [Names -> NodeClass] /\ fnc' \in [Names -> BOOLEAN] /\ worker' \in Worker
          /\ queue' \subseteq Names
      <4> DEFINE obj == [worker.obj EXCEPT !.finalizer = TRUE]
                 next == [worker EXCEPT !.pc = "apply", !.obj = obj]
      <4>1. CASE PatchNodeClass(obj, next) /\ UNCHANGED queue
        <5>1. next \in Worker
          BY <3>1 DEF TypeOK, Worker
        <5> QED
          BY <3>1, <4>1, <5>1, PatchNodeClassType DEF TypeOK
      <4>2. CASE Fail /\ UNCHANGED <<nc, fnc>>
        BY <4>2, FailType DEF TypeOK
      <4> QED
        BY <2>2, <4>1, <4>2 DEF AddFinalizer
    <3> QED
      BY <2>2, <3>2 DEF AddFinalizer, TypeOK
  <2>3. CASE Apply
    <3>1. aks' \in [Names -> AKSNodeClass] /\ faks' \in [Names -> BOOLEAN] /\ worker' \in Worker
          /\ queue' \subseteq Names
      <4>1. CASE Done /\ UNCHANGED <<aks, faks, queue>>
        BY <4>1 DEF Done, TypeOK
      <4>2. CASE Fail /\ UNCHANGED <<aks, faks>>
        BY <4>2, FailType DEF TypeOK
      <4>3. CASE \E v \in csecrets[worker.key] :
                   CreateOrUpdate(worker.key, MutateAKSNodeClass(caks[worker.key], worker.obj, chcp, v))
        <5> DEFINE n == worker.key
        <5>1. PICK v \in csecrets[n] : CreateOrUpdate(n, MutateAKSNodeClass(caks[n], worker.obj, chcp, v))
          BY <4>3
        <5>2. n \in Names /\ v \in Nat /\ caks[n] \in AKSNodeClass /\ worker.obj \in NodeClass
          BY DEF TypeOK, Worker
        <5> DEFINE desired == MutateAKSNodeClass(caks[n], worker.obj, chcp, v)
        <5>3. desired \in AKSNodeClass
          <6> DEFINE hold == WaitsForControlPlaneUpgrade(chcp, worker.obj.pinned)
                             /\ caks[n].userData # 0 /\ caks[n].image # 0
                     disk == aksNodeClassSpec(worker.obj.disk)
                     userData == IF hold THEN caks[n].userData ELSE v
                     image == IF hold THEN caks[n].image ELSE v
          <6>1. disk \in Nat
            BY <5>2 DEF NodeClass, aksNodeClassSpec, DiskSizes, defaultOSDiskSizeGiB
          <6>2. userData \in Nat /\ image \in Nat
            BY <5>2 DEF AKSNodeClass
          <6>3. desired = [caks[n] EXCEPT !.exists = TRUE, !.disk = disk, !.userData = userData,
                                          !.image = image]
            BY <5>2 DEF MutateAKSNodeClass, AKSNodeClass
          <6> HIDE DEF hold, disk, userData, image
          <6> QED
            BY <5>2, <6>1, <6>2, <6>3 DEF AKSNodeClass
        <5>4. \A obj \in AKSNodeClass : [worker EXCEPT !.pc = "status", !.provider = obj.conditions] \in Worker
          BY DEF TypeOK, Worker, AKSNodeClass
        <5>5. CreateOrUpdate(n, desired)
          BY <5>1
        <5> HIDE DEF desired
        <5>6. CASE Returned(caks[n]) /\ UNCHANGED <<aks, faks, queue>>
          BY <5>2, <5>4, <5>6 DEF Returned, TypeOK
        <5>7. CASE WriteAKSNodeClass(n, desired) /\ Returned(desired) /\ UNCHANGED queue
          BY <5>2, <5>3, <5>4, <5>7, WriteAKSNodeClassType DEF Returned, TypeOK
        <5>8. CASE Fail /\ UNCHANGED <<aks, faks>>
          BY <5>8, FailType DEF TypeOK
        <5> QED
          BY <5>5, <5>6, <5>7, <5>8 DEF CreateOrUpdate
      <4> QED BY <2>3, <4>1, <4>2, <4>3 DEF Apply
    <3> QED
      BY <2>3, <3>1 DEF Apply, TypeOK
  <2>4. CASE PatchStatus
    <3> DEFINE c == SyncConditions(worker.obj.conditions, worker.provider)
    <3>1. c \in Conditions
      BY SyncConditionsType DEF TypeOK, Worker, NodeClass
    <3>2. [worker.obj EXCEPT !.conditions = c] \in NodeClass
      BY <3>1 DEF TypeOK, Worker, NodeClass
    <3>3. nc' \in [Names -> NodeClass] /\ fnc' \in [Names -> BOOLEAN] /\ worker' \in Worker
          /\ queue' \subseteq Names
      <4>1. Idle(worker) \in Worker
        BY DEF TypeOK
      <4>2. CASE Done /\ UNCHANGED <<nc, fnc, queue>>
        BY <4>1, <4>2 DEF Done, TypeOK
      <4>3. CASE PatchNodeClass([worker.obj EXCEPT !.conditions = c], Idle(worker)) /\ UNCHANGED queue
        BY <3>2, <4>1, <4>3, PatchNodeClassType DEF TypeOK
      <4>4. CASE Fail /\ UNCHANGED <<nc, fnc>>
        BY <4>4, FailType DEF TypeOK
      <4> QED
        BY <2>4, <4>2, <4>3, <4>4 DEF PatchStatus
    <3> QED
      BY <2>4, <3>3 DEF PatchStatus, TypeOK
  <2>5. CASE DeleteAKSNodeClass
    <3> DEFINE n == worker.key
    <3>1. n \in Names /\ aks[n] \in AKSNodeClass /\ aks[n].termination \in BOOLEAN
      BY DEF TypeOK, Worker, AKSNodeClass
    <3>2. Deleted(aks[n], aks[n].termination, NoAKSNodeClass) \in AKSNodeClass
      BY <3>1, DeletedType
    <3>3. worker' \in Worker
      BY <2>5 DEF DeleteAKSNodeClass, Done, TypeOK, Worker
    <3>4. aks' \in [Names -> AKSNodeClass] /\ faks' \in [Names -> BOOLEAN]
      <4>1. CASE WriteAKSNodeClass(n, Deleted(aks[n], aks[n].termination, NoAKSNodeClass))
        BY <3>1, <3>2, <4>1, WriteAKSNodeClassType
      <4>2. CASE UNCHANGED <<aks, faks>>
        BY <4>2 DEF TypeOK
      <4> QED
        BY <2>5, <4>1, <4>2 DEF DeleteAKSNodeClass
    <3> QED
      BY <2>5, <3>3, <3>4 DEF DeleteAKSNodeClass, TypeOK
  <2>6. CASE RemoveFinalizer
    <3>1. nc' \in [Names -> NodeClass] /\ fnc' \in [Names -> BOOLEAN] /\ worker' \in Worker
          /\ queue' \subseteq Names
      <4>1. CASE PatchNodeClass(NoNodeClass, Idle(worker)) /\ UNCHANGED queue
        BY <4>1, PatchNodeClassType DEF TypeOK
      <4>2. CASE Fail /\ UNCHANGED <<nc, fnc>>
        BY <4>2, FailType DEF TypeOK
      <4> QED
        BY <2>6, <4>1, <4>2 DEF RemoveFinalizer
    <3> QED
      BY <2>6, <3>1 DEF RemoveFinalizer, TypeOK
  <2>7. CASE CallFails
    <3>1. worker' \in Worker /\ queue' \subseteq Names
      BY <2>7, FailType DEF CallFails
    <3> QED
      BY <2>7, <3>1 DEF CallFails, Spend, TypeOK, apiVars, cacheVars
  <2>8. CASE Restart
    BY <2>8 DEF Restart, Spend, TypeOK, apiVars
  <2>9. CASE Informers
    BY <2>9 DEF Informers, SyncNodeClasses, SyncAKSNodeClasses, SyncSecrets, SyncHCP,
                mapToNodeClasses, TypeOK, apiVars
  <2>10. CASE Environment
    <3>1. ASSUME NEW n \in Names, NEW pinned \in BOOLEAN, NEW disk \in DiskSizes,
                 CreateNodeClass(n, pinned, disk) \/ EditNodeClass(n, pinned, disk)
          PROVE  TypeOK'
      <4>1. [NoNodeClass EXCEPT !.exists = TRUE, !.pinned = pinned, !.disk = disk] \in NodeClass
        BY DEF NodeClass
      <4>2. [nc[n] EXCEPT !.pinned = pinned, !.disk = disk] \in NodeClass
        BY DEF NodeClass, TypeOK
      <4>3. nc' \in [Names -> NodeClass] /\ fnc' \in [Names -> BOOLEAN] /\ worker' \in Worker
        BY <3>1, <4>1, <4>2, WriteNodeClassType DEF CreateNodeClass, EditNodeClass
      <4> QED
        BY <3>1, <4>3 DEF CreateNodeClass, EditNodeClass, Spend, TypeOK
    <3>2. ASSUME NEW n \in Names, DeleteNodeClass(n)
          PROVE  TypeOK'
      <4>1. Deleted(nc[n], nc[n].finalizer, NoNodeClass) \in NodeClass
        BY DeletedType DEF TypeOK, NodeClass
      <4>2. nc' \in [Names -> NodeClass] /\ fnc' \in [Names -> BOOLEAN] /\ worker' \in Worker
        BY <3>2, <4>1, WriteNodeClassType DEF DeleteNodeClass
      <4> QED
        BY <3>2, <4>2 DEF DeleteNodeClass, Spend, TypeOK
    <3>3. ASSUME NEW n \in Names, NEW status \in {"True", "False"}, ResolveVersion(n, status)
          PROVE  TypeOK'
      <4>1. [status |-> status, time |-> Now] \in Condition
        BY NowIsATime DEF Condition
      <4>2. [nc[n] EXCEPT !.conditions["VersionResolved"] = [status |-> status, time |-> Now]] \in NodeClass
        BY <4>1 DEF TypeOK, NodeClass, Conditions
      <4>3. nc' \in [Names -> NodeClass] /\ fnc' \in [Names -> BOOLEAN] /\ worker' \in Worker
        BY <3>3, <4>2, WriteNodeClassType DEF ResolveVersion
      <4> QED
        BY <3>3, <4>3 DEF ResolveVersion, Spend, TypeOK
    <3>4. ASSUME NEW n \in Names, NEW status \in {"True", "False"}, ReportReadiness(n, status)
          PROVE  TypeOK'
      <4>1. [status |-> status, time |-> Now] \in Condition
        BY NowIsATime DEF Condition
      <4>2. [aks[n] EXCEPT !.conditions["Ready"] = [status |-> status, time |-> Now]] \in AKSNodeClass
        BY <4>1 DEF TypeOK, AKSNodeClass, Conditions
      <4>3. aks' \in [Names -> AKSNodeClass] /\ faks' \in [Names -> BOOLEAN]
        BY <3>4, <4>2, WriteAKSNodeClassType DEF ReportReadiness
      <4> QED
        BY <3>4, <4>3 DEF ReportReadiness, Spend, TypeOK
    <3>5. ASSUME NEW n \in Names,
                 CreateSecret(n) \/ \E v \in 1..MaxSecret : RotateToken(n, v) \/ DeleteSecret(n, v)
          PROVE  TypeOK'
      BY <3>5 DEF CreateSecret, RotateToken, DeleteSecret, Spend, TypeOK, cacheVars
    <3>6. ASSUME NEW n \in Names,
                 AddTermination(n) \/ ReleaseAKSNodeClass(n) \/ TamperAKSNodeClass(n)
          PROVE  TypeOK'
      <4>1. [aks[n] EXCEPT !.termination = TRUE] \in AKSNodeClass
        BY DEF TypeOK, AKSNodeClass
      <4>2. Deleted(aks[n], aks[n].termination, NoAKSNodeClass) \in AKSNodeClass
        BY DeletedType DEF TypeOK, AKSNodeClass
      <4>3. aks' \in [Names -> AKSNodeClass] /\ faks' \in [Names -> BOOLEAN]
        BY <3>6, <4>1, <4>2, WriteAKSNodeClassType
           DEF AddTermination, ReleaseAKSNodeClass, TamperAKSNodeClass
      <4> QED
        BY <3>6, <4>3 DEF AddTermination, ReleaseAKSNodeClass, TamperAKSNodeClass, Spend, TypeOK
    <3>7. ASSUME CreateHCP \/ CompleteUpgrade \/ DeleteHCP \/ \E r \in 1..MaxRelease : SetDesiredRelease(r)
          PROVE  TypeOK'
      <4>1. hcp' \in HostedControlPlane
        BY <3>7 DEF CreateHCP, CompleteUpgrade, DeleteHCP, SetDesiredRelease, ChangeHCP, TypeOK,
                    HostedControlPlane
      <4> QED
        BY <3>7, <4>1 DEF CreateHCP, CompleteUpgrade, DeleteHCP, SetDesiredRelease, ChangeHCP,
                          Spend, TypeOK, cacheVars
    <3> QED
      BY <2>10, <3>1, <3>2, <3>3, <3>4, <3>5, <3>6, <3>7 DEF Environment
  <2>11. CASE UNCHANGED vars
    BY <2>11 DEF vars, TypeOK
  <2> QED
    BY <2>1, <2>2, <2>3, <2>4, <2>5, <2>6, <2>7, <2>8, <2>9, <2>10, <2>11
       DEF Next, WorkerStep
<1> QED
  BY <1>1, <1>2, PTL DEF Spec

-----------------------------------------------------------------------------
(* Why no AKSNodeClass is orphaned.  NoOrphan alone is not inductive: a       *)
(* reconcile acts on what it read some time ago.  What it may conclude from   *)
(* an outdated copy is this.                                                  *)

(* A cached NodeClass whose resourceVersion is current is the NodeClass. *)
CacheCurrent == \A n \in Names : fnc[n] => cnc[n] = nc[n]

(* A cached NodeClass that is live and has the finalizer still exists and     *)
(* still has it: only a reconcile that saw the deletion removes it.           *)
CachedFinalizer ==
    \A n \in Names :
        cnc[n].exists /\ cnc[n].finalizer /\ ~cnc[n].deleting => nc[n].exists /\ nc[n].finalizer

(* What the worker holds: a copy that is still current is the NodeClass; the  *)
(* NodeClass it creates or updates an AKSNodeClass for is held by the         *)
(* finalizer; on the deletion path the copy is of a deleted NodeClass, and    *)
(* while it is current so is the cache; before the finalizer is removed the   *)
(* AKSNodeClass is gone, and as the one worker is busy, stays gone.           *)
WorkerHolds ==
    LET n == worker.key
    IN  /\ worker.fresh /\ worker.pc # "idle" => worker.obj = nc[n]
        /\ worker.pc = "finalize" => worker.obj.exists
        /\ worker.pc \in {"apply", "status"} => nc[n].exists /\ nc[n].finalizer
        /\ worker.pc \in {"delete", "unfinalize"} =>
              worker.obj.deleting /\ (worker.fresh => fnc[n])
        /\ worker.pc = "unfinalize" => ~aks[n].exists

Held == NoOrphan /\ CacheCurrent /\ CachedFinalizer /\ WorkerHolds

(* Somebody else's write of a NodeClass, if it takes the finalizer from none. *)
LEMMA OthersWrite ==
  ASSUME TypeOK, Held, NEW n \in Names, NEW obj \in NodeClass, WriteNodeClass(n, obj),
         nc[n].exists /\ nc[n].finalizer => obj.exists /\ obj.finalizer,
         UNCHANGED <<aks, cnc>>
  PROVE  Held'
<1>1. \A m \in Names : nc[m].exists /\ nc[m].finalizer => nc'[m].exists /\ nc'[m].finalizer
  BY DEF TypeOK, WriteNodeClass
<1>2. NoOrphan' /\ CachedFinalizer'
  BY <1>1 DEF Held, NoOrphan, CachedFinalizer
<1>3. CacheCurrent'
  BY DEF Held, CacheCurrent, WriteNodeClass, TypeOK
<1>4. WorkerHolds'
  <2>1. /\ worker'.key = worker.key /\ worker'.pc = worker.pc /\ worker'.obj = worker.obj
        /\ worker'.fresh => worker.fresh /\ worker.key # n
    BY DEF WriteNodeClass, TypeOK, Worker
  <2>2. worker'.fresh => nc'[worker.key] = nc[worker.key] /\ fnc'[worker.key] = fnc[worker.key]
    BY <2>1, WorkerType DEF WriteNodeClass, TypeOK
  <2> QED
    BY <1>1, <2>1, <2>2, WorkerType DEF Held, WorkerHolds
<1> QED
  BY <1>2, <1>3, <1>4 DEF Held

(* Steps that touch neither NodeClasses nor the worker and create no AKSNodeClass. *)
LEMMA ElsewhereHeld ==
  ASSUME TypeOK, Held, UNCHANGED <<nc, cnc, fnc, worker>>,
         \A n \in Names : aks'[n].exists => aks[n].exists
  PROVE  Held'
  BY WorkerType DEF Held, NoOrphan, CacheCurrent, CachedFinalizer, WorkerHolds

(* The end of a reconcile leaves nothing to hold. *)
LEMMA IdleHeld ==
  ASSUME TypeOK, Held, UNCHANGED <<nc, cnc, fnc>>, worker'.pc = "idle",
         \A n \in Names : aks'[n].exists => aks[n].exists
  PROVE  Held'
  BY DEF Held, NoOrphan, CacheCurrent, CachedFinalizer, WorkerHolds

LEMMA DoneIsIdle == ASSUME TypeOK, Done PROVE worker'.pc = "idle"
  BY DEF TypeOK, Done, Idle, Worker

LEMMA FailHeld ==
  ASSUME TypeOK, Held, Fail, UNCHANGED <<nc, aks, cnc, fnc>>
  PROVE  Held'
  BY DoneIsIdle, IdleHeld DEF Fail

(* What every reconcile relies on holds throughout, for any number of         *)
(* NodeClasses and any amount of outdated caches, conflicts, failed calls and *)
(* restarts.                                                                  *)
LEMMA HeldThroughout == Spec => []Held
<1>1. Init => Held
  BY DEF Init, Held, NoOrphan, CacheCurrent, CachedFinalizer, WorkerHolds, NoAKSNodeClass
<1>2. TypeOK /\ Held /\ [Next]_vars => Held'
  <2> SUFFICES ASSUME TypeOK, Held, [Next]_vars PROVE Held'
    OBVIOUS
  <2>1. CASE \E n \in Names : Reconcile(n)
    <3>1. PICK n \in Names : Reconcile(n)
      BY <2>1
    <3>2. CASE ~cnc[n].exists
      <4>1. worker'.pc = "idle"
        BY <3>1, <3>2 DEF Reconcile, Idle, TypeOK, Worker
      <4> QED
        BY <3>1, <4>1, IdleHeld DEF Reconcile, apiVars, cacheVars
    <3>3. CASE cnc[n].exists
      <4>1. /\ worker'.key = n /\ worker'.obj = cnc[n] /\ worker'.fresh = fnc[n]
            /\ worker'.pc = "delete" => cnc[n].deleting
            /\ worker'.pc = "apply" => cnc[n].finalizer /\ ~cnc[n].deleting
            /\ worker'.pc \in {"delete", "finalize", "apply"}
        BY <3>1, <3>3 DEF Reconcile
      <4>2. UNCHANGED <<nc, aks, cnc, fnc>>
        BY <3>1 DEF Reconcile, apiVars, cacheVars
      <4>3. WorkerHolds'
        BY <3>3, <4>1, <4>2 DEF Held, CacheCurrent, CachedFinalizer, WorkerHolds
      <4> QED
        BY <4>2, <4>3 DEF Held, NoOrphan, CacheCurrent, CachedFinalizer
    <3> QED BY <3>2, <3>3
  <2>2. CASE AddFinalizer
    <3> DEFINE n == worker.key
               obj == [worker.obj EXCEPT !.finalizer = TRUE]
    <3>1. CASE worker.fresh /\ PatchNodeClass(obj, [worker EXCEPT !.pc = "apply", !.obj = obj])
      <4>1. n \in Names /\ worker.obj = nc[n] /\ worker.obj.exists
        BY <2>2, <3>1, WorkerType DEF AddFinalizer, Held, WorkerHolds
      <4>2. obj.exists /\ obj.finalizer
        BY <4>1, WorkerType DEF NodeClass
      <4>3. /\ nc'[n] = obj /\ fnc'[n] = FALSE
            /\ \A m \in Names \ {n} : nc'[m] = nc[m] /\ fnc'[m] = fnc[m]
            /\ worker'.key = n /\ worker'.pc = "apply" /\ worker'.obj = obj
        BY <3>1, <4>1 DEF PatchNodeClass, TypeOK, Worker
      <4>4. UNCHANGED <<aks, cnc>>
        BY <2>2 DEF AddFinalizer
      <4> HIDE DEF obj
      <4>5. NoOrphan' /\ CacheCurrent' /\ CachedFinalizer'
        BY <4>2, <4>3, <4>4 DEF Held, NoOrphan, CacheCurrent, CachedFinalizer
      <4>6. WorkerHolds'
        BY <4>2, <4>3 DEF WorkerHolds
      <4> QED
        BY <4>5, <4>6 DEF Held
    <3>2. CASE Fail /\ UNCHANGED <<nc, fnc>>
      BY <2>2, <3>2, FailHeld DEF AddFinalizer
    <3> QED BY <2>2, <3>1, <3>2 DEF AddFinalizer
  <2>3. CASE Apply
    <3> DEFINE n == worker.key
    <3>1. CASE Done /\ UNCHANGED aks
      BY <2>3, <3>1, DoneIsIdle, IdleHeld DEF Apply
    <3>2. CASE Fail /\ UNCHANGED aks
      BY <2>3, <3>2, FailHeld DEF Apply
    <3>3. ASSUME NEW returned, Returned(returned),
                 \A m \in Names \ {n} : aks'[m] = aks[m]
          PROVE  Held'
      <4>1. worker'.key = n /\ worker'.obj = worker.obj /\ worker'.fresh = worker.fresh
            /\ worker'.pc = "status"
        BY <3>3 DEF Returned, TypeOK, Worker
      <4>2. UNCHANGED <<nc, cnc, fnc>> /\ worker.pc = "apply"
        BY <2>3 DEF Apply
      <4>3. NoOrphan'
        BY <3>3, <4>2 DEF Held, NoOrphan, WorkerHolds
      <4>4. WorkerHolds'
        BY <4>1, <4>2 DEF Held, WorkerHolds
      <4> QED
        BY <4>2, <4>3, <4>4 DEF Held, CacheCurrent, CachedFinalizer
    <3>4. CASE \E v \in csecrets[n] :
                 CreateOrUpdate(n, MutateAKSNodeClass(caks[n], worker.obj, chcp, v))
      <4>1. PICK v \in csecrets[n] : CreateOrUpdate(n, MutateAKSNodeClass(caks[n], worker.obj, chcp, v))
        BY <3>4
      <4> DEFINE desired == MutateAKSNodeClass(caks[n], worker.obj, chcp, v)
      <4>2. CreateOrUpdate(n, desired)
        BY <4>1
      <4> HIDE DEF desired
      <4>3. CASE Returned(caks[n]) /\ UNCHANGED aks
        BY <3>3, <4>3
      <4>4. CASE WriteAKSNodeClass(n, desired) /\ Returned(desired)
        <5>1. \A m \in Names \ {n} : aks'[m] = aks[m]
          BY <4>4 DEF WriteAKSNodeClass, TypeOK
        <5> QED
          BY <3>3, <4>4, <5>1
      <4> QED
        BY <3>2, <4>2, <4>3, <4>4 DEF CreateOrUpdate
    <3> QED BY <2>3, <3>1, <3>2, <3>4 DEF Apply
  <2>4. CASE PatchStatus
    <3> DEFINE n == worker.key
               c == SyncConditions(worker.obj.conditions, worker.provider)
               obj == [worker.obj EXCEPT !.conditions = c]
    <3>1. CASE Done /\ UNCHANGED <<nc, fnc>>
      BY <2>4, <3>1, DoneIsIdle, IdleHeld DEF PatchStatus
    <3>2. CASE Fail /\ UNCHANGED <<nc, fnc>>
      BY <2>4, <3>2, FailHeld DEF PatchStatus
    <3>3. CASE worker.fresh /\ PatchNodeClass(obj, Idle(worker))
      <4>1. n \in Names /\ worker.obj = nc[n] /\ nc[n].exists /\ nc[n].finalizer
        BY <2>4, <3>3, WorkerType DEF PatchStatus, Held, WorkerHolds
      <4>2. obj.exists /\ obj.finalizer
        BY <4>1, WorkerType DEF NodeClass
      <4>3. /\ nc'[n] = obj /\ fnc'[n] = FALSE
            /\ \A m \in Names \ {n} : nc'[m] = nc[m] /\ fnc'[m] = fnc[m]
            /\ worker'.pc = "idle"
        BY <3>3, <4>1 DEF PatchNodeClass, TypeOK, Worker, Idle
      <4>4. UNCHANGED <<aks, cnc>>
        BY <2>4 DEF PatchStatus
      <4> HIDE DEF obj
      <4> QED
        BY <4>2, <4>3, <4>4 DEF Held, NoOrphan, CacheCurrent, CachedFinalizer, WorkerHolds
    <3> QED BY <2>4, <3>1, <3>2, <3>3 DEF PatchStatus
  <2>5. CASE DeleteAKSNodeClass
    <3> DEFINE n == worker.key
    <3>1. CASE aks[n].exists
      <4>1. \A m \in Names : aks'[m].exists => aks[m].exists
        BY <2>5, <3>1, WorkerType DEF DeleteAKSNodeClass, WriteAKSNodeClass, TypeOK
      <4> QED
        BY <2>5, <3>1, <4>1, DoneIsIdle, IdleHeld DEF DeleteAKSNodeClass
    <3>2. CASE ~aks[n].exists
      <4>1. UNCHANGED <<nc, aks, cnc, fnc>> /\ worker.pc = "delete"
        BY <2>5, <3>2 DEF DeleteAKSNodeClass
      <4>2. \/ worker' = Idle(worker)
            \/ worker' = [worker EXCEPT !.pc = "unfinalize"]
        BY <2>5, <3>2 DEF DeleteAKSNodeClass
      <4>3. CASE worker' = Idle(worker)
        BY <4>1, <4>3, DoneIsIdle, IdleHeld DEF Done
      <4>4. CASE worker' = [worker EXCEPT !.pc = "unfinalize"]
        <5>1. worker'.key = n /\ worker'.obj = worker.obj /\ worker'.fresh = worker.fresh
              /\ worker'.pc = "unfinalize"
          BY <4>4 DEF TypeOK, Worker
        <5>2. WorkerHolds'
          BY <3>2, <4>1, <5>1 DEF Held, WorkerHolds
        <5> QED
          BY <4>1, <5>2 DEF Held, NoOrphan, CacheCurrent, CachedFinalizer
      <4> QED BY <4>2, <4>3, <4>4
    <3> QED BY <3>1, <3>2
  <2>6. CASE RemoveFinalizer
    <3> DEFINE n == worker.key
    <3>1. CASE worker.fresh /\ PatchNodeClass(NoNodeClass, Idle(worker))
      <4>1. n \in Names /\ ~aks[n].exists /\ nc[n].deleting /\ cnc[n] = nc[n]
        BY <2>6, <3>1, WorkerType DEF RemoveFinalizer, Held, WorkerHolds, CacheCurrent
      <4>2. /\ fnc'[n] = FALSE
            /\ \A m \in Names \ {n} : nc'[m] = nc[m] /\ fnc'[m] = fnc[m]
            /\ worker'.pc = "idle"
        BY <3>1, <4>1 DEF PatchNodeClass, TypeOK, Worker, Idle
      <4>3. UNCHANGED <<aks, cnc>>
        BY <2>6 DEF RemoveFinalizer
      <4> QED
        BY <4>1, <4>2, <4>3 DEF Held, NoOrphan, CacheCurrent, CachedFinalizer, WorkerHolds
    <3>2. CASE Fail /\ UNCHANGED <<nc, fnc>>
      BY <2>6, <3>2, FailHeld DEF RemoveFinalizer
    <3> QED BY <2>6, <3>1, <3>2 DEF RemoveFinalizer
  <2>7. CASE CallFails
    BY <2>7, FailHeld DEF CallFails, apiVars, cacheVars
  <2>8. CASE Restart
    <3>1. worker'.pc = "idle"
      BY <2>8, DoneIsIdle DEF Restart, Done
    <3> QED
      BY <2>8, <3>1 DEF Restart, apiVars, Held, NoOrphan, CacheCurrent, CachedFinalizer, WorkerHolds
  <2>9. CASE SyncNodeClasses
    <3>1. UNCHANGED <<nc, aks, worker>> /\ cnc' = nc /\ fnc' = [n \in Names |-> TRUE]
      BY <2>9 DEF SyncNodeClasses, apiVars
    <3>2. WorkerHolds'
      BY <3>1, WorkerType DEF Held, WorkerHolds
    <3> QED
      BY <3>1, <3>2 DEF Held, NoOrphan, CacheCurrent, CachedFinalizer
  <2>10. CASE SyncAKSNodeClasses \/ SyncSecrets \/ SyncHCP
    BY <2>10, ElsewhereHeld DEF SyncAKSNodeClasses, SyncSecrets, SyncHCP, apiVars
  <2>11. CASE Environment
    <3>1. ASSUME NEW n \in Names, NEW pinned \in BOOLEAN, NEW disk \in DiskSizes,
                 CreateNodeClass(n, pinned, disk)
          PROVE  Held'
      <4> DEFINE obj == [NoNodeClass EXCEPT !.exists = TRUE, !.pinned = pinned, !.disk = disk]
      <4>1. obj \in NodeClass
        BY EmptyObjects DEF NodeClass
      <4>2. WriteNodeClass(n, obj) /\ ~nc[n].exists /\ UNCHANGED <<aks, cnc>>
        BY <3>1 DEF CreateNodeClass
      <4> HIDE DEF obj
      <4> QED
        BY <4>1, <4>2, OthersWrite
    <3>2. ASSUME NEW n \in Names, NEW pinned \in BOOLEAN, NEW disk \in DiskSizes,
                 EditNodeClass(n, pinned, disk)
          PROVE  Held'
      <4> DEFINE obj == [nc[n] EXCEPT !.pinned = pinned, !.disk = disk]
      <4>1. obj \in NodeClass /\ obj.exists = nc[n].exists /\ obj.finalizer = nc[n].finalizer
        <5>1. nc[n] \in NodeClass
          BY DEF TypeOK
        <5> QED
          BY <5>1 DEF NodeClass
      <4>2. WriteNodeClass(n, obj) /\ UNCHANGED <<aks, cnc>>
        BY <3>2 DEF EditNodeClass
      <4> HIDE DEF obj
      <4> QED
        BY <4>1, <4>2, OthersWrite
    <3>3. ASSUME NEW n \in Names, DeleteNodeClass(n)
          PROVE  Held'
      <4> DEFINE obj == Deleted(nc[n], nc[n].finalizer, NoNodeClass)
      <4>1. obj \in NodeClass
        BY DeletedType DEF TypeOK, NodeClass
      <4>2. nc[n].exists /\ nc[n].finalizer => obj.exists /\ obj.finalizer
        BY DEF Deleted, TypeOK, NodeClass
      <4>3. WriteNodeClass(n, obj) /\ UNCHANGED <<aks, cnc>>
        BY <3>3 DEF DeleteNodeClass
      <4> HIDE DEF obj
      <4> QED
        BY <4>1, <4>2, <4>3, OthersWrite
    <3>4. ASSUME NEW n \in Names, NEW status \in {"True", "False"}, ResolveVersion(n, status)
          PROVE  Held'
      <4> DEFINE obj == [nc[n] EXCEPT !.conditions["VersionResolved"] =
                            [status |-> status, time |-> Now]]
      <4>1. [status |-> status, time |-> Now] \in Condition
        BY NowIsATime DEF Condition
      <4>2. obj \in NodeClass /\ obj.exists = nc[n].exists /\ obj.finalizer = nc[n].finalizer
        <5>1. nc[n] \in NodeClass
          BY DEF TypeOK
        <5> QED
          BY <4>1, <5>1 DEF NodeClass, Conditions
      <4>3. WriteNodeClass(n, obj) /\ UNCHANGED <<aks, cnc>>
        BY <3>4 DEF ResolveVersion
      <4> HIDE DEF obj
      <4> QED
        BY <4>2, <4>3, OthersWrite
    <3>5. ASSUME NEW n \in Names, NEW obj \in AKSNodeClass, WriteAKSNodeClass(n, obj),
                 obj.exists => aks[n].exists, UNCHANGED <<nc, cnc, fnc, worker>>
          PROVE  Held'
      <4>1. \A m \in Names : aks'[m].exists => aks[m].exists
        BY <3>5 DEF WriteAKSNodeClass, TypeOK
      <4> QED
        BY <3>5, <4>1, ElsewhereHeld
    <3>6. ASSUME NEW n \in Names, NEW status \in {"True", "False"}, ReportReadiness(n, status)
          PROVE  Held'
      <4> DEFINE obj == [aks[n] EXCEPT !.conditions["Ready"] = [status |-> status, time |-> Now]]
      <4>1. [status |-> status, time |-> Now] \in Condition
        BY NowIsATime DEF Condition
      <4>2. obj \in AKSNodeClass
        <5>1. aks[n] \in AKSNodeClass
          BY DEF TypeOK
        <5> QED
          BY <4>1, <5>1 DEF AKSNodeClass, Conditions
      <4>3. WriteAKSNodeClass(n, obj) /\ aks[n].exists /\ UNCHANGED <<nc, cnc, fnc, worker>>
        BY <3>6 DEF ReportReadiness
      <4> HIDE DEF obj
      <4> QED
        BY <3>5, <4>2, <4>3
    <3>7. ASSUME NEW n \in Names,
                 AddTermination(n) \/ ReleaseAKSNodeClass(n) \/ TamperAKSNodeClass(n)
          PROVE  Held'
      <4>1. [aks[n] EXCEPT !.termination = TRUE] \in AKSNodeClass
        BY DEF TypeOK, AKSNodeClass
      <4>2. Deleted(aks[n], aks[n].termination, NoAKSNodeClass) \in AKSNodeClass
        BY DeletedType DEF TypeOK, AKSNodeClass
      <4>3. NoAKSNodeClass \in AKSNodeClass /\ aks[n].exists /\ UNCHANGED <<nc, cnc, fnc, worker>>
        BY <3>7, EmptyObjects DEF AddTermination, ReleaseAKSNodeClass, TamperAKSNodeClass
      <4> QED
        BY <3>5, <3>7, <4>1, <4>2, <4>3
           DEF AddTermination, ReleaseAKSNodeClass, TamperAKSNodeClass
    <3>8. ASSUME UNCHANGED <<nc, aks, cacheVars, worker>>
          PROVE  Held'
      BY <3>8, ElsewhereHeld DEF cacheVars
    <3> QED
      BY <2>11, <3>1, <3>2, <3>3, <3>4, <3>6, <3>7, <3>8
         DEF Environment, CreateSecret, RotateToken, DeleteSecret, CreateHCP, CompleteUpgrade,
             DeleteHCP, SetDesiredRelease, ChangeHCP
  <2>12. CASE UNCHANGED vars
    BY <2>12, ElsewhereHeld DEF vars
  <2> QED
    BY <2>1, <2>2, <2>3, <2>4, <2>5, <2>6, <2>7, <2>8, <2>9, <2>10, <2>11, <2>12
       DEF Next, WorkerStep, Informers
<1> QED
  BY <1>1, <1>2, TypeCorrect, PTL DEF Spec

(* No AKSNodeClass outlives its OpenShiftAzureNodeClass or the finalizer that *)
(* guards it, for any number of NodeClasses and any amount of outdated        *)
(* caches, conflicts, failed calls and restarts.                              *)
THEOREM NoOrphanTheorem == Spec => []NoOrphan
<1>1. Held => NoOrphan
  BY DEF Held
<1> QED
  BY <1>1, HeldThroughout, PTL

-----------------------------------------------------------------------------
(* Readiness *)

(* What SyncConditions makes Ready has its version resolved. *)
LEMMA SyncedReady ==
  ASSUME NEW c \in Conditions, NEW p \in Conditions,
         SyncConditions(c, p)["Ready"].status = "True"
  PROVE  SyncConditions(c, p)["VersionResolved"].status = "True"
<1> DEFINE copied == [t \in CondTypes |->
                        IF t # "Ready" /\ p[t].status # "None"
                          THEN SetStatusCondition(c[t], p[t]) ELSE c[t]]
           ready == IF copied["VersionResolved"].status # "True"
                      THEN SetStatusCondition(c["Ready"], NotReady)
                    ELSE IF p["Ready"].status # "None"
                      THEN SetStatusCondition(c["Ready"], p["Ready"])
                    ELSE c["Ready"]
<1>1. SyncConditions(c, p) = [copied EXCEPT !["Ready"] = ready]
  BY DEF SyncConditions
<1>2. "Ready" \in CondTypes /\ "VersionResolved" \in CondTypes
  BY DEF CondTypes, IgnitionTypes
<1>3. copied["VersionResolved"].status # "True" => ready.status # "True"
  BY DEF SetStatusCondition, NotReady
<1>4. /\ SyncConditions(c, p)["Ready"] = ready
      /\ SyncConditions(c, p)["VersionResolved"] = copied["VersionResolved"]
  <2> HIDE DEF ready
  <2> QED BY <1>1, <1>2
<1> HIDE DEF copied, ready
<1> QED
  BY <1>3, <1>4

BecomesReady ==
    \A n \in Names :
        nc[n].conditions["Ready"].status # "True" /\ nc'[n].conditions["Ready"].status = "True"
        => nc'[n].conditions["VersionResolved"].status = "True"

(* A write of one NodeClass that keeps Ready, resets it, or comes with a      *)
(* resolved version.                                                          *)
LEMMA ReadyWrite ==
  ASSUME TypeOK, NEW n \in Names, NEW obj, nc' = [nc EXCEPT ![n] = obj],
         \/ obj.conditions["Ready"] = nc[n].conditions["Ready"]
         \/ obj.conditions["Ready"].status # "True"
         \/ obj.conditions["VersionResolved"].status = "True"
  PROVE  BecomesReady
  BY DEF BecomesReady, TypeOK

(* A NodeClass becomes Ready only in a state in which its version is           *)
(* resolved, for any interleaving with the ignition controller: what           *)
(* SyncConditions makes Ready has its version resolved, and under the          *)
(* optimistic lock of reconcileStatus the list it computed is the list that    *)
(* is stored.                                                                  *)
THEOREM ReadyOnlyWhenResolvedTheorem == Spec => ReadyOnlyWhenResolved
<1>1. TypeOK /\ Held /\ [Next]_vars => [BecomesReady]_vars
  <2> SUFFICES ASSUME TypeOK, Held, [Next]_vars PROVE BecomesReady
    OBVIOUS
  <2>1. CASE UNCHANGED nc
    BY <2>1 DEF BecomesReady
  <2>2. NoNodeClass.conditions["Ready"].status # "True"
    BY DEF NoNodeClass, NoConditions, NoCondition, CondTypes
  <2>3. CASE AddFinalizer
    <3> DEFINE n == worker.key
               obj == [worker.obj EXCEPT !.finalizer = TRUE]
    <3>1. CASE worker.fresh /\ PatchNodeClass(obj, [worker EXCEPT !.pc = "apply", !.obj = obj])
      <4>1. n \in Names /\ worker.obj = nc[n] /\ worker.obj \in NodeClass
        BY <2>3, <3>1, WorkerType DEF AddFinalizer, Held, WorkerHolds
      <4>2. obj.conditions = nc[n].conditions
        BY <4>1 DEF NodeClass
      <4>3. nc' = [nc EXCEPT ![n] = obj]
        BY <3>1 DEF PatchNodeClass
      <4> HIDE DEF obj
      <4> QED
        BY <4>1, <4>2, <4>3, ReadyWrite
    <3> QED BY <2>1, <2>3, <3>1 DEF AddFinalizer
  <2>4. CASE PatchStatus
    <3> DEFINE n == worker.key
               c == SyncConditions(worker.obj.conditions, worker.provider)
               obj == [worker.obj EXCEPT !.conditions = c]
    <3>1. CASE PatchNodeClass(obj, Idle(worker))
      <4>1. n \in Names /\ worker.obj \in NodeClass /\ worker.provider \in Conditions
        BY WorkerType
      <4>2. obj.conditions = c /\ worker.obj.conditions \in Conditions
        BY <4>1 DEF NodeClass
      <4>3. c["Ready"].status = "True" => c["VersionResolved"].status = "True"
        BY <4>1, <4>2, SyncedReady
      <4>4. nc' = [nc EXCEPT ![n] = obj]
        BY <3>1 DEF PatchNodeClass
      <4> HIDE DEF c, obj
      <4> QED
        BY <4>1, <4>2, <4>3, <4>4, ReadyWrite
    <3> QED BY <2>1, <2>4, <3>1 DEF PatchStatus
  <2>5. CASE RemoveFinalizer
    BY <2>1, <2>2, <2>5, WorkerType, ReadyWrite DEF RemoveFinalizer, PatchNodeClass
  <2>6. ASSUME NEW n \in Names, NEW pinned \in BOOLEAN, NEW disk \in DiskSizes,
               CreateNodeClass(n, pinned, disk)
        PROVE  BecomesReady
    <3> DEFINE obj == [NoNodeClass EXCEPT !.exists = TRUE, !.pinned = pinned, !.disk = disk]
    <3>1. obj.conditions = NoNodeClass.conditions
      BY DEF NoNodeClass
    <3>2. nc' = [nc EXCEPT ![n] = obj]
      BY <2>6 DEF CreateNodeClass, WriteNodeClass
    <3> HIDE DEF obj
    <3> QED
      BY <2>2, <3>1, <3>2, ReadyWrite
  <2>7. ASSUME NEW n \in Names, NEW pinned \in BOOLEAN, NEW disk \in DiskSizes,
               EditNodeClass(n, pinned, disk)
        PROVE  BecomesReady
    <3> DEFINE obj == [nc[n] EXCEPT !.pinned = pinned, !.disk = disk]
    <3>1. nc[n] \in NodeClass
      BY DEF TypeOK
    <3>2. obj.conditions = nc[n].conditions
      BY <3>1 DEF NodeClass
    <3>3. nc' = [nc EXCEPT ![n] = obj]
      BY <2>7 DEF EditNodeClass, WriteNodeClass
    <3> HIDE DEF obj
    <3> QED
      BY <3>2, <3>3, ReadyWrite
  <2>8. ASSUME NEW n \in Names, DeleteNodeClass(n)
        PROVE  BecomesReady
    <3> DEFINE obj == Deleted(nc[n], nc[n].finalizer, NoNodeClass)
    <3>1. nc[n] \in NodeClass
      BY DEF TypeOK
    <3>2. obj = NoNodeClass \/ obj.conditions = nc[n].conditions
      BY <3>1 DEF Deleted, NodeClass
    <3>3. nc' = [nc EXCEPT ![n] = obj]
      BY <2>8 DEF DeleteNodeClass, WriteNodeClass
    <3> HIDE DEF obj
    <3> QED
      BY <2>2, <3>2, <3>3, ReadyWrite
  <2>9. ASSUME NEW n \in Names, NEW status \in {"True", "False"}, ResolveVersion(n, status)
        PROVE  BecomesReady
    <3> DEFINE obj == [nc[n] EXCEPT !.conditions["VersionResolved"] =
                          [status |-> status, time |-> Now]]
    <3>1. nc[n] \in NodeClass
      BY DEF TypeOK
    <3>2. obj.conditions["Ready"] = nc[n].conditions["Ready"]
      BY <3>1 DEF NodeClass, Conditions, CondTypes
    <3>3. nc' = [nc EXCEPT ![n] = obj]
      BY <2>9 DEF ResolveVersion, WriteNodeClass
    <3> HIDE DEF obj
    <3> QED
      BY <3>2, <3>3, ReadyWrite
  <2> HIDE DEF BecomesReady
  <2>10. CASE Environment
    BY <2>1, <2>6, <2>7, <2>8, <2>9, <2>10
       DEF Environment, ReportReadiness, CreateSecret, RotateToken, DeleteSecret, AddTermination,
           ReleaseAKSNodeClass, TamperAKSNodeClass, CreateHCP, CompleteUpgrade, DeleteHCP,
           SetDesiredRelease, ChangeHCP
  <2> QED
    BY <2>1, <2>3, <2>4, <2>5, <2>10
       DEF Next, WorkerStep, Informers, Reconcile, Apply, DeleteAKSNodeClass, CallFails, Restart,
           SyncNodeClasses, SyncAKSNodeClasses, SyncSecrets, SyncHCP, vars, apiVars
<1>2. [][BecomesReady]_vars => ReadyOnlyWhenResolved
  BY DEF BecomesReady, ReadyOnlyWhenResolved
<1> QED
  BY <1>1, <1>2, TypeCorrect, HeldThroughout, PTL DEF Spec

-----------------------------------------------------------------------------
(* The refinement.  The controller implements ProviderNodeClass, and the user *)
(* data of an AKSNodeClass only moves forward.  Beyond Held this needs what  *)
(* an update of an AKSNodeClass starts from.                                 *)

(* A cached AKSNodeClass whose resourceVersion is current is the AKSNodeClass, *)
(* and none that does not exist is marked deleted.                             *)
AKSCacheCurrent ==
    \A n \in Names : /\ faks[n] => caks[n] = aks[n]
                     /\ ~aks[n].exists => ~aks[n].deleting
                     /\ ~caks[n].exists => ~caks[n].deleting

owner == [n \in Names |-> PhaseOf(nc[n])]
provider == [n \in Names |-> PhaseOf(aks[n])]

(* A step of one NodeClass whose phases ProviderNodeClass allows. *)
LEMMA OwnerStep ==
  ASSUME TypeOK, NEW n \in Names, NEW obj, nc' = [nc EXCEPT ![n] = obj], UNCHANGED aks,
         \/ PhaseOf(obj) = PhaseOf(nc[n])
         \/ PhaseOf(nc[n]) = "absent" /\ PhaseOf(obj) = "live" /\ ~aks[n].exists
         \/ PhaseOf(nc[n]) = "live" /\ PhaseOf(obj) = "terminating"
         \/ PhaseOf(nc[n]) # "absent" /\ PhaseOf(obj) = "absent" /\ ~aks[n].exists
  PROVE  [Abstract!Next]_<<owner, provider>>
<1>1. owner' = [owner EXCEPT ![n] = PhaseOf(obj)]
  BY DEF owner, TypeOK
<1>2. UNCHANGED provider
  BY DEF provider
<1>3. owner[n] = PhaseOf(nc[n]) /\ (~aks[n].exists => provider[n] = "absent")
  BY DEF owner, provider, PhaseOf
<1>4. CASE PhaseOf(obj) = PhaseOf(nc[n])
  BY <1>1, <1>2, <1>3, <1>4 DEF owner
<1>5. CASE PhaseOf(nc[n]) = "absent" /\ PhaseOf(obj) = "live" /\ ~aks[n].exists
  <2>1. Abstract!CreateOwner(n)
    BY <1>1, <1>2, <1>3, <1>5 DEF Abstract!CreateOwner, owner, provider
  <2> QED BY <2>1 DEF Abstract!Next
<1>6. CASE PhaseOf(nc[n]) = "live" /\ PhaseOf(obj) = "terminating"
  <2>1. Abstract!TerminateOwner(n)
    BY <1>1, <1>2, <1>3, <1>6 DEF Abstract!TerminateOwner, owner, provider
  <2> QED BY <2>1 DEF Abstract!Next
<1>7. CASE PhaseOf(nc[n]) # "absent" /\ PhaseOf(obj) = "absent" /\ ~aks[n].exists
  <2>1. Abstract!ReleaseOwner(n)
    BY <1>1, <1>2, <1>3, <1>7 DEF Abstract!ReleaseOwner, owner, provider
  <2> QED BY <2>1 DEF Abstract!Next
<1> QED BY <1>4, <1>5, <1>6, <1>7

(* A step of one AKSNodeClass. *)
LEMMA ProviderStep ==
  ASSUME TypeOK, NEW n \in Names, NEW obj, aks' = [aks EXCEPT ![n] = obj], UNCHANGED nc,
         \/ PhaseOf(obj) = PhaseOf(aks[n])
         \/ PhaseOf(aks[n]) = "absent" /\ PhaseOf(obj) = "live" /\ nc[n].exists
         \/ PhaseOf(aks[n]) = "live" /\ PhaseOf(obj) = "terminating"
         \/ PhaseOf(aks[n]) # "absent" /\ PhaseOf(obj) = "absent"
  PROVE  [Abstract!Next]_<<owner, provider>>
<1>1. provider' = [provider EXCEPT ![n] = PhaseOf(obj)]
  BY DEF provider, TypeOK
<1>2. UNCHANGED owner
  BY DEF owner
<1>3. provider[n] = PhaseOf(aks[n]) /\ (nc[n].exists => owner[n] # "absent")
  BY DEF owner, provider, PhaseOf
<1>4. CASE PhaseOf(obj) = PhaseOf(aks[n])
  BY <1>1, <1>2, <1>3, <1>4 DEF provider
<1>5. CASE PhaseOf(aks[n]) = "absent" /\ PhaseOf(obj) = "live" /\ nc[n].exists
  <2>1. Abstract!CreateProvider(n)
    BY <1>1, <1>2, <1>3, <1>5 DEF Abstract!CreateProvider, owner, provider
  <2> QED BY <2>1 DEF Abstract!Next
<1>6. CASE PhaseOf(aks[n]) = "live" /\ PhaseOf(obj) = "terminating"
  <2>1. Abstract!TerminateProvider(n)
    BY <1>1, <1>2, <1>3, <1>6 DEF Abstract!TerminateProvider, owner, provider
  <2> QED BY <2>1 DEF Abstract!Next
<1>7. CASE PhaseOf(aks[n]) # "absent" /\ PhaseOf(obj) = "absent"
  <2>1. Abstract!ReleaseProvider(n)
    BY <1>1, <1>2, <1>3, <1>7 DEF Abstract!ReleaseProvider, owner, provider
  <2> QED BY <2>1 DEF Abstract!Next
<1> QED BY <1>4, <1>5, <1>6, <1>7

-----------------------------------------------------------------------------
(* AKSCacheCurrent *)

LEMMA AKSWrite ==
  ASSUME TypeOK, AKSCacheCurrent, NEW n \in Names, NEW obj, WriteAKSNodeClass(n, obj),
         ~obj.exists => ~obj.deleting, UNCHANGED caks
  PROVE  AKSCacheCurrent'
  BY DEF AKSCacheCurrent, WriteAKSNodeClass, TypeOK

LEMMA AKSElsewhere ==
  ASSUME AKSCacheCurrent, UNCHANGED <<aks, caks, faks>>
  PROVE  AKSCacheCurrent'
  BY DEF AKSCacheCurrent

(* Marking an object deleted, or removing it. *)
LEMMA DeletedAKS ==
  ASSUME NEW obj \in AKSNodeClass, obj.exists, ~obj.deleting
  PROVE  LET d == Deleted(obj, obj.termination, NoAKSNodeClass)
         IN  /\ ~d.exists => ~d.deleting
             /\ PhaseOf(d) \in {"terminating", "absent"}
  BY DEF Deleted, NoAKSNodeClass, AKSNodeClass, PhaseOf

(* The mutate function changes neither the deletion mark nor conditions, and *)
(* its result exists.                                                        *)
LEMMA MutateKeeps ==
  ASSUME NEW current \in AKSNodeClass, NEW obj, NEW h, NEW v
  PROVE  LET d == MutateAKSNodeClass(current, obj, h, v)
         IN  d.exists /\ d.deleting = current.deleting
  BY DEF MutateAKSNodeClass, AKSNodeClass

LEMMA AKSCacheCurrentThroughout == Spec => []AKSCacheCurrent
<1>1. Init => AKSCacheCurrent
  BY DEF Init, AKSCacheCurrent, NoAKSNodeClass
<1>2. TypeOK /\ AKSCacheCurrent /\ [Next]_vars => AKSCacheCurrent'
  <2> SUFFICES ASSUME TypeOK, AKSCacheCurrent, [Next]_vars PROVE AKSCacheCurrent'
    OBVIOUS
  <2>1. CASE Apply
    <3> DEFINE n == worker.key
    <3>1. CASE UNCHANGED <<aks, faks>>
      BY <2>1, <3>1, AKSElsewhere DEF Apply
    <3>2. ASSUME NEW v, WriteAKSNodeClass(n, MutateAKSNodeClass(caks[n], worker.obj, chcp, v))
          PROVE  AKSCacheCurrent'
      <4>1. n \in Names /\ caks[n] \in AKSNodeClass
        BY WorkerType DEF TypeOK
      <4>2. MutateAKSNodeClass(caks[n], worker.obj, chcp, v).exists
        BY <4>1, MutateKeeps
      <4> QED
        BY <2>1, <3>2, <4>1, <4>2, AKSWrite DEF Apply
    <3> QED BY <2>1, <3>1, <3>2 DEF Apply, CreateOrUpdate
  <2>2. CASE DeleteAKSNodeClass
    <3> DEFINE n == worker.key
    <3>1. CASE UNCHANGED <<aks, faks>>
      BY <2>2, <3>1, AKSElsewhere DEF DeleteAKSNodeClass
    <3>2. CASE /\ aks[n].exists /\ ~aks[n].deleting
               /\ WriteAKSNodeClass(n, Deleted(aks[n], aks[n].termination, NoAKSNodeClass))
      <4>1. n \in Names /\ aks[n] \in AKSNodeClass
        BY WorkerType DEF TypeOK
      <4> QED
        BY <2>2, <3>2, <4>1, DeletedAKS, AKSWrite DEF DeleteAKSNodeClass
    <3> QED BY <2>2, <3>1, <3>2 DEF DeleteAKSNodeClass
  <2>3. CASE \E n \in Names : AddTermination(n) \/ ReleaseAKSNodeClass(n) \/ TamperAKSNodeClass(n)
                             \/ \E status \in {"True", "False"} : ReportReadiness(n, status)
    <3>1. PICK n \in Names : AddTermination(n) \/ ReleaseAKSNodeClass(n) \/ TamperAKSNodeClass(n)
                             \/ \E status \in {"True", "False"} : ReportReadiness(n, status)
      BY <2>3
    <3>2. aks[n] \in AKSNodeClass
      BY DEF TypeOK
    <3>3. CASE AddTermination(n)
      <4>1. [aks[n] EXCEPT !.termination = TRUE].exists
        BY <3>2, <3>3 DEF AddTermination, AKSNodeClass
      <4> QED
        BY <3>3, <4>1, AKSWrite DEF AddTermination
    <3>4. CASE ReleaseAKSNodeClass(n)
      BY <3>4, AKSWrite DEF ReleaseAKSNodeClass, NoAKSNodeClass
    <3>5. CASE TamperAKSNodeClass(n)
      BY <3>2, <3>5, DeletedAKS, AKSWrite DEF TamperAKSNodeClass
    <3>6. ASSUME NEW status \in {"True", "False"}, ReportReadiness(n, status)
          PROVE  AKSCacheCurrent'
      <4>1. [aks[n] EXCEPT !.conditions["Ready"] = [status |-> status, time |-> Now]].exists
        BY <3>2, <3>6 DEF ReportReadiness, AKSNodeClass
      <4> QED
        BY <3>6, <4>1, AKSWrite DEF ReportReadiness
    <3> QED BY <3>1, <3>3, <3>4, <3>5, <3>6
  <2>4. CASE SyncAKSNodeClasses \/ Restart
    BY <2>4 DEF SyncAKSNodeClasses, Restart, apiVars, AKSCacheCurrent
  <2>5. CASE UNCHANGED <<aks, caks, faks>>
    BY <2>5, AKSElsewhere
  <2> QED
    BY <2>1, <2>2, <2>3, <2>4, <2>5
       DEF Next, WorkerStep, Informers, Environment, Reconcile, AddFinalizer, PatchStatus,
           RemoveFinalizer, CallFails, SyncNodeClasses, SyncSecrets, SyncHCP, CreateNodeClass,
           EditNodeClass, DeleteNodeClass, ResolveVersion, CreateSecret, RotateToken,
           DeleteSecret, CreateHCP, CompleteUpgrade, DeleteHCP, SetDesiredRelease, ChangeHCP,
           vars, apiVars, cacheVars
<1> QED
  BY <1>1, <1>2, TypeCorrect, PTL DEF Spec

-----------------------------------------------------------------------------
(* Every behaviour of the controller and its surroundings is, seen through    *)
(* the phases of NodeClasses and AKSNodeClasses, one that ProviderNodeClass   *)
(* allows: an AKSNodeClass is created only for an owner that exists, and no   *)
(* owner goes while anything is left of its AKSNodeClass.                     *)
THEOREM ImplementsProviderNodeClass == Spec => Implements
<1>1. Init => Abstract!Init
  <2> SUFFICES ASSUME Init PROVE Abstract!Init
    OBVIOUS
  <2>1. \A n \in Names : PhaseOf(nc[n]) \in {"absent", "live"} /\ PhaseOf(aks[n]) = "absent"
    <3>1. PhaseOf(NoNodeClass) = "absent" /\ PhaseOf(NoAKSNodeClass) = "absent"
          /\ PhaseOf([NoNodeClass EXCEPT !.exists = TRUE]) = "live"
      BY DEF PhaseOf, NoNodeClass, NoAKSNodeClass
    <3> QED
      BY <3>1 DEF Init
  <2> QED
    BY <2>1 DEF Abstract!Init
<1>2. TypeOK /\ Held /\ AKSCacheCurrent /\ [Next]_vars => [Abstract!Next]_<<owner, provider>>
  <2> SUFFICES ASSUME TypeOK, Held, AKSCacheCurrent, [Next]_vars
               PROVE  [Abstract!Next]_<<owner, provider>>
    OBVIOUS
  <2>1. CASE UNCHANGED <<nc, aks>>
    BY <2>1 DEF owner, provider
  <2>2. CASE AddFinalizer
    <3> DEFINE n == worker.key
               obj == [worker.obj EXCEPT !.finalizer = TRUE]
    <3>1. CASE worker.fresh /\ PatchNodeClass(obj, [worker EXCEPT !.pc = "apply", !.obj = obj])
      <4>1. n \in Names /\ worker.obj = nc[n] /\ worker.obj \in NodeClass
        BY <2>2, <3>1, WorkerType DEF AddFinalizer, Held, WorkerHolds
      <4>2. PhaseOf(obj) = PhaseOf(nc[n])
        BY <4>1 DEF PhaseOf, NodeClass
      <4>3. nc' = [nc EXCEPT ![n] = obj] /\ UNCHANGED aks
        BY <2>2, <3>1 DEF AddFinalizer, PatchNodeClass
      <4> HIDE DEF obj
      <4> QED
        BY <4>1, <4>2, <4>3, OwnerStep
    <3> QED BY <2>1, <2>2, <3>1 DEF AddFinalizer
  <2>3. CASE PatchStatus
    <3> DEFINE n == worker.key
               c == SyncConditions(worker.obj.conditions, worker.provider)
               obj == [worker.obj EXCEPT !.conditions = c]
    <3>1. CASE worker.fresh /\ PatchNodeClass(obj, Idle(worker))
      <4>1. n \in Names /\ worker.obj = nc[n] /\ worker.obj \in NodeClass
        BY <2>3, <3>1, WorkerType DEF PatchStatus, Held, WorkerHolds
      <4>2. PhaseOf(obj) = PhaseOf(nc[n])
        BY <4>1 DEF PhaseOf, NodeClass
      <4>3. nc' = [nc EXCEPT ![n] = obj] /\ UNCHANGED aks
        BY <2>3, <3>1 DEF PatchStatus, PatchNodeClass
      <4> HIDE DEF obj
      <4> QED
        BY <4>1, <4>2, <4>3, OwnerStep
    <3> QED BY <2>1, <2>3, <3>1 DEF PatchStatus
  <2>4. CASE RemoveFinalizer
    <3> DEFINE n == worker.key
    <3>1. CASE worker.fresh /\ PatchNodeClass(NoNodeClass, Idle(worker))
      <4>1. n \in Names /\ ~aks[n].exists
        BY <2>4, <3>1, WorkerType DEF RemoveFinalizer, Held, WorkerHolds
      <4>2. PhaseOf(NoNodeClass) = "absent"
        BY DEF PhaseOf, NoNodeClass
      <4>3. nc' = [nc EXCEPT ![n] = NoNodeClass] /\ UNCHANGED aks
        BY <2>4, <3>1 DEF RemoveFinalizer, PatchNodeClass
      <4> QED
        BY <4>1, <4>2, <4>3, OwnerStep
    <3> QED BY <2>1, <2>4, <3>1 DEF RemoveFinalizer
  <2>5. CASE Apply
    <3> DEFINE n == worker.key
    <3>1. ASSUME NEW v,
                 IF caks[n].exists THEN faks[n] ELSE ~aks[n].exists,
                 WriteAKSNodeClass(n, MutateAKSNodeClass(caks[n], worker.obj, chcp, v))
          PROVE  [Abstract!Next]_<<owner, provider>>
      <4> DEFINE desired == MutateAKSNodeClass(caks[n], worker.obj, chcp, v)
      <4>1. n \in Names /\ caks[n] \in AKSNodeClass /\ nc[n].exists
        BY <2>5, WorkerType DEF TypeOK, Apply, Held, WorkerHolds
      <4>2. desired.exists /\ desired.deleting = caks[n].deleting
        BY <4>1, MutateKeeps
      <4>3. aks' = [aks EXCEPT ![n] = desired] /\ UNCHANGED nc
        BY <2>5, <3>1 DEF Apply, WriteAKSNodeClass
      <4> HIDE DEF desired
      <4>4. \/ PhaseOf(desired) = PhaseOf(aks[n])
            \/ PhaseOf(aks[n]) = "absent" /\ PhaseOf(desired) = "live"
        BY <3>1, <4>1, <4>2 DEF AKSCacheCurrent, PhaseOf
      <4> QED
        BY <4>1, <4>3, <4>4, ProviderStep
    <3> QED BY <2>1, <2>5, <3>1 DEF Apply, CreateOrUpdate
  <2>6. CASE DeleteAKSNodeClass
    <3> DEFINE n == worker.key
    <3>1. CASE /\ aks[n].exists /\ ~aks[n].deleting
               /\ WriteAKSNodeClass(n, Deleted(aks[n], aks[n].termination, NoAKSNodeClass))
      <4>1. n \in Names /\ aks[n] \in AKSNodeClass /\ PhaseOf(aks[n]) = "live"
        BY <3>1, WorkerType DEF TypeOK, PhaseOf
      <4>2. PhaseOf(Deleted(aks[n], aks[n].termination, NoAKSNodeClass)) \in {"terminating", "absent"}
        BY <3>1, <4>1, DeletedAKS
      <4> QED
        BY <2>6, <3>1, <4>1, <4>2, ProviderStep DEF DeleteAKSNodeClass, WriteAKSNodeClass
    <3> QED BY <2>1, <2>6, <3>1 DEF DeleteAKSNodeClass
  <2>7. ASSUME NEW n \in Names, NEW pinned \in BOOLEAN, NEW disk \in DiskSizes,
               CreateNodeClass(n, pinned, disk)
        PROVE  [Abstract!Next]_<<owner, provider>>
    <3> DEFINE obj == [NoNodeClass EXCEPT !.exists = TRUE, !.pinned = pinned, !.disk = disk]
    <3>1. PhaseOf(obj) = "live"
      BY DEF PhaseOf, NoNodeClass
    <3>2. nc' = [nc EXCEPT ![n] = obj] /\ UNCHANGED aks /\ ~nc[n].exists
      BY <2>7 DEF CreateNodeClass, WriteNodeClass
    <3>3. PhaseOf(nc[n]) = "absent" /\ ~aks[n].exists
      BY <3>2 DEF PhaseOf, Held, NoOrphan
    <3> HIDE DEF obj
    <3> QED
      BY <3>1, <3>2, <3>3, OwnerStep
  <2>8. ASSUME NEW n \in Names, NEW pinned \in BOOLEAN, NEW disk \in DiskSizes,
               EditNodeClass(n, pinned, disk)
        PROVE  [Abstract!Next]_<<owner, provider>>
    <3> DEFINE obj == [nc[n] EXCEPT !.pinned = pinned, !.disk = disk]
    <3>1. nc[n] \in NodeClass
      BY DEF TypeOK
    <3>2. PhaseOf(obj) = PhaseOf(nc[n])
      BY <3>1 DEF PhaseOf, NodeClass
    <3>3. nc' = [nc EXCEPT ![n] = obj] /\ UNCHANGED aks
      BY <2>8 DEF EditNodeClass, WriteNodeClass
    <3> HIDE DEF obj
    <3> QED
      BY <3>2, <3>3, OwnerStep
  <2>9. ASSUME NEW n \in Names, NEW status \in {"True", "False"}, ResolveVersion(n, status)
        PROVE  [Abstract!Next]_<<owner, provider>>
    <3> DEFINE obj == [nc[n] EXCEPT !.conditions["VersionResolved"] = [status |-> status, time |-> Now]]
    <3>1. nc[n] \in NodeClass
      BY DEF TypeOK
    <3>2. PhaseOf(obj) = PhaseOf(nc[n])
      BY <3>1 DEF PhaseOf, NodeClass
    <3>3. nc' = [nc EXCEPT ![n] = obj] /\ UNCHANGED aks
      BY <2>9 DEF ResolveVersion, WriteNodeClass
    <3> HIDE DEF obj
    <3> QED
      BY <3>2, <3>3, OwnerStep
  <2>10. ASSUME NEW n \in Names, DeleteNodeClass(n)
         PROVE  [Abstract!Next]_<<owner, provider>>
    <3> DEFINE obj == Deleted(nc[n], nc[n].finalizer, NoNodeClass)
    <3>1. nc[n] \in NodeClass /\ PhaseOf(nc[n]) = "live"
      BY <2>10 DEF TypeOK, DeleteNodeClass, PhaseOf
    <3>2. \/ PhaseOf(obj) = "terminating"
          \/ PhaseOf(obj) = "absent" /\ ~nc[n].finalizer
      BY <2>10, <3>1 DEF DeleteNodeClass, Deleted, PhaseOf, NodeClass, NoNodeClass
    <3>3. nc' = [nc EXCEPT ![n] = obj] /\ UNCHANGED aks
      BY <2>10 DEF DeleteNodeClass, WriteNodeClass
    <3>4. ~nc[n].finalizer => ~aks[n].exists
      BY DEF Held, NoOrphan
    <3> HIDE DEF obj
    <3> QED
      BY <3>1, <3>2, <3>3, <3>4, OwnerStep
  <2>11. ASSUME NEW n \in Names, NEW status \in {"True", "False"}, ReportReadiness(n, status)
         PROVE  [Abstract!Next]_<<owner, provider>>
    <3> DEFINE obj == [aks[n] EXCEPT !.conditions["Ready"] = [status |-> status, time |-> Now]]
    <3>1. aks[n] \in AKSNodeClass
      BY DEF TypeOK
    <3>2. PhaseOf(obj) = PhaseOf(aks[n])
      BY <3>1 DEF PhaseOf, AKSNodeClass
    <3>3. aks' = [aks EXCEPT ![n] = obj] /\ UNCHANGED nc
      BY <2>11 DEF ReportReadiness, WriteAKSNodeClass
    <3> HIDE DEF obj
    <3> QED
      BY <3>2, <3>3, ProviderStep
  <2>12. ASSUME NEW n \in Names, AddTermination(n)
         PROVE  [Abstract!Next]_<<owner, provider>>
    <3>1. aks[n] \in AKSNodeClass
      BY DEF TypeOK
    <3>2. PhaseOf([aks[n] EXCEPT !.termination = TRUE]) = PhaseOf(aks[n])
      BY <3>1 DEF PhaseOf, AKSNodeClass
    <3> QED
      BY <2>12, <3>2, ProviderStep DEF AddTermination, WriteAKSNodeClass
  <2>13. ASSUME NEW n \in Names, ReleaseAKSNodeClass(n)
         PROVE  [Abstract!Next]_<<owner, provider>>
    <3>1. PhaseOf(NoAKSNodeClass) = "absent" /\ PhaseOf(aks[n]) # "absent"
      BY <2>13 DEF PhaseOf, NoAKSNodeClass, ReleaseAKSNodeClass
    <3> QED
      BY <2>13, <3>1, ProviderStep DEF ReleaseAKSNodeClass, WriteAKSNodeClass
  <2>14. ASSUME NEW n \in Names, TamperAKSNodeClass(n)
         PROVE  [Abstract!Next]_<<owner, provider>>
    <3>1. aks[n] \in AKSNodeClass /\ PhaseOf(aks[n]) = "live"
      BY <2>14 DEF TypeOK, TamperAKSNodeClass, PhaseOf
    <3>2. PhaseOf(Deleted(aks[n], aks[n].termination, NoAKSNodeClass)) \in {"terminating", "absent"}
      BY <2>14, <3>1, DeletedAKS DEF TamperAKSNodeClass
    <3> QED
      BY <2>14, <3>1, <3>2, ProviderStep DEF TamperAKSNodeClass, WriteAKSNodeClass
  <2>15. Environment => [Abstract!Next]_<<owner, provider>>
    BY <2>1, <2>7, <2>8, <2>9, <2>10, <2>11, <2>12, <2>13, <2>14
       DEF Environment, CreateSecret, RotateToken, DeleteSecret, CreateHCP, CompleteUpgrade,
           DeleteHCP, SetDesiredRelease, ChangeHCP
  <2> QED
    BY <2>1, <2>2, <2>3, <2>4, <2>5, <2>6, <2>15
       DEF Next, WorkerStep, Informers, Reconcile, CallFails, Restart, SyncNodeClasses,
           SyncAKSNodeClasses, SyncSecrets, SyncHCP, vars, apiVars
<1>3. Implements <=> Abstract!Init /\ [][Abstract!Next]_<<owner, provider>>
  BY DEF Implements, Abstract!Spec, owner, provider
<1> QED
  BY <1>1, <1>2, <1>3, TypeCorrect, HeldThroughout, AKSCacheCurrentThroughout, PTL DEF Spec

-----------------------------------------------------------------------------
(* User data.  As in EC2NodeClassProofs, no user data in use, or cached and    *)
(* held back by the next update, is newer than a Secret that still exists or   *)
(* is still cached.                                                            *)

CachedMatchesImage == \A n \in Names : caks[n].userData = caks[n].image

SecretsKnown ==
    \A n \in Names : \A u \in secrets[n] \cup csecrets[n] : u <= lastSecret

(* No Secret is older than all cached ones. *)
CachedFirst ==
    \A n \in Names : \A u \in secrets[n] :
        csecrets[n] # {} => \E w \in csecrets[n] : w <= u

(* User data x of NodeClass n precedes every Secret of it, now and later. *)
Precedes(x, n) == x <= lastSecret /\ \A u \in secrets[n] \cup csecrets[n] : x <= u

InUsePrecedes ==
    \A n \in Names : Precedes(aks[n].userData, n) /\ Precedes(caks[n].userData, n)

UserDataInv ==
    CachedMatchesImage /\ UserDataMatchesImage /\ SecretsKnown /\ CachedFirst /\ InUsePrecedes

NoRollBack ==
    \A n \in Names : aks[n].exists /\ aks'[n].exists => aks[n].userData <= aks'[n].userData

LEMMA AKSFields ==
  ASSUME TypeOK, NEW n \in Names
  PROVE  /\ aks[n].userData \in Nat /\ caks[n].userData \in Nat
         /\ secrets[n] \subseteq Nat /\ csecrets[n] \subseteq Nat /\ lastSecret \in Nat
  BY DEF TypeOK, AKSNodeClass

LEMMA UserDataInit == Init => UserDataInv
<1> SUFFICES ASSUME Init PROVE UserDataInv
  OBVIOUS
<1>1. CachedMatchesImage /\ UserDataMatchesImage /\ \A n \in Names : aks[n].userData = 0
  BY DEF Init, CachedMatchesImage, UserDataMatchesImage, NoAKSNodeClass
<1>2. SecretsKnown /\ CachedFirst
  BY DEF Init, SecretsKnown, CachedFirst
<1>3. InUsePrecedes
  BY <1>1 DEF Init, InUsePrecedes, Precedes
<1> QED
  BY <1>1, <1>2, <1>3 DEF UserDataInv

(* A write that takes user data and image from the same source, which         *)
(* precedes all Secrets and does not precede what the AKSNodeClass has now.   *)
LEMMA UserDataWrite ==
  ASSUME TypeOK, UserDataInv, NEW n \in Names, NEW obj, WriteAKSNodeClass(n, obj),
         obj.userData = obj.image, Precedes(obj.userData, n),
         aks[n].exists /\ obj.exists => aks[n].userData <= obj.userData,
         UNCHANGED <<caks, secrets, csecrets, lastSecret>>
  PROVE  UserDataInv' /\ NoRollBack
<1>1. aks'[n] = obj /\ \A m \in Names \ {n} : aks'[m] = aks[m]
  BY DEF WriteAKSNodeClass, TypeOK
<1>2. CachedMatchesImage' /\ UserDataMatchesImage' /\ SecretsKnown' /\ CachedFirst'
  BY <1>1 DEF UserDataInv, CachedMatchesImage, UserDataMatchesImage, SecretsKnown, CachedFirst
<1>3. InUsePrecedes'
  BY <1>1 DEF UserDataInv, InUsePrecedes, Precedes
<1>4. NoRollBack
  <2>1. ASSUME NEW m \in Names \ {n} PROVE aks[m].userData <= aks'[m].userData
    BY <1>1, AKSFields
  <2> QED
    BY <1>1, <2>1 DEF NoRollBack
<1> QED BY <1>2, <1>3, <1>4 DEF UserDataInv

(* Karpenter, and a deletion, keep the user data or remove the AKSNodeClass. *)
LEMMA UserDataKept ==
  ASSUME TypeOK, UserDataInv, NEW n \in Names, NEW obj, WriteAKSNodeClass(n, obj),
         obj = NoAKSNodeClass \/ (obj.userData = aks[n].userData /\ obj.image = aks[n].image),
         UNCHANGED <<caks, secrets, csecrets, lastSecret>>
  PROVE  UserDataInv' /\ NoRollBack
<1>1. CASE obj = NoAKSNodeClass
  <2>1. obj.userData = 0 /\ obj.image = 0 /\ ~obj.exists
    BY <1>1 DEF NoAKSNodeClass
  <2>2. Precedes(obj.userData, n)
    BY <2>1, AKSFields DEF Precedes
  <2> QED
    BY <2>1, <2>2, UserDataWrite
<1>2. CASE obj.userData = aks[n].userData /\ obj.image = aks[n].image
  <2>1. obj.userData = obj.image /\ Precedes(obj.userData, n) /\ aks[n].userData <= obj.userData
    BY <1>2, AKSFields DEF UserDataInv, UserDataMatchesImage, InUsePrecedes
  <2> QED
    BY <2>1, UserDataWrite
<1> QED BY <1>1, <1>2

(* Caches catch up, or nothing changes here. *)
LEMMA UserDataSync ==
  ASSUME TypeOK, UserDataInv, UNCHANGED <<aks, secrets, lastSecret>>,
         caks' = aks \/ UNCHANGED caks,
         csecrets' = secrets \/ UNCHANGED csecrets
  PROVE  UserDataInv' /\ NoRollBack
<1>1. CachedMatchesImage' /\ UserDataMatchesImage'
  BY DEF UserDataInv, CachedMatchesImage, UserDataMatchesImage
<1>2. SecretsKnown' /\ CachedFirst'
  <2>1. \A n \in Names : \A u \in secrets[n] : u <= u
    BY AKSFields
  <2> QED
    BY <2>1 DEF UserDataInv, SecretsKnown, CachedFirst
<1>3. InUsePrecedes'
  BY DEF UserDataInv, InUsePrecedes, Precedes
<1>4. NoRollBack
  BY AKSFields DEF NoRollBack
<1> QED BY <1>1, <1>2, <1>3, <1>4 DEF UserDataInv

(* HyperShift changes the Secrets of a NodeClass: what it adds is new. *)
LEMMA UserDataSecrets ==
  ASSUME TypeOK, UserDataInv, NEW n \in Names, NEW S, secrets' = [secrets EXCEPT ![n] = S],
         \/ S \subseteq secrets[n] /\ lastSecret' = lastSecret
         \/ S \subseteq secrets[n] \cup {lastSecret + 1} /\ lastSecret' = lastSecret + 1,
         UNCHANGED <<aks, caks, csecrets>>
  PROVE  UserDataInv' /\ NoRollBack
<1>1. lastSecret \in Nat /\ lastSecret' \in Nat /\ lastSecret <= lastSecret'
  BY DEF TypeOK
<1>2. ASSUME NEW m \in Names, NEW u \in secrets'[m]
      PROVE  u \in secrets[m] \/ (u = lastSecret' /\ lastSecret' = lastSecret + 1)
  BY DEF TypeOK
<1>3. CachedMatchesImage' /\ UserDataMatchesImage'
  BY DEF UserDataInv, CachedMatchesImage, UserDataMatchesImage
<1>4. SecretsKnown'
  <2>1. ASSUME NEW m \in Names, NEW u \in secrets'[m] \cup csecrets[m] PROVE u <= lastSecret'
    BY <1>1, <1>2, <2>1, AKSFields DEF UserDataInv, SecretsKnown
  <2> QED
    BY <2>1 DEF SecretsKnown
<1>5. CachedFirst'
  <2>1. ASSUME NEW m \in Names, NEW u \in secrets'[m], NEW c \in csecrets[m]
        PROVE  \E w \in csecrets[m] : w <= u
    <3>1. CASE u \in secrets[m]
      BY <2>1, <3>1 DEF UserDataInv, CachedFirst
    <3>2. CASE u = lastSecret' /\ lastSecret' = lastSecret + 1
      <4>1. c <= lastSecret /\ c \in Nat
        BY AKSFields DEF UserDataInv, SecretsKnown
      <4> QED
        BY <1>1, <3>2, <4>1
    <3> QED BY <1>2, <3>1, <3>2
  <2> QED
    BY <2>1 DEF CachedFirst
<1>6. InUsePrecedes'
  <2>1. ASSUME NEW m \in Names, NEW x \in Nat, Precedes(x, m) PROVE Precedes(x, m)'
    <3>1. \A u \in secrets'[m] : x <= u
      BY <1>1, <1>2, <2>1, AKSFields DEF Precedes
    <3>2. x <= lastSecret'
      BY <1>1, <2>1 DEF Precedes
    <3> QED
      BY <2>1, <3>1, <3>2 DEF Precedes
  <2>2. ASSUME NEW m \in Names
        PROVE  Precedes(aks[m].userData, m)' /\ Precedes(caks[m].userData, m)'
    <3>1. aks[m].userData \in Nat /\ caks[m].userData \in Nat
      BY AKSFields
    <3>2. Precedes(aks[m].userData, m) /\ Precedes(caks[m].userData, m)
      BY DEF UserDataInv, InUsePrecedes
    <3>3. aks'[m].userData = aks[m].userData /\ caks'[m].userData = caks[m].userData
      OBVIOUS
    <3> QED
      BY <2>1, <3>1, <3>2, <3>3 DEF Precedes
  <2> QED
    BY <2>2 DEF InUsePrecedes
<1>7. NoRollBack
  BY AKSFields DEF NoRollBack
<1> QED BY <1>3, <1>4, <1>5, <1>6, <1>7 DEF UserDataInv

(* The mutate function takes user data and image from the same source. *)
LEMMA MutateSource ==
  ASSUME NEW current \in AKSNodeClass, NEW obj, NEW h, NEW v
  PROVE  LET d == MutateAKSNodeClass(current, obj, h, v)
         IN  \/ d.userData = current.userData /\ d.image = current.image
             \/ d.userData = v /\ d.image = v
  BY DEF MutateAKSNodeClass, AKSNodeClass

(* CreateOrUpdate writes the one Secret the cache shows, or holds back what    *)
(* the cached AKSNodeClass has; the API server accepts it only from a current  *)
(* copy.                                                                       *)
LEMMA UserDataApply ==
  ASSUME TypeOK, AKSCacheCurrent, UserDataInv, Apply
  PROVE  UserDataInv' /\ NoRollBack
<1> DEFINE n == worker.key
<1>1. UNCHANGED <<caks, secrets, csecrets, lastSecret>>
  BY DEF Apply
<1>2. CASE UNCHANGED aks
  BY <1>1, <1>2, UserDataSync
<1>3. ASSUME NEW v \in csecrets[n], GetUserDataSecret(csecrets[n], v),
             CreateOrUpdate(n, MutateAKSNodeClass(caks[n], worker.obj, chcp, v))
      PROVE  UserDataInv' /\ NoRollBack
  <2> DEFINE desired == MutateAKSNodeClass(caks[n], worker.obj, chcp, v)
  <2>1. n \in Names /\ caks[n] \in AKSNodeClass /\ v \in Nat
    BY WorkerType DEF TypeOK
  <2>2. \/ desired.userData = caks[n].userData /\ desired.image = caks[n].image
        \/ desired.userData = v /\ desired.image = v
    BY <2>1, MutateSource
  <2>3. CreateOrUpdate(n, desired)
    BY <1>3
  <2> HIDE DEF desired
  <2>4. Precedes(v, n)
    <3>1. csecrets[n] = {v}
      BY <1>3 DEF GetUserDataSecret
    <3>2. v <= lastSecret
      BY <2>1 DEF UserDataInv, SecretsKnown
    <3>3. \A u \in secrets[n] : v <= u
      BY <2>1, <3>1 DEF UserDataInv, CachedFirst
    <3>4. \A u \in csecrets[n] : v <= u
      BY <2>1, <3>1
    <3> QED
      BY <3>2, <3>3, <3>4 DEF Precedes
  <2>5. desired.userData = desired.image /\ Precedes(desired.userData, n)
    BY <2>1, <2>2, <2>4 DEF UserDataInv, CachedMatchesImage, InUsePrecedes
  <2>6. CASE (IF caks[n].exists THEN faks[n] ELSE ~aks[n].exists) /\ WriteAKSNodeClass(n, desired)
    <3>1. aks[n].exists => caks[n] = aks[n]
      BY <2>1, <2>6 DEF AKSCacheCurrent
    <3>2. aks[n].userData <= v /\ aks[n].userData <= aks[n].userData
      BY <2>1, AKSFields DEF UserDataInv, InUsePrecedes, Precedes
    <3>3. aks[n].exists => aks[n].userData <= desired.userData
      BY <2>2, <3>1, <3>2
    <3> QED
      BY <1>1, <2>1, <2>5, <2>6, <3>3, UserDataWrite
  <2> QED
    BY <1>2, <2>3, <2>6 DEF CreateOrUpdate
<1> QED
  BY <1>2, <1>3 DEF Apply

LEMMA UserDataNext ==
  TypeOK /\ AKSCacheCurrent /\ UserDataInv /\ [Next]_vars => UserDataInv' /\ NoRollBack
<1> SUFFICES ASSUME TypeOK, AKSCacheCurrent, UserDataInv, [Next]_vars
             PROVE  UserDataInv' /\ NoRollBack
  OBVIOUS
<1>1. CASE UNCHANGED <<aks, caks, secrets, csecrets, lastSecret>>
  BY <1>1, UserDataSync
<1>2. CASE Apply
  BY <1>2, UserDataApply
<1>3. ASSUME NEW n \in Names,
             WriteAKSNodeClass(n, Deleted(aks[n], aks[n].termination, NoAKSNodeClass)),
             UNCHANGED <<caks, secrets, csecrets, lastSecret>>
      PROVE  UserDataInv' /\ NoRollBack
  <2> DEFINE obj == Deleted(aks[n], aks[n].termination, NoAKSNodeClass)
  <2>1. aks[n] \in AKSNodeClass
    BY DEF TypeOK
  <2>2. obj = NoAKSNodeClass \/ (obj.userData = aks[n].userData /\ obj.image = aks[n].image)
    BY <2>1 DEF Deleted, AKSNodeClass
  <2> HIDE DEF obj
  <2> QED
    BY <1>3, <2>2, UserDataKept DEF obj
<1>4. CASE DeleteAKSNodeClass
  BY <1>1, <1>3, <1>4, WorkerType DEF DeleteAKSNodeClass
<1>5. ASSUME NEW n \in Names,
             \/ AddTermination(n) \/ ReleaseAKSNodeClass(n) \/ TamperAKSNodeClass(n)
             \/ \E status \in {"True", "False"} : ReportReadiness(n, status)
      PROVE  UserDataInv' /\ NoRollBack
  <2>1. aks[n] \in AKSNodeClass
    BY DEF TypeOK
  <2>2. /\ [aks[n] EXCEPT !.termination = TRUE].userData = aks[n].userData
        /\ [aks[n] EXCEPT !.termination = TRUE].image = aks[n].image
    BY <2>1 DEF AKSNodeClass
  <2>3. CASE AddTermination(n)
    BY <2>2, <2>3, UserDataKept DEF AddTermination
  <2>4. CASE ReleaseAKSNodeClass(n)
    BY <2>4, UserDataKept DEF ReleaseAKSNodeClass
  <2>5. CASE TamperAKSNodeClass(n)
    BY <1>3, <2>5 DEF TamperAKSNodeClass
  <2>6. ASSUME NEW status \in {"True", "False"}, ReportReadiness(n, status)
        PROVE  UserDataInv' /\ NoRollBack
    <3> DEFINE obj == [aks[n] EXCEPT !.conditions["Ready"] = [status |-> status, time |-> Now]]
    <3>1. obj.userData = aks[n].userData /\ obj.image = aks[n].image
      BY <2>1 DEF AKSNodeClass
    <3>2. WriteAKSNodeClass(n, obj) /\ UNCHANGED <<caks, secrets, csecrets, lastSecret>>
      BY <2>6 DEF ReportReadiness
    <3> HIDE DEF obj
    <3> QED
      BY <3>1, <3>2, UserDataKept
  <2> QED BY <1>5, <2>3, <2>4, <2>5, <2>6
<1>6. ASSUME NEW n \in Names,
             CreateSecret(n) \/ \E v \in 1..MaxSecret : RotateToken(n, v) \/ DeleteSecret(n, v)
      PROVE  UserDataInv' /\ NoRollBack
  <2>1. \E S : /\ secrets' = [secrets EXCEPT ![n] = S]
               /\ \/ S \subseteq secrets[n] /\ lastSecret' = lastSecret
                  \/ S \subseteq secrets[n] \cup {lastSecret + 1} /\ lastSecret' = lastSecret + 1
    BY <1>6 DEF CreateSecret, RotateToken, DeleteSecret
  <2>2. UNCHANGED <<aks, caks, csecrets>>
    BY <1>6 DEF CreateSecret, RotateToken, DeleteSecret, cacheVars
  <2> QED
    BY <2>1, <2>2, UserDataSecrets
<1>7. CASE SyncAKSNodeClasses \/ SyncSecrets \/ Restart
  BY <1>7, UserDataSync DEF SyncAKSNodeClasses, SyncSecrets, Restart, apiVars
<1> QED
  BY <1>1, <1>2, <1>4, <1>5, <1>6, <1>7
     DEF Next, WorkerStep, Informers, Environment, Reconcile, AddFinalizer, PatchStatus,
         RemoveFinalizer, CallFails, SyncNodeClasses, SyncHCP, CreateNodeClass, EditNodeClass,
         DeleteNodeClass, ResolveVersion, CreateHCP, CompleteUpgrade, DeleteHCP,
         SetDesiredRelease, ChangeHCP, vars, apiVars, cacheVars

LEMMA UserDataThroughout == Spec => []UserDataInv
  BY UserDataInit, UserDataNext, TypeCorrect, AKSCacheCurrentThroughout, PTL DEF Spec

(* User data and image of an AKSNodeClass always come from the same Secret,    *)
(* whatever part of an upgrade was held back.                                  *)
THEOREM UserDataMatchesImageTheorem == Spec => []UserDataMatchesImage
<1>1. UserDataInv => UserDataMatchesImage
  BY DEF UserDataInv
<1> QED
  BY <1>1, UserDataThroughout, PTL

(* No AKSNodeClass returns to older user data, for any number of rotations,    *)
(* upgrades, conflicts and restarts.                                           *)
THEOREM UserDataNeverRollsBackTheorem == Spec => UserDataNeverRollsBack
<1>1. TypeOK /\ AKSCacheCurrent /\ UserDataInv /\ [Next]_vars => [NoRollBack]_vars
  BY UserDataNext
<1>2. [][NoRollBack]_vars => UserDataNeverRollsBack
  BY DEF NoRollBack, UserDataNeverRollsBack
<1> QED
  BY <1>1, <1>2, UserDataThroughout, TypeCorrect, AKSCacheCurrentThroughout, PTL DEF Spec
=============================================================================
