----------------------- MODULE KarpenterOperandProofs -----------------------
(***************************************************************************)
(* Proofs about the karpenter controllers, in both modes, for any number   *)
(* of owners, versions and log levels.                                     *)
(***************************************************************************)
EXTENDS KarpenterOperand, TLAPS

-----------------------------------------------------------------------------
(* The order of the objects *)

LEMMA OrderFacts ==
  ASSUME mode \in {"HCP", "OCP"}
  PROVE  /\ Len(Order) \in 1..Len(OCPOrder) /\ Len(OCPOrder) \in Nat
         /\ Kinds = {Order[i] : i \in 1..Len(Order)}
         /\ "Deployment" \in Kinds
<1>1. CASE mode = "HCP"
  <2>1. Order = HCPOrder /\ Len(HCPOrder) = 3 /\ Len(OCPOrder) = 5 /\ DOMAIN HCPOrder = 1..3
        /\ HCPOrder[2] = "Deployment"
    BY <1>1 DEF Order, HCPOrder, OCPOrder
  <2> QED
    BY <2>1 DEF Kinds, ToSet
<1>2. CASE mode = "OCP"
  <2>1. Order = OCPOrder /\ Len(OCPOrder) = 5 /\ DOMAIN OCPOrder = 1..5 /\ OCPOrder[4] = "Deployment"
    BY <1>2 DEF Order, OCPOrder
  <2> QED
    BY <2>1 DEF Kinds, ToSet
<1> QED BY <1>1, <1>2

(* The mode never changes, and with it the objects and their order. *)
LEMMA OrderIsFixed == ASSUME UNCHANGED mode PROVE Order' = Order /\ Kinds' = Kinds
  BY DEF Order, Kinds

LEMMA PositionIsKind ==
  ASSUME mode \in {"HCP", "OCP"}, NEW i \in 1..Len(Order)
  PROVE  Order[i] \in Kinds
  BY OrderFacts

-----------------------------------------------------------------------------
(* Type correctness.  A reconcile never reaches the first apply without an    *)
(* image, nor a position behind the last object.                              *)

InRange == worker.pc <= Len(Order)

LEMMA ObjectTypes == Absent \in Object /\ NoConfig \in Config /\ Idle \in Worker /\ Idle.pc = 0
<1>1. NoConfig \in Config
  BY ConstantsAreTyped DEF NoConfig, Config
<1> QED
  BY <1>1, ConstantsAreTyped DEF Absent, Object, Idle, Worker, OCPOrder

LEMMA operandConfigType ==
  ASSUME TypeOK, NEW o \in Owner, karpenterImage(o) # "unset"
  PROVE  operandConfig(o) \in Config
<1>1. karpenterImage(o) \in {"none", "configured", "override"}
  BY DEF karpenterImage
<1> QED
  BY <1>1, ConstantsAreTyped
     DEF operandConfig, HCPOperandConfig, OCPOperandConfig, Config, Owner

LEMMA ContentType == ASSUME NEW k, NEW cfg \in Config PROVE Content(k, cfg) \in Config
  BY ObjectTypes DEF Content, buildDeployment, buildPodSpec, Config

LEMMA WriteType ==
  ASSUME TypeOK, NEW k, NEW new \in Object, Write(k, new)
  PROVE  obj' \in [Kinds -> Object] /\ event' \in BOOLEAN
  BY DEF TypeOK, Write

(* What is left to show of a step once its new values are known to be typed. *)
LEMMA TypedStep ==
  ASSUME TypeOK, UNCHANGED <<mode, configured>>, owner' \in Owner, cowner' \in Owner,
         obj' \in [Kinds -> Object], event' \in BOOLEAN, queued' \in BOOLEAN,
         worker' \in Worker, worker'.pc <= Len(Order), budget' \in Nat
  PROVE  TypeOK' /\ InRange'
<1>1. Kinds' = Kinds /\ Order' = Order
  BY OrderIsFixed
<1>2. InRange'
  BY <1>1 DEF InRange
<1>3. TypeOK'
  BY <1>1 DEF TypeOK
<1> QED BY <1>2, <1>3

(* The changes of the owner. *)
LEMMA OwnerTypes ==
  ASSUME TypeOK
  PROVE  /\ \A l \in 0..MaxLevel : [owner EXCEPT !.level = l] \in Owner
         /\ \A l \in 0..MaxLevel, b \in BOOLEAN : owner.uid < MaxUID =>
              [owner EXCEPT !.exists = TRUE, !.uid = @ + 1, !.level = l, !.override = b] \in Owner
         /\ [owner EXCEPT !.exists = FALSE] \in Owner
         /\ [owner EXCEPT !.override = ~@] \in Owner
         /\ [owner EXCEPT !.infra = 1] \in Owner
         /\ [owner EXCEPT !.provisioner = ~@] \in Owner
<1>0. owner \in Owner /\ MaxUID \in Nat /\ MaxLevel \in Nat
  BY ConstantsAreTyped DEF TypeOK
<1>1. ASSUME NEW l \in 0..MaxLevel PROVE [owner EXCEPT !.level = l] \in Owner
  BY <1>0 DEF Owner
<1>2. ASSUME NEW l \in 0..MaxLevel, NEW b \in BOOLEAN, owner.uid < MaxUID
      PROVE  [owner EXCEPT !.exists = TRUE, !.uid = @ + 1, !.level = l, !.override = b] \in Owner
  <2>1. owner.uid + 1 \in 0..MaxUID
    BY <1>0, <1>2 DEF Owner
  <2>2. [owner EXCEPT !.exists = TRUE] \in Owner
    BY <1>0 DEF Owner
  <2>3. [owner EXCEPT !.exists = TRUE, !.uid = @ + 1] \in Owner
    BY <1>0, <2>1, <2>2 DEF Owner
  <2>4. [owner EXCEPT !.exists = TRUE, !.uid = @ + 1, !.level = l] \in Owner
    BY <1>0, <2>1, <2>3 DEF Owner
  <2> QED BY <1>0, <2>1, <2>4 DEF Owner
<1>3. [owner EXCEPT !.exists = FALSE] \in Owner
  BY <1>0 DEF Owner
<1>4. [owner EXCEPT !.override = ~@] \in Owner
  <2> DEFINE b == ~owner.override
  <2>1. b \in BOOLEAN
    OBVIOUS
  <2> HIDE DEF b
  <2>2. [owner EXCEPT !.override = b] \in Owner
    BY <1>0, <2>1 DEF Owner
  <2> QED BY <2>2 DEF b
<1>5. [owner EXCEPT !.infra = 1] \in Owner
  BY <1>0 DEF Owner
<1>6. [owner EXCEPT !.provisioner = ~@] \in Owner
  <2> DEFINE b == ~owner.provisioner
  <2>1. b \in BOOLEAN
    OBVIOUS
  <2> HIDE DEF b
  <2>2. [owner EXCEPT !.provisioner = b] \in Owner
    BY <1>0, <2>1 DEF Owner
  <2> QED BY <2>2 DEF b
<1> QED BY <1>1, <1>2, <1>3, <1>4, <1>5, <1>6

(* The changes of an object. *)
LEMMA ForeignTypes ==
  ASSUME TypeOK, NEW k \in Kinds
  PROVE  /\ obj[k] \in Object
         /\ [obj[k] EXCEPT !.edited = TRUE] \in Object
         /\ [obj[k] EXCEPT !.uid = 0] \in Object
         /\ [Absent EXCEPT !.exists = TRUE] \in Object
<1>1. obj[k] \in Object /\ 0 \in 0..MaxUID
  BY ConstantsAreTyped DEF TypeOK
<1>2. [obj[k] EXCEPT !.edited = TRUE] \in Object
  BY <1>1 DEF Object
<1>3. [obj[k] EXCEPT !.uid = 0] \in Object
  BY <1>1 DEF Object
<1>4. [Absent EXCEPT !.exists = TRUE] \in Object
  BY ObjectTypes DEF Object
<1> QED BY <1>1, <1>2, <1>3, <1>4

(* The steps of administrators and of the garbage collector on an object. *)
ForeignStep(k) ==
    EditObject(k) \/ DisownObject(k) \/ DeleteObject(k) \/ CreateForeign(k) \/ CollectGarbage(k)

LEMMA ForeignWrites ==
  ASSUME TypeOK, NEW k \in Kinds, ForeignStep(k)
  PROVE  /\ \E new \in Object : Write(k, new)
         /\ UNCHANGED <<mode, configured, owner, cowner, queued, worker>> /\ budget' \in Nat
<1>1. \E new \in Object : Write(k, new)
  BY ForeignTypes, ObjectTypes
     DEF ForeignStep, EditObject, DisownObject, DeleteObject, CreateForeign, CollectGarbage, Tamper
<1>2. UNCHANGED <<mode, configured, owner, cowner, queued, worker>> /\ budget' \in Nat
  BY DEF ForeignStep, EditObject, DisownObject, DeleteObject, CreateForeign, CollectGarbage,
         Tamper, Spend, settings, TypeOK
<1> QED BY <1>1, <1>2

(* The steps that change the owner. *)
OwnerStep ==
    \/ \E l \in 0..MaxLevel : SetLevel(l) \/ \E override \in BOOLEAN : CreateOwner(l, override)
    \/ DeleteOwner \/ Override \/ SetInfra \/ ChangeProvisioner

LEMMA OwnerChanges ==
  ASSUME TypeOK, OwnerStep
  PROVE  /\ owner' \in Owner /\ budget' \in Nat
         /\ UNCHANGED <<mode, configured, cowner, obj, event, queued, worker>>
         /\ owner'.uid = owner.uid \/ owner'.uid = owner.uid + 1
<1>1. ASSUME NEW l \in 0..MaxLevel, SetLevel(l)
      PROVE  owner' \in Owner /\ owner'.uid = owner.uid /\ budget' = budget
  <2>1. owner' = [owner EXCEPT !.level = l] /\ budget' = budget
    BY <1>1 DEF SetLevel, ChangeOwner
  <2> QED BY <2>1, OwnerTypes DEF TypeOK, Owner
<1>2. ASSUME NEW l \in 0..MaxLevel, NEW b \in BOOLEAN, CreateOwner(l, b)
      PROVE  owner' \in Owner /\ owner'.uid = owner.uid + 1 /\ budget' = budget
  <2>1. /\ owner' = [owner EXCEPT !.exists = TRUE, !.uid = @ + 1, !.level = l, !.override = b]
        /\ owner.uid < MaxUID /\ budget' = budget
    BY <1>2 DEF CreateOwner, ChangeOwner
  <2> QED BY <2>1, OwnerTypes DEF TypeOK, Owner
<1>3. ASSUME DeleteOwner \/ Override \/ SetInfra \/ ChangeProvisioner
      PROVE  owner' \in Owner /\ owner'.uid = owner.uid /\ budget' \in Nat
  <2>1. \/ owner' = [owner EXCEPT !.exists = FALSE]
        \/ owner' = [owner EXCEPT !.override = ~@]
        \/ owner' = [owner EXCEPT !.infra = 1]
        \/ owner' = [owner EXCEPT !.provisioner = ~@]
    BY <1>3 DEF DeleteOwner, Override, SetInfra, ChangeProvisioner, ChangeOwner
  <2>2. owner' \in Owner
    BY <2>1, OwnerTypes
  <2>3. owner'.uid = owner.uid
    BY <2>1 DEF TypeOK, Owner
  <2>4. budget > 0 /\ budget' = budget - 1
    BY <1>3 DEF DeleteOwner, Override, SetInfra, ChangeProvisioner, Spend
  <2> QED BY <2>2, <2>3, <2>4 DEF TypeOK
<1>4. UNCHANGED <<mode, configured, cowner, obj, event, queued, worker>>
  <2>1. \E o : ChangeOwner(o)
    BY DEF OwnerStep, SetLevel, CreateOwner, DeleteOwner, Override, SetInfra, ChangeProvisioner
  <2> QED BY <2>1 DEF ChangeOwner, settings
<1>5. budget \in Nat
  BY DEF TypeOK
<1> QED BY <1>1, <1>2, <1>3, <1>4, <1>5 DEF OwnerStep

LEMMA TypeNext == TypeOK /\ InRange /\ [Next]_vars => TypeOK' /\ InRange'
<1> SUFFICES ASSUME TypeOK, InRange, [Next]_vars PROVE TypeOK' /\ InRange'
  OBVIOUS
<1>1. /\ mode \in {"HCP", "OCP"} /\ configured \in BOOLEAN /\ owner \in Owner /\ cowner \in Owner
      /\ obj \in [Kinds -> Object] /\ event \in BOOLEAN /\ queued \in BOOLEAN /\ worker \in Worker
      /\ budget \in Nat /\ worker.pc <= Len(Order)
  BY DEF TypeOK, InRange
<1>2. Len(Order) \in 1..Len(OCPOrder) /\ Len(OCPOrder) \in Nat
  BY <1>1, OrderFacts
<1>3. CASE SyncOwner
  <2>1. queued' \in BOOLEAN
    BY <1>3 DEF SyncOwner
  <2> QED BY <1>1, <1>3, <2>1, TypedStep DEF SyncOwner, settings
<1>4. CASE SyncObjects
  BY <1>1, <1>4, TypedStep DEF SyncObjects, settings
<1>5. CASE SyncSecret
  BY <1>1, <1>5, TypedStep DEF SyncSecret, Spend, settings
<1>6. CASE Reconcile
  <2>1. queued' \in BOOLEAN
    BY <1>6 DEF Reconcile
  <2>2. CASE worker' = Idle
    BY <1>1, <1>2, <1>6, <2>1, <2>2, ObjectTypes, TypedStep DEF Reconcile, settings
  <2>3. CASE /\ karpenterImage(cowner) # "unset"
             /\ worker' = [pc |-> 1, uid |-> cowner.uid, config |-> operandConfig(cowner)]
    <3>1. cowner \in Owner /\ operandConfig(cowner) \in Config
      BY <1>1, <2>3, operandConfigType
    <3>2. worker' \in Worker /\ worker'.pc <= Len(Order)
      BY <1>2, <2>3, <3>1 DEF Worker, Owner
    <3> QED
      BY <1>1, <1>6, <2>1, <3>2, TypedStep DEF Reconcile, settings
  <2> QED BY <1>6, <2>2, <2>3 DEF Reconcile
<1>7. CASE Apply
  <2>1. Desired(Order[worker.pc]) \in Object
    BY <1>1, ContentType DEF Desired, Object, Worker
  <2>2. obj' \in [Kinds -> Object] /\ event' \in BOOLEAN
    BY <1>7, <2>1, WriteType DEF Apply
  <2>3. worker' \in Worker /\ worker'.pc <= Len(Order)
    <3>1. CASE worker' = Idle
      BY <1>2, <3>1, ObjectTypes
    <3>2. CASE worker.pc < Len(Order) /\ worker' = [worker EXCEPT !.pc = @ + 1]
      <4>1. worker.pc + 1 \in 0..Len(OCPOrder) /\ worker.pc + 1 <= Len(Order)
        BY <1>1, <1>2, <3>2 DEF Worker
      <4> QED
        BY <1>1, <3>2, <4>1 DEF Worker
    <3> QED BY <1>7, <3>1, <3>2 DEF Apply, NextPC
  <2> QED
    BY <1>1, <1>7, <2>2, <2>3, TypedStep DEF Apply, settings
<1>8. CASE ApplyFails
  BY <1>1, <1>2, <1>8, ObjectTypes, TypedStep DEF ApplyFails, Spend, settings
<1>9. CASE Restart
  <2>1. queued' \in BOOLEAN /\ budget' \in Nat
    BY <1>1, <1>9 DEF Restart, Spend
  <2>2. worker' = Idle /\ cowner' = owner /\ event' = FALSE /\ UNCHANGED <<mode, configured, owner, obj>>
    BY <1>9 DEF Restart, settings
  <2>3. worker' \in Worker /\ worker'.pc <= Len(Order)
    BY <1>2, <2>2, ObjectTypes
  <2> QED
    BY <1>1, <2>1, <2>2, <2>3, TypedStep
<1>10. CASE OwnerStep
  BY <1>1, <1>10, OwnerChanges, TypedStep
<1>11. ASSUME NEW k \in Kinds, ForeignStep(k) PROVE TypeOK' /\ InRange'
  <2>1. obj' \in [Kinds -> Object] /\ event' \in BOOLEAN
    BY <1>11, ForeignWrites, WriteType
  <2> QED BY <1>1, <1>11, <2>1, ForeignWrites, TypedStep
<1>12. CASE UNCHANGED vars
  BY <1>1, <1>12, TypedStep DEF vars
<1> QED
  BY <1>3, <1>4, <1>5, <1>6, <1>7, <1>8, <1>9, <1>10, <1>11, <1>12
     DEF Next, Environment, OwnerStep, ForeignStep

LEMMA TypedInRange == Spec => [](TypeOK /\ InRange)
<1>1. Init => TypeOK /\ InRange
  <2> SUFFICES ASSUME Init PROVE TypeOK /\ InRange
    OBVIOUS
  <2>1. mode \in {"HCP", "OCP"} /\ Len(Order) \in 1..Len(OCPOrder) /\ Len(OCPOrder) \in Nat
    BY OrderFacts DEF Init
  <2>2. owner \in Owner /\ cowner \in Owner
    BY ConstantsAreTyped DEF Init, Owner
  <2>3. InRange
    BY <2>1, ObjectTypes DEF Init, InRange
  <2>4. obj \in [Kinds -> Object]
    BY ObjectTypes DEF Init
  <2>5. TypeOK
    BY <2>1, <2>2, <2>4, ObjectTypes, ConstantsAreTyped DEF Init, TypeOK
  <2> QED BY <2>3, <2>5
<1> QED
  BY <1>1, TypeNext, PTL DEF Spec

(* Every variable keeps its type, in both modes; in particular no object is   *)
(* ever applied without an image (karpenterImage, Reconcile).                 *)
THEOREM TypeCorrect == Spec => []TypeOK
  BY TypedInRange, PTL

-----------------------------------------------------------------------------
(* At rest the operand is in sync.  Between two reconciles nothing is read of *)
(* the objects, so the invariant says which of them are known to be right:    *)
(* those that were applied since the last event, in the order of the applies. *)

(* Owners in use have a UID, so what a reconcile applies is watched. *)
HasUID ==
    /\ owner.exists => owner.uid # 0
    /\ cowner.exists => cowner.uid # 0
    /\ worker.pc # 0 => worker.uid # 0

(* Nothing is on the way but the cache's own lag, and the controller has what *)
(* it needs of the cached owner.                                              *)
Settled ==
    /\ ~queued /\ ~event
    /\ ~Skips(cowner) /\ ~Waits(cowner) /\ karpenterImage(cowner) # "unset"

UpToDate(k) ==
    /\ obj[k].exists /\ ~obj[k].edited /\ obj[k].uid # 0
    /\ obj[k].content = Content(k, operandConfig(cowner))

Applied(i) == worker.pc = 0 \/ i < worker.pc

Tracked ==
    Settled =>
      /\ worker.pc # 0 => worker.config = operandConfig(cowner)
      /\ \A i \in 1..Len(Order) : Applied(i) => UpToDate(Order[i])

LEMMA HasUIDNext == TypeOK /\ HasUID /\ [Next]_vars => HasUID'
<1> SUFFICES ASSUME TypeOK, HasUID, [Next]_vars PROVE HasUID'
  OBVIOUS
<1>1. CASE SyncOwner \/ SyncObjects \/ SyncSecret \/ UNCHANGED vars
  BY <1>1 DEF SyncOwner, SyncObjects, SyncSecret, vars, HasUID
<1>2. CASE Reconcile
  <2>1. worker' = Idle \/ (cowner.exists /\ worker'.uid = cowner.uid)
    BY <1>2 DEF Reconcile, Skips
  <2>2. UNCHANGED <<owner, cowner>>
    BY <1>2 DEF Reconcile
  <2> QED BY <2>1, <2>2, ObjectTypes DEF HasUID
<1>3. CASE Apply
  <2>1. worker' = Idle \/ worker'.uid = worker.uid
    BY <1>3 DEF Apply, NextPC, TypeOK, Worker
  <2>2. UNCHANGED <<owner, cowner>> /\ worker.pc # 0
    BY <1>3 DEF Apply
  <2> QED BY <2>1, <2>2, ObjectTypes DEF HasUID
<1>4. CASE ApplyFails
  BY <1>4, ObjectTypes DEF ApplyFails, HasUID
<1>5. CASE Restart
  <2>1. worker' = Idle /\ cowner' = owner /\ UNCHANGED owner
    BY <1>5 DEF Restart
  <2> QED BY <2>1, ObjectTypes DEF HasUID
<1>6. CASE OwnerStep
  <2>1. UNCHANGED <<cowner, worker>>
    BY <1>6, OwnerChanges
  <2>2. owner'.exists => owner'.uid # 0
    <3>1. CASE owner'.uid = owner.uid + 1
      BY <3>1, ConstantsAreTyped DEF TypeOK, Owner
    <3>2. CASE owner'.uid = owner.uid /\ owner.exists
      BY <3>2 DEF HasUID
    <3>3. owner.exists \/ owner'.uid = owner.uid + 1
      <4>1. \A l, b : CreateOwner(l, b) => owner'.uid = owner.uid + 1
        BY DEF CreateOwner, ChangeOwner, TypeOK, Owner
      <4> QED
        BY <1>6, <4>1 DEF OwnerStep, SetLevel, DeleteOwner, Override, SetInfra, ChangeProvisioner
    <3> QED BY <1>6, <3>1, <3>2, <3>3, OwnerChanges
  <2> QED BY <2>1, <2>2 DEF HasUID
<1>7. ASSUME NEW k \in Kinds, ForeignStep(k) PROVE HasUID'
  BY <1>7, ForeignWrites DEF HasUID
<1> QED
  BY <1>1, <1>2, <1>3, <1>4, <1>5, <1>6, <1>7 DEF Next, Environment, OwnerStep, ForeignStep

(* A write that tells nobody leaves the objects alone that are up to date:    *)
(* they name an owner, and Owns looks at the old object as well.              *)
LEMMA SilentWrite ==
  ASSUME TypeOK, NEW k, NEW new, Write(k, new), ~event', NEW j \in Kinds, UpToDate(j),
         UNCHANGED <<mode, configured, cowner>>
  PROVE  UpToDate(j)'
<1>1. obj'[j] = obj[j]
  <2>1. CASE j = k
    BY <2>1 DEF Write, Notifies, UpToDate, TypeOK
  <2>2. CASE j # k
    BY <2>2 DEF Write, TypeOK
  <2> QED BY <2>1, <2>2
<1> QED
  BY <1>1 DEF UpToDate, Content, operandConfig, HCPOperandConfig, OCPOperandConfig, karpenterImage

(* What a cache that follows the owner silently still knows of it. *)
LEMMA SilentSync ==
  ASSUME TypeOK, SyncOwner, ~queued'
  PROVE  /\ ~queued
         /\ Skips(cowner)' = Skips(cowner) /\ Waits(cowner)' = Waits(cowner)
         /\ karpenterImage(cowner)' = karpenterImage(cowner)
         /\ operandConfig(cowner)' = operandConfig(cowner)
<1>1. UNCHANGED <<mode, configured>> /\ cowner' = owner /\ ~queued /\ ~OwnerEventQueues(cowner, owner)
  BY DEF SyncOwner, settings
<1>2. CASE mode = "HCP"
  <2>1. /\ cowner'.exists = cowner.exists /\ cowner'.infra = cowner.infra
        /\ cowner'.provisioner = cowner.provisioner /\ cowner'.level = cowner.level
        /\ cowner'.override = cowner.override
    BY <1>1, <1>2 DEF OwnerEventQueues, hcpOperandChanged
  <2> QED
    BY <1>1, <1>2, <2>1
       DEF Skips, Waits, karpenterImage, operandConfig, HCPOperandConfig
<1>3. CASE mode # "HCP"
  <2>1. cowner' = cowner
    BY <1>1, <1>3 DEF OwnerEventQueues
  <2> QED
    BY <1>1, <2>1 DEF Skips, Waits, karpenterImage, operandConfig, HCPOperandConfig, OCPOperandConfig
<1> QED BY <1>2, <1>3

(* A step that keeps the cached owner, the worker and what is up to date.      *)
LEMMA TrackedStays ==
  ASSUME TypeOK, Tracked, UNCHANGED <<mode, configured, cowner, worker>>, ~queued' => ~queued,
         ~event' => ~event,
         \A k \in Kinds : ~event' /\ UpToDate(k) => UpToDate(k)'
  PROVE  Tracked'
<1>1. Order' = Order /\ operandConfig(cowner)' = operandConfig(cowner) /\ (Settled' => Settled)
  BY OrderIsFixed DEF Settled, Skips, Waits, operandConfig, HCPOperandConfig, OCPOperandConfig,
                      karpenterImage
<1>2. \A i \in 1..Len(Order) : Order[i] \in Kinds
  BY PositionIsKind DEF TypeOK
<1> SUFFICES ASSUME Settled'
             PROVE  /\ worker'.pc # 0 => worker'.config = operandConfig(cowner)'
                    /\ \A i \in 1..Len(Order') : Applied(i)' => UpToDate(Order[i])'
  BY DEF Tracked
<1>3. ~event' /\ Settled
  BY <1>1 DEF Settled
<1>4. worker'.pc # 0 => worker'.config = operandConfig(cowner)'
  BY <1>1, <1>3 DEF Tracked
<1>5. ASSUME NEW i \in 1..Len(Order), Applied(i)' PROVE UpToDate(Order[i])'
  <2>1. UpToDate(Order[i])
    BY <1>3, <1>5 DEF Tracked, Applied
  <2>2. PICK k \in Kinds : k = Order[i]
    BY <1>2
  <2>3. UpToDate(k)'
    BY <1>3, <2>1, <2>2
  <2> QED BY <1>1, <2>2, <2>3 DEF UpToDate
<1> QED BY <1>1, <1>4, <1>5

LEMMA TrackedNext == TypeOK /\ InRange /\ HasUID /\ Tracked /\ [Next]_vars => Tracked'
<1> SUFFICES ASSUME TypeOK, InRange, HasUID, Tracked, [Next]_vars PROVE Tracked'
  OBVIOUS
<1>0. mode \in {"HCP", "OCP"} /\ \A i \in 1..Len(Order) : Order[i] \in Kinds
  BY PositionIsKind DEF TypeOK
<1>1. CASE SyncOwner
  <2> SUFFICES ASSUME Settled'
               PROVE  /\ worker'.pc # 0 => worker'.config = operandConfig(cowner)'
                      /\ \A i \in 1..Len(Order') : Applied(i)' => UpToDate(Order[i])'
    BY DEF Tracked
  <2>1. UNCHANGED <<mode, obj, event, worker>> /\ Order' = Order
    BY <1>1, OrderIsFixed DEF SyncOwner, settings
  <2>2. ~queued' /\ ~event
    BY <2>1 DEF Settled
  <2>3. Settled /\ operandConfig(cowner)' = operandConfig(cowner)
    BY <1>1, <2>2, SilentSync DEF Settled
  <2>4. \A i \in 1..Len(Order) : Applied(i)' => UpToDate(Order[i])'
    BY <2>1, <2>3 DEF Tracked, Applied, UpToDate, Content
  <2> QED BY <2>1, <2>3, <2>4 DEF Tracked
<1>2. CASE SyncObjects \/ SyncSecret \/ ApplyFails
  BY <1>2 DEF SyncObjects, SyncSecret, ApplyFails, Tracked, Settled
<1>3. CASE Reconcile
  <2> SUFFICES ASSUME Settled'
               PROVE  /\ worker'.pc # 0 => worker'.config = operandConfig(cowner)'
                      /\ \A i \in 1..Len(Order') : Applied(i)' => UpToDate(Order[i])'
    BY DEF Tracked
  <2>1. UNCHANGED <<mode, configured, cowner>>
    BY <1>3 DEF Reconcile, settings
  <2>2. ~Skips(cowner) /\ ~Waits(cowner) /\ karpenterImage(cowner) # "unset"
    BY <2>1 DEF Settled, Skips, Waits, karpenterImage
  <2>3. worker' = [pc |-> 1, uid |-> cowner.uid, config |-> operandConfig(cowner)]
    BY <1>3, <2>2 DEF Reconcile
  <2>4. operandConfig(cowner)' = operandConfig(cowner)
    BY <2>1 DEF operandConfig, HCPOperandConfig, OCPOperandConfig, karpenterImage
  <2>5. \A i \in 1..Len(Order') : ~Applied(i)'
    BY <2>3 DEF Applied
  <2> QED BY <2>3, <2>4, <2>5
<1>4. CASE Apply
  <2> SUFFICES ASSUME Settled'
               PROVE  /\ worker'.pc # 0 => worker'.config = operandConfig(cowner)'
                      /\ \A i \in 1..Len(Order') : Applied(i)' => UpToDate(Order[i])'
    BY DEF Tracked
  <2>1. /\ UNCHANGED <<mode, configured, cowner, queued>> /\ Order' = Order
        /\ worker.pc # 0 /\ worker' = NextPC
        /\ Write(Order[worker.pc], Desired(Order[worker.pc]))
    BY <1>4, OrderIsFixed DEF Apply, settings
  <2>2. ~event' /\ ~event
    BY <2>1 DEF Settled, Write
  <2>3. Settled /\ operandConfig(cowner)' = operandConfig(cowner)
    BY <2>1, <2>2 DEF Settled, Skips, Waits, operandConfig, HCPOperandConfig, OCPOperandConfig,
                      karpenterImage
  <2>4. worker.config = operandConfig(cowner) /\ worker.uid # 0
    BY <2>1, <2>3 DEF Tracked, HasUID
  <2>5. worker.pc \in 1..Len(Order) /\ Order[worker.pc] \in Kinds /\ Len(Order) \in Nat
    BY <1>0, <2>1, OrderFacts DEF TypeOK, Worker, InRange
  <2>6. worker'.pc # 0 => worker'.pc = worker.pc + 1 /\ worker'.config = worker.config
    BY <2>1, ObjectTypes DEF NextPC, TypeOK, Worker
  <2>7. worker'.pc = 0 => worker.pc = Len(Order)
    BY <2>1, <2>5 DEF NextPC, TypeOK, Worker, InRange
  <2>8. PICK k \in Kinds : k = Order[worker.pc]
    BY <2>5
  <2>9. UpToDate(k)'
    <3>1. obj'[k] = Desired(k)
      BY <2>1, <2>8 DEF Write, TypeOK
    <3> QED
      BY <2>3, <2>4, <3>1 DEF UpToDate, Desired, Content
  <2>10. ASSUME NEW i \in 1..Len(Order), Applied(i)' PROVE UpToDate(Order[i])'
    <3>1. i = worker.pc \/ i < worker.pc
      BY <2>5, <2>6, <2>7, <2>10 DEF Applied
    <3>2. CASE i = worker.pc
      BY <2>1, <2>8, <2>9, <3>2 DEF UpToDate
    <3>3. CASE i < worker.pc
      <4>1. UpToDate(Order[i])
        BY <2>3, <3>3 DEF Tracked, Applied
      <4>2. PICK j \in Kinds : j = Order[i]
        BY <1>0
      <4>3. UpToDate(j)'
        BY <2>1, <2>2, <4>1, <4>2, SilentWrite
      <4> QED BY <2>1, <4>2, <4>3 DEF UpToDate
    <3> QED BY <3>1, <3>2, <3>3
  <2> QED BY <2>1, <2>3, <2>4, <2>6, <2>10
<1>5. CASE Restart
  <2>1. cowner' = owner /\ UNCHANGED owner /\ (~queued' => ~owner.exists)
    BY <1>5 DEF Restart
  <2> QED BY <2>1 DEF Tracked, Settled, Skips
<1>6. CASE OwnerStep
  <2>1. UNCHANGED <<mode, configured, cowner, obj, event, queued, worker>>
    BY <1>6, OwnerChanges
  <2>2. \A k \in Kinds : UpToDate(k) => UpToDate(k)'
    BY <2>1 DEF UpToDate, Content, operandConfig, HCPOperandConfig, OCPOperandConfig, karpenterImage
  <2> QED BY <2>1, <2>2, TrackedStays
<1>7. ASSUME NEW j \in Kinds, ForeignStep(j) PROVE Tracked'
  <2>1. UNCHANGED <<mode, configured, owner, cowner, queued, worker>>
    BY <1>7, ForeignWrites
  <2>2. PICK new \in Object : Write(j, new)
    BY <1>7, ForeignWrites
  <2>3. \A k \in Kinds : ~event' /\ UpToDate(k) => UpToDate(k)'
    BY <2>1, <2>2, SilentWrite
  <2>4. ~event' => ~event
    BY <2>2 DEF Write
  <2> QED BY <2>1, <2>3, <2>4, TrackedStays
<1>8. CASE UNCHANGED vars
  <2>1. UNCHANGED <<mode, configured, owner, cowner, obj, event, queued, worker>>
    BY <1>8 DEF vars
  <2>2. \A k \in Kinds : UpToDate(k) => UpToDate(k)'
    BY <2>1 DEF UpToDate, Content, operandConfig, HCPOperandConfig, OCPOperandConfig, karpenterImage
  <2> QED BY <2>1, <2>2, TrackedStays
<1> QED
  BY <1>1, <1>2, <1>3, <1>4, <1>5, <1>6, <1>7, <1>8 DEF Next, Environment, OwnerStep, ForeignStep

(* At rest the cached owner is the owner, every object was applied for it, and *)
(* one that names another owner would be garbage.                              *)
LEMMA RestIsInSync == TypeOK /\ HasUID /\ Tracked => InSyncAtRest
<1> SUFFICES ASSUME TypeOK, HasUID, Tracked, ~queued, worker.pc = 0, ~event, cowner = owner,
                    \A k \in Kinds : ~Garbage(k)
             PROVE  InSync
  BY DEF InSyncAtRest, TypeOK
<1>1. \A k \in Kinds : obj[k].uid # 0 => owner.exists /\ obj[k].uid = owner.uid
  BY DEF Garbage
<1>2. ASSUME Deployable
      PROVE  /\ \A k \in Kinds : obj[k].exists /\ obj[k].uid = owner.uid /\ ~obj[k].edited
             /\ obj["Deployment"].content.version + obj["Deployment"].content.logLevel = owner.level
             /\ obj["Deployment"].content.image = "override" <=> owner.override
             /\ mode = "HCP" => obj["Deployment"].content.infra = owner.infra
  <2>1. Settled
    BY <1>2 DEF Deployable, Settled, Skips, Waits, karpenterImage, TypeOK
  <2>2. \A k \in Kinds : UpToDate(k)
    BY <2>1, OrderFacts DEF Tracked, Applied, TypeOK
  <2>3. \A k \in Kinds : obj[k].exists /\ obj[k].uid = owner.uid /\ ~obj[k].edited
    BY <1>1, <2>2 DEF UpToDate
  <2>4. obj["Deployment"].content = buildDeployment(operandConfig(owner))
    BY <2>2, OrderFacts DEF UpToDate, Content, TypeOK
  <2>5. /\ obj["Deployment"].content.image = karpenterImage(owner)
        /\ obj["Deployment"].content.version + obj["Deployment"].content.logLevel = owner.level
        /\ mode = "HCP" => obj["Deployment"].content.infra = owner.infra
    BY <2>4, ConstantsAreTyped
       DEF buildDeployment, buildPodSpec, operandConfig, HCPOperandConfig, OCPOperandConfig,
           TypeOK, Owner
  <2>6. karpenterImage(owner) = "override" <=> owner.override
    BY DEF karpenterImage
  <2> QED BY <2>3, <2>5, <2>6
<1> QED BY <1>1, <1>2 DEF InSync

(* Whenever nothing is on the way, the operand is as its owner wants it,       *)
(* whatever reconciles failed half-way, owners were replaced under the cached  *)
(* UID and objects were edited, disowned or deleted before: no change that     *)
(* matters lacks an event (hcpOperandReconcilePredicate, Owns, Reconcile).     *)
THEOREM InSyncAtRestTheorem == Spec => []InSyncAtRest
<1>1. Init => HasUID /\ Tracked
  BY ObjectTypes DEF Init, HasUID, Tracked, Settled, Skips
<1>2. Spec => [](HasUID /\ Tracked)
  BY <1>1, TypedInRange, HasUIDNext, TrackedNext, PTL DEF Spec
<1> QED
  BY <1>2, TypeCorrect, RestIsInSync, PTL
=============================================================================
