------------------------- MODULE EC2NodeClassProofs -------------------------
(***************************************************************************)
(* Proofs about the ec2-nodeclass controller, for any NodeClasses, any     *)
(* number of workers and any bounds.                                       *)
(***************************************************************************)
EXTENDS EC2NodeClass, TLAPS

-----------------------------------------------------------------------------
(* Types of the building blocks *)

LEMMA NoStatusType == NoStatus \in Status /\ NoConditions \in Conditions /\ NotReady \in Condition
  BY NowIsATime DEF NoStatus, Status, NoConditions, Conditions, NoCondition, NotReady, Condition

LEMMA EmptyObjects == NoNodeClass \in NodeClass /\ NoEC2 \in EC2 /\ NoHCP \in HCP
  BY NoStatusType DEF NoNodeClass, NodeClass, NoEC2, EC2, NoHCP, HCP

LEMMA IdleType ==
  ASSUME NEW n \in Names
  PROVE  Idle(n) \in Worker /\ Idle(n).pc = "idle" /\ Idle(n).key = n
  BY NoStatusType, EmptyObjects DEF Idle, Worker

(* SyncConditions returns a list of conditions. *)
LEMMA SyncConditionsType ==
  ASSUME NEW c \in Conditions, NEW p \in Conditions
  PROVE  SyncConditions(c, p) \in Conditions
<1> DEFINE copied == [t \in CondTypes |->
                        IF t # "Ready" /\ p[t].status # "None"
                          THEN SetStatusCondition(c[t], p[t]) ELSE c[t]]
           ready == IF copied["VersionResolved"].status # "True"
                      THEN SetStatusCondition(c["Ready"], NotReady)
                    ELSE IF p["Ready"].status # "None"
                      THEN SetStatusCondition(c["Ready"], p["Ready"])
                    ELSE c["Ready"]
<1>1. copied \in Conditions
  BY DEF Conditions, SetStatusCondition
<1>2. ready \in Condition
  BY NoStatusType DEF Conditions, CondTypes, SetStatusCondition
<1>3. SyncConditions(c, p) = [copied EXCEPT !["Ready"] = ready]
  BY DEF SyncConditions
<1> QED
  BY <1>1, <1>2, <1>3 DEF Conditions

LEMMA WorkerType ==
  ASSUME TypeOK, NEW w \in Workers
  PROVE  /\ worker[w] \in Worker /\ worker[w].key \in Names /\ worker[w].obj \in NodeClass
         /\ worker[w].status \in Status /\ worker[w].hcp \in HCP
  BY DEF TypeOK, Worker

LEMMA BecomeType ==
  ASSUME TypeOK, NEW w \in Workers, NEW next \in Worker, Become(w, next)
  PROVE  worker' \in [Workers -> Worker]
  BY DEF TypeOK, Become

(* The end of a reconcile, with or without a requeue. *)
LEMMA EndType ==
  ASSUME TypeOK, NEW w \in Workers, Done(w) \/ Again(w)
  PROVE  worker' \in [Workers -> Worker] /\ queue' \subseteq Names
<1>1. Idle(worker[w].key) \in Worker /\ worker[w].key \in Names
  BY WorkerType, IdleType
<1> QED
  BY <1>1, BecomeType DEF Done, Again, TypeOK

LEMMA WriteNodeClassType ==
  ASSUME TypeOK, NEW n \in Names, NEW obj \in NodeClass, WriteNodeClass(n, obj)
  PROVE  nc' \in [Names -> NodeClass] /\ fnc' \in [Names -> BOOLEAN]
  BY DEF TypeOK, WriteNodeClass

LEMMA OutdatedType ==
  ASSUME TypeOK, NEW n
  PROVE  Outdated(n) \in [Workers -> Worker]
<1>1. \A w \in Workers : worker[w] \in Worker /\ [worker[w] EXCEPT !.fresh = FALSE] \in Worker
  BY DEF TypeOK, Worker
<1> QED
  BY <1>1 DEF Outdated

LEMMA WriteEC2Type ==
  ASSUME TypeOK, NEW n \in Names, NEW obj \in EC2, WriteEC2(n, obj)
  PROVE  ec2' \in [Names -> EC2] /\ fec2' \in [Names -> BOOLEAN]
<1>1. (fec2[n] /\ obj = ec2[n]) \in BOOLEAN
  OBVIOUS
<1> QED
  BY <1>1 DEF TypeOK, WriteEC2

LEMMA WriteVAPType ==
  ASSUME TypeOK, NEW object \in {"policy", "binding"}, NEW good \in BOOLEAN, WriteVAP(object, good)
  PROVE  vap' \in VAP /\ fvap' \in VAP
  BY DEF TypeOK, WriteVAP, VAP

LEMMA DeletedType ==
  /\ \A obj \in NodeClass, b \in BOOLEAN : Deleted(obj, b, NoNodeClass) \in NodeClass
  /\ \A obj \in EC2, b \in BOOLEAN : Deleted(obj, b, NoEC2) \in EC2
  BY EmptyObjects DEF Deleted, NodeClass, EC2

(* A patch of the worker's own NodeClass. *)
LEMMA PatchType ==
  ASSUME TypeOK, NEW w \in Workers, NEW obj \in NodeClass, NEW next \in Worker, Patch(w, obj, next)
  PROVE  /\ nc' \in [Names -> NodeClass] /\ fnc' \in [Names -> BOOLEAN]
         /\ worker' \in [Workers -> Worker] /\ queue' \subseteq Names
<1>1. CASE WriteNodeClass(worker[w].key, obj) /\ Become(w, next) /\ UNCHANGED queue
  BY <1>1, WorkerType, WriteNodeClassType, BecomeType DEF TypeOK
<1>2. CASE Again(w) /\ UNCHANGED <<nc, fnc>>
  BY <1>2, EndType DEF TypeOK
<1> QED
  BY <1>1, <1>2 DEF Patch

LEMMA NextPCType ==
  ASSUME NEW x \in Worker
  PROVE  /\ [x EXCEPT !.pc = "list"] \in Worker /\ [x EXCEPT !.pc = "policy"] \in Worker
         /\ [x EXCEPT !.pc = "binding"] \in Worker /\ [x EXCEPT !.pc = "unfinalize"] \in Worker
  BY DEF Worker

LEMMA reconcileEC2NodeClassType ==
  ASSUME NEW current \in EC2, NEW obj, NEW h \in HCP, NEW v \in Nat
  PROVE  reconcileEC2NodeClass(current, obj, h, v) \in EC2
<1> DEFINE userData == IF Holds(current, obj, h) THEN current.userData ELSE v
           amis == IF Holds(current, obj, h) THEN current.amis ELSE v
<1>1. userData \in Nat /\ amis \in Nat /\ h.platform \in Nat
  BY DEF EC2, HCP
<1>2. reconcileEC2NodeClass(current, obj, h, v) =
        [current EXCEPT !.exists = TRUE, !.platform = h.platform, !.userData = userData, !.amis = amis]
  BY DEF reconcileEC2NodeClass, EC2
<1> HIDE DEF userData, amis
<1> QED
  BY <1>1, <1>2 DEF EC2

-----------------------------------------------------------------------------
(* Type correctness *)

LEMMA TypeInit == Init => TypeOK
<1> SUFFICES ASSUME Init PROVE TypeOK
  OBVIOUS
<1>1. nc \in [Names -> NodeClass]
  <2>1. [NoNodeClass EXCEPT !.exists = TRUE, !.finalizer = TRUE,
                            !.status.conditions["Ready"] = NotReady] \in NodeClass
    BY EmptyObjects, NoStatusType DEF NodeClass, Status, Conditions
  <2>2. ASSUME NEW n \in Names PROVE [NoNodeClass EXCEPT !.exists = n \in Prepared] \in NodeClass
    <3> DEFINE prepared == n \in Prepared
    <3>1. prepared \in BOOLEAN
      OBVIOUS
    <3> HIDE DEF prepared
    <3>2. [NoNodeClass EXCEPT !.exists = prepared] \in NodeClass
      BY <3>1, EmptyObjects DEF NodeClass
    <3> QED
      BY <3>2 DEF prepared
  <2> QED
    BY <2>1, <2>2 DEF Init
<1>2. ec2 \in [Names -> EC2]
  <2>1. [NoEC2 EXCEPT !.exists = TRUE, !.termination = TRUE, !.userData = 1, !.amis = 1] \in EC2
    BY EmptyObjects DEF EC2
  <2> QED
    BY <2>1, EmptyObjects DEF Init
<1>3. secrets \in [Names -> SUBSET Nat] /\ lastSecret \in Nat
  <2>1. {1} \in SUBSET Nat /\ {} \in SUBSET Nat
    OBVIOUS
  <2> QED
    BY <2>1 DEF Init
<1>4. hcp \in HCP
  <2> DEFINE e2e == "e2e" \in Env
  <2>1. e2e \in BOOLEAN
    OBVIOUS
  <2> HIDE DEF e2e
  <2>2. [NoHCP EXCEPT !.e2e = e2e] \in HCP
    BY <2>1, EmptyObjects DEF HCP
  <2>3. [NoHCP EXCEPT !.state = "live", !.desired = 1, !.completed = 1] \in HCP
    BY EmptyObjects DEF HCP
  <2> QED
    BY <2>2, <2>3 DEF Init, e2e
<1>5. vap \in VAP /\ fvap \in VAP
  BY DEF Init, VAP
<1>6. worker \in [Workers -> Worker]
  BY IdleType DEF Init
<1>7. queue \subseteq Names
  BY ConstantsAreTyped DEF Init
<1> QED
  BY <1>1, <1>2, <1>3, <1>4, <1>5, <1>6, <1>7, ConstantsAreTyped DEF Init, TypeOK

LEMMA TypeWorkers ==
  ASSUME TypeOK, NEW w \in Workers,
         (\E n \in Names : Reconcile(w, n)) \/ WorkerStep(w) \/ CallFails(w)
  PROVE  TypeOK'
<1> DEFINE k == worker[w].key
           EndOrPC == \/ Done(w) \/ Again(w)
                      \/ /\ UNCHANGED queue
                         /\ Goto(w, "list") \/ Goto(w, "policy") \/ Goto(w, "unfinalize")
<1>1. ASSUME EndOrPC PROVE worker' \in [Workers -> Worker] /\ queue' \subseteq Names
  <2>1. CASE Done(w) \/ Again(w)
    BY <2>1, EndType
  <2>2. CASE UNCHANGED queue /\ (Goto(w, "list") \/ Goto(w, "policy") \/ Goto(w, "unfinalize"))
    BY <2>2, WorkerType, NextPCType, BecomeType DEF Goto, TypeOK
  <2> QED BY <1>1, <2>1, <2>2
<1>2. ASSUME NEW n \in Names, Reconcile(w, n) PROVE TypeOK'
  <2> DEFINE obj == cnc[n]
             first == FirstCall(obj, cec2[n])
             next == [Idle(n) EXCEPT !.pc = first, !.obj = obj, !.fresh = fnc[n], !.hcp = chcp]
  <2>1. first \in {"delete", "list", "apply", "finalize"}
    BY DEF FirstCall
  <2>2. cnc[n] \in NodeClass /\ fnc[n] \in BOOLEAN /\ chcp \in HCP
    BY DEF TypeOK
  <2>3. next \in Worker
    <3> HIDE DEF first
    <3> QED BY <2>1, <2>2, NoStatusType, EmptyObjects DEF Idle, Worker
  <2>4. Become(w, Idle(n)) \/ Become(w, next)
    BY <1>2 DEF Reconcile
  <2> HIDE DEF next
  <2>5. worker' \in [Workers -> Worker]
    BY <2>3, <2>4, IdleType, BecomeType
  <2>6. queue' \subseteq Names
    BY <1>2 DEF Reconcile, TypeOK
  <2> QED
    BY <1>2, <2>5, <2>6 DEF Reconcile, TypeOK, hostedVars, mgmtVars, hostedCaches, mgmtCaches
<1>3. CASE AddFinalizer(w)
  <2> DEFINE obj == [worker[w].obj EXCEPT !.finalizer = TRUE]
             next == [worker[w] EXCEPT !.pc = "apply", !.obj = obj]
  <2>1. obj \in NodeClass
    BY WorkerType DEF NodeClass
  <2>2. next \in Worker
    <3> HIDE DEF obj
    <3> QED BY <2>1, WorkerType DEF Worker
  <2>3. Patch(w, obj, next)
    BY <1>3 DEF AddFinalizer
  <2> HIDE DEF obj, next
  <2> QED
    BY <1>3, <2>1, <2>2, <2>3, PatchType DEF AddFinalizer, TypeOK, mgmtVars, mgmtCaches
<1>4. CASE Apply(w)
  <2>1. ASSUME NEW v \in csecrets[k],
               CreateOrUpdate(w, k, reconcileEC2NodeClass(cec2[k], worker[w].obj, worker[w].hcp, v))
        PROVE  /\ ec2' \in [Names -> EC2] /\ fec2' \in [Names -> BOOLEAN]
               /\ worker' \in [Workers -> Worker] /\ queue' \subseteq Names
    <3> DEFINE desired == reconcileEC2NodeClass(cec2[k], worker[w].obj, worker[w].hcp, v)
    <3>1. k \in Names /\ cec2[k] \in EC2 /\ v \in Nat
      BY WorkerType DEF TypeOK
    <3>2. desired \in EC2
      BY <3>1, WorkerType, reconcileEC2NodeClassType
    <3>3. CreateOrUpdate(w, k, desired)
      BY <2>1
    <3> HIDE DEF desired
    <3>4. desired.status \in Status
      BY <3>2 DEF EC2
    <3>5. [worker[w] EXCEPT !.pc = "status", !.status = desired.status] \in Worker
      BY <3>4, WorkerType DEF Worker
    <3>6. CASE /\ WriteEC2(k, desired) /\ UNCHANGED queue
               /\ Become(w, [worker[w] EXCEPT !.pc = "status", !.status = desired.status])
      BY <3>1, <3>2, <3>5, <3>6, WriteEC2Type, BecomeType DEF TypeOK
    <3>7. CASE Again(w) /\ UNCHANGED <<ec2, fec2>>
      BY <3>7, EndType DEF TypeOK
    <3> QED BY <3>3, <3>6, <3>7 DEF CreateOrUpdate
  <2>2. ASSUME Again(w), UNCHANGED <<ec2, fec2>>
        PROVE  /\ ec2' \in [Names -> EC2] /\ fec2' \in [Names -> BOOLEAN]
               /\ worker' \in [Workers -> Worker] /\ queue' \subseteq Names
    BY <2>2, EndType DEF TypeOK
  <2>3. /\ ec2' \in [Names -> EC2] /\ fec2' \in [Names -> BOOLEAN]
        /\ worker' \in [Workers -> Worker] /\ queue' \subseteq Names
    BY <1>4, <2>1, <2>2 DEF Apply
  <2> QED
    BY <1>4, <2>3 DEF Apply, TypeOK, mgmtVars, mgmtCaches
<1>5. CASE PatchStatus(w)
  <2> DEFINE c == SyncConditions(worker[w].obj.status.conditions, worker[w].status.conditions)
             new == [worker[w].obj EXCEPT !.status = [subnets |-> worker[w].status.subnets,
                                                     conditions |-> c]]
             next == [worker[w] EXCEPT !.pc = "list", !.obj = new]
  <2>1. c \in Conditions
    BY WorkerType, SyncConditionsType DEF NodeClass, Status
  <2>2. new \in NodeClass
    <3> HIDE DEF c
    <3> QED BY <2>1, WorkerType DEF NodeClass, Status
  <2>3. next \in Worker
    <3> HIDE DEF new
    <3> QED BY <2>2, WorkerType DEF Worker
  <2>4. \/ Goto(w, "list") /\ UNCHANGED <<nc, fnc, queue>>
        \/ Patch(w, new, next)
    BY <1>5 DEF PatchStatus
  <2> HIDE DEF new, next
  <2>5. /\ nc' \in [Names -> NodeClass] /\ fnc' \in [Names -> BOOLEAN]
        /\ worker' \in [Workers -> Worker] /\ queue' \subseteq Names
    <3>1. CASE Goto(w, "list") /\ UNCHANGED <<nc, fnc, queue>>
      BY <1>1, <3>1 DEF TypeOK
    <3> QED BY <2>2, <2>3, <2>4, <3>1, PatchType
  <2> QED
    BY <1>5, <2>5 DEF PatchStatus, TypeOK, mgmtVars, mgmtCaches
<1>6. CASE ListSubnets(w)
  <2>1. SubnetIDs(cnc) \subseteq Subnets
    BY DEF SubnetIDs, TypeOK, NodeClass, Status
  <2>2. [worker[w] EXCEPT !.pc = "publish", !.listed = SubnetIDs(cnc)] \in Worker
    BY <2>1, WorkerType DEF Worker
  <2>3. worker' \in [Workers -> Worker]
    BY <1>6, <2>2, BecomeType DEF ListSubnets
  <2> QED
    BY <1>6, <2>3 DEF ListSubnets, TypeOK, hostedVars, mgmtVars, hostedCaches, mgmtCaches
<1>7. CASE PublishSubnets(w)
  <2>1. EndOrPC
    BY <1>7 DEF PublishSubnets, AfterPublish
  <2>2. cm' \subseteq Subnets /\ fcm' \in BOOLEAN
    <3>1. worker[w].listed \subseteq Subnets
      BY WorkerType DEF Worker
    <3>2. \A S : (fcm /\ S = cm) \in BOOLEAN
      OBVIOUS
    <3>3. ASSUME NEW S, S \subseteq Subnets, WriteConfigMap(S)
          PROVE  cm' \subseteq Subnets /\ fcm' \in BOOLEAN
      BY <3>2, <3>3 DEF WriteConfigMap
    <3> QED
      BY <1>7, <3>1, <3>3 DEF PublishSubnets, TypeOK
  <2> HIDE DEF EndOrPC
  <2> QED
    BY <1>1, <1>7, <2>1, <2>2 DEF PublishSubnets, TypeOK, hostedVars, hostedCaches
<1>8. CASE ReconcilePolicy(w) \/ ReconcileBinding(w)
  <2>1. ASSUME NEW object \in {"policy", "binding"}, NEW next \in Worker, ReconcileVAP(w, object, next)
        PROVE  TypeOK'
    <3>1. CASE Become(w, next) /\ UNCHANGED <<vap, fvap, queue>>
      BY <2>1, <3>1, BecomeType DEF ReconcileVAP, TypeOK, mgmtVars, mgmtCaches
    <3>2. CASE WriteVAP(object, TRUE) /\ Become(w, next) /\ UNCHANGED queue
      BY <2>1, <3>2, BecomeType, WriteVAPType DEF ReconcileVAP, TypeOK, mgmtVars, mgmtCaches
    <3>3. CASE Again(w) /\ UNCHANGED <<vap, fvap>>
      BY <2>1, <3>3, EndType DEF ReconcileVAP, TypeOK, mgmtVars, mgmtCaches
    <3> QED BY <2>1, <3>1, <3>2, <3>3 DEF ReconcileVAP
  <2>2. [worker[w] EXCEPT !.pc = "binding"] \in Worker /\ Idle(worker[w].key) \in Worker
    BY WorkerType, NextPCType, IdleType
  <2> QED
    BY <1>8, <2>1, <2>2 DEF ReconcilePolicy, ReconcileBinding
<1>9. CASE DeleteEC2NodeClass(w)
  <2>1. k \in Names /\ ec2[k] \in EC2 /\ ec2[k].termination \in BOOLEAN
    BY WorkerType DEF TypeOK, EC2
  <2>2. Deleted(ec2[k], ec2[k].termination, NoEC2) \in EC2
    BY <2>1, DeletedType
  <2>3. ec2' \in [Names -> EC2] /\ fec2' \in [Names -> BOOLEAN]
    BY <1>9, <2>1, <2>2, WriteEC2Type DEF DeleteEC2NodeClass, TypeOK
  <2>4. EndOrPC
    BY <1>9 DEF DeleteEC2NodeClass
  <2> HIDE DEF EndOrPC
  <2> QED
    BY <1>1, <1>9, <2>3, <2>4 DEF DeleteEC2NodeClass, TypeOK, mgmtVars, mgmtCaches
<1>10. CASE RemoveFinalizer(w)
  <2>1. Idle(worker[w].key) \in Worker
    BY WorkerType, IdleType
  <2> QED
    BY <1>10, <2>1, EmptyObjects, PatchType DEF RemoveFinalizer, TypeOK, mgmtVars, mgmtCaches
<1>11. CASE CallFails(w)
  BY <1>11, EndType DEF CallFails, Spend, TypeOK, hostedVars, mgmtVars, hostedCaches, mgmtCaches
<1> QED
  BY <1>2, <1>3, <1>4, <1>5, <1>6, <1>7, <1>8, <1>9, <1>10, <1>11 DEF WorkerStep

LEMMA TypeEnvironment ==
  ASSUME TypeOK, Environment
  PROVE  TypeOK'
<1>1. ASSUME NEW n \in Names, NEW obj \in NodeClass, UserWrites(n, obj), budget' \in Nat
      PROVE  TypeOK'
  BY <1>1, WriteNodeClassType, OutdatedType DEF UserWrites, TypeOK, mgmtVars, mgmtCaches
<1>2. ASSUME NEW n \in Names, NEW obj \in EC2, KarpenterWrites(n, obj), budget' \in Nat
      PROVE  TypeOK'
  BY <1>2, WriteEC2Type DEF KarpenterWrites, TypeOK, mgmtVars, mgmtCaches
<1>3. ASSUME NEW kind, Spend(kind) PROVE budget' \in Nat
  BY <1>3 DEF Spend, TypeOK
<1>4. ASSUME NEW n \in Names, CreateNodeClass(n) \/ DeleteNodeClass(n) \/ PinNodeClass(n)
      PROVE  TypeOK'
  <2>1. [NoNodeClass EXCEPT !.exists = TRUE] \in NodeClass
    BY EmptyObjects DEF NodeClass
  <2>2. Deleted(nc[n], nc[n].finalizer, NoNodeClass) \in NodeClass
    BY DeletedType DEF TypeOK, NodeClass
  <2>3. [nc[n] EXCEPT !.pinned = ~@] \in NodeClass
    BY DEF TypeOK, NodeClass
  <2> QED
    BY <1>1, <1>3, <1>4, <2>1, <2>2, <2>3 DEF CreateNodeClass, DeleteNodeClass, PinNodeClass
<1>5. ASSUME NEW n \in Names, NEW status \in {"True", "False"}, ResolveVersion(n, status)
      PROVE  TypeOK'
  <2> DEFINE obj == [nc[n] EXCEPT !.status.conditions["VersionResolved"] =
                        [status |-> status, time |-> Now]]
  <2>1. [status |-> status, time |-> Now] \in Condition
    BY NowIsATime DEF Condition
  <2>2. obj \in NodeClass
    <3> DEFINE c == [nc[n].status.conditions EXCEPT !["VersionResolved"] =
                        [status |-> status, time |-> Now]]
    <3>1. nc[n] \in NodeClass
      BY DEF TypeOK
    <3>2. c \in Conditions
      BY <2>1, <3>1 DEF NodeClass, Status, Conditions
    <3>3. obj = [nc[n] EXCEPT !.status = [nc[n].status EXCEPT !.conditions = c]]
      BY <3>1 DEF NodeClass, Status
    <3> HIDE DEF c, obj
    <3> QED BY <3>1, <3>2, <3>3 DEF NodeClass, Status
  <2>3. UserWrites(n, obj) /\ budget' \in Nat
    BY <1>3, <1>5 DEF ResolveVersion
  <2> HIDE DEF obj
  <2> QED
    BY <1>1, <2>2, <2>3
<1>6. ASSUME NEW n \in Names,
             CreateSecret(n) \/ \E v \in 1..MaxSecret : RotateToken(n, v) \/ DeleteSecret(n, v)
      PROVE  TypeOK'
  <2>1. lastSecret' \in Nat /\ secrets' \in [Names -> SUBSET Nat] /\ budget' \in Nat
    BY <1>3, <1>6 DEF CreateSecret, RotateToken, DeleteSecret, ChangeSecrets, TypeOK
  <2> QED
    BY <1>6, <2>1 DEF CreateSecret, RotateToken, DeleteSecret, ChangeSecrets, TypeOK,
                      hostedVars, hostedCaches, mgmtCaches
<1>7. ASSUME NEW n \in Names, AddTermination(n) \/ ReleaseEC2(n)
      PROVE  TypeOK'
  <2>1. [ec2[n] EXCEPT !.termination = TRUE] \in EC2
    <3>1. ec2[n] \in EC2
      BY DEF TypeOK
    <3> QED BY <3>1 DEF EC2
  <2>2. budget' \in Nat
    BY <1>7 DEF AddTermination, ReleaseEC2, TypeOK
  <2> QED
    BY <1>2, <1>7, <2>1, <2>2, EmptyObjects DEF AddTermination, ReleaseEC2
<1>8. ASSUME NEW n \in Names, NEW S \in Reports, ReportStatus(n, S)
      PROVE  TypeOK'
  <2> DEFINE ready == [status |-> IF S = {} THEN "False" ELSE "True", time |-> Now]
             conditions == [ec2[n].status.conditions EXCEPT !["Ready"] = ready]
             obj == [ec2[n] EXCEPT !.status = [subnets |-> S, conditions |-> conditions]]
  <2>1. ready \in Condition
    BY NowIsATime DEF Condition
  <2>2. conditions \in Conditions
    <3> HIDE DEF ready
    <3> QED BY <2>1 DEF TypeOK, EC2, Status, Conditions
  <2>3. obj \in EC2
    <3> HIDE DEF conditions
    <3>1. [subnets |-> S, conditions |-> conditions] \in Status
      BY <2>2, ConstantsAreTyped DEF Status
    <3>2. ec2[n] \in EC2
      BY DEF TypeOK
    <3> QED BY <3>1, <3>2 DEF EC2
  <2>4. KarpenterWrites(n, obj) /\ budget' \in Nat
    BY <1>3, <1>8 DEF ReportStatus
  <2> HIDE DEF obj
  <2> QED
    BY <1>2, <2>3, <2>4
<1>9. ASSUME NEW kind, NEW h \in HCP, ChangeHCP(kind, h)
      PROVE  TypeOK'
  <2>1. cm' \subseteq Subnets /\ budget' \in Nat /\ hcp' \in HCP
    BY <1>3, <1>9 DEF ChangeHCP, TypeOK
  <2>2. fcm' \in BOOLEAN
    BY <1>9 DEF ChangeHCP
  <2> QED
    BY <1>9, <2>1, <2>2 DEF ChangeHCP, TypeOK, hostedVars, hostedCaches
<1>10. CASE CreateHCP \/ DeleteHCP \/ ChangePlatform \/ CompleteUpgrade
            \/ \E r \in 1..MaxRelease : SetDesiredRelease(r)
  <2>1. /\ [hcp EXCEPT !.state = "live"] \in HCP /\ [hcp EXCEPT !.state = "gone"] \in HCP
        /\ [hcp EXCEPT !.platform = @ + 1] \in HCP
        /\ [hcp EXCEPT !.completed = hcp.desired] \in HCP
        /\ \A r \in 1..MaxRelease : [hcp EXCEPT !.desired = r] \in HCP
    BY DEF TypeOK, HCP
  <2> QED
    BY <1>9, <1>10, <2>1 DEF CreateHCP, DeleteHCP, ChangePlatform, CompleteUpgrade, SetDesiredRelease
<1>11. ASSUME NEW object \in {"policy", "binding"}, TamperVAP(object)
       PROVE  TypeOK'
  BY <1>3, <1>11, WriteVAPType DEF TamperVAP, TypeOK, mgmtVars, mgmtCaches
<1> QED
  BY <1>4, <1>5, <1>6, <1>7, <1>8, <1>10, <1>11 DEF Environment

(* Every variable keeps its type; in particular the user data and the AMIs of  *)
(* an EC2NodeClass are versions of Secrets and the ConfigMap lists subnets.   *)
THEOREM TypeCorrect == Spec => []TypeOK
<1>1. TypeOK /\ [Next]_vars => TypeOK'
  <2> SUFFICES ASSUME TypeOK, [Next]_vars PROVE TypeOK'
    OBVIOUS
  <2>1. CASE Restart
    <3>1. \A w \in Workers : Idle(worker[w].key) \in Worker
      BY WorkerType, IdleType
    <3>2. worker' \in [Workers -> Worker]
      BY <2>1, <3>1 DEF Restart
    <3>3. fvap' \in VAP
      BY <2>1 DEF Restart, VAP
    <3> QED
      BY <2>1, <3>2, <3>3 DEF Restart, Spend, TypeOK, hostedVars, mgmtVars
  <2>2. CASE SyncNodeClasses \/ SyncEC2NodeClasses
    BY <2>2 DEF SyncNodeClasses, SyncEC2NodeClasses, TypeOK, hostedVars, mgmtVars, mgmtCaches
  <2>3. CASE SyncSecrets \/ SyncConfigMap \/ SyncHCP
    BY <2>3 DEF SyncSecrets, SyncConfigMap, SyncHCP, mapToOpenShiftEC2NodeClasses, TypeOK,
                hostedVars, mgmtVars, hostedCaches
  <2>4. CASE SyncVAP
    <3>1. fvap' \in VAP
      BY <2>4 DEF SyncVAP, VAP
    <3> QED
      BY <2>4, <3>1 DEF SyncVAP, mapToOpenShiftEC2NodeClasses, TypeOK, hostedVars, mgmtVars, mgmtCaches
  <2>5. CASE UNCHANGED vars
    BY <2>5 DEF vars, TypeOK
  <2> QED
    BY <2>1, <2>2, <2>3, <2>4, <2>5, TypeWorkers, TypeEnvironment DEF Next, Informers
<1> QED
  BY <1>1, TypeInit, PTL DEF Spec

-----------------------------------------------------------------------------
(* User data.  The inductive invariant relates an EC2NodeClass and its cached *)
(* copy, which an update starts from, to the Secrets: no user data in use is  *)
(* newer than a Secret that still exists or is still cached.  Only because    *)
(* HyperShift's versions grow and it deletes the oldest Secret first can the  *)
(* one Secret a cache shows never be older than what is already in use.       *)

EC2CacheCurrent == \A n \in Names : fec2[n] => cec2[n] = ec2[n]

CachedMatchesAMIs == \A n \in Names : cec2[n].userData = cec2[n].amis

SecretsKnown ==
    \A n \in Names : \A u \in secrets[n] \cup csecrets[n] : u <= lastSecret

(* No Secret is older than all cached ones. *)
CachedFirst ==
    \A n \in Names : \A u \in secrets[n] :
        csecrets[n] # {} => \E w \in csecrets[n] : w <= u

(* User data x of NodeClass n precedes every Secret of it, now and later. *)
Precedes(x, n) == x <= lastSecret /\ \A u \in secrets[n] \cup csecrets[n] : x <= u

InUsePrecedes ==
    \A n \in Names : Precedes(ec2[n].userData, n) /\ Precedes(cec2[n].userData, n)

UserDataInv ==
    /\ EC2CacheCurrent /\ CachedMatchesAMIs /\ UserDataMatchesAMIs
    /\ SecretsKnown /\ CachedFirst /\ InUsePrecedes

NoRollBack ==
    \A n \in Names : ec2[n].exists /\ ec2'[n].exists => ec2[n].userData <= ec2'[n].userData

LEMMA EC2Fields ==
  ASSUME TypeOK, NEW n \in Names
  PROVE  /\ ec2[n].userData \in Nat /\ cec2[n].userData \in Nat
         /\ secrets[n] \subseteq Nat /\ csecrets[n] \subseteq Nat /\ lastSecret \in Nat
  BY DEF TypeOK, EC2

LEMMA UserDataInit == Init => UserDataInv
<1> SUFFICES ASSUME Init PROVE UserDataInv
  OBVIOUS
<1>1. EC2CacheCurrent /\ CachedMatchesAMIs /\ UserDataMatchesAMIs
  BY DEF Init, EC2CacheCurrent, CachedMatchesAMIs, UserDataMatchesAMIs, NoEC2
<1>2. SecretsKnown /\ CachedFirst
  BY DEF Init, SecretsKnown, CachedFirst
<1>3. \A n \in Names : /\ ec2[n].userData = (IF n \in Settled THEN 1 ELSE 0)
                       /\ cec2[n].userData = ec2[n].userData
  BY DEF Init, NoEC2
<1>4. InUsePrecedes
  BY <1>3, ConstantsAreTyped DEF Init, InUsePrecedes, Precedes
<1> QED
  BY <1>1, <1>2, <1>4 DEF UserDataInv

(* Steps that concern neither EC2NodeClasses nor Secrets. *)
LEMMA UserDataElsewhere ==
  ASSUME TypeOK, UserDataInv, UNCHANGED <<ec2, cec2, fec2, secrets, csecrets, lastSecret>>
  PROVE  UserDataInv' /\ NoRollBack
<1>1. UserDataInv'
  BY DEF UserDataInv, EC2CacheCurrent, CachedMatchesAMIs, UserDataMatchesAMIs, SecretsKnown,
         CachedFirst, InUsePrecedes, Precedes
<1>2. NoRollBack
  BY EC2Fields DEF NoRollBack
<1> QED BY <1>1, <1>2

(* A write that takes user data and AMIs from the same source, which precedes *)
(* all Secrets and does not precede what the EC2NodeClass has now.            *)
LEMMA UserDataWrite ==
  ASSUME TypeOK, UserDataInv, NEW n \in Names, NEW obj, WriteEC2(n, obj),
         obj.userData = obj.amis, Precedes(obj.userData, n),
         ec2[n].exists /\ obj.exists => ec2[n].userData <= obj.userData,
         UNCHANGED <<cec2, secrets, csecrets, lastSecret>>
  PROVE  UserDataInv' /\ NoRollBack
<1>1. ec2'[n] = obj /\ (fec2'[n] => fec2[n] /\ obj = ec2[n])
      /\ \A m \in Names \ {n} : ec2'[m] = ec2[m] /\ fec2'[m] = fec2[m]
  BY DEF WriteEC2, TypeOK
<1>2. EC2CacheCurrent' /\ CachedMatchesAMIs' /\ UserDataMatchesAMIs'
  BY <1>1 DEF UserDataInv, EC2CacheCurrent, CachedMatchesAMIs, UserDataMatchesAMIs
<1>3. SecretsKnown' /\ CachedFirst'
  BY DEF UserDataInv, SecretsKnown, CachedFirst
<1>4. InUsePrecedes'
  <2>1. \A x, m : Precedes(x, m)' <=> Precedes(x, m)
    BY DEF Precedes
  <2> QED
    BY <1>1 DEF UserDataInv, InUsePrecedes, Precedes
<1>5. NoRollBack
  <2>1. ASSUME NEW m \in Names \ {n} PROVE ec2[m].userData <= ec2'[m].userData
    BY <1>1, EC2Fields
  <2> QED
    BY <1>1, <2>1 DEF NoRollBack
<1> QED BY <1>2, <1>3, <1>4, <1>5 DEF UserDataInv

(* Karpenter, and a deletion, keep the user data or remove the EC2NodeClass. *)
LEMMA UserDataKept ==
  ASSUME TypeOK, UserDataInv, NEW n \in Names, NEW obj, WriteEC2(n, obj),
         obj = NoEC2 \/ (obj.userData = ec2[n].userData /\ obj.amis = ec2[n].amis),
         UNCHANGED <<cec2, secrets, csecrets, lastSecret>>
  PROVE  UserDataInv' /\ NoRollBack
<1>1. CASE obj = NoEC2
  <2>1. obj.userData = 0 /\ obj.amis = 0 /\ ~obj.exists
    BY <1>1 DEF NoEC2
  <2>2. Precedes(obj.userData, n)
    BY <2>1, EC2Fields DEF Precedes
  <2> QED
    BY <2>1, <2>2, UserDataWrite
<1>2. CASE obj.userData = ec2[n].userData /\ obj.amis = ec2[n].amis
  <2>1. obj.userData = obj.amis /\ Precedes(obj.userData, n) /\ ec2[n].userData <= obj.userData
    BY <1>2, EC2Fields DEF UserDataInv, UserDataMatchesAMIs, InUsePrecedes
  <2> QED
    BY <2>1, UserDataWrite
<1> QED BY <1>1, <1>2

(* Caches catch up. *)
LEMMA UserDataSync ==
  ASSUME TypeOK, UserDataInv, UNCHANGED <<ec2, secrets, lastSecret>>,
         \/ cec2' = ec2
         \/ UNCHANGED <<cec2, fec2>>,
         csecrets' = secrets \/ UNCHANGED csecrets
  PROVE  UserDataInv' /\ NoRollBack
<1>1. EC2CacheCurrent' /\ CachedMatchesAMIs' /\ UserDataMatchesAMIs'
  BY DEF UserDataInv, EC2CacheCurrent, CachedMatchesAMIs, UserDataMatchesAMIs
<1>2. SecretsKnown' /\ CachedFirst'
  <2>1. \A n \in Names : \A u \in secrets[n] : u <= u
    BY EC2Fields
  <2> QED
    BY <2>1 DEF UserDataInv, SecretsKnown, CachedFirst
<1>3. InUsePrecedes'
  BY DEF UserDataInv, InUsePrecedes, Precedes
<1>4. NoRollBack
  BY EC2Fields DEF NoRollBack
<1> QED BY <1>1, <1>2, <1>3, <1>4 DEF UserDataInv

(* HyperShift changes the Secrets of a NodeClass: what it adds is new. *)
LEMMA UserDataSecrets ==
  ASSUME TypeOK, UserDataInv, NEW n \in Names, NEW S, secrets' = [secrets EXCEPT ![n] = S],
         \/ S \subseteq secrets[n] /\ lastSecret' = lastSecret
         \/ S \subseteq secrets[n] \cup {lastSecret'} /\ lastSecret' = lastSecret + 1,
         UNCHANGED <<ec2, cec2, fec2, csecrets>>
  PROVE  UserDataInv' /\ NoRollBack
<1>1. lastSecret \in Nat /\ lastSecret' \in Nat /\ lastSecret <= lastSecret'
  BY DEF TypeOK
<1>2. ASSUME NEW m \in Names, NEW u \in secrets'[m]
      PROVE  u \in secrets[m] \/ (u = lastSecret' /\ lastSecret' = lastSecret + 1)
  BY DEF TypeOK
<1>3. EC2CacheCurrent' /\ CachedMatchesAMIs' /\ UserDataMatchesAMIs'
  BY DEF UserDataInv, EC2CacheCurrent, CachedMatchesAMIs, UserDataMatchesAMIs
<1>4. SecretsKnown'
  <2>1. ASSUME NEW m \in Names, NEW u \in secrets'[m] \cup csecrets[m] PROVE u <= lastSecret'
    BY <1>1, <1>2, <2>1, EC2Fields DEF UserDataInv, SecretsKnown
  <2> QED
    BY <2>1 DEF SecretsKnown
<1>5. CachedFirst'
  <2>1. ASSUME NEW m \in Names, NEW u \in secrets'[m], NEW c \in csecrets[m]
        PROVE  \E w \in csecrets[m] : w <= u
    <3>1. CASE u \in secrets[m]
      BY <2>1, <3>1 DEF UserDataInv, CachedFirst
    <3>2. CASE u = lastSecret' /\ lastSecret' = lastSecret + 1
      <4>1. c <= lastSecret /\ c \in Nat
        BY EC2Fields DEF UserDataInv, SecretsKnown
      <4> QED
        BY <1>1, <3>2, <4>1
    <3> QED BY <1>2, <3>1, <3>2
  <2> QED
    BY <2>1 DEF CachedFirst
<1>6. InUsePrecedes'
  <2>1. ASSUME NEW m \in Names, NEW x \in Nat, Precedes(x, m) PROVE Precedes(x, m)'
    <3>1. \A u \in secrets'[m] : x <= u
      BY <1>1, <1>2, <2>1, EC2Fields DEF Precedes
    <3>2. x <= lastSecret'
      BY <1>1, <2>1 DEF Precedes
    <3> QED
      BY <2>1, <3>1, <3>2 DEF Precedes
  <2>2. ASSUME NEW m \in Names
        PROVE  Precedes(ec2[m].userData, m)' /\ Precedes(cec2[m].userData, m)'
    <3>1. ec2[m].userData \in Nat /\ cec2[m].userData \in Nat
      BY EC2Fields
    <3>2. Precedes(ec2[m].userData, m) /\ Precedes(cec2[m].userData, m)
      BY DEF UserDataInv, InUsePrecedes
    <3>3. ec2'[m].userData = ec2[m].userData /\ cec2'[m].userData = cec2[m].userData
      OBVIOUS
    <3> QED
      BY <2>1, <3>1, <3>2, <3>3 DEF Precedes
  <2> QED
    BY <2>2 DEF InUsePrecedes
<1>7. NoRollBack
  BY EC2Fields DEF NoRollBack
<1> QED BY <1>3, <1>4, <1>5, <1>6, <1>7 DEF UserDataInv

(* The user data and AMIs an update writes, and what it keeps. *)
LEMMA reconcileEC2NodeClassFields ==
  ASSUME NEW current \in EC2, NEW obj, NEW h \in HCP, NEW v \in Nat
  PROVE  LET d == reconcileEC2NodeClass(current, obj, h, v)
         IN  \/ d.userData = current.userData /\ d.amis = current.amis
             \/ d.userData = v /\ d.amis = v
  BY DEF reconcileEC2NodeClass, EC2

(* CreateOrUpdate writes the one Secret the cache shows, or holds back what    *)
(* the cached EC2NodeClass has; the API server accepts it only from a current  *)
(* copy.                                                                       *)
LEMMA UserDataApply ==
  ASSUME TypeOK, UserDataInv, NEW w \in Workers, Apply(w)
  PROVE  UserDataInv' /\ NoRollBack
<1> DEFINE k == worker[w].key
<1>1. UNCHANGED <<cec2, secrets, csecrets, lastSecret>>
  BY DEF Apply, mgmtVars, mgmtCaches
<1>2. CASE UNCHANGED <<ec2, fec2>>
  BY <1>1, <1>2, UserDataElsewhere
<1>3. ASSUME NEW v \in csecrets[k], GetUserDataSecret(csecrets[k], v),
             CreateOrUpdate(w, k, reconcileEC2NodeClass(cec2[k], worker[w].obj, worker[w].hcp, v))
      PROVE  UserDataInv' /\ NoRollBack
  <2> DEFINE desired == reconcileEC2NodeClass(cec2[k], worker[w].obj, worker[w].hcp, v)
  <2>1. k \in Names /\ cec2[k] \in EC2 /\ v \in Nat /\ worker[w].hcp \in HCP
    BY WorkerType DEF TypeOK
  <2>2. \/ desired.userData = cec2[k].userData /\ desired.amis = cec2[k].amis
        \/ desired.userData = v /\ desired.amis = v
    BY <2>1, reconcileEC2NodeClassFields
  <2>3. CreateOrUpdate(w, k, desired)
    BY <1>3
  <2> HIDE DEF desired
  <2>4. Precedes(v, k)
    <3>1. csecrets[k] = {v}
      BY <1>3 DEF GetUserDataSecret
    <3>2. v <= lastSecret
      BY <2>1 DEF UserDataInv, SecretsKnown
    <3>3. \A u \in secrets[k] : v <= u
      BY <2>1, <3>1 DEF UserDataInv, CachedFirst
    <3>4. \A u \in csecrets[k] : v <= u
      BY <2>1, <3>1
    <3> QED
      BY <3>2, <3>3, <3>4 DEF Precedes
  <2>5. desired.userData = desired.amis /\ Precedes(desired.userData, k)
    BY <2>1, <2>2, <2>4 DEF UserDataInv, CachedMatchesAMIs, InUsePrecedes
  <2>6. CASE (IF cec2[k].exists THEN fec2[k] ELSE ~ec2[k].exists) /\ WriteEC2(k, desired)
    <3>1. ec2[k].exists => cec2[k] = ec2[k]
      BY <2>1, <2>6 DEF UserDataInv, EC2CacheCurrent
    <3>2. ec2[k].userData <= v /\ ec2[k].userData <= ec2[k].userData
      BY <2>1, EC2Fields DEF UserDataInv, InUsePrecedes, Precedes
    <3>3. ec2[k].exists => ec2[k].userData <= desired.userData
      BY <2>2, <3>1, <3>2
    <3> QED
      BY <1>1, <2>1, <2>5, <2>6, <3>3, UserDataWrite
  <2> QED
    BY <1>2, <2>3, <2>6 DEF CreateOrUpdate
<1> QED
  BY <1>2, <1>3 DEF Apply

LEMMA UserDataNext == TypeOK /\ UserDataInv /\ [Next]_vars => UserDataInv' /\ NoRollBack
<1> SUFFICES ASSUME TypeOK, UserDataInv, [Next]_vars PROVE UserDataInv' /\ NoRollBack
  OBVIOUS
<1> DEFINE Elsewhere == UNCHANGED <<ec2, cec2, fec2, secrets, csecrets, lastSecret>>
<1>1. ASSUME Elsewhere PROVE UserDataInv' /\ NoRollBack
  BY <1>1, UserDataElsewhere
<1>2. ASSUME NEW w \in Workers,
             (\E n \in Names : Reconcile(w, n)) \/ WorkerStep(w) \/ CallFails(w)
      PROVE  UserDataInv' /\ NoRollBack
  <2>1. CASE Apply(w)
    BY <2>1, UserDataApply
  <2>2. CASE DeleteEC2NodeClass(w)
    <3> DEFINE k == worker[w].key
               obj == Deleted(ec2[k], ec2[k].termination, NoEC2)
    <3>1. k \in Names /\ ec2[k] \in EC2
      BY WorkerType DEF TypeOK
    <3>2. obj = NoEC2 \/ (obj.userData = ec2[k].userData /\ obj.amis = ec2[k].amis)
      BY <3>1 DEF Deleted, EC2
    <3>3. UNCHANGED <<cec2, secrets, csecrets, lastSecret>>
          /\ (WriteEC2(k, obj) \/ UNCHANGED <<ec2, fec2>>)
      BY <2>2 DEF DeleteEC2NodeClass, mgmtVars, mgmtCaches
    <3> HIDE DEF obj
    <3> QED
      BY <1>1, <3>1, <3>2, <3>3, UserDataKept
  <2>3. CASE ~Apply(w) /\ ~DeleteEC2NodeClass(w)
    BY <1>1, <1>2, <2>3
       DEF Reconcile, WorkerStep, AddFinalizer, PatchStatus, ListSubnets, PublishSubnets,
           ReconcilePolicy, ReconcileBinding, ReconcileVAP, RemoveFinalizer, CallFails,
           hostedVars, mgmtVars, hostedCaches, mgmtCaches
  <2> QED BY <2>1, <2>2, <2>3
<1>3. CASE Restart
  BY <1>3, UserDataSync DEF Restart, hostedVars, mgmtVars
<1>4. CASE Informers
  <2>1. CASE SyncEC2NodeClasses
    BY <2>1, UserDataSync DEF SyncEC2NodeClasses, hostedVars, mgmtVars, mgmtCaches
  <2>2. CASE SyncSecrets
    BY <2>2, UserDataSync DEF SyncSecrets, hostedVars, mgmtVars, hostedCaches
  <2>3. CASE SyncNodeClasses \/ SyncConfigMap \/ SyncHCP \/ SyncVAP
    BY <1>1, <2>3 DEF SyncNodeClasses, SyncConfigMap, SyncHCP, SyncVAP,
                      hostedVars, mgmtVars, hostedCaches, mgmtCaches
  <2> QED BY <1>4, <2>1, <2>2, <2>3 DEF Informers
<1>5. CASE Environment
  <2>1. ASSUME NEW n \in Names,
               \/ CreateNodeClass(n) \/ DeleteNodeClass(n) \/ PinNodeClass(n)
               \/ \E status \in {"True", "False"} : ResolveVersion(n, status)
        PROVE  UserDataInv' /\ NoRollBack
    BY <1>1, <2>1 DEF CreateNodeClass, DeleteNodeClass, PinNodeClass, ResolveVersion, UserWrites,
                      mgmtVars, mgmtCaches
  <2>2. ASSUME NEW n \in Names,
               CreateSecret(n) \/ \E v \in 1..MaxSecret : RotateToken(n, v) \/ DeleteSecret(n, v)
        PROVE  UserDataInv' /\ NoRollBack
    <3>1. \E S : /\ secrets' = [secrets EXCEPT ![n] = S]
                 /\ \/ S \subseteq secrets[n] /\ lastSecret' = lastSecret
                    \/ S \subseteq secrets[n] \cup {lastSecret'} /\ lastSecret' = lastSecret + 1
      BY <2>2 DEF CreateSecret, RotateToken, DeleteSecret, ChangeSecrets
    <3>2. UNCHANGED <<ec2, cec2, fec2, csecrets>>
      BY <2>2 DEF CreateSecret, RotateToken, DeleteSecret, ChangeSecrets,
                  hostedVars, hostedCaches, mgmtCaches
    <3> QED
      BY <3>1, <3>2, UserDataSecrets
  <2>3. ASSUME NEW n \in Names, NEW obj, KarpenterWrites(n, obj),
               obj = NoEC2 \/ (obj.userData = ec2[n].userData /\ obj.amis = ec2[n].amis)
        PROVE  UserDataInv' /\ NoRollBack
    BY <2>3, UserDataKept DEF KarpenterWrites, mgmtVars, mgmtCaches
  <2>4. ASSUME NEW n \in Names,
               AddTermination(n) \/ ReleaseEC2(n) \/ \E S \in Reports : ReportStatus(n, S)
        PROVE  UserDataInv' /\ NoRollBack
    <3>1. ec2[n] \in EC2
      BY DEF TypeOK
    <3>2. \A x : /\ [ec2[n] EXCEPT !.status = x].userData = ec2[n].userData
                 /\ [ec2[n] EXCEPT !.status = x].amis = ec2[n].amis
      BY <3>1 DEF EC2
    <3>3. /\ [ec2[n] EXCEPT !.termination = TRUE].userData = ec2[n].userData
          /\ [ec2[n] EXCEPT !.termination = TRUE].amis = ec2[n].amis
      BY <3>1 DEF EC2
    <3>4. CASE AddTermination(n)
      BY <2>3, <3>3, <3>4 DEF AddTermination
    <3>5. CASE ReleaseEC2(n)
      BY <2>3, <3>5 DEF ReleaseEC2
    <3>6. CASE \E S \in Reports : ReportStatus(n, S)
      <4>1. \E x : KarpenterWrites(n, [ec2[n] EXCEPT !.status = x])
        BY <3>6 DEF ReportStatus
      <4> QED
        BY <2>3, <3>2, <4>1
    <3> QED BY <2>4, <3>4, <3>5, <3>6
  <2>5. CASE \/ CreateHCP \/ DeleteHCP \/ ChangePlatform \/ CompleteUpgrade
             \/ \E r \in 1..MaxRelease : SetDesiredRelease(r)
             \/ \E object \in {"policy", "binding"} : TamperVAP(object)
    BY <1>1, <2>5 DEF CreateHCP, DeleteHCP, ChangePlatform, CompleteUpgrade, SetDesiredRelease,
                      ChangeHCP, TamperVAP, hostedVars, mgmtVars, hostedCaches, mgmtCaches
  <2> QED BY <1>5, <2>1, <2>2, <2>4, <2>5 DEF Environment
<1>6. CASE UNCHANGED vars
  BY <1>1, <1>6 DEF vars
<1> QED
  BY <1>2, <1>3, <1>4, <1>5, <1>6 DEF Next

LEMMA UserDataThroughout == Spec => []UserDataInv
  BY UserDataInit, UserDataNext, TypeCorrect, PTL DEF Spec

(* User data and AMIs of an EC2NodeClass always come from the same Secret, in  *)
(* spite of the two being held back by a condition on both.                    *)
THEOREM UserDataMatchesAMIsTheorem == Spec => []UserDataMatchesAMIs
<1>1. UserDataInv => UserDataMatchesAMIs
  BY DEF UserDataInv
<1> QED
  BY <1>1, UserDataThroughout, PTL

(* No EC2NodeClass returns to older user data, for any number of rotations,    *)
(* upgrades, workers, conflicts and restarts.                                  *)
THEOREM UserDataNeverRollsBackTheorem == Spec => UserDataNeverRollsBack
<1>1. TypeOK /\ UserDataInv /\ [Next]_vars => [NoRollBack]_vars
  BY UserDataNext
<1>2. [][NoRollBack]_vars => UserDataNeverRollsBack
  BY DEF NoRollBack, UserDataNeverRollsBack
<1> QED
  BY <1>1, <1>2, UserDataThroughout, TypeCorrect, PTL DEF Spec

-----------------------------------------------------------------------------
(* The finalizer.  Only the worker that holds a NodeClass removes its         *)
(* finalizer, and only when its own, current copy says that it is being       *)
(* deleted; so a cached NodeClass with a finalizer that does not is right     *)
(* about the finalizer, however old it is.                                    *)

CacheCurrent == \A n \in Names : fnc[n] => cnc[n] = nc[n]

CachedFinalizer ==
    \A n \in Names : cnc[n].exists /\ cnc[n].finalizer /\ ~cnc[n].deleting
                       => nc[n].exists /\ nc[n].finalizer

(* No two workers are busy with the same NodeClass. *)
KeysAreDistinct ==
    \A v, w \in Workers :
        v # w /\ worker[v].pc # "idle" /\ worker[w].pc # "idle" => worker[v].key # worker[w].key

(* What a busy worker x relies on. *)
Relies(x) ==
    x.pc # "idle" =>
      /\ x.fresh => x.obj = nc[x.key]
      /\ x.fresh /\ x.obj.deleting => fnc[x.key]
      /\ x.pc = "finalize" => x.obj.exists
      /\ x.pc \in {"finalize", "apply", "status"} => ~x.obj.deleting
      /\ x.pc \in {"apply", "status"} => nc[x.key].exists /\ nc[x.key].finalizer
      /\ x.pc = "unfinalize" => x.obj.deleting

WorkersRely == \A w \in Workers : Relies(worker[w])

FinalizerInv == CacheCurrent /\ CachedFinalizer /\ KeysAreDistinct /\ WorkersRely

UnderFinalizer ==
    \A n \in Names : ~ec2[n].exists /\ ec2'[n].exists => nc[n].exists /\ nc[n].finalizer

LEMMA FinalizerInit == Init => FinalizerInv
<1> SUFFICES ASSUME Init PROVE FinalizerInv
  OBVIOUS
<1>1. \A w \in Workers : worker[w].pc = "idle"
  BY IdleType DEF Init
<1> QED
  BY <1>1 DEF Init, FinalizerInv, CacheCurrent, CachedFinalizer, KeysAreDistinct, WorkersRely, Relies

(* Steps of a worker that leave the NodeClasses alone: it ends its reconcile, *)
(* or goes on with the same copy.                                             *)
LEMMA FinalizerWorker ==
  ASSUME TypeOK, FinalizerInv, NEW w \in Workers, NEW next \in Worker, Become(w, next),
         UNCHANGED <<nc, cnc, fnc>>,
         next.pc # "idle" => worker[w].pc # "idle" /\ next.key = worker[w].key,
         Relies(next)
  PROVE  FinalizerInv'
<1>1. worker'[w] = next /\ \A v \in Workers \ {w} : worker'[v] = worker[v]
  BY DEF Become, TypeOK
<1>2. CacheCurrent' /\ CachedFinalizer'
  BY DEF FinalizerInv, CacheCurrent, CachedFinalizer
<1>3. KeysAreDistinct'
  BY <1>1 DEF FinalizerInv, KeysAreDistinct
<1>4. WorkersRely'
  BY <1>1 DEF FinalizerInv, WorkersRely, Relies
<1> QED BY <1>2, <1>3, <1>4 DEF FinalizerInv

LEMMA FinalizerElsewhere ==
  ASSUME FinalizerInv, UNCHANGED <<nc, cnc, fnc, worker>>
  PROVE  FinalizerInv'
  BY DEF FinalizerInv, CacheCurrent, CachedFinalizer, KeysAreDistinct, WorkersRely, Relies

LEMMA FinalizerEnd ==
  ASSUME TypeOK, FinalizerInv, NEW w \in Workers, Done(w) \/ Again(w), UNCHANGED <<nc, cnc, fnc>>
  PROVE  FinalizerInv'
<1> DEFINE next == Idle(worker[w].key)
<1>1. next \in Worker /\ next.pc = "idle" /\ Become(w, next)
  BY WorkerType, IdleType DEF Done, Again
<1> HIDE DEF next
<1>2. Relies(next)
  BY <1>1 DEF Relies
<1> QED
  BY <1>1, <1>2, FinalizerWorker

(* The steps after the status was patched only need the copy. *)
LEMMA FinalizerGoesOn ==
  ASSUME TypeOK, FinalizerInv, NEW w \in Workers, NEW next \in Worker, Become(w, next),
         UNCHANGED <<nc, cnc, fnc>>, worker[w].pc # "idle",
         next.key = worker[w].key, next.obj = worker[w].obj, next.fresh = worker[w].fresh,
         \/ next.pc \in {"list", "publish", "policy", "binding"}
         \/ next.pc = "unfinalize" /\ worker[w].obj.deleting
         \/ next.pc = "status" /\ worker[w].pc = "apply"
  PROVE  FinalizerInv'
<1>1. Relies(worker[w])
  BY DEF FinalizerInv, WorkersRely
<1>2. Relies(next)
  BY <1>1 DEF Relies
<1> QED
  BY <1>2, FinalizerWorker

(* Users and the ignition controller never take a finalizer away, and their   *)
(* write outdates the copy of whoever holds the NodeClass.                    *)
LEMMA FinalizerOthersWrite ==
  ASSUME TypeOK, FinalizerInv, NEW n \in Names, NEW obj \in NodeClass,
         WriteNodeClass(n, obj), worker' = Outdated(n), UNCHANGED cnc,
         nc[n].exists /\ nc[n].finalizer => obj.exists /\ obj.finalizer
  PROVE  FinalizerInv'
<1>1. \A m \in Names : nc[m].exists /\ nc[m].finalizer => nc'[m].exists /\ nc'[m].finalizer
  BY DEF TypeOK, WriteNodeClass
<1>2. CacheCurrent' /\ CachedFinalizer'
  BY <1>1 DEF FinalizerInv, CacheCurrent, CachedFinalizer, WriteNodeClass, TypeOK
<1>3. ASSUME NEW w \in Workers
      PROVE  /\ worker'[w].pc = worker[w].pc /\ worker'[w].key = worker[w].key
             /\ worker'[w].obj = worker[w].obj
             /\ worker'[w].fresh => worker[w].fresh /\ worker[w].key # n
  BY DEF Outdated, TypeOK, Worker
<1>4. KeysAreDistinct'
  BY <1>3 DEF FinalizerInv, KeysAreDistinct
<1>5. ASSUME NEW w \in Workers PROVE Relies(worker[w])'
  <2>1. worker[w].key # n => /\ nc'[worker[w].key] = nc[worker[w].key]
                             /\ fnc'[worker[w].key] = fnc[worker[w].key]
    BY WorkerType DEF WriteNodeClass, TypeOK
  <2>2. Relies(worker[w]) /\ worker[w].key \in Names
    BY WorkerType DEF FinalizerInv, WorkersRely
  <2> QED
    BY <1>1, <1>3, <2>1, <2>2 DEF Relies
<1> QED BY <1>2, <1>4, <1>5 DEF FinalizerInv, WorkersRely

(* A worker writes the NodeClass it holds: the others hold different ones. *)
LEMMA FinalizerOwnWrite ==
  ASSUME TypeOK, FinalizerInv, NEW w \in Workers, worker[w].pc # "idle",
         NEW obj \in NodeClass, NEW next \in Worker,
         WriteNodeClass(worker[w].key, obj), Become(w, next), UNCHANGED cnc,
         LET c == cnc[worker[w].key]
         IN  c.exists /\ c.finalizer /\ ~c.deleting => obj.exists /\ obj.finalizer,
         \/ next.pc = "idle"
         \/ /\ next.pc \in {"apply", "list"} /\ next.key = worker[w].key /\ next.obj = obj
            /\ ~obj.deleting /\ (next.pc = "apply" => obj.exists /\ obj.finalizer)
  PROVE  FinalizerInv'
<1> DEFINE k == worker[w].key
<1>1. k \in Names
  BY WorkerType
<1>2. /\ nc'[k] = obj /\ fnc'[k] = FALSE
      /\ \A m \in Names \ {k} : nc'[m] = nc[m] /\ fnc'[m] = fnc[m]
  BY <1>1 DEF WriteNodeClass, TypeOK
<1>3. worker'[w] = next /\ \A v \in Workers \ {w} : worker'[v] = worker[v]
  BY DEF Become, TypeOK
<1>4. CacheCurrent' /\ CachedFinalizer'
  BY <1>1, <1>2 DEF FinalizerInv, CacheCurrent, CachedFinalizer
<1>5. KeysAreDistinct'
  BY <1>3 DEF FinalizerInv, KeysAreDistinct
<1>6. Relies(worker[w])'
  BY <1>1, <1>2, <1>3 DEF Relies
<1>7. ASSUME NEW v \in Workers \ {w} PROVE Relies(worker[v])'
  <2>1. Relies(worker[v]) /\ worker[v].key \in Names
    BY WorkerType DEF FinalizerInv, WorkersRely
  <2>2. worker[v].pc # "idle" => worker[v].key # k
    BY DEF FinalizerInv, KeysAreDistinct
  <2> QED
    BY <1>2, <1>3, <2>1, <2>2 DEF Relies
<1> QED BY <1>4, <1>5, <1>6, <1>7 DEF FinalizerInv, WorkersRely

LEMMA FinalizerWorkers ==
  ASSUME TypeOK, FinalizerInv, NEW w \in Workers,
         (\E n \in Names : Reconcile(w, n)) \/ WorkerStep(w) \/ CallFails(w)
  PROVE  FinalizerInv'
<1> DEFINE k == worker[w].key
<1>1. Relies(worker[w]) /\ k \in Names /\ worker[w] \in Worker /\ worker[w].obj \in NodeClass
  BY WorkerType DEF FinalizerInv, WorkersRely
<1>2. ASSUME NEW n \in Names, Reconcile(w, n) PROVE FinalizerInv'
  <2> DEFINE next == [Idle(n) EXCEPT !.pc = FirstCall(cnc[n], cec2[n]), !.obj = cnc[n],
                                     !.fresh = fnc[n], !.hcp = chcp]
  <2>1. UNCHANGED <<nc, cnc, fnc>> /\ worker[w].pc = "idle"
    BY <1>2 DEF Reconcile, hostedVars, hostedCaches
  <2>2. CASE Become(w, Idle(n))
    BY <2>1, <2>2, IdleType, FinalizerWorker DEF Relies
  <2>3. CASE cnc[n].exists /\ Become(w, next)
    <3>1. next.key = n /\ next.obj = cnc[n] /\ next.fresh = fnc[n] /\ next.pc = FirstCall(cnc[n], cec2[n])
      BY DEF Idle
    <3>2. worker'[w] = next /\ \A v \in Workers \ {w} : worker'[v] = worker[v]
      BY <2>3 DEF Become, TypeOK
    <3> HIDE DEF next
    <3>3. Relies(worker[w])'
      BY <2>1, <2>3, <3>1, <3>2
         DEF FinalizerInv, CacheCurrent, CachedFinalizer, Relies, FirstCall
    <3>4. ASSUME NEW v \in Workers \ {w} PROVE Relies(worker[v])'
      BY <2>1, <3>2 DEF FinalizerInv, WorkersRely, Relies
    <3>5. KeysAreDistinct'
      <4>1. \A v \in Workers : worker[v].pc # "idle" => worker[v].key # n
        BY <1>2 DEF Reconcile, Busy
      <4> QED
        BY <3>1, <3>2, <4>1 DEF FinalizerInv, KeysAreDistinct
    <3> QED
      BY <2>1, <3>3, <3>4, <3>5 DEF FinalizerInv, CacheCurrent, CachedFinalizer, WorkersRely
  <2> QED
    BY <1>2, <2>2, <2>3 DEF Reconcile
<1>3. CASE AddFinalizer(w)
  <2> DEFINE obj == [worker[w].obj EXCEPT !.finalizer = TRUE]
             next == [worker[w] EXCEPT !.pc = "apply", !.obj = obj]
  <2>1. worker[w].pc = "finalize" /\ UNCHANGED cnc /\ Patch(w, obj, next)
    BY <1>3 DEF AddFinalizer
  <2>2. /\ obj \in NodeClass /\ obj.finalizer /\ obj.exists = worker[w].obj.exists
        /\ obj.deleting = worker[w].obj.deleting
    BY <1>1 DEF NodeClass
  <2>3. obj.exists /\ ~obj.deleting
    BY <1>1, <2>1, <2>2 DEF Relies
  <2>4. next \in Worker /\ next.pc = "apply" /\ next.key = k /\ next.obj = obj
    <3> HIDE DEF obj
    <3> QED BY <1>1, <2>2 DEF Worker
  <2> HIDE DEF obj, next
  <2>5. CASE WriteNodeClass(k, obj) /\ Become(w, next)
    BY <2>1, <2>2, <2>3, <2>4, <2>5, FinalizerOwnWrite
  <2>6. CASE Again(w) /\ UNCHANGED <<nc, fnc>>
    BY <2>1, <2>6, FinalizerEnd
  <2> QED BY <2>1, <2>5, <2>6 DEF Patch
<1>4. CASE Apply(w)
  <2>1. UNCHANGED <<nc, cnc, fnc>> /\ worker[w].pc = "apply"
    BY <1>4 DEF Apply
  <2>2. CASE Again(w)
    BY <2>1, <2>2, FinalizerEnd
  <2>3. ASSUME NEW status, Become(w, [worker[w] EXCEPT !.pc = "status", !.status = status])
        PROVE  FinalizerInv'
    <3> DEFINE next == [worker[w] EXCEPT !.pc = "status", !.status = status]
    <3>1. /\ next.key = k /\ next.obj = worker[w].obj /\ next.fresh = worker[w].fresh
          /\ next.pc = "status"
      BY <1>1 DEF Worker
    <3>2. next \in Worker
      <4>1. worker' \in [Workers -> Worker]
        BY <1>4, TypeWorkers DEF WorkerStep, TypeOK
      <4>2. worker'[w] = next
        BY <2>3 DEF Become, TypeOK
      <4> QED BY <4>1, <4>2
    <3>3. Become(w, next)
      BY <2>3
    <3> HIDE DEF next
    <3> QED
      BY <2>1, <3>1, <3>2, <3>3, FinalizerGoesOn
  <2> QED
    BY <1>4, <2>2, <2>3 DEF Apply, CreateOrUpdate
<1>5. ASSUME NEW p \in {"list", "policy", "binding", "unfinalize"}, Goto(w, p),
             UNCHANGED <<nc, cnc, fnc>>, worker[w].pc # "idle",
             p = "unfinalize" => worker[w].obj.deleting
      PROVE  FinalizerInv'
  <2> DEFINE on == [worker[w] EXCEPT !.pc = p]
  <2>1. /\ on \in Worker /\ on.pc = p /\ on.key = k /\ on.obj = worker[w].obj
        /\ on.fresh = worker[w].fresh
    BY <1>1 DEF Worker
  <2>2. Become(w, on)
    BY <1>5 DEF Goto
  <2> HIDE DEF on
  <2> QED
    BY <1>5, <2>1, <2>2, FinalizerGoesOn
<1>6. CASE PatchStatus(w)
  <2> DEFINE status == [subnets |-> worker[w].status.subnets,
                        conditions |-> SyncConditions(worker[w].obj.status.conditions,
                                                      worker[w].status.conditions)]
             new == [worker[w].obj EXCEPT !.status = status]
             next == [worker[w] EXCEPT !.pc = "list", !.obj = new]
  <2>1. worker[w].pc = "status" /\ UNCHANGED cnc
    BY <1>6 DEF PatchStatus
  <2>2. status \in Status
    BY WorkerType, SyncConditionsType DEF NodeClass, Status
  <2>3. \/ Goto(w, "list") /\ UNCHANGED <<nc, fnc, queue>>
        \/ Patch(w, new, next)
    BY <1>6 DEF PatchStatus
  <2> HIDE DEF status
  <2>4. /\ new \in NodeClass /\ new.finalizer = worker[w].obj.finalizer
        /\ new.exists = worker[w].obj.exists /\ new.deleting = worker[w].obj.deleting
    BY <1>1, <2>2 DEF NodeClass
  <2>5. next \in Worker /\ next.pc = "list" /\ next.key = k /\ next.obj = new
    <3> HIDE DEF new
    <3> QED BY <1>1, <2>4 DEF Worker
  <2> HIDE DEF new, next
  <2>6. CASE worker[w].fresh /\ WriteNodeClass(k, new) /\ Become(w, next)
    <3>1. new.exists /\ new.finalizer /\ ~new.deleting
      BY <1>1, <2>1, <2>4, <2>6 DEF Relies
    <3> QED
      BY <2>1, <2>4, <2>5, <2>6, <3>1, FinalizerOwnWrite
  <2>7. CASE Again(w) /\ UNCHANGED <<nc, fnc>>
    BY <2>1, <2>7, FinalizerEnd
  <2>8. CASE Goto(w, "list") /\ UNCHANGED <<nc, fnc>>
    BY <1>5, <2>1, <2>8
  <2> QED BY <2>3, <2>6, <2>7, <2>8 DEF Patch
<1>7. CASE ListSubnets(w)
  <2> DEFINE next == [worker[w] EXCEPT !.pc = "publish", !.listed = SubnetIDs(cnc)]
  <2>1. UNCHANGED <<nc, cnc, fnc>> /\ worker[w].pc = "list" /\ Become(w, next)
    BY <1>7 DEF ListSubnets, hostedVars, hostedCaches
  <2>2. /\ next.pc = "publish" /\ next.key = k /\ next.obj = worker[w].obj
        /\ next.fresh = worker[w].fresh
    BY <1>1 DEF Worker
  <2>3. next \in Worker
    <3>1. SubnetIDs(cnc) \subseteq Subnets
      BY DEF SubnetIDs, TypeOK, NodeClass, Status
    <3> QED BY <1>1, <3>1 DEF Worker
  <2> HIDE DEF next
  <2> QED
    BY <2>1, <2>2, <2>3, FinalizerGoesOn
<1>8. CASE PublishSubnets(w)
  <2>1. UNCHANGED <<nc, cnc, fnc>> /\ worker[w].pc = "publish"
    BY <1>8 DEF PublishSubnets, hostedVars, hostedCaches
  <2>2. CASE Done(w) \/ Again(w)
    BY <2>1, <2>2, FinalizerEnd
  <2> QED
    BY <1>5, <1>8, <2>1, <2>2 DEF PublishSubnets, AfterPublish
<1>9. CASE ReconcilePolicy(w)
  <2>1. UNCHANGED <<nc, cnc, fnc>> /\ worker[w].pc = "policy"
    BY <1>9 DEF ReconcilePolicy, ReconcileVAP
  <2>2. Again(w) \/ Goto(w, "binding")
    BY <1>9 DEF ReconcilePolicy, ReconcileVAP, Goto
  <2> QED
    BY <1>5, <2>1, <2>2, FinalizerEnd
<1>10. CASE ReconcileBinding(w)
  <2>1. UNCHANGED <<nc, cnc, fnc>>
    BY <1>10 DEF ReconcileBinding, ReconcileVAP
  <2>2. Again(w) \/ Done(w)
    BY <1>10 DEF ReconcileBinding, ReconcileVAP, Done
  <2> QED
    BY <2>1, <2>2, FinalizerEnd
<1>11. CASE DeleteEC2NodeClass(w)
  <2>1. UNCHANGED <<nc, cnc, fnc>> /\ worker[w].pc = "delete"
    BY <1>11 DEF DeleteEC2NodeClass
  <2>2. Again(w) \/ Goto(w, "list")
    BY <1>11 DEF DeleteEC2NodeClass
  <2> QED
    BY <1>5, <2>1, <2>2, FinalizerEnd
<1>12. CASE RemoveFinalizer(w)
  <2>1. worker[w].pc = "unfinalize" /\ UNCHANGED cnc /\ Patch(w, NoNodeClass, Idle(k))
    BY <1>12 DEF RemoveFinalizer
  <2>2. CASE worker[w].fresh /\ WriteNodeClass(k, NoNodeClass) /\ Become(w, Idle(k))
    <3>1. cnc[k].deleting
      BY <1>1, <2>1, <2>2 DEF Relies, FinalizerInv, CacheCurrent
    <3>2. Idle(k) \in Worker /\ Idle(k).pc = "idle"
      BY <1>1, IdleType
    <3> QED
      BY <2>1, <2>2, <3>1, <3>2, EmptyObjects, FinalizerOwnWrite
  <2>3. CASE Again(w) /\ UNCHANGED <<nc, fnc>>
    BY <2>1, <2>3, FinalizerEnd
  <2> QED BY <2>1, <2>2, <2>3 DEF Patch
<1>13. CASE CallFails(w)
  BY <1>13, FinalizerEnd DEF CallFails, hostedVars, hostedCaches
<1> QED
  BY <1>2, <1>3, <1>4, <1>6, <1>7, <1>8, <1>9, <1>10, <1>11, <1>12, <1>13 DEF WorkerStep

LEMMA FinalizerEnvironment ==
  ASSUME TypeOK, FinalizerInv, Environment
  PROVE  FinalizerInv'
<1>1. ASSUME NEW n \in Names, NEW obj \in NodeClass, UserWrites(n, obj),
             nc[n].exists /\ nc[n].finalizer => obj.exists /\ obj.finalizer
      PROVE  FinalizerInv'
  BY <1>1, FinalizerOthersWrite DEF UserWrites
<1>2. ASSUME NEW n \in Names,
             \/ CreateNodeClass(n) \/ DeleteNodeClass(n) \/ PinNodeClass(n)
             \/ \E status \in {"True", "False"} : ResolveVersion(n, status)
      PROVE  FinalizerInv'
  <2>1. nc[n] \in NodeClass
    BY DEF TypeOK
  <2>2. CASE CreateNodeClass(n)
    <3>1. [NoNodeClass EXCEPT !.exists = TRUE] \in NodeClass
      BY EmptyObjects DEF NodeClass
    <3> QED
      BY <1>1, <2>2, <3>1 DEF CreateNodeClass
  <2>3. CASE DeleteNodeClass(n)
    <3> DEFINE obj == Deleted(nc[n], nc[n].finalizer, NoNodeClass)
    <3>1. obj \in NodeClass
      BY <2>1, DeletedType DEF NodeClass
    <3>2. nc[n].exists /\ nc[n].finalizer => obj.exists /\ obj.finalizer
      BY <2>1 DEF Deleted, NodeClass
    <3>3. UserWrites(n, obj)
      BY <2>3 DEF DeleteNodeClass
    <3> HIDE DEF obj
    <3> QED
      BY <1>1, <3>1, <3>2, <3>3
  <2>4. CASE PinNodeClass(n)
    <3> DEFINE obj == [nc[n] EXCEPT !.pinned = ~@]
    <3>1. obj \in NodeClass /\ obj.exists = nc[n].exists /\ obj.finalizer = nc[n].finalizer
      BY <2>1 DEF NodeClass
    <3>2. UserWrites(n, obj)
      BY <2>4 DEF PinNodeClass
    <3> HIDE DEF obj
    <3> QED
      BY <1>1, <3>1, <3>2
  <2>5. ASSUME NEW status \in {"True", "False"}, ResolveVersion(n, status)
        PROVE  FinalizerInv'
    <3> DEFINE obj == [nc[n] EXCEPT !.status.conditions["VersionResolved"] =
                          [status |-> status, time |-> Now]]
    <3>1. obj.exists = nc[n].exists /\ obj.finalizer = nc[n].finalizer
      BY <2>1 DEF NodeClass
    <3>2. UserWrites(n, obj) /\ Environment
      BY <2>5 DEF ResolveVersion
    <3>3. obj \in NodeClass
      <4>1. nc' \in [Names -> NodeClass]
        BY TypeEnvironment DEF TypeOK
      <4>2. nc'[n] = obj
        BY <3>2 DEF UserWrites, WriteNodeClass, TypeOK
      <4> QED BY <4>1, <4>2
    <3> HIDE DEF obj
    <3> QED
      BY <1>1, <3>1, <3>2, <3>3
  <2> QED BY <1>2, <2>2, <2>3, <2>4, <2>5
<1>3. CASE UNCHANGED <<nc, cnc, fnc, worker>>
  BY <1>3, FinalizerElsewhere
<1> QED
  BY <1>2, <1>3
     DEF Environment, CreateSecret, RotateToken, DeleteSecret, ChangeSecrets, AddTermination,
         ReleaseEC2, ReportStatus, KarpenterWrites, CreateHCP, DeleteHCP, ChangePlatform,
         CompleteUpgrade, SetDesiredRelease, ChangeHCP, TamperVAP, hostedVars, hostedCaches

LEMMA FinalizerThroughout == Spec => []FinalizerInv
<1>1. TypeOK /\ FinalizerInv /\ [Next]_vars => FinalizerInv'
  <2> SUFFICES ASSUME TypeOK, FinalizerInv, [Next]_vars PROVE FinalizerInv'
    OBVIOUS
  <2>1. CASE Restart
    <3>1. \A w \in Workers : worker'[w].pc = "idle"
      BY <2>1, WorkerType, IdleType DEF Restart
    <3> QED
      BY <2>1, <3>1 DEF Restart, hostedVars, FinalizerInv, CacheCurrent, CachedFinalizer,
                        KeysAreDistinct, WorkersRely, Relies
  <2>2. CASE SyncNodeClasses
    <3>1. UNCHANGED <<nc, worker>> /\ cnc' = nc /\ fnc' = [n \in Names |-> TRUE]
      BY <2>2 DEF SyncNodeClasses, hostedVars
    <3>2. ASSUME NEW w \in Workers PROVE Relies(worker[w])'
      BY <3>1, WorkerType DEF FinalizerInv, WorkersRely, Relies
    <3> QED
      BY <3>1, <3>2 DEF FinalizerInv, CacheCurrent, CachedFinalizer, KeysAreDistinct, WorkersRely
  <2>3. CASE UNCHANGED <<nc, cnc, fnc, worker>>
    BY <2>3, FinalizerElsewhere
  <2> QED
    BY <2>1, <2>2, <2>3, FinalizerWorkers, FinalizerEnvironment
       DEF Next, Informers, SyncEC2NodeClasses, SyncSecrets, SyncConfigMap, SyncHCP, SyncVAP,
           hostedVars, hostedCaches, vars
<1> QED
  BY <1>1, FinalizerInit, TypeCorrect, PTL DEF Spec

(* An EC2NodeClass is created only under an OpenshiftEC2NodeClass that still   *)
(* exists and carries the finalizer, for any number of workers and however     *)
(* outdated the copy the reconcile started from.                               *)
THEOREM CreatedUnderFinalizerTheorem == Spec => CreatedUnderFinalizer
<1>1. TypeOK /\ FinalizerInv /\ [Next]_vars => [UnderFinalizer]_vars
  <2> SUFFICES ASSUME TypeOK, FinalizerInv, [Next]_vars PROVE UnderFinalizer
    OBVIOUS
  <2>1. ASSUME NEW w \in Workers, Apply(w) PROVE UnderFinalizer
    <3> DEFINE k == worker[w].key
    <3>1. k \in Names /\ nc[k].exists /\ nc[k].finalizer
      BY <2>1, WorkerType DEF Apply, FinalizerInv, WorkersRely, Relies
    <3>2. \A n \in Names \ {k} : ec2'[n] = ec2[n]
      BY <2>1, <3>1 DEF Apply, CreateOrUpdate, WriteEC2, TypeOK
    <3> QED
      BY <3>1, <3>2 DEF UnderFinalizer
  <2>2. ASSUME NEW n \in Names, NEW obj, WriteEC2(n, obj), obj.exists => ec2[n].exists
        PROVE  UnderFinalizer
    BY <2>2 DEF WriteEC2, UnderFinalizer, TypeOK
  <2>3. ASSUME NEW w \in Workers, DeleteEC2NodeClass(w) PROVE UnderFinalizer
    <3>1. worker[w].key \in Names
      BY WorkerType
    <3> QED
      BY <2>2, <2>3, <3>1 DEF DeleteEC2NodeClass, UnderFinalizer
  <2>4. ASSUME NEW n \in Names,
               AddTermination(n) \/ ReleaseEC2(n) \/ \E S \in Reports : ReportStatus(n, S)
        PROVE  UnderFinalizer
    BY <2>2, <2>4 DEF AddTermination, ReleaseEC2, ReportStatus, KarpenterWrites
  <2>5. CASE UNCHANGED ec2
    BY <2>5 DEF UnderFinalizer
  <2> HIDE DEF UnderFinalizer
  <2>6. ASSUME NEW w \in Workers,
               (\E n \in Names : Reconcile(w, n)) \/ WorkerStep(w) \/ CallFails(w)
        PROVE  UnderFinalizer
    BY <2>1, <2>3, <2>5, <2>6
       DEF Reconcile, WorkerStep, AddFinalizer, PatchStatus, ListSubnets, PublishSubnets,
           ReconcilePolicy, ReconcileBinding, ReconcileVAP, RemoveFinalizer, CallFails, hostedVars
  <2>7. CASE Environment
    BY <2>4, <2>5, <2>7
       DEF Environment, CreateNodeClass, DeleteNodeClass, PinNodeClass, ResolveVersion, UserWrites,
           CreateSecret, RotateToken, DeleteSecret, ChangeSecrets, CreateHCP, DeleteHCP,
           ChangePlatform, CompleteUpgrade, SetDesiredRelease, ChangeHCP, TamperVAP, hostedVars
  <2> QED
    BY <2>5, <2>6, <2>7
       DEF Next, Restart, Informers, SyncNodeClasses, SyncEC2NodeClasses, SyncSecrets,
           SyncConfigMap, SyncHCP, SyncVAP, hostedVars, vars
<1>2. [][UnderFinalizer]_vars => CreatedUnderFinalizer
  BY DEF UnderFinalizer, CreatedUnderFinalizer
<1> QED
  BY <1>1, <1>2, FinalizerThroughout, TypeCorrect, PTL DEF Spec
=============================================================================
