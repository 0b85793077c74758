---------------------------- MODULE EC2NodeClass ----------------------------
(***************************************************************************)
(* The ec2-nodeclass controller (pkg/controllers/nodeclass/ec2): it        *)
(* translates every OpenshiftEC2NodeClass into an EC2NodeClass of the same *)
(* name, copies its status back, publishes the subnets of all of them in   *)
(* one ConfigMap, installs the admission policy that guards EC2NodeClasses *)
(* and its binding, and deletes the EC2NodeClass and withdraws the subnets *)
(* before it lets an OpenshiftEC2NodeClass go.                             *)
(*                                                                         *)
(* Objects, caches and resourceVersions are modelled as in AzureNodeClass. *)
(* Unlike there, several workers run; the work queue never hands a key to  *)
(* two of them at once.                                                    *)
(***************************************************************************)
EXTENDS Naturals, FiniteSets, NodeClassConditions

CONSTANTS
    Names,         \* names of NodeClasses
    Prepared,      \* those that exist, with a Secret, when the operator starts
    Settled,       \* those of them that are already reconciled then
    Workers,       \* MaxConcurrentReconciles workers
    Subnets,       \* subnet IDs
    BadSecrets,    \* user data versions without an AMI label
    Env,           \* the kinds of environment steps that may happen
    Reports,       \* the sets of subnets Karpenter may resolve
    MaxSecret,     \* bound on the user data versions
    MaxRelease,    \* bound on the control plane releases
    Budget         \* bound on the environment's steps

ASSUME ConstantsAreTyped ==
    /\ Settled \subseteq Prepared /\ Prepared \subseteq Names
    /\ Reports \subseteq SUBSET Subnets /\ BadSecrets \subseteq Nat
    /\ MaxSecret \in Nat /\ MaxRelease \in Nat /\ Budget \in Nat

VARIABLES
    nc, ec2, secrets, hcp, cm, vap,         \* the objects in the API servers
    cnc, cec2, csecrets, chcp, ccm, cvap,   \* the informer caches of them
    fnc, fec2, fcm, fvap,                   \* is the cached resourceVersion current?
    queue, worker,                          \* the work queue and the workers
    lastSecret, budget                      \* bounds: versions used, steps left

mgmtVars == <<secrets, hcp, cm>>
hostedVars == <<nc, ec2, vap>>
mgmtCaches == <<csecrets, chcp, ccm, fcm>>
hostedCaches == <<cnc, cec2, cvap, fnc, fec2, fvap>>
vars == <<nc, ec2, secrets, hcp, cm, vap, cnc, cec2, csecrets, chcp, ccm, cvap,
          fnc, fec2, fcm, fvap, queue, worker, lastSecret, budget>>

-----------------------------------------------------------------------------
(* Objects *)

Status == [subnets : SUBSET Subnets, conditions : Conditions]
NoStatus == [subnets |-> {}, conditions |-> NoConditions]

(* OpenshiftEC2NodeClass: pinned when spec.version is set *)
NodeClass == [exists : BOOLEAN, deleting : BOOLEAN, finalizer : BOOLEAN,
              pinned : BOOLEAN, status : Status]
NoNodeClass == [exists |-> FALSE, deleting |-> FALSE, finalizer |-> FALSE,
                pinned |-> FALSE, status |-> NoStatus]

(* EC2NodeClass: userData and amis are the version of the Secret they come    *)
(* from, 0 when unset; platform is the version of the instance profile and    *)
(* resource tags of the HostedControlPlane it was built with.                 *)
EC2 == [exists : BOOLEAN, deleting : BOOLEAN, termination : BOOLEAN,
        userData : Nat, amis : Nat, platform : Nat, status : Status]
NoEC2 == [exists |-> FALSE, deleting |-> FALSE, termination |-> FALSE,
          userData |-> 0, amis |-> 0, platform |-> 0, status |-> NoStatus]

HCP == [state : {"none", "live", "gone"}, e2e : BOOLEAN, platform : Nat,
        desired : Nat, completed : Nat]

(* The admission policy and its binding: in the desired form or not. *)
VAP == [policy : BOOLEAN, binding : BOOLEAN]

(* What a reconcile holds: its key, the NodeClass it read or last wrote and   *)
(* whether that is still current, the HostedControlPlane it read, the status  *)
(* of the EC2NodeClass, and the subnets it listed.                            *)
Worker == [pc : {"idle", "finalize", "apply", "status", "list", "publish",
                 "policy", "binding", "delete", "unfinalize"},
           key : Names, obj : NodeClass, fresh : BOOLEAN, hcp : HCP,
           status : Status, listed : SUBSET Subnets]

NoHCP == [state |-> "none", e2e |-> FALSE, platform |-> 0, desired |-> 0, completed |-> 0]

Idle(k) == [pc |-> "idle", key |-> k, obj |-> NoNodeClass, fresh |-> FALSE,
            hcp |-> NoHCP, status |-> NoStatus, listed |-> {}]

TypeOK ==
    /\ nc \in [Names -> NodeClass] /\ cnc \in [Names -> NodeClass]
    /\ ec2 \in [Names -> EC2] /\ cec2 \in [Names -> EC2]
    /\ secrets \in [Names -> SUBSET Nat] /\ csecrets \in [Names -> SUBSET Nat]
    /\ hcp \in HCP /\ chcp \in HCP
    /\ cm \subseteq Subnets /\ ccm \subseteq Subnets    \* {}: there is no ConfigMap
    /\ vap \in VAP /\ cvap \in VAP
    /\ fnc \in [Names -> BOOLEAN] /\ fec2 \in [Names -> BOOLEAN] /\ fcm \in BOOLEAN
    /\ fvap \in VAP
    /\ queue \subseteq Names
    /\ worker \in [Workers -> Worker]
    /\ lastSecret \in Nat /\ budget \in Nat

Init ==
    /\ nc = [n \in Names |->
               IF n \in Settled
                 THEN [NoNodeClass EXCEPT !.exists = TRUE, !.finalizer = TRUE,
                                          !.status.conditions["Ready"] = NotReady]
                 ELSE [NoNodeClass EXCEPT !.exists = n \in Prepared]]
    /\ ec2 = [n \in Names |->
               IF n \in Settled THEN [NoEC2 EXCEPT !.exists = TRUE, !.termination = TRUE,
                                                  !.userData = 1, !.amis = 1]
               ELSE NoEC2]
    /\ vap = [policy |-> Settled # {}, binding |-> Settled # {}]
    /\ cm = {}
    /\ secrets = [n \in Names |-> IF n \in Prepared THEN {1} ELSE {}]
    /\ lastSecret = IF Prepared = {} THEN 0 ELSE 1
    /\ hcp \in {[NoHCP EXCEPT !.state = "live", !.desired = 1, !.completed = 1],
                [NoHCP EXCEPT !.e2e = "e2e" \in Env]}
    /\ cnc = nc /\ cec2 = ec2 /\ csecrets = secrets /\ chcp = hcp /\ ccm = cm /\ cvap = vap
    /\ fnc = [n \in Names |-> TRUE] /\ fec2 = fnc /\ fcm = TRUE
    /\ fvap = [policy |-> TRUE, binding |-> TRUE]
    /\ queue = Prepared
    /\ \E n \in Names : worker = [w \in Workers |-> Idle(n)]
    /\ budget = Budget

-----------------------------------------------------------------------------
(* Writes to the API servers *)

(* A write of NodeClass n by worker w, which goes on as next, or by somebody  *)
(* else; it outdates every other copy.                                        *)
Outdated(n) ==
    [w \in Workers |-> IF worker[w].key = n THEN [worker[w] EXCEPT !.fresh = FALSE] ELSE worker[w]]

WriteNodeClass(n, obj) ==
    /\ nc' = [nc EXCEPT ![n] = obj]
    /\ fnc' = [fnc EXCEPT ![n] = FALSE]

(* A write that changes nothing leaves the resourceVersion alone. *)
WriteEC2(n, obj) ==
    /\ ec2' = [ec2 EXCEPT ![n] = obj]
    /\ fec2' = [fec2 EXCEPT ![n] = @ /\ obj = ec2[n]]

WriteVAP(object, good) ==
    /\ vap' = [vap EXCEPT ![object] = good]
    /\ fvap' = [fvap EXCEPT ![object] = FALSE]

(* Deleting an object that has a finalizer only marks it. *)
Deleted(obj, hasFinalizer, none) ==
    IF hasFinalizer THEN [obj EXCEPT !.deleting = TRUE] ELSE none

-----------------------------------------------------------------------------
(* Users, HyperShift, Karpenter (external) *)

Spend(kind) == kind \in Env /\ budget > 0 /\ budget' = budget - 1

UserWrites(n, obj) ==
    /\ WriteNodeClass(n, obj) /\ worker' = Outdated(n)
    /\ UNCHANGED <<ec2, vap, mgmtVars, mgmtCaches, cnc, cec2, cvap, fvap, fec2, queue, lastSecret>>

CreateNodeClass(n) ==
    /\ Spend("create") /\ ~nc[n].exists
    /\ UserWrites(n, [NoNodeClass EXCEPT !.exists = TRUE])

DeleteNodeClass(n) ==
    /\ Spend("delete") /\ nc[n].exists /\ ~nc[n].deleting
    /\ UserWrites(n, Deleted(nc[n], nc[n].finalizer, NoNodeClass))

PinNodeClass(n) ==
    /\ Spend("pin") /\ nc[n].exists
    /\ UserWrites(n, [nc[n] EXCEPT !.pinned = ~@])

ResolveVersion(n, status) ==
    /\ Spend("resolve") /\ nc[n].exists
    /\ UserWrites(n, [nc[n] EXCEPT !.status.conditions["VersionResolved"] =
                        [status |-> status, time |-> Now]])

(* HyperShift generates user data Secrets, rotates their tokens in place and  *)
(* deletes outdated ones.                                                     *)
ChangeSecrets(n, S) ==
    /\ secrets' = [secrets EXCEPT ![n] = S]
    /\ UNCHANGED <<hostedVars, hostedCaches, mgmtCaches, hcp, cm, queue, worker>>

CreateSecret(n) ==
    /\ Spend("secret") /\ lastSecret < MaxSecret
    /\ lastSecret' = lastSecret + 1
    /\ ChangeSecrets(n, secrets[n] \cup {lastSecret'})

RotateToken(n, v) ==
    /\ Spend("secret") /\ lastSecret < MaxSecret /\ v \in secrets[n]
    /\ lastSecret' = lastSecret + 1
    /\ ChangeSecrets(n, (secrets[n] \ {v}) \cup {lastSecret'})

DeleteSecret(n, v) ==
    /\ Spend("secret") /\ v \in secrets[n] /\ \A u \in secrets[n] : v <= u
    /\ ChangeSecrets(n, secrets[n] \ {v})
    /\ UNCHANGED lastSecret

ChangeHCP(kind, h) ==
    /\ Spend(kind) /\ hcp' = h
    /\ cm' = IF h.state = "gone" THEN {} ELSE cm     \* collected with its owner
    /\ fcm' = (fcm /\ cm' = cm)
    /\ UNCHANGED <<hostedVars, hostedCaches, secrets, csecrets, chcp, ccm, queue, worker, lastSecret>>

CreateHCP == hcp.state = "none" /\ ChangeHCP("hcp", [hcp EXCEPT !.state = "live"])
DeleteHCP == hcp.state = "live" /\ ChangeHCP("hcp", [hcp EXCEPT !.state = "gone"])
ChangePlatform == hcp.state = "live" /\ ChangeHCP("platform", [hcp EXCEPT !.platform = @ + 1])
SetDesiredRelease(r) ==
    hcp.state = "live" /\ hcp.desired # r /\ ChangeHCP("upgrade", [hcp EXCEPT !.desired = r])
CompleteUpgrade ==
    /\ hcp.state = "live" /\ hcp.completed # hcp.desired
    /\ ChangeHCP("upgrade", [hcp EXCEPT !.completed = hcp.desired])

(* Karpenter guards an EC2NodeClass with its own finalizer, reports the       *)
(* subnets it resolves and readiness, and releases it when it is unused.      *)
KarpenterWrites(n, obj) ==
    /\ WriteEC2(n, obj)
    /\ UNCHANGED <<nc, vap, mgmtVars, mgmtCaches, cnc, cec2, cvap, fvap, fnc, queue, worker, lastSecret>>

AddTermination(n) ==
    /\ ec2[n].exists /\ ~ec2[n].deleting /\ ~ec2[n].termination
    /\ KarpenterWrites(n, [ec2[n] EXCEPT !.termination = TRUE])
    /\ UNCHANGED budget

ReportStatus(n, S) ==
    /\ Spend("report") /\ ec2[n].exists /\ S # ec2[n].status.subnets
    /\ KarpenterWrites(n, [ec2[n] EXCEPT !.status =
            [subnets |-> S,
             conditions |-> [ec2[n].status.conditions EXCEPT !["Ready"] =
                                [status |-> IF S = {} THEN "False" ELSE "True", time |-> Now]]]])

ReleaseEC2(n) ==
    /\ ec2[n].exists /\ ec2[n].deleting
    /\ KarpenterWrites(n, NoEC2)
    /\ UNCHANGED budget

(* An administrator alters or deletes the admission policy or its binding. *)
TamperVAP(object) ==
    /\ Spend("tamper") /\ vap[object]
    /\ WriteVAP(object, FALSE)
    /\ UNCHANGED <<nc, ec2, mgmtVars, mgmtCaches, cnc, cec2, cvap, fnc, fec2, queue, worker, lastSecret>>

-----------------------------------------------------------------------------
(* The informers.  The ConfigMap is cached but not watched by the controller. *)

SyncNodeClasses ==
    /\ cnc' = nc /\ fnc' = [n \in Names |-> TRUE]
    /\ queue' = queue \cup {n \in Names : ~fnc[n]}
    /\ UNCHANGED <<hostedVars, mgmtVars, mgmtCaches, cec2, cvap, fvap, fec2, worker, lastSecret, budget>>

SyncEC2NodeClasses ==
    /\ cec2' = ec2 /\ fec2' = [n \in Names |-> TRUE]
    /\ queue' = queue \cup {n \in Names : ~fec2[n]}
    /\ UNCHANGED <<hostedVars, mgmtVars, mgmtCaches, cnc, cvap, fvap, fnc, worker, lastSecret, budget>>

(* KarpenterSecretPredicate: creations and updates, not deletions. *)
KarpenterSecretPredicate(old, new) == new \ old # {}

SyncSecrets ==
    /\ csecrets' = secrets
    /\ queue' = queue \cup {n \in Names : KarpenterSecretPredicate(csecrets[n], secrets[n])}
    /\ UNCHANGED <<hostedVars, mgmtVars, hostedCaches, chcp, ccm, fcm, worker, lastSecret, budget>>

SyncConfigMap ==
    /\ ccm' = cm /\ fcm' = TRUE
    /\ UNCHANGED <<hostedVars, mgmtVars, hostedCaches, csecrets, chcp, queue, worker,
                   lastSecret, budget>>

mapToOpenShiftEC2NodeClasses == {n \in Names : cnc[n].exists}

(* Mutant: the predicate of the Azure controller, which knows no platform. *)
hcpPredicateVersionOnly(old, new) ==
    \/ old.state = "none" /\ new.state = "live"
    \/ /\ old.state = "live" /\ new.state = "live"
       /\ <<old.desired, old.completed>> # <<new.desired, new.completed>>

(* hcpPredicate: creation; changes of the instance profile or resource tags  *)
(* and of the control plane version.                                         *)
hcpPredicate(old, new) ==
    \/ old.state = "none" /\ new.state = "live"
    \/ /\ old.state = "live" /\ new.state = "live"
       /\ \/ old.platform # new.platform
          \/ <<old.desired, old.completed>> # <<new.desired, new.completed>>

SyncHCP ==
    /\ chcp' = hcp
    /\ queue' = IF hcpPredicate(chcp, hcp) THEN queue \cup mapToOpenShiftEC2NodeClasses ELSE queue
    /\ UNCHANGED <<hostedVars, mgmtVars, hostedCaches, csecrets, ccm, fcm, worker, lastSecret, budget>>

(* mapVAPToOpenShiftEC2NodeClasses and mapVAPBindingToOpenShiftEC2NodeClasses *)
SyncVAP ==
    /\ cvap' = vap /\ fvap' = [policy |-> TRUE, binding |-> TRUE]
    /\ queue' = IF ~fvap.policy \/ ~fvap.binding THEN queue \cup mapToOpenShiftEC2NodeClasses ELSE queue
    /\ UNCHANGED <<hostedVars, mgmtVars, mgmtCaches, cnc, cec2, fnc, fec2, worker, lastSecret, budget>>

-----------------------------------------------------------------------------
(* The workers: one action per call to an API server, cached reads with the   *)
(* action that uses them; the cached List of reconcileKarpenterSubnetsConfigMap *)
(* has a step of its own, because other workers write in between.             *)

Busy == {worker[w].key : w \in {v \in Workers : worker[v].pc # "idle"}}

Become(w, next) == worker' = [worker EXCEPT ![w] = next]
Goto(w, pc) == Become(w, [worker[w] EXCEPT !.pc = pc])
Done(w) == Become(w, Idle(worker[w].key)) /\ UNCHANGED queue
(* An error, retried with a delay, or a RequeueAfter. *)
Again(w) == Become(w, Idle(worker[w].key)) /\ queue' = queue \cup {worker[w].key}

(* Mutant: the finalizer is left for later. *)
FirstCallApply(obj, current) ==
    IF obj.deleting THEN IF current.exists THEN "delete" ELSE "list" ELSE "apply"

(* The first call of a reconcile, by what the caches show. *)
FirstCall(obj, current) ==
    IF obj.deleting THEN IF current.exists THEN "delete" ELSE "list"
    ELSE IF obj.finalizer THEN "apply" ELSE "finalize"

(* Reconcile up to its first call: no HostedControlPlane, the e2e override or *)
(* no NodeClass end it; a deleted NodeClass waits while its EC2NodeClass is   *)
(* being deleted (the cached Get of deleteIfNeeded).                          *)
Reconcile(w, n) ==
    /\ worker[w].pc = "idle" /\ n \in queue \ Busy
    /\ LET obj == cnc[n]
           skip == chcp.state # "live" \/ chcp.e2e \/ ~obj.exists
           wait == ~skip /\ obj.deleting /\ cec2[n].exists /\ cec2[n].deleting
       IN  /\ queue' = IF wait THEN queue ELSE queue \ {n}
           /\ Become(w, IF skip \/ wait THEN Idle(n)
                        ELSE [Idle(n) EXCEPT !.pc = FirstCall(obj, cec2[n]), !.obj = obj,
                                             !.fresh = fnc[n], !.hcp = chcp])
    /\ UNCHANGED <<hostedVars, mgmtVars, hostedCaches, mgmtCaches, lastSecret, budget>>

(* A patch of the worker's own NodeClass with an optimistic lock. *)
Patch(w, obj, next) ==
    \/ worker[w].fresh /\ WriteNodeClass(worker[w].key, obj) /\ Become(w, next) /\ UNCHANGED queue
    \/ ~worker[w].fresh /\ Again(w) /\ UNCHANGED <<nc, fnc>>

AddFinalizer(w) ==
    /\ worker[w].pc = "finalize"
    /\ LET obj == [worker[w].obj EXCEPT !.finalizer = TRUE]
       IN  Patch(w, obj, [worker[w] EXCEPT !.pc = "apply", !.obj = obj])
    /\ UNCHANGED <<ec2, vap, mgmtVars, mgmtCaches, cnc, cec2, cvap, fvap, fec2, lastSecret, budget>>

isControlPlaneUpgrading(h) ==
    h.desired # 0 /\ h.completed # 0 /\ h.completed # h.desired

WaitsForControlPlaneUpgrade(h, pinned) == ~pinned /\ isControlPlaneUpgrading(h)

(* The condition under which reconcileEC2NodeClass keeps user data and AMIs. *)
Holds(current, obj, h) ==
    WaitsForControlPlaneUpgrade(h, obj.pinned) /\ current.amis # 0 /\ current.userData # 0

(* Mutant: the AMIs are held back, the user data is not. *)
reconcileEC2NodeClassKeepsAMIs(current, obj, h, v) ==
    [current EXCEPT !.exists = TRUE, !.platform = h.platform, !.userData = v,
                    !.amis = IF Holds(current, obj, h) THEN @ ELSE v]

(* reconcileEC2NodeClass: the whole spec is rebuilt. *)
reconcileEC2NodeClass(current, obj, h, v) ==
    [current EXCEPT !.exists = TRUE, !.platform = h.platform,
                    !.userData = IF Holds(current, obj, h) THEN @ ELSE v,
                    !.amis = IF Holds(current, obj, h) THEN @ ELSE v]

(* amiSelectorTermsFromUserDataSecret fails without an AMI label, unless the *)
(* AMIs are held back.                                                       *)
MissesAMIs(current, obj, h, v) == v \in BadSecrets /\ ~Holds(current, obj, h)

(* controllerutil.CreateOrUpdate.  The API server defaults fields the desired *)
(* spec leaves unset, so there is an Update on every reconcile.               *)
CreateOrUpdate(w, n, desired) ==
    LET current == IF cec2[n].exists THEN fec2[n] ELSE ~ec2[n].exists
    IN  \/ /\ current /\ WriteEC2(n, desired)
           /\ Become(w, [worker[w] EXCEPT !.pc = "status", !.status = desired.status])
           /\ UNCHANGED queue
        \/ ~current /\ Again(w) /\ UNCHANGED <<ec2, fec2>>

(* Mutant: the first of several. *)
GetUserDataSecretFirst(found, v) == v \in found

(* GetUserDataSecret returns v only if it is the one Secret found. *)
GetUserDataSecret(found, v) == found = {v}

(* GetUserDataSecret and CreateOrUpdate of the EC2NodeClass. *)
Apply(w) ==
    /\ worker[w].pc = "apply"
    /\ LET n == worker[w].key
       IN  \/ /\ \A v \in csecrets[n] : ~GetUserDataSecret(csecrets[n], v)   \* none or several
              /\ Again(w) /\ UNCHANGED <<ec2, fec2>>
           \/ \E v \in csecrets[n] :
                /\ GetUserDataSecret(csecrets[n], v)
                /\ IF MissesAMIs(cec2[n], worker[w].obj, worker[w].hcp, v)
                     THEN Again(w) /\ UNCHANGED <<ec2, fec2>>
                     ELSE CreateOrUpdate(w, n,
                            reconcileEC2NodeClass(cec2[n], worker[w].obj, worker[w].hcp, v))
    /\ UNCHANGED <<nc, vap, mgmtVars, mgmtCaches, cnc, cec2, cvap, fvap, fnc, lastSecret, budget>>

(* reconcileStatus *)
PatchStatus(w) ==
    /\ worker[w].pc = "status"
    /\ LET obj == worker[w].obj
           status == [subnets |-> worker[w].status.subnets,
                      conditions |-> SyncConditions(obj.status.conditions,
                                                    worker[w].status.conditions)]
           new == [obj EXCEPT !.status = status]
       IN  \/ new = obj /\ Goto(w, "list") /\ UNCHANGED <<nc, fnc, queue>>
           \/ new # obj /\ Patch(w, new, [worker[w] EXCEPT !.pc = "list", !.obj = new])
    /\ UNCHANGED <<ec2, vap, mgmtVars, mgmtCaches, cnc, cec2, cvap, fvap, fec2, lastSecret, budget>>

(* Mutant: the lists are collected, not their elements. *)
SubnetIDsNested(list) == {list[n].status.subnets : n \in {m \in Names : ~list[m].deleting}}

(* The union of the subnets of all NodeClasses that are not being deleted. *)
SubnetIDs(list) == UNION {list[n].status.subnets : n \in {m \in Names : ~list[m].deleting}}

(* reconcileKarpenterSubnetsConfigMap, the cached List. *)
ListSubnets(w) ==
    /\ worker[w].pc = "list"
    /\ Become(w, [worker[w] EXCEPT !.pc = "publish", !.listed = SubnetIDs(cnc)])
    /\ UNCHANGED <<hostedVars, mgmtVars, hostedCaches, mgmtCaches, queue, lastSecret, budget>>

WriteConfigMap(S) == cm' = S /\ fcm' = (fcm /\ S = cm)

(* After the ConfigMap: the admission policy, or on the deletion path the finalizer. *)
AfterPublish(w) ==
    IF ~worker[w].obj.deleting THEN Goto(w, "policy") /\ UNCHANGED queue
    ELSE IF worker[w].obj.finalizer THEN Goto(w, "unfinalize") /\ UNCHANGED queue
    ELSE Done(w)

(* reconcileKarpenterSubnetsConfigMap, the write.  No subnets: deleteIfNeeded *)
(* deletes the ConfigMap the cache shows, whatever its resourceVersion.       *)
(* Otherwise CreateOrUpdate.                                                  *)
PublishSubnets(w) ==
    /\ worker[w].pc = "publish"
    /\ LET S == worker[w].listed
           current == IF ccm # {} THEN fcm ELSE cm = {}
       IN  \/ S = {} /\ ccm # {} /\ WriteConfigMap({}) /\ AfterPublish(w)
           \/ S = ccm /\ UNCHANGED <<cm, fcm>> /\ AfterPublish(w)
           \/ S \notin {{}, ccm} /\ current /\ WriteConfigMap(S) /\ AfterPublish(w)
           \/ S \notin {{}, ccm} /\ ~current /\ UNCHANGED <<cm, fcm>> /\ Again(w)
    /\ UNCHANGED <<hostedVars, hostedCaches, secrets, hcp, csecrets, chcp, ccm, lastSecret, budget>>

(* reconcileVAP: CreateOrUpdate of the policy, then of its binding. *)
ReconcileVAP(w, object, next) ==
    /\ \/ cvap[object] /\ Become(w, next) /\ UNCHANGED <<vap, fvap, queue>>
       \/ /\ ~cvap[object] /\ fvap[object]
          /\ WriteVAP(object, TRUE)
          /\ Become(w, next) /\ UNCHANGED queue
       \/ ~cvap[object] /\ ~fvap[object] /\ Again(w) /\ UNCHANGED <<vap, fvap>>
    /\ UNCHANGED <<nc, ec2, mgmtVars, mgmtCaches, cnc, cec2, cvap, fnc, fec2, lastSecret, budget>>

ReconcilePolicy(w) ==
    worker[w].pc = "policy" /\ ReconcileVAP(w, "policy", [worker[w] EXCEPT !.pc = "binding"])
ReconcileBinding(w) ==
    worker[w].pc = "binding" /\ ReconcileVAP(w, "binding", Idle(worker[w].key))

(* deleteIfNeeded after its Get: a Delete by name.  If it finds the           *)
(* EC2NodeClass the reconcile is repeated after 5 seconds.                    *)
DeleteEC2NodeClass(w) ==
    /\ worker[w].pc = "delete"
    /\ LET n == worker[w].key
       IN  \/ /\ ec2[n].exists
              /\ WriteEC2(n, Deleted(ec2[n], ec2[n].termination, NoEC2))
              /\ Again(w)
           \/ ~ec2[n].exists /\ UNCHANGED <<ec2, fec2, queue>> /\ Goto(w, "list")
    /\ UNCHANGED <<nc, vap, mgmtVars, mgmtCaches, cnc, cec2, cvap, fvap, fnc, lastSecret, budget>>

RemoveFinalizer(w) ==
    /\ worker[w].pc = "unfinalize"
    /\ Patch(w, NoNodeClass, Idle(worker[w].key))
    /\ UNCHANGED <<ec2, vap, mgmtVars, mgmtCaches, cnc, cec2, cvap, fvap, fec2, lastSecret, budget>>

WorkerStep(w) ==
    \/ AddFinalizer(w) \/ Apply(w) \/ PatchStatus(w) \/ ListSubnets(w) \/ PublishSubnets(w)
    \/ ReconcilePolicy(w) \/ ReconcileBinding(w) \/ DeleteEC2NodeClass(w) \/ RemoveFinalizer(w)

(* Any call may fail without effect. *)
CallFails(w) ==
    /\ Spend("fail") /\ worker[w].pc # "idle" /\ Again(w)
    /\ UNCHANGED <<hostedVars, mgmtVars, hostedCaches, mgmtCaches, lastSecret>>

(* The operator restarts with freshly listed caches and their initial events. *)
Restart ==
    /\ Spend("restart")
    /\ cnc' = nc /\ cec2' = ec2 /\ csecrets' = secrets /\ chcp' = hcp /\ ccm' = cm /\ cvap' = vap
    /\ fnc' = [n \in Names |-> TRUE] /\ fec2' = fnc' /\ fcm' = TRUE
    /\ fvap' = [policy |-> TRUE, binding |-> TRUE]
    /\ queue' = {n \in Names : nc[n].exists \/ ec2[n].exists \/ secrets[n] # {}}
    /\ worker' = [w \in Workers |-> Idle(worker[w].key)]
    /\ UNCHANGED <<hostedVars, mgmtVars, lastSecret>>

Informers ==
    \/ SyncNodeClasses \/ SyncEC2NodeClasses
    \/ SyncSecrets \/ SyncConfigMap \/ SyncHCP \/ SyncVAP

Environment ==
    \/ \E n \in Names :
          \/ CreateNodeClass(n) \/ DeleteNodeClass(n) \/ PinNodeClass(n)
          \/ \E status \in {"True", "False"} : ResolveVersion(n, status)
          \/ CreateSecret(n)
          \/ \E v \in 1..MaxSecret : RotateToken(n, v) \/ DeleteSecret(n, v)
          \/ AddTermination(n) \/ ReleaseEC2(n)
          \/ \E S \in Reports : ReportStatus(n, S)
    \/ CreateHCP \/ DeleteHCP \/ ChangePlatform \/ CompleteUpgrade
    \/ \E r \in 1..MaxRelease : SetDesiredRelease(r)
    \/ \E object \in {"policy", "binding"} : TamperVAP(object)

Next ==
    \/ \E w \in Workers :
          (\E n \in Names : Reconcile(w, n)) \/ WorkerStep(w) \/ CallFails(w)
    \/ Restart \/ Informers \/ Environment

Spec == Init /\ [][Next]_vars

(* Keys are served in turn, informers catch up, calls return, Karpenter       *)
(* finishes deletions; nothing else is fair.                                  *)
Fairness ==
    /\ WF_vars(SyncNodeClasses) /\ WF_vars(SyncEC2NodeClasses)
    /\ WF_vars(SyncSecrets) /\ WF_vars(SyncConfigMap) /\ WF_vars(SyncHCP) /\ WF_vars(SyncVAP)
    /\ \A w \in Workers : WF_vars(WorkerStep(w))
    /\ \A n \in Names : /\ SF_vars(\E w \in Workers : Reconcile(w, n))
                        /\ WF_vars(ReleaseEC2(n))

FairSpec == Spec /\ Fairness

-----------------------------------------------------------------------------
(* Properties *)

(* "wait until EC2NodeClass is deleted": the finalizer outlives the           *)
(* EC2NodeClass, so none is left without its OpenshiftEC2NodeClass            *)
(* (Reconcile's deletion branch, deleteIfNeeded).                             *)
NoOrphan == \A n \in Names : ec2[n].exists => nc[n].exists /\ nc[n].finalizer

(* User data and AMIs always come from the same Secret. *)
UserDataMatchesAMIs == \A n \in Names : ec2[n].userData = ec2[n].amis

(* No EC2NodeClass returns to older user data than it already had: holding   *)
(* back what an outdated cache shows ends in a conflict (CreateOrUpdate).    *)
UserDataNeverRollsBack ==
    [][\A n \in Names :
          ec2[n].exists /\ ec2'[n].exists => ec2[n].userData <= ec2'[n].userData]_vars

(* An EC2NodeClass is created only under an OpenshiftEC2NodeClass that still  *)
(* exists and carries the finalizer, however outdated the cached copy the     *)
(* reconcile started from (Reconcile: the finalizer comes first).             *)
CreatedUnderFinalizer ==
    [][\A n \in Names : ~ec2[n].exists /\ ec2'[n].exists => nc[n].exists /\ nc[n].finalizer]_vars

(* What a reconcile aims at for NodeClass n, apart from the ConfigMap. *)
InSync(n) ==
    hcp.state = "live" /\ ~hcp.e2e =>
        /\ ~nc[n].deleting
        /\ nc[n].exists => \A v \in secrets[n] \ BadSecrets : secrets[n] = {v} =>
             /\ ec2[n].exists /\ ~ec2[n].deleting
             /\ ec2[n].platform = hcp.platform
             /\ \/ WaitsForControlPlaneUpgrade(hcp, nc[n].pinned)
                \/ ec2[n].userData = v
             /\ nc[n].status.subnets = ec2[n].status.subnets
             /\ vap.policy /\ vap.binding

(* When everything around the controller has come to rest, every NodeClass   *)
(* is in sync or gone and the admission policy is in force, whatever was     *)
(* rotated, upgraded, tampered with or retried before.                       *)
Converges == <>[](\A n \in Names : InSync(n))

(* The controller is at rest: no key is queued or in progress and every      *)
(* cache is up to date, so without a new event nothing will happen.          *)
AtRest ==
    /\ queue = {} /\ \A w \in Workers : worker[w].pc = "idle"
    /\ \A n \in Names : fnc[n] /\ fec2[n]
    /\ fcm /\ csecrets = secrets /\ chcp = hcp /\ fvap.policy /\ fvap.binding

(* At rest, the ConfigMap lists exactly the subnets resolved by all           *)
(* NodeClasses that are not being deleted (the comment of                     *)
(* karpenterSubnetsConfigMapName; reconcileKarpenterSubnetsConfigMap).        *)
SubnetsPublishedAtRest ==
    AtRest /\ hcp.state = "live" /\ ~hcp.e2e => cm = SubnetIDs(nc)
=============================================================================
