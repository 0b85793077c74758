--------------------------- MODULE AzureNodeClass ---------------------------
(***************************************************************************)
(* The azure-nodeclass controller (pkg/controllers/nodeclass/azure): it    *)
(* translates every OpenShiftAzureNodeClass into an AKSNodeClass of the    *)
(* same name, with the user data and image of the Secret that HyperShift   *)
(* generates, copies conditions back, and deletes the AKSNodeClass before  *)
(* it lets the OpenShiftAzureNodeClass go.                                 *)
(*                                                                         *)
(* Around it: the API server's objects (nc, aks, secrets, hcp), the        *)
(* controller's informer caches of them (cnc, caks, csecrets, chcp), its   *)
(* deduplicating work queue and its one worker.  A cache may lag behind by *)
(* any amount and each kind lags on its own; a sync brings one kind up to  *)
(* date and enqueues what the watches' predicates accept.  fnc and faks    *)
(* say for each object whether the cached resourceVersion is the current   *)
(* one: every write clears it, a sync sets it, and a write with a          *)
(* resourceVersion (Update, or a Patch with MergeFromWithOptimisticLock)   *)
(* succeeds only if it is still set for the copy that was read.            *)
(***************************************************************************)
EXTENDS Naturals, FiniteSets, NodeClassConditions

CONSTANTS
    Names,        \* names of NodeClasses
    MaxSecret,    \* bound on the user data versions HyperShift generates
    MaxRelease,   \* bound on the control plane releases
    Budget        \* bound on the steps of users, HyperShift and failures

ASSUME BoundsAreNaturals ==
    MaxSecret \in Nat /\ MaxRelease \in Nat /\ Budget \in Nat

VARIABLES
    nc, aks, secrets, hcp,          \* the objects in the API servers
    cnc, caks, csecrets, chcp,      \* the operator's informer caches of them
    fnc, faks,                      \* is the cached resourceVersion current?
    queue,                          \* the controller's work queue
    worker,                         \* the worker and what it holds
    lastSecret, budget              \* bounds: versions used, steps left

apiVars   == <<nc, aks, secrets, hcp>>
cacheVars == <<cnc, caks, csecrets, chcp, fnc, faks>>
vars == <<nc, aks, secrets, hcp, cnc, caks, csecrets, chcp, fnc, faks,
          queue, worker, lastSecret, budget>>

-----------------------------------------------------------------------------
(* Objects *)

DiskSizes == {0, 64}                \* spec.osDiskSizeGiB, 0 when unset
defaultOSDiskSizeGiB == 120

(* OpenShiftAzureNodeClass: pinned when spec.version is set *)
NodeClass == [exists : BOOLEAN, deleting : BOOLEAN, finalizer : BOOLEAN,
              pinned : BOOLEAN, disk : DiskSizes, conditions : Conditions]

NoNodeClass == [exists |-> FALSE, deleting |-> FALSE, finalizer |-> FALSE,
                pinned |-> FALSE, disk |-> 0, conditions |-> NoConditions]

(* AKSNodeClass: termination is Karpenter's own finalizer; userData and image *)
(* are the version of the Secret they come from, 0 when nil.                  *)
AKSNodeClass == [exists : BOOLEAN, deleting : BOOLEAN, termination : BOOLEAN,
                 userData : Nat, image : Nat, disk : Nat,
                 conditions : Conditions]

NoAKSNodeClass == [exists |-> FALSE, deleting |-> FALSE, termination |-> FALSE,
                   userData |-> 0, image |-> 0, disk |-> 0, conditions |-> NoConditions]

(* HostedControlPlane: desired release image and most recent Completed one, 0 if none *)
HostedControlPlane == [state : {"none", "live", "gone"}, desired : Nat, completed : Nat]

(* What a reconcile holds: its key, the NodeClass it read or last wrote,     *)
(* whether that is still the current resourceVersion, and the conditions of  *)
(* the AKSNodeClass that CreateOrUpdate returned.                            *)
Worker == [pc : {"idle", "finalize", "apply", "status", "delete", "unfinalize"},
           key : Names, obj : NodeClass, fresh : BOOLEAN, provider : Conditions]

Idle(w) == [w EXCEPT !.pc = "idle", !.obj = NoNodeClass, !.fresh = FALSE,
                     !.provider = NoConditions]

TypeOK ==
    /\ nc \in [Names -> NodeClass] /\ cnc \in [Names -> NodeClass]
    /\ aks \in [Names -> AKSNodeClass] /\ caks \in [Names -> AKSNodeClass]
    /\ secrets \in [Names -> SUBSET Nat] /\ csecrets \in [Names -> SUBSET Nat]
    /\ hcp \in HostedControlPlane /\ chcp \in HostedControlPlane
    /\ fnc \in [Names -> BOOLEAN] /\ faks \in [Names -> BOOLEAN]
    /\ queue \subseteq Names
    /\ worker \in Worker
    /\ lastSecret \in Nat /\ budget \in Nat

(* The operator starts in an empty cluster before its control plane exists,  *)
(* or next to an installed control plane where NodeClasses and their user    *)
(* data Secrets are already there; its caches are filled before it runs.     *)
Init ==
    /\ \/ /\ nc = [n \in Names |-> NoNodeClass]
          /\ secrets = [n \in Names |-> {}] /\ queue = {} /\ lastSecret = 0
          /\ hcp = [state |-> "none", desired |-> 0, completed |-> 0]
       \/ /\ nc = [n \in Names |-> [NoNodeClass EXCEPT !.exists = TRUE]]
          /\ secrets = [n \in Names |-> {1}] /\ queue = Names /\ lastSecret = 1
          /\ hcp = [state |-> "live", desired |-> 1, completed |-> 1]
    /\ aks = [n \in Names |-> NoAKSNodeClass]
    /\ cnc = nc /\ caks = aks /\ csecrets = secrets /\ chcp = hcp
    /\ fnc = [n \in Names |-> TRUE] /\ faks = fnc
    /\ \E n \in Names :
          worker = [pc |-> "idle", key |-> n, obj |-> NoNodeClass,
                    fresh |-> FALSE, provider |-> NoConditions]
    /\ budget = Budget

-----------------------------------------------------------------------------
(* Writes to the API server.  A write of a NodeClass outdates every copy of  *)
(* it: the cached one and, unless the worker made it, the worker's.          *)

(* A write of NodeClass n by somebody else than the worker. *)
WriteNodeClass(n, obj) ==
    /\ nc' = [nc EXCEPT ![n] = obj]
    /\ fnc' = [fnc EXCEPT ![n] = FALSE]
    /\ worker' = IF worker.key = n THEN [worker EXCEPT !.fresh = FALSE] ELSE worker

WriteAKSNodeClass(n, obj) ==
    /\ aks' = [aks EXCEPT ![n] = obj]
    /\ faks' = [faks EXCEPT ![n] = FALSE]

(* Deleting an object that has a finalizer only marks it. *)
Deleted(obj, hasFinalizer, none) ==
    IF hasFinalizer THEN [obj EXCEPT !.deleting = TRUE] ELSE none

-----------------------------------------------------------------------------
(* Users, HyperShift, Karpenter (external).  Each step but Karpenter's       *)
(* finalizer handling spends one unit of the budget.  A write that changes    *)
(* nothing has no effect in the API server and is no step.                   *)

Spend == budget > 0 /\ budget' = budget - 1

CreateNodeClass(n, pinned, disk) ==
    /\ Spend
    /\ ~nc[n].exists
    /\ WriteNodeClass(n, [NoNodeClass EXCEPT !.exists = TRUE, !.pinned = pinned, !.disk = disk])
    /\ UNCHANGED <<aks, secrets, hcp, cnc, caks, csecrets, chcp, faks, queue, lastSecret>>

EditNodeClass(n, pinned, disk) ==
    /\ Spend
    /\ nc[n].exists /\ <<pinned, disk>> # <<nc[n].pinned, nc[n].disk>>
    /\ WriteNodeClass(n, [nc[n] EXCEPT !.pinned = pinned, !.disk = disk])
    /\ UNCHANGED <<aks, secrets, hcp, cnc, caks, csecrets, chcp, faks, queue, lastSecret>>

DeleteNodeClass(n) ==
    /\ Spend
    /\ nc[n].exists /\ ~nc[n].deleting
    /\ WriteNodeClass(n, Deleted(nc[n], nc[n].finalizer, NoNodeClass))
    /\ UNCHANGED <<aks, secrets, hcp, cnc, caks, csecrets, chcp, faks, queue, lastSecret>>

(* The ignition controller of HyperShift resolves the version, or fails to. *)
ResolveVersion(n, status) ==
    /\ Spend
    /\ nc[n].exists /\ nc[n].conditions["VersionResolved"].status # status
    /\ WriteNodeClass(n, [nc[n] EXCEPT !.conditions["VersionResolved"] =
                             [status |-> status, time |-> Now]])
    /\ UNCHANGED <<aks, secrets, hcp, cnc, caks, csecrets, chcp, faks, queue, lastSecret>>

(* HyperShift generates a new user data Secret, rotates the token of one in  *)
(* place, or deletes an outdated one.  Each content has a version of its own.*)
CreateSecret(n) ==
    /\ Spend
    /\ lastSecret < MaxSecret
    /\ lastSecret' = lastSecret + 1
    /\ secrets' = [secrets EXCEPT ![n] = @ \cup {lastSecret + 1}]
    /\ UNCHANGED <<nc, aks, hcp, cacheVars, queue, worker>>

RotateToken(n, v) ==
    /\ Spend
    /\ v \in secrets[n] /\ lastSecret < MaxSecret
    /\ lastSecret' = lastSecret + 1
    /\ secrets' = [secrets EXCEPT ![n] = (@ \ {v}) \cup {lastSecret + 1}]
    /\ UNCHANGED <<nc, aks, hcp, cacheVars, queue, worker>>

DeleteSecret(n, v) ==
    /\ Spend
    /\ v \in secrets[n] /\ \A u \in secrets[n] : v <= u
    /\ secrets' = [secrets EXCEPT ![n] = @ \ {v}]
    /\ UNCHANGED <<nc, aks, hcp, cacheVars, queue, worker, lastSecret>>

(* The control plane is created, gets a release to upgrade to, completes an  *)
(* upgrade, is deleted.                                                      *)
ChangeHCP(h) ==
    /\ Spend
    /\ hcp' = h
    /\ UNCHANGED <<nc, aks, secrets, cacheVars, queue, worker, lastSecret>>

CreateHCP == hcp.state = "none" /\ ChangeHCP([hcp EXCEPT !.state = "live"])
SetDesiredRelease(r) == hcp.state = "live" /\ hcp.desired # r /\ ChangeHCP([hcp EXCEPT !.desired = r])
CompleteUpgrade == hcp.state = "live" /\ hcp.completed # hcp.desired
                   /\ ChangeHCP([hcp EXCEPT !.completed = hcp.desired])
DeleteHCP == hcp.state = "live" /\ ChangeHCP([hcp EXCEPT !.state = "gone"])

(* Karpenter guards an AKSNodeClass with its own finalizer, reports on it,   *)
(* and releases it once no NodeClaim needs it any more.                      *)
AddTermination(n) ==
    /\ aks[n].exists /\ ~aks[n].deleting /\ ~aks[n].termination
    /\ WriteAKSNodeClass(n, [aks[n] EXCEPT !.termination = TRUE])
    /\ UNCHANGED <<nc, secrets, hcp, cnc, caks, csecrets, chcp, fnc, queue, worker,
                   lastSecret, budget>>

ReportReadiness(n, status) ==
    /\ Spend
    /\ aks[n].exists /\ aks[n].conditions["Ready"].status # status
    /\ WriteAKSNodeClass(n, [aks[n] EXCEPT !.conditions["Ready"] = [status |-> status, time |-> Now]])
    /\ UNCHANGED <<nc, secrets, hcp, cnc, caks, csecrets, chcp, fnc, queue, worker, lastSecret>>

ReleaseAKSNodeClass(n) ==
    /\ aks[n].exists /\ aks[n].deleting
    /\ WriteAKSNodeClass(n, NoAKSNodeClass)
    /\ UNCHANGED <<nc, secrets, hcp, cnc, caks, csecrets, chcp, fnc, queue, worker,
                   lastSecret, budget>>

(* Somebody deletes an AKSNodeClass while the admission policy is not there. *)
TamperAKSNodeClass(n) ==
    /\ Spend
    /\ aks[n].exists /\ ~aks[n].deleting
    /\ WriteAKSNodeClass(n, Deleted(aks[n], aks[n].termination, NoAKSNodeClass))
    /\ UNCHANGED <<nc, secrets, hcp, cnc, caks, csecrets, chcp, fnc, queue, worker, lastSecret>>

-----------------------------------------------------------------------------
(* The informers.  Events reach the queue through the watches' predicates    *)
(* (SetupWithManager); several changes of an object may arrive as one.       *)

SyncNodeClasses ==
    /\ cnc' = nc
    /\ fnc' = [n \in Names |-> TRUE]
    /\ queue' = queue \cup {n \in Names : ~fnc[n]}
    /\ UNCHANGED <<apiVars, caks, csecrets, chcp, faks, worker, lastSecret, budget>>

SyncAKSNodeClasses ==
    /\ caks' = aks
    /\ faks' = [n \in Names |-> TRUE]
    /\ queue' = queue \cup {n \in Names : ~faks[n]}
    /\ UNCHANGED <<apiVars, cnc, csecrets, chcp, fnc, worker, lastSecret, budget>>

(* Mutant: only updates of Secrets that are already known. *)
KarpenterSecretPredicateUpdatesOnly(old, new) == old # {} /\ new \ old # {}

(* KarpenterSecretPredicate: creations and updates, not deletions. *)
KarpenterSecretPredicate(old, new) == new \ old # {}

SyncSecrets ==
    /\ csecrets' = secrets
    /\ queue' = queue \cup {n \in Names : KarpenterSecretPredicate(csecrets[n], secrets[n])}
    /\ UNCHANGED <<apiVars, cnc, caks, chcp, fnc, faks, worker, lastSecret, budget>>

(* hcpPredicate: creation, and updates of the control plane version status. *)
hcpPredicate(old, new) ==
    \/ old.state = "none" /\ new.state = "live"
    \/ /\ old.state = "live" /\ new.state = "live"
       /\ <<old.desired, old.completed>> # <<new.desired, new.completed>>

(* Mutant: the request names the HostedControlPlane. *)
mapToNodeClassesItself == {"hcp"}

mapToNodeClasses == {n \in Names : cnc[n].exists}

SyncHCP ==
    /\ chcp' = hcp
    /\ queue' = IF hcpPredicate(chcp, hcp) THEN queue \cup mapToNodeClasses ELSE queue
    /\ UNCHANGED <<apiVars, cnc, caks, csecrets, fnc, faks, worker, lastSecret, budget>>

-----------------------------------------------------------------------------
(* The worker: one action per call to an API server.  Reads from caches are  *)
(* part of the action that uses them.                                        *)

Done == worker' = Idle(worker)
Fail == Done /\ queue' = queue \cup {worker.key}   \* an error: rate-limited retry

(* Reconcile, up to its first write: the cached NodeClass selects the branch. *)
Reconcile(n) ==
    /\ worker.pc = "idle" /\ n \in queue
    /\ queue' = queue \ {n}
    /\ worker' =
         IF ~cnc[n].exists THEN [Idle(worker) EXCEPT !.key = n]
         ELSE [pc |-> IF cnc[n].deleting THEN "delete"
                      ELSE IF ~cnc[n].finalizer THEN "finalize" ELSE "apply",
               key |-> n, obj |-> cnc[n], fresh |-> fnc[n], provider |-> NoConditions]
    /\ UNCHANGED <<apiVars, cacheVars, lastSecret, budget>>

(* A write of the worker's own NodeClass, whose copy the response refreshes. *)
PatchNodeClass(obj, next) ==
    /\ nc' = [nc EXCEPT ![worker.key] = obj]
    /\ fnc' = [fnc EXCEPT ![worker.key] = FALSE]
    /\ worker' = next

AddFinalizer ==
    /\ worker.pc = "finalize"
    /\ LET obj == [worker.obj EXCEPT !.finalizer = TRUE]
       IN  \/ /\ worker.fresh
              /\ PatchNodeClass(obj, [worker EXCEPT !.pc = "apply", !.obj = obj])
              /\ UNCHANGED queue
           \/ ~worker.fresh /\ Fail /\ UNCHANGED <<nc, fnc>>
    /\ UNCHANGED <<aks, secrets, hcp, cnc, caks, csecrets, chcp, faks, lastSecret, budget>>

(* isControlPlaneUpgrading: neither before the first completed release nor    *)
(* before a release is desired.                                               *)
isControlPlaneUpgrading(h) ==
    h.desired # 0 /\ h.completed # 0 /\ h.completed # h.desired

WaitsForControlPlaneUpgrade(h, pinned) == ~pinned /\ isControlPlaneUpgrading(h)

(* aksNodeClassSpec: cmp.Or of the size and its default. *)
aksNodeClassSpec(disk) == IF disk # 0 THEN disk ELSE defaultOSDiskSizeGiB

(* Mutant: only the user data is held back. *)
MutateHoldsUserDataOnly(current, obj, h, secret) ==
    LET hold == WaitsForControlPlaneUpgrade(h, obj.pinned)
                /\ current.userData # 0 /\ current.image # 0
    IN [current EXCEPT !.exists = TRUE, !.disk = aksNodeClassSpec(obj.disk),
                       !.userData = IF hold THEN @ ELSE secret,
                       !.image = secret]

(* The mutate function of CreateOrUpdate. *)
MutateAKSNodeClass(current, obj, h, secret) ==
    LET hold == WaitsForControlPlaneUpgrade(h, obj.pinned)
                /\ current.userData # 0 /\ current.image # 0
    IN [current EXCEPT !.exists = TRUE, !.disk = aksNodeClassSpec(obj.disk),
                       !.userData = IF hold THEN @ ELSE secret,
                       !.image = IF hold THEN @ ELSE secret]

Returned(obj) == worker' = [worker EXCEPT !.pc = "status", !.provider = obj.conditions]

(* controllerutil.CreateOrUpdate: a cached Get; then nothing, if the mutated *)
(* object is the cached one; a Create, which fails if the cache had missed   *)
(* the object; or an Update, which fails if the cached copy is outdated.     *)
CreateOrUpdate(n, desired) ==
    \/ /\ desired = caks[n]
       /\ Returned(caks[n]) /\ UNCHANGED <<aks, faks, queue>>
    \/ /\ desired # caks[n]
       /\ IF caks[n].exists THEN faks[n] ELSE ~aks[n].exists
       /\ WriteAKSNodeClass(n, desired)
       /\ Returned(desired) /\ UNCHANGED queue
    \/ /\ desired # caks[n]
       /\ ~(IF caks[n].exists THEN faks[n] ELSE ~aks[n].exists)
       /\ Fail /\ UNCHANGED <<aks, faks>>

(* Mutant: the first of several. *)
GetUserDataSecretFirst(found, v) == v \in found

(* GetUserDataSecret returns v only if it is the one Secret found. *)
GetUserDataSecret(found, v) == found = {v}

(* Reading the HostedControlPlane and the user data Secret (several are an   *)
(* error, none is not), then reconcileAKSNodeClass.                          *)
Apply ==
    /\ worker.pc = "apply"
    /\ LET n == worker.key
       IN  \/ /\ chcp.state # "live" \/ csecrets[n] = {}
              /\ Done /\ UNCHANGED <<aks, faks, queue>>
           \/ /\ chcp.state = "live" /\ csecrets[n] # {}
              /\ \A v \in csecrets[n] : ~GetUserDataSecret(csecrets[n], v)
              /\ Fail /\ UNCHANGED <<aks, faks>>
           \/ /\ chcp.state = "live"
              /\ \E v \in csecrets[n] :
                    /\ GetUserDataSecret(csecrets[n], v)
                    /\ CreateOrUpdate(n, MutateAKSNodeClass(caks[n], worker.obj, chcp, v))
    /\ UNCHANGED <<nc, secrets, hcp, cnc, caks, csecrets, chcp, fnc, lastSecret, budget>>

(* Mutant: the status is patched without the optimistic lock. *)
PatchStatusUnlocked ==
    /\ worker.pc = "status"
    /\ LET c == SyncConditions(worker.obj.conditions, worker.provider)
       IN  /\ IF c # worker.obj.conditions /\ nc[worker.key].exists
                 THEN PatchNodeClass([nc[worker.key] EXCEPT !.conditions["Ready"] = c["Ready"]],
                                     Idle(worker))
                 ELSE Done /\ UNCHANGED <<nc, fnc>>
           /\ UNCHANGED queue
    /\ UNCHANGED <<aks, secrets, hcp, cnc, caks, csecrets, chcp, faks, lastSecret, budget>>

(* reconcileStatus *)
PatchStatus ==
    /\ worker.pc = "status"
    /\ LET c == SyncConditions(worker.obj.conditions, worker.provider)
       IN  \/ c = worker.obj.conditions /\ Done /\ UNCHANGED <<nc, fnc, queue>>
           \/ /\ c # worker.obj.conditions /\ worker.fresh
              /\ PatchNodeClass([worker.obj EXCEPT !.conditions = c], Idle(worker))
              /\ UNCHANGED queue
           \/ /\ c # worker.obj.conditions /\ ~worker.fresh
              /\ Fail /\ UNCHANGED <<nc, fnc>>
    /\ UNCHANGED <<aks, secrets, hcp, cnc, caks, csecrets, chcp, faks, lastSecret, budget>>

(* Mutant: a deletion that was accepted counts as done. *)
DeleteAKSNodeClassAndGoOn ==
    /\ worker.pc = "delete"
    /\ LET n == worker.key
       IN  IF aks[n].exists
             THEN WriteAKSNodeClass(n, Deleted(aks[n], aks[n].termination, NoAKSNodeClass))
             ELSE UNCHANGED <<aks, faks>>
    /\ worker' = IF worker.obj.finalizer THEN [worker EXCEPT !.pc = "unfinalize"] ELSE Idle(worker)
    /\ UNCHANGED <<nc, secrets, hcp, cnc, caks, csecrets, chcp, fnc, queue, lastSecret, budget>>

(* reconcileDelete, first call: a live Delete.  If it finds the AKSNodeClass  *)
(* the reconcile ends without a requeue: the AKSNodeClass watch wakes it.     *)
DeleteAKSNodeClass ==
    /\ worker.pc = "delete"
    /\ LET n == worker.key
       IN  \/ /\ aks[n].exists /\ ~aks[n].deleting
              /\ WriteAKSNodeClass(n, Deleted(aks[n], aks[n].termination, NoAKSNodeClass))
              /\ Done
           \/ aks[n].exists /\ aks[n].deleting /\ Done /\ UNCHANGED <<aks, faks>>
           \/ /\ ~aks[n].exists
              /\ worker' = IF worker.obj.finalizer
                             THEN [worker EXCEPT !.pc = "unfinalize"] ELSE Idle(worker)
              /\ UNCHANGED <<aks, faks>>
    /\ UNCHANGED <<nc, secrets, hcp, cnc, caks, csecrets, chcp, fnc, queue, lastSecret, budget>>

(* reconcileDelete, second call: without its last finalizer the deleted      *)
(* NodeClass is gone.                                                        *)
RemoveFinalizer ==
    /\ worker.pc = "unfinalize"
    /\ \/ /\ worker.fresh
          /\ PatchNodeClass(NoNodeClass, Idle(worker))
          /\ UNCHANGED queue
       \/ ~worker.fresh /\ Fail /\ UNCHANGED <<nc, fnc>>
    /\ UNCHANGED <<aks, secrets, hcp, cnc, caks, csecrets, chcp, faks, lastSecret, budget>>

WorkerStep ==
    AddFinalizer \/ Apply \/ PatchStatus \/ DeleteAKSNodeClass \/ RemoveFinalizer

(* Any call may fail without effect; the reconcile returns the error. *)
CallFails ==
    /\ Spend
    /\ worker.pc # "idle" /\ Fail
    /\ UNCHANGED <<apiVars, cacheVars, lastSecret>>

(* The operator restarts: caches are listed anew, and the initial events     *)
(* enqueue every NodeClass, directly or through its AKSNodeClass or Secret.  *)
Restart ==
    /\ Spend
    /\ cnc' = nc /\ caks' = aks /\ csecrets' = secrets /\ chcp' = hcp
    /\ fnc' = [n \in Names |-> TRUE] /\ faks' = fnc'
    /\ queue' = {n \in Names : nc[n].exists \/ aks[n].exists \/ secrets[n] # {}}
    /\ worker' = Idle(worker)
    /\ UNCHANGED <<apiVars, lastSecret>>

Informers == SyncNodeClasses \/ SyncAKSNodeClasses \/ SyncSecrets \/ SyncHCP

Environment ==
    \/ \E n \in Names :
          \/ \E pinned \in BOOLEAN, disk \in DiskSizes :
                CreateNodeClass(n, pinned, disk) \/ EditNodeClass(n, pinned, disk)
          \/ DeleteNodeClass(n)
          \/ \E status \in {"True", "False"} : ResolveVersion(n, status) \/ ReportReadiness(n, status)
          \/ CreateSecret(n)
          \/ \E v \in 1..MaxSecret : RotateToken(n, v) \/ DeleteSecret(n, v)
          \/ AddTermination(n) \/ ReleaseAKSNodeClass(n) \/ TamperAKSNodeClass(n)
    \/ CreateHCP \/ CompleteUpgrade \/ DeleteHCP
    \/ \E r \in 1..MaxRelease : SetDesiredRelease(r)

Next ==
    \/ \E n \in Names : Reconcile(n)
    \/ WorkerStep \/ CallFails \/ Restart
    \/ Informers \/ Environment

Spec == Init /\ [][Next]_vars

(* The work queue serves every key in turn, informers catch up, calls        *)
(* return, and Karpenter finishes deletions; nothing else is fair.           *)
Fairness ==
    /\ WF_vars(SyncNodeClasses) /\ WF_vars(SyncAKSNodeClasses)
    /\ WF_vars(SyncSecrets) /\ WF_vars(SyncHCP)
    /\ WF_vars(WorkerStep)
    /\ \A n \in Names : SF_vars(Reconcile(n)) /\ WF_vars(ReleaseAKSNodeClass(n))

FairSpec == Spec /\ Fairness

-----------------------------------------------------------------------------
(* Properties *)

(* An AKSNodeClass exists only while its OpenShiftAzureNodeClass does, still *)
(* guarded by the operator's finalizer (reconcileDelete, and the order of    *)
(* finalizer and creation in Reconcile).                                     *)
NoOrphan ==
    \A n \in Names : aks[n].exists => nc[n].exists /\ nc[n].finalizer

(* User data and image always come from the same Secret, whatever part of    *)
(* an upgrade was held back (reconcileAKSNodeClass).                         *)
UserDataMatchesImage ==
    \A n \in Names : aks[n].userData = aks[n].image

(* No AKSNodeClass returns to older user data than it already had: holding   *)
(* back what an outdated cache shows ends in a conflict (CreateOrUpdate).    *)
UserDataNeverRollsBack ==
    [][\A n \in Names :
          aks[n].exists /\ aks'[n].exists => aks[n].userData <= aks'[n].userData]_vars

(* A NodeClass becomes Ready only in a state in which its version is         *)
(* resolved, even if the ignition controller writes it at the same time      *)
(* (SyncConditions, and the optimistic lock of reconcileStatus).             *)
ReadyOnlyWhenResolved ==
    [][\A n \in Names :
          nc[n].conditions["Ready"].status # "True" /\ nc'[n].conditions["Ready"].status = "True"
          => nc'[n].conditions["VersionResolved"].status = "True"]_vars

(* The controller's promise: ProviderNodeClass, with these phases. *)
PhaseOf(obj) == IF ~obj.exists THEN "absent"
                ELSE IF obj.deleting THEN "terminating" ELSE "live"

Abstract == INSTANCE ProviderNodeClass
            WITH owner <- [n \in Names |-> PhaseOf(nc[n])],
                 provider <- [n \in Names |-> PhaseOf(aks[n])]

(* Every behaviour of the controller is one ProviderNodeClass allows.        *)
Implements == Abstract!Spec

(* What a reconcile aims at, for NodeClass n. *)
InSync(n) ==
    /\ ~nc[n].deleting
    /\ nc[n].exists /\ hcp.state = "live" =>
         \A v \in secrets[n] : secrets[n] = {v} =>
            /\ aks[n].exists /\ ~aks[n].deleting
            /\ aks[n].disk = aksNodeClassSpec(nc[n].disk)
            /\ \/ WaitsForControlPlaneUpgrade(hcp, nc[n].pinned)
               \/ aks[n].userData = v
            /\ SyncConditions(nc[n].conditions, aks[n].conditions) = nc[n].conditions

(* When everything around the controller has come to rest, every NodeClass   *)
(* is in sync or gone: no event is missed by the watches and predicates, no  *)
(* early return forgets its key, and deletions finish.                       *)
Converges == <>[](\A n \in Names : InSync(n))
=============================================================================
