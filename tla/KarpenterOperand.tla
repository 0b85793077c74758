-------------------------- MODULE KarpenterOperand --------------------------
(***************************************************************************)
(* The karpenter controllers (pkg/controllers/karpenter): HCPController    *)
(* deploys Karpenter next to a HostedControlPlane, OCPController on a      *)
(* standalone cluster for the Karpenter resource.  Here either is the      *)
(* owner of the operand's objects.                                         *)
(*                                                                         *)
(* A reconcile reads only its owner, from the cache, and applies the       *)
(* objects one by one, server-side and with forced ownership, without      *)
(* reading them.  Objects are watched through their owner reference, so of *)
(* their informers only the undelivered events matter.  An apply that      *)
(* changes nothing is no event.                                            *)
(***************************************************************************)
EXTENDS Naturals, Sequences, SequencesExt

CONSTANTS
    MaxUID,     \* how many owners, one after the other
    MaxLevel,   \* versions of the control plane, or log levels
    Budget      \* bound on the environment's steps

ASSUME ConstantsAreTyped == MaxUID \in Nat \ {0} /\ MaxLevel \in Nat \ {0} /\ Budget \in Nat

VARIABLES
    mode,           \* "HCP" or "OCP" (never changes)
    configured,     \* was the operator given an image?  (never changes)
    owner, cowner,  \* the HostedControlPlane or Karpenter resource; its cache
    obj,            \* the operand's objects
    event,          \* is an event of an object on the way that will queue?
    queued, worker, budget

vars == <<mode, configured, owner, cowner, obj, event, queued, worker, budget>>
settings == <<mode, configured>>

-----------------------------------------------------------------------------
(* Objects *)

(* In the order in which they are applied.  One ClusterRole stands for all   *)
(* ClusterRoles and ClusterRoleBindings, one Role for all Roles and          *)
(* RoleBindings: they are applied in a row and watched in the same way.      *)
HCPOrder == <<"ServiceAccount", "Deployment", "PodMonitor">>
OCPOrder == <<"ServiceAccount", "ClusterRole", "Role", "Deployment", "PodMonitor">>
Order == IF mode = "HCP" THEN HCPOrder ELSE OCPOrder
Kinds == ToSet(Order)

(* level: the desired version in a HostedControlPlane, 0 if it is not set    *)
(* yet, or the log level; provisioner: does AutoNode name Karpenter?         *)
(* override: the annotation with another image.                              *)
Owner == [exists : BOOLEAN, uid : 0..MaxUID, provisioner : BOOLEAN, level : 0..MaxLevel,
          infra : 0..1, override : BOOLEAN]

(* What of the operand's configuration depends on the owner. *)
Config == [image : {"none", "configured", "override"}, version : 0..MaxLevel,
           logLevel : 0..MaxLevel, infra : 0..1]
NoConfig == [image |-> "none", version |-> 0, logLevel |-> 0, infra |-> 0]

(* uid: of the owner reference, 0 if there is none; edited: by somebody else *)
Object == [exists : BOOLEAN, uid : 0..MaxUID, edited : BOOLEAN, content : Config]
Absent == [exists |-> FALSE, uid |-> 0, edited |-> FALSE, content |-> NoConfig]

(* pc: position in Order of the next object; a reconcile holds what it read. *)
Worker == [pc : 0..Len(OCPOrder), uid : 0..MaxUID, config : Config]
Idle == [pc |-> 0, uid |-> 0, config |-> NoConfig]

TypeOK ==
    /\ mode \in {"HCP", "OCP"} /\ configured \in BOOLEAN
    /\ owner \in Owner /\ cowner \in Owner
    /\ obj \in [Kinds -> Object] /\ event \in BOOLEAN
    /\ queued \in BOOLEAN /\ worker \in Worker /\ budget \in Nat

Init ==
    /\ mode \in {"HCP", "OCP"} /\ configured \in BOOLEAN
    /\ owner = [exists |-> FALSE, uid |-> 0, provisioner |-> TRUE, level |-> 0, infra |-> 0,
                override |-> FALSE]
    /\ cowner = owner
    /\ obj = [k \in Kinds |-> Absent] /\ event = FALSE
    /\ queued = FALSE /\ worker = Idle /\ budget = Budget

-----------------------------------------------------------------------------
(* Events of the operand's objects *)

(* Mutant: only the new object's owner is told. *)
NotifiesNewOwner(k, old, new) == new.uid # 0 \/ k = "ClusterRole"

(* Owns: the owner named in the old or in the new object is queued, by name; *)
(* ClusterRoles and ClusterRoleBindings are known by their own names.        *)
Notifies(k, old, new) ==
    old.uid # 0 \/ new.uid # 0 \/ k = "ClusterRole"

Write(k, new) ==
    /\ obj' = [obj EXCEPT ![k] = new]
    /\ event' = (event \/ (new # obj[k] /\ Notifies(k, obj[k], new)))

-----------------------------------------------------------------------------
(* Administrators, HyperShift and the garbage collector (external) *)

Spend == budget > 0 /\ budget' = budget - 1

ChangeOwner(o) ==
    /\ owner' = o
    /\ UNCHANGED <<settings, cowner, obj, event, queued, worker>>

(* HyperShift sets the version of a new HostedControlPlane later. *)
CreateOwner(level, override) ==
    /\ ~owner.exists /\ owner.uid < MaxUID /\ (mode = "HCP" => level = 0)
    /\ ChangeOwner([owner EXCEPT !.exists = TRUE, !.uid = @ + 1, !.level = level,
                                 !.override = override])
    /\ UNCHANGED budget
DeleteOwner == Spend /\ owner.exists /\ ChangeOwner([owner EXCEPT !.exists = FALSE])
SetLevel(l) ==
    owner.exists /\ owner.level < l /\ ChangeOwner([owner EXCEPT !.level = l]) /\ UNCHANGED budget
Override == Spend /\ owner.exists /\ ChangeOwner([owner EXCEPT !.override = ~@])
SetInfra ==
    Spend /\ mode = "HCP" /\ owner.exists /\ owner.infra = 0 /\ ChangeOwner([owner EXCEPT !.infra = 1])
ChangeProvisioner ==
    Spend /\ mode = "HCP" /\ owner.exists /\ ChangeOwner([owner EXCEPT !.provisioner = ~@])

Tamper(k, new) ==
    Spend /\ new # obj[k] /\ Write(k, new) /\ UNCHANGED <<settings, owner, cowner, queued, worker>>

EditObject(k) == obj[k].exists /\ Tamper(k, [obj[k] EXCEPT !.edited = TRUE])
DisownObject(k) == obj[k].exists /\ Tamper(k, [obj[k] EXCEPT !.uid = 0])
DeleteObject(k) == Tamper(k, Absent)
CreateForeign(k) == ~obj[k].exists /\ Tamper(k, [Absent EXCEPT !.exists = TRUE])

Garbage(k) == obj[k].uid # 0 /\ ~(owner.exists /\ owner.uid = obj[k].uid)

(* Objects whose owner has gone, even if another has its name, are deleted. *)
CollectGarbage(k) ==
    /\ Garbage(k)
    /\ Write(k, Absent)
    /\ UNCHANGED <<settings, owner, cowner, queued, worker, budget>>

-----------------------------------------------------------------------------
(* The informers *)

(* Mutant: a change of the image override is ignored. *)
hcpOperandChangedIgnoringImage(old, new) ==
    \/ old.infra # new.infra \/ old.provisioner # new.provisioner
    \/ old.level # new.level

(* hcpOperandChanged: the infraID, AutoNode, the version and the override.   *)
(* A HostedControlPlane replaced by an equal one is no change.               *)
hcpOperandChanged(old, new) ==
    \/ old.infra # new.infra \/ old.provisioner # new.provisioner
    \/ old.level # new.level
    \/ old.override # new.override

(* hcpOperandReconcilePredicate; the Karpenter resource has none. *)
OwnerEventQueues(old, new) ==
    IF mode = "HCP" THEN old.exists # new.exists \/ hcpOperandChanged(old, new) ELSE old # new

SyncOwner ==
    /\ cowner' = owner /\ queued' = (queued \/ OwnerEventQueues(cowner, owner))
    /\ UNCHANGED <<settings, owner, obj, event, worker, budget>>

SyncObjects ==
    /\ event /\ event' = FALSE /\ queued' = TRUE
    /\ UNCHANGED <<settings, owner, cowner, obj, worker, budget>>

(* The credentials Secret is watched as well, although nothing depends on it. *)
SyncSecret ==
    /\ mode = "OCP" /\ Spend /\ queued' = TRUE
    /\ UNCHANGED <<settings, owner, cowner, obj, event, worker>>

-----------------------------------------------------------------------------
(* The worker *)

karpenterImage(o) ==
    CASE o.override -> "override" [] ~o.override /\ configured -> "configured" [] OTHER -> "unset"

(* The infraID names the kubeconfig Secret that the pods mount. *)
HCPOperandConfig(o) ==
    [image |-> karpenterImage(o), version |-> o.level, logLevel |-> 0, infra |-> o.infra]

OCPOperandConfig(o) ==
    [image |-> karpenterImage(o), version |-> 0, logLevel |-> o.level, infra |-> 0]

operandConfig(o) == IF mode = "HCP" THEN HCPOperandConfig(o) ELSE OCPOperandConfig(o)

(* HCPController skips a HostedControlPlane that does not use Karpenter and   *)
(* waits for its version.                                                     *)
Skips(o) == ~o.exists \/ (mode = "HCP" /\ ~o.provisioner)
Waits(o) == mode = "HCP" /\ o.level = 0

(* Mutant: a missing image is not noticed. *)
ReconcileWithoutImage ==
    /\ worker.pc = 0 /\ queued
    /\ queued' = (~Skips(cowner) /\ Waits(cowner))
    /\ worker' = IF Skips(cowner) \/ Waits(cowner) THEN Idle
                 ELSE [pc |-> 1, uid |-> cowner.uid, config |-> operandConfig(cowner)]
    /\ UNCHANGED <<settings, owner, cowner, obj, event, budget>>

(* Reconcile up to the first apply.  Without a version it polls, without an  *)
(* image it fails.                                                           *)
Reconcile ==
    LET Delayed == Waits(cowner) \/ karpenterImage(cowner) = "unset"
    IN  /\ worker.pc = 0 /\ queued
        /\ queued' = (~Skips(cowner) /\ Delayed)
        /\ worker' = IF Skips(cowner) \/ Delayed THEN Idle
                     ELSE [pc |-> 1, uid |-> cowner.uid, config |-> operandConfig(cowner)]
        /\ UNCHANGED <<settings, owner, cowner, obj, event, budget>>

(* The version is an annotation of the Deployment, the image, the log level  *)
(* and the kubeconfig are part of its pods.                                  *)
buildPodSpec(cfg) == [image |-> cfg.image, logLevel |-> cfg.logLevel, infra |-> cfg.infra]
buildDeployment(cfg) ==
    LET pod == buildPodSpec(cfg)
    IN  [image |-> pod.image, version |-> cfg.version, logLevel |-> pod.logLevel, infra |-> pod.infra]

(* Roles, bindings and the PodMonitor are the same for every owner. *)
Content(k, cfg) == IF k = "Deployment" THEN buildDeployment(cfg) ELSE NoConfig

Desired(k) ==
    [exists |-> TRUE, uid |-> worker.uid, edited |-> FALSE, content |-> Content(k, worker.config)]

NextPC == IF worker.pc < Len(Order) THEN [worker EXCEPT !.pc = @ + 1] ELSE Idle

(* Mutant: the apply writes something new each time. *)
ApplyAlwaysWrites ==
    LET k == Order[worker.pc]
    IN  /\ worker.pc # 0 /\ worker' = NextPC
        /\ obj' = [obj EXCEPT ![k] = Desired(k)]
        /\ event' = TRUE
        /\ UNCHANGED <<settings, owner, cowner, queued, budget>>

(* applyServiceAccount, applyClusterRoles ... applyPodMonitor, in turn: the  *)
(* object is created or gets the fields, and the owner that was read.        *)
Apply ==
    LET k == Order[worker.pc]
    IN  /\ worker.pc # 0 /\ worker' = NextPC
        /\ Write(k, Desired(k))
        /\ UNCHANGED <<settings, owner, cowner, queued, budget>>

(* An apply that fails ends the reconcile, the others are left as they are. *)
ApplyFails ==
    /\ Spend /\ worker.pc # 0 /\ worker' = Idle /\ queued' = TRUE
    /\ UNCHANGED <<settings, owner, cowner, obj, event>>

(* A restarted operator lists everything and sees it as created. *)
Restart ==
    /\ Spend /\ worker' = Idle /\ cowner' = owner /\ event' = FALSE
    /\ queued' = (owner.exists \/ \E k \in Kinds : obj[k].exists /\ Notifies(k, Absent, obj[k]))
    /\ UNCHANGED <<settings, owner, obj>>

Environment ==
    \/ \E l \in 0..MaxLevel : SetLevel(l) \/ \E override \in BOOLEAN : CreateOwner(l, override)
    \/ DeleteOwner \/ Override \/ SetInfra \/ ChangeProvisioner
    \/ \E k \in Kinds : \/ EditObject(k) \/ DisownObject(k) \/ DeleteObject(k)
                        \/ CreateForeign(k) \/ CollectGarbage(k)

Next ==
    \/ SyncOwner \/ SyncObjects \/ SyncSecret \/ Reconcile \/ Apply \/ ApplyFails \/ Restart
    \/ Environment

Spec == Init /\ [][Next]_vars

(* Informers catch up, the queue is served, calls return, and the garbage    *)
(* collector does its work.                                                  *)
Fairness ==
    /\ WF_vars(SyncOwner) /\ WF_vars(SyncObjects) /\ WF_vars(Reconcile) /\ WF_vars(Apply)
    /\ WF_vars(\E k \in Kinds : CollectGarbage(k))

FairSpec == Spec /\ Fairness

-----------------------------------------------------------------------------
(* Properties *)

(* Has the operator all it needs to deploy Karpenter? *)
Deployable ==
    /\ owner.exists
    /\ configured \/ owner.override
    /\ mode = "HCP" => owner.provisioner /\ owner.level # 0

(* The Deployment follows the owner's fields, and every object belongs to    *)
(* the present owner; nothing belongs to one that is gone.                   *)
InSync ==
    /\ Deployable =>
         /\ \A k \in Kinds : obj[k].exists /\ obj[k].uid = owner.uid
                             /\ ~obj[k].edited
         /\ obj["Deployment"].content.version + obj["Deployment"].content.logLevel = owner.level
         /\ obj["Deployment"].content.image = "override" <=> owner.override
         /\ mode = "HCP" => obj["Deployment"].content.infra = owner.infra
    /\ \A k \in Kinds : obj[k].uid # 0 => owner.exists /\ obj[k].uid = owner.uid

(* The operand ends up complete and up to date, or collected, although       *)
(* reconciles fail half-way, the owner may be replaced by another of its     *)
(* name while the cached UID is applied, a replacement by an equal           *)
(* HostedControlPlane is filtered out, and objects are edited, disowned or   *)
(* deleted behind the controller's back (Reconcile, the predicates, Owns).   *)
OperandConverges == <>[]InSync

(* Whenever nothing is on the way, the operand is as it should be: no change *)
(* that matters lacks an event (SetupWithManager of both controllers).       *)
InSyncAtRest ==
    (/\ ~queued /\ worker.pc = 0 /\ event = FALSE /\ cowner = owner
     /\ \A k \in Kinds : ~Garbage(k))
    => InSync

(* The controller's own writes queue it again; still it comes to rest, since *)
(* applying the same again changes nothing.  While the version or the image  *)
(* is missing it polls.                                                      *)
ComesToRest == <>[]((owner.exists /\ ~Deployable) \/ (~queued /\ worker.pc = 0))
=============================================================================
