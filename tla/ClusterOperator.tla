-------------------------- MODULE ClusterOperator --------------------------
(***************************************************************************)
(* The clusteroperator controller (pkg/controllers/clusteroperator) of the *)
(* standalone operator: it reports the state of the karpenter Deployment   *)
(* in the conditions of the ClusterOperator "karpenter", which the cluster *)
(* version operator waits for.                                             *)
(*                                                                         *)
(* The Karpenter resource, the Deployment and the ClusterOperator are read *)
(* from caches that lag independently.  A read that fails is reported as   *)
(* Degraded and is not an error of the reconcile, so nothing retries it    *)
(* but the event of the report itself.                                     *)
(***************************************************************************)
EXTENDS Naturals

CONSTANTS
    MaxTime,        \* the clock counts 0..MaxTime and wraps around
    CheckFailures,  \* bound on reads of the operand that fail
    Budget          \* bound on the environment's steps

ASSUME ConstantsAreTyped == MaxTime \in Nat /\ CheckFailures \in Nat /\ Budget \in Nat

VARIABLES
    unsupported,                    \* config.UnsupportedPlatform is set
    karpenter, deployment, co,      \* the objects in the API server
    ckarpenter, cdeployment, cco,   \* the informer caches of them
    fco,                            \* is the cached resourceVersion of co current?
    queued, worker, clock, failures, budget

operand == <<karpenter, deployment>>
caches == <<ckarpenter, cdeployment, cco, fco>>
vars == <<unsupported, operand, co, caches, queued, worker, clock, failures, budget>>

-----------------------------------------------------------------------------
(* Objects *)

Times == 0..MaxTime

(* unavailable: no replica is available; rolling: some replica is not updated *)
Deployment == {"absent", "unavailable", "rolling", "updated"}

Types == {"Available", "Progressing", "Degraded", "Upgradeable"}

(* What a report says: a status per condition and the reason it gives. *)
Report(true, reason) == [true |-> {"Available", "Upgradeable"} \cup true, reason |-> reason]
availableConditions(reason) == Report({}, reason)
progressingConditions(reason) == Report({"Progressing"}, reason)
degradedConditions(reason) == Report({"Degraded"}, reason)

Reports ==
    {availableConditions(r) : r \in {"UnsupportedPlatform", "KarpenterNotFound", "AsExpected"}}
    \cup {progressingConditions(r) :
            r \in {"OperandNotYetCreated", "OperandNotReady", "OperandRollingOut"}}
    \cup {degradedConditions(r) : r \in {"KarpenterCheckFailed", "OperandCheckFailed"}}

(* The ClusterOperator comes without conditions; since is lastTransitionTime. *)
NoReport == [true |-> {}, reason |-> "none"]
CO == [exists : BOOLEAN, report : Reports \cup {NoReport}, since : [Types -> Times]]
NewCO == [exists |-> TRUE, report |-> NoReport, since |-> [t \in Types |-> 0]]

Worker == [pc : {"idle", "ensure", "read", "status"}, report : Reports \cup {NoReport},
           since : [Types -> Times]]
Idle == [pc |-> "idle", report |-> NoReport, since |-> [t \in Types |-> 0]]

TypeOK ==
    /\ unsupported \in BOOLEAN /\ karpenter \in BOOLEAN /\ deployment \in Deployment /\ co \in CO
    /\ ckarpenter \in BOOLEAN /\ cdeployment \in Deployment /\ cco \in CO /\ fco \in BOOLEAN
    /\ queued \in BOOLEAN /\ worker \in Worker /\ clock \in Times
    /\ failures \in 0..CheckFailures /\ budget \in 0..Budget

Init ==
    /\ unsupported \in BOOLEAN /\ karpenter \in BOOLEAN /\ deployment = "absent" /\ co = NewCO
    /\ ckarpenter = karpenter /\ cdeployment = deployment /\ cco = co /\ fco = TRUE
    /\ queued = TRUE /\ worker = Idle /\ clock = 0 /\ failures = CheckFailures /\ budget = Budget

-----------------------------------------------------------------------------
(* Administrators, the cluster version operator, the operand's rollout and the clock (external) *)

Spend == budget > 0 /\ budget' = budget - 1

ToggleKarpenter ==
    /\ Spend /\ karpenter' = ~karpenter
    /\ UNCHANGED <<unsupported, deployment, co, caches, queued, worker, clock, failures>>

ChangeDeployment(to) ==
    /\ Spend /\ deployment # to /\ deployment' = to
    /\ UNCHANGED <<unsupported, karpenter, co, caches, queued, worker, clock, failures>>

DeleteCO ==
    /\ Spend /\ co.exists /\ co' = [NewCO EXCEPT !.exists = FALSE] /\ fco' = FALSE
    /\ UNCHANGED <<unsupported, operand, ckarpenter, cdeployment, cco, queued, worker, clock,
                   failures>>

(* The cluster version operator installs it again (install/06_clusteroperator.yaml). *)
InstallCO ==
    /\ ~co.exists /\ co' = NewCO /\ fco' = FALSE
    /\ UNCHANGED <<unsupported, operand, ckarpenter, cdeployment, cco, queued, worker, clock,
                   failures, budget>>

Tick ==
    /\ clock' = (clock + 1) % (MaxTime + 1)
    /\ UNCHANGED <<unsupported, operand, co, caches, queued, worker, failures, budget>>

-----------------------------------------------------------------------------
(* The informers.  Every change of the three objects queues. *)

SyncKarpenter ==
    /\ ckarpenter' = karpenter /\ queued' = (queued \/ ckarpenter # karpenter)
    /\ UNCHANGED <<unsupported, operand, co, cdeployment, cco, fco, worker, clock, failures, budget>>

SyncDeployment ==
    /\ cdeployment' = deployment /\ queued' = (queued \/ cdeployment # deployment)
    /\ UNCHANGED <<unsupported, operand, co, ckarpenter, cco, fco, worker, clock, failures, budget>>

(* Mutant: changes of the ClusterOperator's status do not queue. *)
SyncCOOfGeneration ==
    /\ cco' = co /\ fco' = TRUE /\ queued' = (queued \/ cco.exists # co.exists)
    /\ UNCHANGED <<unsupported, operand, co, ckarpenter, cdeployment, worker, clock, failures, budget>>

SyncCO ==
    /\ cco' = co /\ fco' = TRUE /\ queued' = (queued \/ ~fco)
    /\ UNCHANGED <<unsupported, operand, co, ckarpenter, cdeployment, worker, clock, failures, budget>>

-----------------------------------------------------------------------------
(* The worker *)

Fail == worker' = Idle /\ queued' = TRUE

(* operandConditions, when its reads succeed. *)
operandConditions(karp, deploy) ==
    CASE ~karp -> availableConditions("KarpenterNotFound")
      [] karp /\ deploy = "absent" -> progressingConditions("OperandNotYetCreated")
      [] karp /\ deploy = "unavailable" -> progressingConditions("OperandNotReady")
      [] karp /\ deploy = "rolling" -> progressingConditions("OperandRollingOut")
      [] karp /\ deploy = "updated" -> availableConditions("AsExpected")

Begin(report) ==
    /\ worker.pc = "idle" /\ queued /\ queued' = FALSE
    /\ worker' = [Idle EXCEPT !.pc = "ensure", !.report = report]
    /\ UNCHANGED <<unsupported, operand, co, caches, clock, budget>>

Reconcile ==
    /\ Begin(IF unsupported THEN availableConditions("UnsupportedPlatform")
                            ELSE operandConditions(ckarpenter, cdeployment))
    /\ UNCHANGED failures

(* A read fails: that is what is reported. *)
ReconcileCheckFails ==
    /\ ~unsupported /\ failures > 0 /\ failures' = failures - 1
    /\ \/ Begin(degradedConditions("KarpenterCheckFailed"))
       \/ ckarpenter /\ Begin(degradedConditions("OperandCheckFailed"))

(* applyStatus: apply of the empty ClusterOperator, which creates it if need be. *)
EnsureCO ==
    /\ worker.pc = "ensure" /\ worker' = [worker EXCEPT !.pc = "read"]
    /\ co' = IF co.exists THEN co ELSE NewCO
    /\ fco' = (fco /\ co.exists)
    /\ UNCHANGED <<unsupported, operand, ckarpenter, cdeployment, cco, queued, clock, failures, budget>>

(* Mutant: every condition is as of now. *)
TransitionTimesAlwaysNow(existing, report) == [t \in Types |-> clock]

(* The transition times of a report: those of the conditions that exist with *)
(* the same status, else now.                                                *)
TransitionTimes(existing, report) ==
    [t \in Types |->
        IF existing.report # NoReport /\ (t \in existing.report.true <=> t \in report.true)
          THEN existing.since[t] ELSE clock]

(* It reads the existing conditions; one just created is not in the cache.   *)
ReadExisting ==
    /\ worker.pc = "read"
    /\ \/ ~cco.exists /\ Fail
       \/ /\ cco.exists /\ UNCHANGED queued
          /\ worker' = [worker EXCEPT !.pc = "status",
                                      !.since = TransitionTimes(cco, worker.report)]
    /\ UNCHANGED <<unsupported, operand, co, caches, clock, failures, budget>>

(* It applies the status by force. *)
ApplyStatus ==
    /\ worker.pc = "status"
    /\ IF co.exists
         THEN /\ co' = [exists |-> TRUE, report |-> worker.report, since |-> worker.since]
              /\ fco' = (fco /\ co' = co)
              /\ worker' = Idle /\ UNCHANGED queued
         ELSE Fail /\ UNCHANGED <<co, fco>>
    /\ UNCHANGED <<unsupported, operand, ckarpenter, cdeployment, cco, clock, failures, budget>>

WorkerStep == EnsureCO \/ ReadExisting \/ ApplyStatus

CallFails ==
    /\ Spend /\ worker.pc \in {"ensure", "status"} /\ Fail
    /\ UNCHANGED <<unsupported, operand, co, caches, clock, failures>>

Restart ==
    /\ Spend /\ worker' = Idle
    /\ ckarpenter' = karpenter /\ cdeployment' = deployment /\ cco' = co /\ fco' = TRUE
    /\ queued' = (karpenter \/ deployment # "absent" \/ co.exists)
    /\ UNCHANGED <<unsupported, operand, co, clock, failures>>

Next ==
    \/ ToggleKarpenter \/ (\E d \in Deployment : ChangeDeployment(d)) \/ DeleteCO \/ InstallCO \/ Tick
    \/ SyncKarpenter \/ SyncDeployment \/ SyncCO
    \/ Reconcile \/ ReconcileCheckFails \/ WorkerStep \/ CallFails \/ Restart

Spec == Init /\ [][Next]_vars

(* Informers catch up, the queue is served (the reads succeed when they no   *)
(* longer fail) and calls return; time need not pass, and nothing says when  *)
(* an informer catches up.                                                   *)
Fairness ==
    /\ WF_vars(SyncKarpenter) /\ WF_vars(SyncDeployment) /\ WF_vars(SyncCO)
    /\ WF_vars(Reconcile) /\ WF_vars(WorkerStep) /\ WF_vars(InstallCO)

FairSpec == Spec /\ Fairness

-----------------------------------------------------------------------------
(* Properties *)

(* Once the operand stays as it is, the ClusterOperator reports its state for *)
(* good, although Reconcile never asks to be called again: also after one     *)
(* read that failed, since writing that very report queues the next           *)
(* reconcile, and after the ClusterOperator was deleted.                      *)
Expected ==
    CASE unsupported -> "UnsupportedPlatform"
      [] ~unsupported /\ ~karpenter -> "KarpenterNotFound"
      [] ~unsupported /\ karpenter ->
           [absent |-> "OperandNotYetCreated", unavailable |-> "OperandNotReady",
            rolling |-> "OperandRollingOut", updated |-> "AsExpected"][deployment]
ReportConverges == <>[](co.report.reason = Expected)

(* applyStatus reads the conditions from a cache that may lag behind.        *)
StaleRead == ReadExisting /\ ~fco

(* The controller's own status update is an event that queues it again.  It   *)
(* comes to rest, the same report again changing nothing, unless applyStatus  *)
(* finds the cache of the ClusterOperator behind again and again: a cache     *)
(* that is one write late each time makes two transition times take turns     *)
(* for ever.                                                                  *)
RestsUnlessReadsStayStale ==
    <>[](~queued /\ worker.pc = "idle") \/ []<><<StaleRead>>_vars
=============================================================================
