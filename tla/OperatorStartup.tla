-------------------------- MODULE OperatorStartup --------------------------
(***************************************************************************)
(* The operator process from its start, and the controllers that keep      *)
(* objects the other parts need: the CRDs (pkg/controllers/crd), the       *)
(* admission policy of AKSNodeClasses (pkg/controllers/nodeclass/azure/vap) *)
(* and the default NodeClass (pkg/controllers/nodeclass/default).          *)
(*                                                                         *)
(* All controllers start at once, but the sources of some watch kinds that *)
(* only the crd controller of the same process installs; a source that     *)
(* waits too long ends the process.  A keeper writes its objects one after *)
(* the other with CreateOrUpdate: a cached read and a write that fails if  *)
(* the read was stale; a failure ends the reconcile, which is retried.     *)
(* A goroutine registers the operator's metric; it retries a few times and *)
(* then gives up.                                                          *)
(***************************************************************************)
EXTENDS OperatorConfig, Naturals, SequencesExt

Objects == Kinds \cup {"policy", "binding", "default"}

CONSTANTS
    Envs,            \* the environments a process may find
    Infras,          \* infrastructure IDs
    Touched,         \* objects that users change
    MetricFailures,  \* attempts to register the metric that an outage makes fail
    Budget           \* bound on disturbances and failures

ASSUME ConstantsAreTyped ==
    Envs \subseteq Env /\ Infras # {} /\ Touched \subseteq Objects /\ MetricFailures \in Nat /\ Budget \in Nat

VARIABLES
    env,             \* flags and environment, the same at every restart
    proc,            \* the process: "down", "up", "failed"
    running, synced, \* its controllers, and those whose watches have synced
    obj,             \* the kept objects in the target cluster
    cobj, fresh,     \* the informer caches of them; is the cached version current?
    missed,          \* CRDs replaced unnoticed, in a gap of the watch
    hcp, chcp,       \* the HostedControlPlane and its cache
    queued, pc,      \* for each keeper, its request and how many objects it has done
    metric,          \* the goroutine of the metric and its failed attempts
    budget

vars == <<env, proc, running, synced, obj, cobj, fresh, missed, hcp, chcp, queued, pc, metric, budget>>
procVars == <<env, proc, running, synced>>

-----------------------------------------------------------------------------
(* Objects and their keepers *)

Keepers == {"crd", "vap", "default"}

(* The objects a keeper writes, in this order *)
KeptBy(w) ==
    CASE w = "crd" -> karpenterCRDs(env)
      [] w = "vap" -> <<"policy", "binding">>
      [] w = "default" -> <<"default">>

KeeperOf(o) ==
    IF o \in Kinds THEN "crd" ELSE IF o = "default" THEN "default" ELSE "vap"

(* The spec of a default NodeClass is what it was made from: the infra ID on *)
(* AWS, the subnet of the environment on Azure.                              *)
Absent == [spec |-> "absent", gen |-> 0]
Specs == {"absent", "desired", "edited", "subnet"} \cup Infras
Object == [spec : Specs, gen : Nat]
Exists(x) == x # Absent

HCP == [exists : BOOLEAN, karpenter : BOOLEAN, e2e : BOOLEAN, infra : Infras]

(* DefaultNodeClass: complete desired state *)
DefaultNodeClass(infraID) == IF env.platform = "AWS" THEN infraID ELSE "subnet"

Desired(o, h) == IF o = "default" THEN DefaultNodeClass(h.infra) ELSE "desired"

(* Reconcile, reconcileHCP: when there is a default NodeClass to keep *)
WantsDefault(h) == h.exists /\ h.karpenter /\ ~h.e2e

Wanted(o, h) == o # "default" \/ WantsDefault(h)

Metric == [state : {"none", "trying", "registered", "gaveUp"}, failed : Nat]
NoMetric == [state |-> "none", failed |-> 0]

TypeOK ==
    /\ env \in Envs /\ proc \in {"down", "up", "failed"} /\ synced \subseteq running
    /\ obj \in [Objects -> Object] /\ cobj \in [Objects -> Object] /\ fresh \in [Objects -> BOOLEAN]
    /\ missed \subseteq Kinds /\ hcp \in HCP /\ chcp \in HCP
    /\ queued \in [Keepers -> BOOLEAN] /\ pc \in [Keepers -> 0..4]
    /\ metric \in Metric
    /\ budget \in Nat

Init ==
    /\ env \in Envs /\ proc = "down" /\ running = {} /\ synced = {}
    /\ obj = [o \in Objects |-> Absent] /\ cobj = obj /\ fresh = [o \in Objects |-> TRUE]
    /\ missed = {}
    /\ hcp \in [exists : {ManagementCluster(env)}, karpenter : BOOLEAN, e2e : BOOLEAN,
                infra : {CHOOSE i \in Infras : TRUE}]
    /\ (hcp.e2e => hcp.karpenter) /\ (hcp.karpenter => hcp.exists)
    /\ chcp = hcp
    /\ queued = [w \in Keepers |-> FALSE] /\ pc = [w \in Keepers |-> 0]
    /\ metric = NoMetric /\ budget = Budget

Spend == budget > 0 /\ budget' = budget - 1

-----------------------------------------------------------------------------
(* The process *)

(* Controllers that keep objects or watch the operator's kinds: the sources *)
(* of the others are taken to be synced at the start.                       *)
Waiting == Keepers \cup {"ec2", "azure", "autonodestatus"}

(* Backoff.Steps of setupOperatorInfoMetricWithRetry *)
Steps == 5

(* setupOperatorInfoMetric, after some attempts that failed: it registers   *)
(* the metric once it has read the image of the operator's pod.  It fails   *)
(* always if the pod's name is missing, and in an outage by an error of the *)
(* API server or because the kubelet has not reported the image within the  *)
(* fifteen seconds of waitForOperatorImage.                                 *)
setupOperatorInfoMetric(failed) ==
    \/ /\ env.podName /\ UNCHANGED budget
       /\ metric' = [NoMetric EXCEPT !.state = "registered"]
    \/ /\ env.podName => failed < MetricFailures
       /\ IF env.podName /\ failed = 0 THEN Spend ELSE UNCHANGED budget
       /\ metric' = [state |-> IF failed + 1 = Steps THEN "gaveUp" ELSE "trying", failed |-> failed + 1]

(* main and Run up to the start of the manager.  A process that cannot run  *)
(* exits, is restarted with the same settings, and exits again.  The        *)
(* goroutine of the metric begins with its first attempt; the reporter of   *)
(* an unsupported platform has none.                                        *)
Start ==
    /\ proc = "down"
    /\ proc' = IF Runs(env) THEN "up" ELSE "failed"
    /\ running' = IF Runs(env) THEN ControllersToRun(env) ELSE {}
    /\ IF Runs(env) /\ isPlatformSupported(env) THEN setupOperatorInfoMetric(0)
       ELSE metric' = NoMetric /\ UNCHANGED budget
    /\ synced' = running' \ Waiting
    /\ UNCHANGED <<env, obj, cobj, fresh, missed, hcp, chcp, queued, pc>>

(* setupOperatorInfoMetricWithRetry: the next attempt, after the backoff *)
RetryMetric ==
    /\ metric.state = "trying" /\ setupOperatorInfoMetric(metric.failed)
    /\ UNCHANGED <<procVars, obj, cobj, fresh, missed, hcp, chcp, queued, pc>>

(* The process ends, and with it all that it keeps in memory. *)
Exit ==
    /\ Spend /\ proc = "up"
    /\ proc' = "down" /\ running' = {} /\ synced' = {} /\ metric' = NoMetric
    /\ cobj' = [o \in Objects |-> Absent] /\ fresh' = [o \in Objects |-> TRUE] /\ missed' = {}
    /\ queued' = [w \in Keepers |-> FALSE] /\ pc' = [w \in Keepers |-> 0]
    /\ UNCHANGED <<env, obj, hcp, chcp>>

Served(kinds) == \A k \in kinds : Exists(obj[k])

(* A source waited for its kind longer than the manager allows. *)
SyncTimeout(c) == c \in running \ synced /\ ~Served(WatchedKinds(c, env)) /\ Exit

Crash == Exit

(* Does a keeper find a request when its sources have synced?  Two add one  *)
(* themselves; the default NodeClass relies on the events of what exists.   *)
InitialRequest(c) ==
    CASE c \in {"crd", "vap"} -> TRUE
      [] c = "default" -> hcp.exists \/ Exists(obj["default"])

(* The sources of a keeper sync with what there is. *)
SyncKeeper(w) ==
    /\ proc = "up" /\ w \in running \ synced /\ Served(WatchedKinds(w, env))
    /\ synced' = synced \cup {w}
    /\ cobj' = [o \in Objects |-> IF KeeperOf(o) = w THEN obj[o] ELSE cobj[o]]
    /\ fresh' = [o \in Objects |-> KeeperOf(o) = w \/ fresh[o]]
    /\ chcp' = IF w = "default" THEN hcp ELSE chcp
    /\ queued' = [queued EXCEPT ![w] = InitialRequest(w)]
    /\ UNCHANGED <<env, proc, running, obj, missed, hcp, pc, metric, budget>>

(* So do those of the other controllers, all whose kinds are served. *)
SyncOthers ==
    LET ready == {c \in (running \ synced) \ Keepers : Served(WatchedKinds(c, env))}
    IN  /\ proc = "up" /\ ready # {} /\ synced' = synced \cup ready
        /\ UNCHANGED <<env, proc, running, obj, cobj, fresh, missed, hcp, chcp, queued, pc,
                       metric, budget>>

-----------------------------------------------------------------------------
(* Users and HyperShift (external) *)

(* A change of an object; its cached copy, if there is one, is now stale. *)
Write(o, x) == obj' = [obj EXCEPT ![o] = x] /\ fresh' = [fresh EXCEPT ![o] = FALSE]

(* Only the generation of CRDs is looked at. *)
NextGen(o) == IF o \in Kinds THEN obj[o].gen + 1 ELSE 1

EditObject(o) ==
    /\ Spend /\ Exists(obj[o]) /\ obj[o].spec # "edited"
    /\ Write(o, [spec |-> "edited", gen |-> NextGen(o)])
    /\ UNCHANGED <<procVars, cobj, missed, hcp, chcp, queued, pc, metric>>

(* The NodeClasses go with their CRD. *)
DeleteObject(o) ==
    /\ Spend /\ Exists(obj[o])
    /\ LET gone == IF o = WatchObject(env.platform) /\ Exists(obj["default"])
                     THEN {o, "default"} ELSE {o}
       IN  /\ obj' = [x \in Objects |-> IF x \in gone THEN Absent ELSE obj[x]]
           /\ fresh' = [x \in Objects |-> fresh[x] /\ x \notin gone]
    /\ UNCHANGED <<procVars, cobj, missed, hcp, chcp, queued, pc, metric>>

(* A CRD is deleted and installed from another source. *)
ReplaceCRD(k) ==
    /\ Spend /\ Exists(obj[k]) /\ k # WatchObject(env.platform)
    /\ Write(k, [spec |-> "edited", gen |-> 1])
    /\ UNCHANGED <<procVars, cobj, missed, hcp, chcp, queued, pc, metric>>

ChangeHCP(h) ==
    /\ Spend /\ hcp # h /\ hcp' = h
    /\ UNCHANGED <<procVars, obj, cobj, fresh, missed, chcp, queued, pc, metric>>

SetProvisioner == hcp.exists /\ ChangeHCP([hcp EXCEPT !.karpenter = ~@])
SetE2EOverride == hcp.exists /\ ChangeHCP([hcp EXCEPT !.e2e = ~@])
SetInfraID == \E i \in Infras : hcp.exists /\ ChangeHCP([hcp EXCEPT !.infra = i])
RemoveHCP == hcp.exists /\ ChangeHCP([hcp EXCEPT !.exists = FALSE])

-----------------------------------------------------------------------------
(* The informers *)

Watching(w) == proc = "up" /\ w \in synced

(* The keepers' predicates by name; every kept object passes. *)
isManaged(o) == o \in Objects

(* One watch for each type of kept object *)
Informers == {Kinds, {"policy"}, {"binding"}, {"default"}}

(* A watch delivers its events, a replacement as two of them: all of them   *)
(* pass the generation predicate of CRDs.                                   *)
Deliver(os) ==
    LET w == KeeperOf(CHOOSE o \in os : TRUE)
        news == {o \in os : ~fresh[o]}
    IN  /\ Watching(w) /\ news # {}
        /\ cobj' = [o \in Objects |-> IF o \in news THEN obj[o] ELSE cobj[o]]
        /\ fresh' = [o \in Objects |-> o \in news \/ fresh[o]]
        /\ queued' = [queued EXCEPT ![w] = @ \/ \E o \in news : isManaged(o)]
        /\ UNCHANGED <<procVars, obj, missed, hcp, chcp, pc, metric, budget>>

(* GenerationChangedPredicate: of an update only the generations count. *)
GenerationChanged(old, new) == ~Exists(old) \/ ~Exists(new) \/ old.gen # new.gen

(* The watch broke and the informer lists again: it compares what it had    *)
(* with what there is, and takes a replaced CRD for an updated one.         *)
Relist ==
    LET news == {k \in Kinds : ~fresh[k]}
        seen == {k \in news : GenerationChanged(cobj[k], obj[k])}
    IN  /\ Watching("crd") /\ news # {}
        /\ cobj' = [o \in Objects |-> IF o \in news THEN obj[o] ELSE cobj[o]]
        /\ fresh' = [o \in Objects |-> o \in news \/ fresh[o]]
        /\ queued' = [queued EXCEPT !["crd"] = @ \/ seen # {}]
        /\ missed' = missed \cup (news \ seen)
        /\ UNCHANGED <<procVars, obj, hcp, chcp, pc, metric, budget>>

hcpPredicate(old, new) ==
    \/ old.exists # new.exists
    \/ old.infra # new.infra
    \/ old.karpenter # new.karpenter
    \/ old.e2e # new.e2e

DeliverHCP ==
    /\ Watching("default") /\ chcp # hcp
    /\ chcp' = hcp
    /\ queued' = [queued EXCEPT !["default"] = @ \/ hcpPredicate(chcp, hcp)]
    /\ UNCHANGED <<procVars, obj, cobj, fresh, missed, hcp, pc, metric, budget>>

-----------------------------------------------------------------------------
(* The reconciles *)

(* The API server defaults what the embedded CRDs and the policy leave      *)
(* unset, so that the read object always seems to differ from the desired.  *)
AlwaysWrites(o) == o \in Kinds \cup {"policy"}

(* A NodeClass can be written while its CRD is served. *)
Writable(o) == o # "default" \/ Served({WatchObject(env.platform)})

(* CreateOrUpdate: does it have to write, and would the write succeed? *)
Writes(o) == AlwaysWrites(o) \/ cobj[o].spec # Desired(o, chcp)
WriteSucceeds(o) == fresh[o] /\ Writable(o)

(* A worker takes a request, or goes on with the one it has. *)
Works(w) == Watching(w) /\ (pc[w] # 0 \/ queued[w])
At(w) == pc[w] + 1
StillQueued(w) == queued[w] /\ pc[w] # 0

(* Mutant: a reconcile that wrote something asks for another one. *)
AdvanceAndRequeue(w) ==
    /\ pc' = [pc EXCEPT ![w] = IF At(w) = Len(KeptBy(w)) THEN 0 ELSE At(w)]
    /\ queued' = [queued EXCEPT ![w] = StillQueued(w) \/ At(w) = Len(KeptBy(w))]

(* The next object, or the end of the reconcile *)
Advance(w) ==
    /\ pc' = [pc EXCEPT ![w] = IF At(w) = Len(KeptBy(w)) THEN 0 ELSE At(w)]
    /\ queued' = [queued EXCEPT ![w] = StillQueued(w)]

(* Mutant: a failed write is left to the next event. *)
FailWithoutRetry(w) ==
    pc' = [pc EXCEPT ![w] = 0] /\ queued' = [queued EXCEPT ![w] = StillQueued(w)]

(* The first failure ends the reconcile. *)
Fail(w) == pc' = [pc EXCEPT ![w] = 0] /\ queued' = [queued EXCEPT ![w] = TRUE]

(* A write of what is there already changes nothing in the API server. *)
Put(o, to) == IF obj[o].spec = to.spec THEN UNCHANGED <<obj, fresh>> ELSE Write(o, to)

(* One CreateOrUpdate of a reconcile *)
Apply(w) ==
    /\ Works(w)
    /\ LET o == KeptBy(w)[At(w)]
           to == [spec |-> Desired(o, chcp), gen |-> NextGen(o)]
       IN  \/ /\ ~Wanted(o, chcp) /\ Advance(w) /\ UNCHANGED <<obj, fresh, missed>>
           \/ /\ Wanted(o, chcp) /\ ~Writes(o) /\ Advance(w) /\ UNCHANGED <<obj, fresh, missed>>
           \/ /\ Wanted(o, chcp) /\ Writes(o) /\ WriteSucceeds(o)
              /\ Put(o, to) /\ missed' = missed \ {o} /\ Advance(w)
           \/ /\ Wanted(o, chcp) /\ Writes(o) /\ ~WriteSucceeds(o)
              /\ Fail(w) /\ UNCHANGED <<obj, fresh, missed>>
    /\ UNCHANGED <<procVars, cobj, hcp, chcp, metric, budget>>

(* A write fails for any other reason. *)
ApplyFails(w) ==
    /\ Spend /\ Works(w) /\ Fail(w)
    /\ UNCHANGED <<procVars, obj, cobj, fresh, missed, hcp, chcp, metric>>

-----------------------------------------------------------------------------
Next ==
    \/ Start \/ RetryMetric \/ Crash
    \/ \E c \in Waiting : SyncTimeout(c)
    \/ SyncOthers \/ \E w \in Keepers : SyncKeeper(w)
    \/ \E o \in Touched : EditObject(o) \/ DeleteObject(o)
    \/ \E k \in Touched \cap Kinds : ReplaceCRD(k)
    \/ SetProvisioner \/ SetE2EOverride \/ SetInfraID \/ RemoveHCP
    \/ DeliverHCP \/ Relist \/ \E os \in Informers : Deliver(os)
    \/ \E w \in Keepers : Apply(w) \/ ApplyFails(w)

Spec == Init /\ [][Next]_vars

(* The process is restarted, sources find served kinds, informers deliver,  *)
(* workers take requests and go on, and attempts end.                       *)
Fairness ==
    /\ WF_vars(Start) /\ WF_vars(SyncOthers) /\ WF_vars(DeliverHCP) /\ WF_vars(RetryMetric)
    /\ \A os \in Informers : WF_vars(Deliver(os))
    /\ \A w \in Keepers : WF_vars(SyncKeeper(w)) /\ WF_vars(Apply(w))

FairSpec == Spec /\ Fairness

-----------------------------------------------------------------------------
(* Objects that this operator is to keep *)
Kept == IF Runs(env) THEN UNION {ToSet(KeptBy(w)) : w \in Keepers \cap ControllersToRun(env)} ELSE {}

(* Reference definition of a configuration that is no good: something unset *)
(* or unparsable, or a platform the operator has no provider for.           *)
Misconfigured ==
    \/ ~env.namespace \/ env.management = "invalid" \/ env.uid \in {"invalid", "zero"}
    \/ /\ ManagementCluster(env)
       /\ env.set # Required \/ env.platform = "None" \/ ~env.credentials
    \/ ~ManagementCluster(env) /\ env.infrastructure \in {"noPlatformStatus", "noName"}
    \/ ~ManagementCluster(env) /\ env.platform = "AWS" /\ (env.infrastructure = "noRegion" \/ ~env.credentials)

(* Reference definition of what runs beside the manager: on a management    *)
(* cluster every part that its platform has.  NewControllers leaves parts   *)
(* out when there is no hosted cluster.                                      *)
Parts ==
    IF ~ManagementCluster(env)
      THEN {"clusteroperator"} \cup (IF env.platform = "AWS" THEN {"crd", "karpenter-ocp"} ELSE {})
    ELSE {"crd", "default", "karpenter-hcp", "autonodestatus", "hcpdeletion"}
           \cup (IF env.platform = "AWS" THEN {"ec2", "machineapprover"} ELSE {"azure", "vap"})

(* Whatever fails on the way, start-up ends: either the configuration is no *)
(* good and the process says so, or all its controllers have synced.  A kind *)
(* that a controller watches and karpenterCRDs leaves out would make the     *)
(* process wait for itself, and be restarted for ever; an operator without   *)
(* a hosted cluster, which Validate must refuse, would run with most parts   *)
(* missing.  The metric survives up to four failures of any kind, and is     *)
(* missing for good only if the pod's name is.                               *)
StartupCompletes ==
    <>[](IF Misconfigured THEN proc = "failed"
         ELSE /\ proc = "up" /\ running = Parts /\ synced = Parts
              /\ "crd" \in Parts => metric.state = IF env.podName THEN "registered" ELSE "gaveUp")

(* The kept objects are in the end what they are to be, after any edits,    *)
(* deletions, failures and restarts: those of a running operator that are   *)
(* wanted, save a CRD replaced in a gap of the watch at the generation of   *)
(* the old one, which the predicate hides.                                  *)
KeptInTheEnd ==
    <>[]\A o \in Kept :
        Wanted(o, hcp) => obj[o].spec = Desired(o, hcp) \/ o \in missed

(* The keepers come to rest, though two of them write at every reconcile    *)
(* and are woken by what they write.                                        *)
ComesToRest == <>[]\A w \in Keepers : ~queued[w] /\ pc[w] = 0
=============================================================================
