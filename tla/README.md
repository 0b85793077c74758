# Verification of the OpenShift Karpenter operator

TLA+ models of the controllers in `src/pkg`, the TLC configurations that check
them on small instances, and TLAPS proofs about the core of them. Line numbers
of the code behind each definition are in `PROJECT.json` under `map`.

## 1. The system

The operator is a set of controller-runtime controllers. It runs in one of two
modes: *standalone* (OCP), on the cluster that it serves, and *management
cluster* (HCP), next to a HyperShift HostedControlPlane, with a second client
for the hosted cluster. It keeps no state of its own: all state is in API
objects, in the informer caches of them, in the work queues, and in the local
variables of the reconciles that are under way.

| Component | State it works on | Operations | Module |
|---|---|---|---|
| Azure NodeClass controller (`nodeclass/azure`) | OpenShiftAzureNodeClass, AKSNodeClass, user data Secret, HostedControlPlane | add finalizer, create or update, patch status, delete, remove finalizer | `AzureNodeClass` |
| EC2 NodeClass controller (`nodeclass/ec2`) | as above for EC2, plus the subnets ConfigMap, the admission policy and its binding | the same, publish subnets, install the policy; ten workers | `EC2NodeClass` |
| Conditions (`nodeclass/status`) | lists of conditions | `SyncConditions` | `NodeClassConditions` |
| HyperShift lookups (`pkg/hypershift`) | HostedControlPlane, Secrets, CAPI Cluster | find, hold during an upgrade, predicates, is the cluster being deleted? | part of the callers |
| HCP deletion (`hcp/deletion`) | HostedControlPlane and CAPI Cluster; NodePools and NodeClaims of the hosted cluster | add finalizer, delete, delete by force, poll, remove finalizer | `HCPDeletion` |
| Machine approver (`machineapprover`, `cloudprovider/aws/node_identity_verifier.go`) | CSRs, NodeClaims, EC2 instances | filter, find candidates, look up in batches, approve | `MachineApprover` |
| AutoNode status (`hcp/autonodestatus`) | Nodes, NodeClaims, HostedControlPlane status | count, compare, apply | `AutoNodeStatus` |
| Karpenter operand (`karpenter`) | HostedControlPlane or Karpenter resource; ServiceAccount, RBAC, Deployment, PodMonitor | wait for a version, apply each object | `KarpenterOperand` |
| ClusterOperator (`clusteroperator`) | Karpenter resource, Deployment, ClusterOperator | judge the operand, report conditions | `ClusterOperator` |
| Default NodeClass (`nodeclass/default`) | HostedControlPlane, default NodeClass | create, restore | `OperatorStartup` |
| Azure admission policy (`nodeclass/azure/vap`) | policy and binding | create, restore | `OperatorStartup` |
| CRD controller (`crd`) | CRDs of the target cluster | apply in order, restore | `OperatorStartup` |
| Start-up (`cmd`, `pkg/operator`), wiring and metrics (`pkg/controllers`) | flags, environment, Infrastructure | load, validate, discover, choose controllers, run, register the metric | `OperatorConfig`, `OperatorStartup` |
| Cloud providers (`cloudprovider`) | environment | construct, CRDs, default NodeClass, controllers, verifier; static parts of the operand | `OperatorConfig` in part |
| API types and assets (`api`, `assets`) | rules of the CRDs, JSON of the kubelet section; manifests | admit, decode, encode | `EC2Translation`, `KubeletConfiguration` in part |

**How components interact.** They never call each other: each reads what
others wrote through its own informer cache and is woken by watch events that
pass its predicates. HyperShift's ignition controller writes the user data
Secrets and the `VersionResolved` condition that the NodeClass controllers
read; they write the AKSNodeClasses and EC2NodeClasses that Karpenter (the
operand) reads, and Karpenter writes their status, which is copied back. All
of these kinds exist only once the CRD controller has installed them: until
then the watches of the other controllers cannot sync. The
deletion controller needs Karpenter to terminate NodeClaims. The operand
controllers write the Deployment that the ClusterOperator controller judges.

**What is hard.** Caches lag behind by any amount, each kind on its own, also
behind the controller's own writes; writes conflict; a reconcile consists of
several writes and may fail or crash between any two; events are dropped by
predicates, or map to keys through a cached list; several reconciles end
without a requeue and rely on a later event; the admission policy leaves the
operator as the only one that can clean up; the process waits for what one of
its own controllers installs; a spec passes two sets of rules, of which the
second is met long after the user has gone. `PROJECT.json` lists these hazards
at their lines, with the properties that cover them.

**What makes each component correct.**

- NodeClass controllers: no provider NodeClass outlives its owner; user data
  and image always belong together and never go back; readiness is reported
  only for a resolved version; in the end everything is in sync or gone.
- Conditions: readiness needs both sides; syncing is a projection.
- Deletion: nodes are deleted only if the cluster is; nobody's finalizer is
  lost; the HostedControlPlane is released in the end.
- Approver: only Karpenter's nodes are approved; each gets its certificates;
  no CSR that names a node is retried forever.
- AutoNode status and ClusterOperator: the report is right in the end.
- Start-up: a process that runs has all its controllers, and they get to run;
  one that cannot says so. CRDs, policy and default NodeClass are restored.
- Translation: what is admitted can be written, and means the same.
- Operand: complete, up to date, owned by the present owner, or collected.

## 2. How the code is modelled

All controller modules share one picture.

- *Objects.* A variable per kind (`nc`, `aks`, `hcp`, ...) is the API server's
  content, a variable with the prefix `c` (`cnc`, ...) the informer cache of
  it. A `Sync...` action brings one cache up to date and queues what the
  watch's predicate accepts. A sync may skip intermediate states, as after a
  relist. No periodic resync is relied on.
- *resourceVersions.* A bit per object (prefix `f`, and `fresh` in a worker)
  says whether the copy that was read is still the current version. Every
  write clears it, a sync sets it. An Update, or a patch with an optimistic
  lock, succeeds only with a current copy; a forced apply ignores it.
- *Work queue.* A set of keys, or a flag for a controller with one request.
  A key is taken out when its reconcile starts and may be queued again
  meanwhile; no two workers have the same key. An error puts it back, and so
  does `RequeueAfter`: delays are not modelled, only that the key returns.
- *Reconciles.* One action per API call that changes state or can be
  overtaken: `worker.pc` names the next call, the other fields what the
  reconcile holds. Cached reads are part of the action that uses them. At
  each call the reconcile may fail (`CallFails`) or the operator restart
  (`Restart`, which lists everything anew and forgets queue and worker).
- *Others.* Users, HyperShift, Karpenter, Cluster API, kubelets, EC2 and the
  garbage collector are small external actions, taken from how the code uses
  them. Their free steps and the failures draw on `Budget`.
- *Data.* A user data Secret, a release, an image or a version is a number;
  what matters is which one an object was built from, and whether parts that
  belong together come from the same. Messages, reasons, labels and static
  manifests are left out.

Module by module:

- **`NodeClassConditions`**: `SyncConditions` as a function on condition lists,
  written with the external `SetStatusCondition`. `MCNodeClassConditions` runs
  it on every pair of lists of a small instance.
- **`EC2Translation`** and **`KubeletConfiguration`**: what an EC2 reconcile
  computes, as operators: `ec2NodeClassSpec` from the spec and the
  HostedControlPlane, the merge of tags and the separate decision about
  conflicts, the reported reservations; the rules of both CRDs
  (`SpecAdmitted`, `KarpenterAdmits`) and the defaults of the second. A volume
  size becomes a quantity, which is written in Ti when it is a whole number of
  them (`CanonicalQuantity`); the second CRD checks what is written against a
  pattern (`VolumeSizeAdmitted`). Then decoding
  and encoding of the kubelet section with its overflow, including that Go
  matches JSON keys without regard to case while the overflow does not.
  `MCEC2Translation` enumerates admitted specs, one facet at a time and
  together with what a rule relates it to, and extends
  `MCNodeClassConditions`, so that one run covers all pure functions.
  An enum that is not set is `Unset`.
- **`OperatorConfig`**: the operator's settings and what follows from them, from
  `LoadEnv` and `Validate` to `NewControllers`, `karpenterCRDs` and the kinds
  that each controller watches. A setting is set or not, a parse succeeds or
  not.
- **`OperatorStartup`**: the process (`Start`, `Exit`) and the three keepers. The
  first attempt to register the metric is part of `Start`, the others are
  `RetryMetric`, at most five in all. A
  keeper's objects are written in order by `Apply`, one CreateOrUpdate each;
  a stale read makes the write fail, and a failure ends the reconcile and
  queues it again. `SyncKeeper` and `SyncOthers` are sources that find their
  kinds; `SyncTimeout` ends a process whose sources waited too long. An object
  is what it was made from; the API server turns a write that changes nothing
  into no event. Informers `Deliver` per kind; `Relist` is the gap of a watch,
  in which a replaced CRD looks like an updated one. A keeper has one request:
  the keys of the code differ, but each of them reconciles everything.
  `MCOperatorStartup` lists the environments.
- **`AzureNodeClass`**: `Reconcile` chooses `AddFinalizer`, `Apply` (with
  `CreateOrUpdate` of what `MutateAKSNodeClass` computes, then `PatchStatus`)
  or `DeleteAKSNodeClass` and `RemoveFinalizer`. The spec translation is
  reduced to the OS disk size with its default and the pair of user data and
  image, which may be held back during an upgrade.
- **`ProviderNodeClass`**: the abstract promise about lifetimes. `AzureNodeClass`
  implements it (`Implements`), by the phases of both objects.
- **`EC2NodeClass`**: the same protocol with several workers; deletion by
  `deleteIfNeeded`, which looks in the cache; the ConfigMap of all subnets
  (`ListSubnets`, `PublishSubnets`), the policy and its binding, the AMIs that
  a Secret may lack. Users do not edit EC2NodeClasses, as the policy forbids
  it; the e2e annotation is fixed in a behaviour.
- **`HCPDeletion`**: `ListedPools`, `DeletePool`, `ListClaims`, `DeleteNodeClaim` and
  `handleForcefulNodeClaimDeletion` are separate calls; `CleanedUp` decides
  whether to poll, to stop or to remove the finalizer. HyperShift's own
  removal of foreign finalizers after a timeout is left out.
- **`MachineApprover`**: `Candidates` are the instances of the NodeClaims that
  may belong to a CSR, `Verify` is one lookup of a batch. A kubelet's new CSR
  takes the place of its old one. A CSR that does not parse or names no node has
  `NoName`; authorizing it is an error and it stays queued (`AuthorizeFails`).
  `patient` says whether kubelets repeat
  requests at all; both cases are checked.
- **`AutoNodeStatus`**: `Reconcile` reads the status and lists Nodes,
  `ListClaims` lists NodeClaims from a cache of another age, `Apply` forces.
- **`KarpenterOperand`**: both operand controllers; `mode` chooses. Objects are
  applied in order without being read, so of their informers only the
  undelivered event matters. Owners are replaced by others of the same name,
  objects edited, disowned, deleted; `CollectGarbage` removes what belongs to
  an owner that is gone. One ClusterRole stands for the ClusterRoles and their
  bindings, one Role likewise.
- **`ClusterOperator`**: `operandConditions`, then the three calls of
  `applyStatus`; transition times with a small clock.

## 3. What TLC checks

Passing runs (every property has a mutant of the code that violates it):

| Run | Bounds | Shows |
|---|---|---|
| `ec2_translation` | one provider condition type, two times; lists of up to 2, all sizes written in Ti and both sides of each limit, 2 tag values | `ReadyMeansBothReady`, `SyncIsAFixedPoint`, `TransitionTimesKept`, `RejectedOnlyForKnownGaps`, `ConflictIsReported`, `KubeletRoundTrip`, `NoFieldIsForgotten`, `EnumsMeanTheSame` |
| `startup` | 5 good environments and each with one thing wrong, 2 infra IDs, 5 objects that are tampered with, 4 failures of the metric, 1 free step | `StartupCompletes`, `KeptInTheEnd`, `ComesToRest` |
| `azure` | 1 NodeClass, 2 Secrets, 2 releases, 3 free steps | `NoOrphan`, `UserDataMatchesImage`, `UserDataNeverRollsBack`, `ReadyOnlyWhenResolved`, `Implements`, `Converges` |
| `ec2` | 1 NodeClass, 1 worker, 3 Secrets (one without AMIs), 2 releases, 2 free steps | `UserDataMatchesAMIs`, `UserDataNeverRollsBack`, `CreatedUnderFinalizer`, `Converges` |
| `hcp_deletion` | 2 NodePools, 2 NodeClaims, 3 free steps | `OnlyTeardownDeletes`, `ForeignFinalizersKept`, `FinalizerKeptUntilDeletion`, `TeardownCompletes`, `EarlyCleanup` |
| `approver` | 2 nodes of Karpenter, 1 other, 1 CSR owner without a name, batches of 1, 3 free steps | `OnlyKarpenterNodes`, `RestsButForNameless`, `NodesGetCertificates` |
| `autonode` | 2 nodes with NodeClaims, 5 free steps | `ExactAtRest`, `StatusConverges` |
| `operand` | both modes, 2 owners in turn, 2 free steps besides creations and version changes | `InSyncAtRest`, `OperandConverges`, `ComesToRest` |
| `clusteroperator` | clock of 2 values, 1 failing read, 2 free steps | `ReportConverges`, `RestsUnlessReadsStayStale` |

`azure`, `ec2`, `hcp_deletion` and `operand` also check `TypeOK`; the `TypeOK` of the
other modules describes their state.

The bounds are enough for the cases that matter. NodeClasses do not interact
but through the ConfigMap, which has a run with two of them and two workers;
two Secrets and two releases are an upgrade and a rotation; the free steps
suffice for a deletion and a re-creation with a conflict, failure or restart in
between. In `startup` the keepers never meet each other's objects, so one
disturbance at any moment of an installation, be it an edit, a deletion with
everything in it, a failing write or the end of the process, is met in all
states of the others; the objects tampered with are one of each kind of keeper
and position in its list. In `ec2_translation` rules look at lists term by term or
count to one, so two terms are enough; the sizes are
the bounds of both CRDs and every multiple of 1024 GiB between them.
The steps that bring the environment to rest (a deleted object goes,
Karpenter releases what is deleted) cost nothing, and neither do syncs.

Runs that show a disagreement between the code and what is said about it:

| Run | What happens |
|---|---|
| `ec2_orphan` | `deleteIfNeeded` asks the cache. If the EC2NodeClass has just been created it is not seen, the finalizer is removed, and the EC2NodeClass stays, which only the operator could delete. The Azure controller uses a live Delete and is proved free of this. |
| `ec2_subnets_lost` | Two workers list NodeClasses from the cache and write the ConfigMap later. The older list may be written last, or the write be skipped because of a cached ConfigMap; nothing watches it, so subnets stay missing. |
| `hcp_deletion_release` | NodePools and NodeClaims are listed from a cache, so the finalizer may go while a NodeClaim exists. |

Disagreements that the passing runs except by name:

- `RejectedOnlyForKnownGaps` lists what the OpenshiftEC2NodeClass CRD admits and the
  EC2NodeClass CRD rejects, so that the reconcile fails until the spec is
  changed: a reservation term with `ownerID` alone (which the API documents as
  enough); volumes above 59000 GiB, other than 58 TiB, which the pattern has; 18,
  19, 28, 29, 38, 39, 48 and 49 TiB, which are written in Ti and which the pattern
  forgets; a platform tag `kubernetes.io/cluster/...`
  with a character that the restricted pattern lacks, such as a dot, which
  `filterRestrictedTags` keeps; reserved resources and eviction thresholds that
  are no quantities; grace periods that do not parse, which are dropped and
  leave a soft threshold without one; and `maxpods` in another case, which
  bypasses the rules of `maxPods` and still sets it.
- `ConflictIsReported` needs platform tags with distinct keys. With a key given
  twice the merge uses the last value and the condition the first.
- `KeptInTheEnd` excepts a CRD that was replaced in a gap of the watch by one of the
  same generation (`missed`).
- `NodesGetCertificates` needs kubelets that repeat requests. A CSR that is reconciled
  before its NodeClaim has a provider ID or node name is dropped, and
  NodeClaims are not watched; only the kubelet's next request helps.
- `RestsButForNameless`: a CSR that does not parse or names no node is an error, so it
  is retried as long as it is pending.
- `RestsUnlessReadsStayStale`: `applyStatus` reads the conditions that it keeps
  transition times of right after it may have written them. With a cache that is
  one write late each time, two transition times alternate forever, each write
  waking the controller. The report is right all the same (`ReportConverges`).
- `SubnetDefault` for `ipAddressAssociation` is documented to defer to the subnet, but
  becomes `associatePublicIPAddress: false`. What that means is decided by
  Karpenter and EC2, outside the model.

**Fairness.** Informers catch up (weak fairness of every sync), a started
reconcile goes on (weak fairness of `WorkerStep`), a queued key gets its turn
(strong fairness of `Reconcile` for a key where several share a worker, since
the queue is first in, first out; weak fairness where there is one request).
Karpenter finishes NodeClasses it has to release, NodePools that are deleted and
NodeClaims that are deleted by force, the garbage collector collects; nobody is
assumed to drain a node gracefully. Nothing is assumed of failures but that
they are finitely many, which the budget expresses. In `OperatorStartup` a
process that is down is started again, sources sync once their kinds are
served, and nothing makes a source wait too long while they are. That run says
`CHECK_DEADLOCK FALSE`, because an installation at rest with no budget left, or
one whose environment is wrong, has nothing to do. `ClusterOperator` has weak
fairness only: nothing makes its cache catch up between two calls of a reconcile.
A failing read there is reported as Degraded without an error, and retried
only because the report itself is an event. A second failure in a row writes
nothing new, so the model allows one.

`NodesGetCertificates` needs kubelets that repeat requests (`patient`), the
15 minutes after which they do being longer than a reconcile;
`RestsButForNameless` needs that they do not repeat forever. The queue is fair to
each node of Karpenter, and to the keys of the others together: one of them may
be retried forever.

## 4. What is proved

TLAPS checks these for all constants: any NodeClasses, workers, NodePools,
NodeClaims, nodes, condition types, times and bounds, and for the translation
any spec that the CRD admits. The assumptions are that bounds are naturals and
sets of numbers are sets of naturals (`BoundsAreNaturals`, `BudgetIsNatural`,
`ConstantsAreTyped`, `BoundsAreTyped`), that names and capacities are finitely
many (`AutoNodeStatus`), that there is an infrastructure ID (`OperatorStartup`),
that the condition types are distinct and that the current time is a time
(`NodeClassConditions`). A controller's
theorems are about its `Spec`, without fairness.

The invariants are seldom inductive, and always for the same reason: a
reconcile acts on what a cache or an earlier call told it. Each inductive
invariant therefore adds what an old copy still tells about the object, and
what the worker relies on at each of its calls.

**`AzureNodeClassProofs`**
- `TypeCorrect`: the worker only holds keys of NodeClasses and well-typed copies.
- `NoOrphanTheorem`: `Spec => []NoOrphan`. The inductive invariant `Held` adds: a
  cached copy with the current resourceVersion is the object (`CacheCurrent`); a
  cached NodeClass that is live and has the finalizer still exists and has it,
  because only a reconcile that saw the deletion removes it (`CachedFinalizer`);
  and what the worker relies on at each call (`WorkerHolds`): the NodeClass it
  applies for is held by the finalizer, and before the finalizer is removed
  with a current copy, the AKSNodeClass is gone and, with the only worker busy,
  stays so.
- `ReadyOnlyWhenResolvedTheorem`: from `Held`: the copy that the status patch
  starts from is the object as long as its optimistic lock holds, and what
  `SyncConditions` makes Ready has its version resolved.
- `ImplementsProviderNodeClass`: `Spec => Implements`. Every step maps to a step of
  `ProviderNodeClass` or to a stutter. It needs one more invariant,
  `AKSCacheCurrent`, for the update of an AKSNodeClass that is being deleted.
- `UserDataMatchesImageTheorem` and `UserDataNeverRollsBackTheorem`. The inductive
  invariant `UserDataInv` says that user data in use, or cached and kept by the
  next update, is no newer than any Secret that exists or is cached
  (`InUsePrecedes`). That is preserved only because no Secret is older than all
  cached ones (`CachedFirst`): versions grow, and HyperShift deletes the oldest
  Secret first.

**`EC2NodeClassProofs`**, for any number of workers
- `TypeCorrect`.
- `UserDataMatchesAMIsTheorem`, `UserDataNeverRollsBackTheorem`: by the invariant of
  the same name and shape as for Azure. A Secret without AMIs is never used, so
  user data and AMIs are written together or not at all.
- `CreatedUnderFinalizerTheorem`. The inductive invariant `FinalizerInv` has
  `CacheCurrent` and `CachedFinalizer` as above, that no two busy workers have
  the same key (`KeysAreDistinct`), and what each relies on (`WorkersRely`). The
  removal of a finalizer by one worker outdates no other worker's decision,
  because the queue gives a key to one worker only. There is no `NoOrphan` here:
  the run `ec2_orphan` shows it false.

**`NodeClassFunctionProofs`**: what the NodeClass controllers compute.
- `ReadyMeansBothReadyTheorem`, `SyncIsAFixedPointTheorem` and
  `TransitionTimesKeptTheorem`. They follow from what `SyncConditions` yields
  type by type (`SyncedByType`), which rests on the provider saying nothing about
  the ignition controller's types: the version on which Ready depends is the
  same before and after.
- For the translation, `Given` says that the spec has the types and meets the
  rules of the CRD; `AdmittedSpec` starts in any such state. TLC varies one facet
  at a time in lists of up to two; here all facets vary at once, lists have any
  length and numbers any value. `EnumeratedSpecsAreAdmitted` (`TranslationSpec =>
  AdmittedSpec`) ties both together.
- `RejectedOnlyForKnownGapsTheorem`: facet by facet (`SelectorsFit`,
  `ReservationsFit`, `TagsFit`, `DevicesFit`, `MetadataFits`, `KubeletFits`), the
  second CRD's rules hold of the translation unless there is a gap. For a volume
  size (`SizeFits`) a whole number of TiB is looked up in the pattern digit by
  digit (`Digits`), and any other size is a number of GiB. The
  rule "at most one root volume" carries over because the two sets of
  positions are equal.
- `ConflictIsReportedTheorem`: with distinct keys the first and the last tag of a
  key are the same (`TheTagOfAKey`), which is where the merge and the condition
  differ otherwise.
- `KubeletRoundTripTheorem`, `NoFieldIsForgottenTheorem`: from what each field is
  after decoding (`DecodedFields`) and encoding (`MarshalDecoded`).
- `EnumsMeanTheSameTheorem`.

**`HCPDeletionProofs`**
- `TypeCorrect`, `OnlyTeardownDeletesTheorem`, `ForeignFinalizersKeptTheorem` and
  `FinalizerKeptTheorem`. The inductive invariant `Held` adds that deletions are
  final (`CacheHolds`: once a cached HostedControlPlane or CAPI Cluster was being
  deleted, the object is, or is gone) and what the worker relies on
  (`WorkerHolds`: its copy is the object as long as the resourceVersion is
  current, and it came to the removal of the finalizer only with a copy that
  was being deleted). Only the worker's patch changes the finalizer
  (`FinalizerChanges`), and with the optimistic lock it is a patch of the object
  as it is (`PatchedCurrent`).

**`MachineApproverProofs`**
- `OnlyKarpenterNodesTheorem`. The inductive invariant adds that a CSR read at the
  current resourceVersion is still pending, that only instances of NodeClaims
  are looked up, and that at the approval the CSR's node is one of Karpenter's
  whose instance was found (`WorkerHolds`).
- `ApprovesOnlyPendingTheorem`, from the same invariant: somebody else's decision
  during the calls to EC2 is never overruled. No run checks this one.

**`KarpenterOperandProofs`**, for both modes
- `TypeCorrect`: with it, that no object is applied without an image.
- `InSyncAtRestTheorem`. The controllers never read what they apply, so rest
  alone says nothing about a reconcile that is half-way. The inductive invariant
  `Tracked` does: as long as nothing is queued and no event undelivered, the
  worker has the configuration of the cached owner, and every object before
  the position of the worker is as that configuration says. Every disturbance
  leaves an event that ends this, because the objects in use name an owner
  (`HasUID`) and are watched through it.

**`AutoNodeStatusProofs`**
- `ExactAtRestTheorem`. Rest with current caches says nothing about a reconcile
  that listed Nodes and NodeClaims at different moments, nor about the status it
  compared with. The inductive invariant does: a cached HostedControlPlane with
  the current resourceVersion is the object (`Fresh`), and while no request
  waits (`Tracked`), a reconcile between its two lists holds what the caches
  still have, one about to apply has what they count to, and the status of an
  idle controller is that count. Anything that would break this passes one of
  the predicates and queues. It remains that what the code adds up over NodeClaims
  is the capacity of the existing Nodes (`CountsAreExact`). That needs induction
  over finite sets, which is done by hand: the library's induction theorems take
  an operator, so each lemma takes the set of its counterexamples, and a least
  element of it (`LeastNumber`, `LeastSet`). `SumsExist` and `SumsAgree` give the
  recursion equation of a sum, `SumWithout` that its order does not matter,
  `SumOfSome` that zeros may be left out.
- `TypeCorrect`: the counts are bounded by the number of names, and the vCPUs by
  that number times the largest capacity (`SumBounded`, `MaxIsBound`). No run
  checks this one.

**`OperatorStartupProofs`**, for every setting of flags and environment, where the
run has each good one with one thing wrong
- `TypeCorrect`.
- `StartsAsConfiguredTheorem`: the safety part of `StartupCompletes`. What `Runs`
  accepts is what is not `Misconfigured` (`RunsUnlessMisconfigured`); a management
  cluster that passes `Validate` has a hosted cluster and a provider, so that no
  part is left out (`ManagementIsComplete`, `AllPartsRun`); and every kind that a
  controller waits for is in `karpenterCRDs` of the same process
  (`NothingElseAwaited`).
- `KeptAtRestTheorem`: the safety part of `KeptInTheEnd`, for each keeper by itself
  and without fairness. The inductive invariant has that what a running keeper's
  cache has as current is current (`Cached`), and that a keeper without a request
  has dealt with every object it has passed (`Done`): half-way through its list
  those before its position, otherwise all. A start without a request keeps it
  only because there is then no HostedControlPlane, and a watch that was
  interrupted only up to `missed`.

The runs do not have these three as properties; TLC has checked them, and the
inductive invariant, on the instance of the run `startup`.

Only model-checked:
- the liveness properties (`Converges`, `StartupCompletes`, `KeptInTheEnd`,
  `ComesToRest`, `TeardownCompletes`, `EarlyCleanup`, `NodesGetCertificates`,
  `StatusConverges`, `OperandConverges`, `ReportConverges`,
  `RestsButForNameless`, `RestsUnlessReadsStayStale`), which need fairness
  and are beyond the prover; `ClusterOperator` promises nothing else and has no
  theorem;
- the violations, which are counterexamples.

## 5. What is not modelled

- What cloud providers add to the operand: environment, volumes, rules and
  related objects, which are constants of the build.
- Fields that are copied as they are (IOPS, throughput, KMS keys, device names,
  labels), formats of IDs and names that both CRDs check alike, user data
  formats.
- Leader election, probes, and API errors during discovery, after which the
  process is restarted as after any exit.
- The content of manifests, X.509 parsing (a CSR carries its node's name or
  none), the
  int32 conversions of counts (exact for any real cluster), delays and rate
  limits.
- Foreground deletion of the Karpenter resource, in which the operand
  controller and the garbage collector would work against each other.
- A HostedControlPlane whose deletion begins before the operator has added its
  finalizer: the reconcile returns at once, and what becomes of the nodes is
  decided by HyperShift's own teardown.

## 6. Plan

Done: the modules above, in the order NodeClass controllers, deletion,
approver, status controllers, operand, translation, start-up. Next:

1. A composition of `KarpenterOperand` and `ClusterOperator` through the
   Deployment: what the cluster version operator sees during a roll-out.
2. Proofs: every invariant and action property of the runs has its theorem. What
   is left is a safety part of `ReportConverges`, as `KeptAtRest` is of
   `KeptInTheEnd`.
