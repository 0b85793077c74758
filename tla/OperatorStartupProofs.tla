----------------------- MODULE OperatorStartupProofs -----------------------
(***************************************************************************)
(* Proofs about the start of the operator and about its keepers, for every *)
(* setting of the flags and the environment, any objects that users touch  *)
(* and any number of disturbances.                                         *)
(***************************************************************************)
EXTENDS OperatorStartup, TLAPS

-----------------------------------------------------------------------------
(* Settings *)

LEMMA RunsUnlessMisconfigured ==
  ASSUME env \in Env PROVE Runs(env) <=> ~Misconfigured
<1>1. env.set \in SUBSET Required /\ env.platform \in {"AWS", "Azure", "None"}
  BY DEF Env
<1>2. Required \subseteq env.set <=> env.set = Required
  BY <1>1
<1>3. "REGION" \in Required
  BY DEF Required
<1>4. CASE ManagementCluster(env)
  <2>1. Required \subseteq env.set => HasRegion(env)
    BY <1>3, <1>4 DEF HasRegion
  <2>2. Runs(env) <=> /\ LoadEnv(env) /\ env.uid # "zero" /\ env.namespace /\ env.set = Required
                      /\ env.platform # "None" /\ env.credentials
    BY <1>1, <1>2, <1>4, <2>1
       DEF Runs, Validate, discoverInfrastructure, isPlatformSupported, GetCloudProvider, New
  <2> QED BY <1>4, <2>2 DEF Misconfigured, LoadEnv
<1>5. CASE ~ManagementCluster(env)
  <2>1. Runs(env) <=> /\ LoadEnv(env) /\ env.uid # "zero" /\ env.namespace
                      /\ env.infrastructure \notin {"noPlatformStatus", "noName"}
                      /\ env.platform = "AWS" => env.infrastructure # "noRegion" /\ env.credentials
    BY <1>5 DEF Runs, Validate, discoverInfrastructure, isPlatformSupported, GetCloudProvider, New,
                HasRegion
  <2> QED BY <1>5, <2>1 DEF Misconfigured, LoadEnv
<1> QED BY <1>4, <1>5

(* An operator that gets as far as its manager on a management cluster has a *)
(* hosted cluster and a provider.                                            *)
LEMMA ManagementIsComplete ==
  ASSUME env \in Env, Runs(env), ManagementCluster(env)
  PROVE  HostedCluster(env) /\ HasNodeClassProvider(env) /\ env.platform \in {"AWS", "Azure"}
<1>1. "--target-kubeconfig" \in Required
  BY DEF Required
<1>2. Required \subseteq env.set
  BY DEF Runs, Validate
<1>3. env.platform \in {"AWS", "Azure"}
  BY DEF Runs, isPlatformSupported, GetCloudProvider
<1> QED BY <1>1, <1>2, <1>3 DEF HostedCluster, HasNodeClassProvider

LEMMA AllPartsRun ==
  ASSUME env \in Env, Runs(env) PROVE ControllersToRun(env) = Parts
<1>1. CASE ManagementCluster(env)
  <2>1. HostedCluster(env) /\ HasNodeClassProvider(env) /\ env.platform \in {"AWS", "Azure"}
    BY <1>1, ManagementIsComplete
  <2>2. CASE env.platform = "AWS"
    BY <1>1, <2>1, <2>2
       DEF ControllersToRun, NewControllers, Parts, isPlatformSupported, HCPControllers, HasVerifier
  <2>3. CASE env.platform = "Azure"
    BY <1>1, <2>1, <2>3
       DEF ControllersToRun, NewControllers, Parts, isPlatformSupported, HCPControllers, HasVerifier
  <2> QED BY <2>1, <2>2, <2>3
<1>2. CASE ~ManagementCluster(env)
  BY <1>2 DEF ControllersToRun, NewControllers, Parts, isPlatformSupported
<1> QED BY <1>1, <1>2

LEMMA Concatenation ==
  ASSUME NEW S, NEW s \in Seq(S), NEW t \in Seq(S)
  PROVE  /\ s \o t \in Seq(S) /\ Len(s \o t) = Len(s) + Len(t)
         /\ ToSet(s \o t) = ToSet(s) \cup ToSet(t)
<1> DEFINE u == s \o t
<1>1. u \in Seq(S) /\ Len(u) = Len(s) + Len(t) /\ Len(s) \in Nat /\ Len(t) \in Nat
  OBVIOUS
<1>2. \A i \in 1..Len(u) : u[i] = IF i <= Len(s) THEN s[i] ELSE t[i - Len(s)]
  OBVIOUS
<1> HIDE DEF u
<1>3. ASSUME NEW x \in ToSet(u) PROVE x \in ToSet(s) \cup ToSet(t)
  <2>1. PICK i \in 1..Len(u) : x = u[i]
    BY <1>1 DEF ToSet
  <2>2. CASE i <= Len(s)
    <3>1. i \in 1..Len(s) /\ x = s[i]
      BY <1>1, <1>2, <2>1, <2>2
    <3> QED BY <3>1 DEF ToSet
  <2>3. CASE ~(i <= Len(s))
    <3>1. i - Len(s) \in 1..Len(t) /\ x = t[i - Len(s)]
      BY <1>1, <1>2, <2>1, <2>3
    <3> QED BY <3>1 DEF ToSet
  <2> QED BY <2>2, <2>3
<1>4. ASSUME NEW x \in ToSet(s) PROVE x \in ToSet(u)
  <2>1. PICK i \in 1..Len(s) : x = s[i]
    BY DEF ToSet
  <2>2. i \in 1..Len(u) /\ u[i] = x
    BY <1>1, <1>2, <2>1
  <2> QED BY <1>1, <2>2 DEF ToSet
<1>5. ASSUME NEW x \in ToSet(t) PROVE x \in ToSet(u)
  <2>1. PICK i \in 1..Len(t) : x = t[i]
    BY DEF ToSet
  <2>2. i + Len(s) \in 1..Len(u) /\ ~(i + Len(s) <= Len(s)) /\ (i + Len(s)) - Len(s) = i
    BY <1>1, <2>1
  <2>3. u[i + Len(s)] = x
    BY <1>2, <2>1, <2>2
  <2> QED BY <1>1, <2>2, <2>3 DEF ToSet
<1> QED BY <1>1, <1>3, <1>4, <1>5 DEF u

LEMMA ThreeLists ==
  ASSUME NEW S, NEW a \in Seq(S), NEW b \in Seq(S), NEW c \in Seq(S),
         Len(a) = 2, Len(b) \in {1, 2}, Len(c) \in {0, 1}
  PROVE  /\ (a \o b) \o c \in Seq(S) /\ Len((a \o b) \o c) \in 1..5
         /\ ToSet((a \o b) \o c) = (ToSet(a) \cup ToSet(b)) \cup ToSet(c)
<1>1. a \o b \in Seq(S) /\ Len(a \o b) = Len(a) + Len(b) /\ ToSet(a \o b) = ToSet(a) \cup ToSet(b)
  BY Concatenation
<1> DEFINE d == a \o b
<1>2. d \in Seq(S)
  BY <1>1
<1> HIDE DEF d
<1>3. /\ d \o c \in Seq(S) /\ Len(d \o c) = Len(d) + Len(c)
      /\ ToSet(d \o c) = ToSet(d) \cup ToSet(c)
  BY <1>2, Concatenation
<1>4. Len(d) = Len(a) + Len(b) /\ ToSet(d) = ToSet(a) \cup ToSet(b)
  BY <1>1 DEF d
<1>5. \A x \in {1, 2}, y \in {0, 1} : (2 + x) + y \in 1..5
  OBVIOUS
<1>6. Len(d \o c) = (2 + Len(b)) + Len(c)
  BY <1>3, <1>4, Zenon
<1>7. Len(d \o c) \in 1..5
  BY <1>5, <1>6, Zenon
<1> QED BY <1>3, <1>4, <1>7, Zenon DEF d

(* The CRDs that are installed are the operator's kinds, at most five. *)
LEMMA CRDsInstalled ==
  ASSUME env \in Env
  PROVE  /\ karpenterCRDs(env) \in Seq(Kinds) /\ Len(karpenterCRDs(env)) \in 1..5
         /\ {"NodePool", "NodeClaim"} \subseteq ToSet(karpenterCRDs(env))
         /\ ToSet(ProviderCRDs(env.platform)) \subseteq ToSet(karpenterCRDs(env))
         /\ HasNodeClassProvider(env) => WatchObject(env.platform) \in ToSet(karpenterCRDs(env))
<1> DEFINE core == CoreCRDs
           upstream == ProviderCRDs(env.platform)
           own == IF HasNodeClassProvider(env) THEN HCPCRDs(env.platform) ELSE <<>>
<1>1. core \in Seq(Kinds) /\ Len(core) = 2 /\ ToSet(core) = {"NodePool", "NodeClaim"}
  BY DEF CoreCRDs, Kinds, ToSet
<1>2. upstream \in Seq(Kinds) /\ Len(upstream) \in {1, 2}
  <2>1. <<"EC2NodeClass">> \in Seq(Kinds) /\ Len(<<"EC2NodeClass">>) = 1
    BY DEF Kinds
  <2>2. <<"AKSNodeClass", "NodeOverlay">> \in Seq(Kinds) /\ Len(<<"AKSNodeClass", "NodeOverlay">>) = 2
    BY DEF Kinds
  <2>3. upstream = <<"EC2NodeClass">> \/ upstream = <<"AKSNodeClass", "NodeOverlay">>
    BY DEF ProviderCRDs
  <2> HIDE DEF upstream
  <2> QED BY <2>1, <2>2, <2>3
<1>3. /\ own \in Seq(Kinds) /\ Len(own) \in {0, 1}
      /\ HasNodeClassProvider(env) => ToSet(own) = {WatchObject(env.platform)}
  <2>1. WatchObject(env.platform) \in Kinds
    BY DEF WatchObject, Kinds
  <2> QED BY <2>1 DEF HCPCRDs, ToSet
<1>4. karpenterCRDs(env) = (core \o upstream) \o own
  BY DEF karpenterCRDs
<1>5. /\ (core \o upstream) \o own \in Seq(Kinds) /\ Len((core \o upstream) \o own) \in 1..5
      /\ ToSet((core \o upstream) \o own) = (ToSet(core) \cup ToSet(upstream)) \cup ToSet(own)
  <2> HIDE DEF core, upstream, own
  <2>1. core \in Seq(Kinds) /\ Len(core) = 2
    BY <1>1, Zenon
  <2>2. own \in Seq(Kinds) /\ Len(own) \in {0, 1}
    BY <1>3, Zenon
  <2> QED BY <1>2, <2>1, <2>2, ThreeLists
<1> HIDE DEF core, own
<1> QED BY <1>1, <1>3, <1>4, <1>5

LEMMA CRDsOfManagement ==
  ASSUME env \in Env, Runs(env), ManagementCluster(env)
  PROVE  /\ env.platform = "AWS" =>
              {"NodePool", "NodeClaim", "EC2NodeClass", "OpenshiftEC2NodeClass"} \subseteq ToSet(karpenterCRDs(env))
         /\ env.platform = "Azure" =>
              {"NodePool", "NodeClaim", "AKSNodeClass", "OpenShiftAzureNodeClass"} \subseteq ToSet(karpenterCRDs(env))
<1>1. HasNodeClassProvider(env)
  BY ManagementIsComplete
<1>2. CASE env.platform = "AWS"
  <2>1. "EC2NodeClass" \in ToSet(ProviderCRDs(env.platform)) /\ WatchObject(env.platform) = "OpenshiftEC2NodeClass"
    BY <1>2 DEF ProviderCRDs, WatchObject, ToSet
  <2> QED BY <1>1, <1>2, <2>1, CRDsInstalled
<1>3. CASE env.platform = "Azure"
  <2>1. "AKSNodeClass" \in ToSet(ProviderCRDs(env.platform)) /\ WatchObject(env.platform) = "OpenShiftAzureNodeClass"
    BY <1>3 DEF ProviderCRDs, WatchObject, ToSet
  <2> QED BY <1>1, <1>3, <2>1, CRDsInstalled
<1> QED BY <1>2, <1>3

(* Every kind that a controller of the process waits for is one that the crd *)
(* controller of the same process installs.                                  *)
AwaitsOnlyItsOwn(c) ==
    WatchedKinds(c, env) = {} \/
    /\ WatchedKinds(c, env) \subseteq ToSet(karpenterCRDs(env))
    /\ "crd" \in running /\ WatchedKinds("crd", env) = {}

LEMMA NothingElseAwaited ==
  ASSUME env \in Env, Runs(env), running = ControllersToRun(env), NEW c \in running
  PROVE  AwaitsOnlyItsOwn(c)
<1>1. running = Parts
  BY AllPartsRun
<1>2. WatchedKinds("crd", env) = {}
  BY DEF WatchedKinds
<1>3. CASE ManagementCluster(env)
  <2>1. "crd" \in running
    BY <1>1, <1>3 DEF Parts
  <2>2. env.platform \in {"AWS", "Azure"}
    BY <1>3, ManagementIsComplete
  <2>3. CASE env.platform = "AWS"
    <3>1. WatchedKinds(c, env) \subseteq {"NodePool", "NodeClaim", "EC2NodeClass", "OpenshiftEC2NodeClass"}
      BY <1>1, <1>3, <2>3 DEF Parts, WatchedKinds, WatchObject
    <3> QED BY <1>2, <1>3, <2>1, <2>3, <3>1, CRDsOfManagement DEF AwaitsOnlyItsOwn
  <2>4. CASE env.platform = "Azure"
    <3>1. WatchedKinds(c, env) \subseteq {"NodePool", "NodeClaim", "AKSNodeClass", "OpenShiftAzureNodeClass"}
      BY <1>1, <1>3, <2>4 DEF Parts, WatchedKinds, WatchObject
    <3> QED BY <1>2, <1>3, <2>1, <2>4, <3>1, CRDsOfManagement DEF AwaitsOnlyItsOwn
  <2> QED BY <2>2, <2>3, <2>4
<1>4. CASE ~ManagementCluster(env)
  <2>1. WatchedKinds(c, env) = {}
    BY <1>1, <1>4 DEF Parts, WatchedKinds
  <2> QED BY <2>1 DEF AwaitsOnlyItsOwn
<1> QED BY <1>3, <1>4

-----------------------------------------------------------------------------
(* Types *)

Configured ==
    /\ proc = "failed" => ~Runs(env)
    /\ proc = "up" => Runs(env) /\ running = ControllersToRun(env)
    /\ proc # "up" => synced = {}

(* A keeper is within its list. *)
Within == \A w \in Keepers : pc[w] < Len(KeptBy(w))

Typed == TypeOK /\ Configured /\ Within

LEMMA ObjectsAre ==
  /\ Kinds \subseteq Objects /\ "policy" \in Objects /\ "binding" \in Objects /\ "default" \in Objects
  /\ "policy" \notin Kinds /\ "binding" \notin Kinds /\ "default" \notin Kinds
  /\ \A o \in Objects : o \in Kinds \/ o = "policy" \/ o = "binding" \/ o = "default"
  BY DEF Objects, Kinds

LEMMA KeptByFacts ==
  ASSUME env \in Env, NEW w \in Keepers
  PROVE  /\ KeptBy(w) \in Seq(Objects) /\ Len(KeptBy(w)) \in 1..5
         /\ \A i \in 1..Len(KeptBy(w)) : KeptBy(w)[i] \in Objects /\ KeeperOf(KeptBy(w)[i]) = w
<1>1. CASE w = "crd"
  <2>1. KeptBy(w) = karpenterCRDs(env)
    BY <1>1 DEF KeptBy
  <2>2. karpenterCRDs(env) \in Seq(Kinds) /\ Len(karpenterCRDs(env)) \in 1..5
    BY CRDsInstalled
  <2> DEFINE s == KeptBy(w)
  <2>3. s \in Seq(Kinds) /\ Len(s) \in 1..5
    BY <2>1, <2>2
  <2> HIDE DEF s
  <2>4. \A i \in 1..Len(s) : s[i] \in Kinds
    BY <2>3
  <2>5. s \in Seq(Objects) /\ \A i \in 1..Len(s) : s[i] \in Objects /\ KeeperOf(s[i]) = w
    BY <1>1, <2>3, <2>4, ObjectsAre DEF KeeperOf
  <2> QED BY <2>3, <2>5 DEF s
<1>2. CASE w = "vap"
  <2>1. KeptBy(w) = <<"policy", "binding">>
    BY <1>2 DEF KeptBy
  <2> DEFINE s == <<"policy", "binding">>
  <2>2. s \in Seq(Objects) /\ Len(s) = 2 /\ s[1] = "policy" /\ s[2] = "binding"
    BY ObjectsAre
  <2> HIDE DEF s
  <2>3. \A i \in 1..Len(s) : s[i] \in Objects /\ KeeperOf(s[i]) = w
    BY <1>2, <2>2, ObjectsAre DEF KeeperOf
  <2>4. KeptBy(w) = s
    BY <2>1 DEF s
  <2> QED BY <2>2, <2>3, <2>4
<1>3. CASE w = "default"
  <2>1. KeptBy(w) = <<"default">>
    BY <1>3 DEF KeptBy
  <2> DEFINE s == <<"default">>
  <2>2. s \in Seq(Objects) /\ Len(s) = 1 /\ s[1] = "default"
    BY ObjectsAre
  <2> HIDE DEF s
  <2>3. \A i \in 1..Len(s) : s[i] \in Objects /\ KeeperOf(s[i]) = w
    BY <1>3, <2>2, ObjectsAre DEF KeeperOf
  <2>4. KeptBy(w) = s
    BY <2>1 DEF s
  <2> QED BY <2>2, <2>3, <2>4
<1> QED BY <1>1, <1>2, <1>3 DEF Keepers

LEMMA ZeroIsWithin == ASSUME env \in Env, NEW w \in Keepers PROVE 0 < Len(KeptBy(w))
<1> DEFINE n == Len(KeptBy(w))
<1>1. n \in 1..5
  BY KeptByFacts
<1> HIDE DEF n
<1>2. 0 < n
  BY <1>1
<1> QED BY <1>2 DEF n

LEMMA KeptByStays == ASSUME env' = env, NEW w \in Keepers PROVE KeptBy(w)' = KeptBy(w)
  BY DEF KeptBy, Keepers

LEMMA EnvIsEnv == TypeOK => env \in Env
  BY ConstantsAreTyped DEF TypeOK

LEMMA AbsentIsObject == Absent \in Object /\ Absent.spec = "absent"
  BY DEF Absent, Object, Specs

LEMMA DesiredIsSpec ==
  ASSUME NEW o, NEW h \in HCP PROVE Desired(o, h) \in Specs
<1>1. h.infra \in Infras
  BY DEF HCP
<1> QED BY <1>1 DEF Desired, DefaultNodeClass, Specs

LEMMA NextGenIsNat ==
  ASSUME obj \in [Objects -> Object], NEW o \in Objects PROVE NextGen(o) \in Nat
<1>1. obj[o].gen \in Nat
  BY DEF Object
<1> QED BY <1>1 DEF NextGen

LEMMA NewObject == ASSUME NEW s \in Specs, NEW g \in Nat PROVE [spec |-> s, gen |-> g] \in Object
  BY DEF Object

LEMMA SpendType == ASSUME TypeOK, Spend PROVE budget' \in Nat
  BY DEF TypeOK, Spend

LEMMA NoMetricType == NoMetric \in Metric
  BY DEF NoMetric, Metric

(* An attempt to register the metric, whatever its result *)
LEMMA AttemptType ==
  ASSUME TypeOK, NEW failed \in Nat, setupOperatorInfoMetric(failed)
  PROVE  metric' \in Metric /\ budget' \in Nat
<1>1. budget' \in Nat
  BY SpendType DEF setupOperatorInfoMetric, TypeOK
<1>2. CASE metric' = [NoMetric EXCEPT !.state = "registered"]
  BY <1>1, <1>2 DEF NoMetric, Metric
<1>3. CASE metric' = [state |-> IF failed + 1 = Steps THEN "gaveUp" ELSE "trying", failed |-> failed + 1]
  BY <1>1, <1>3 DEF Metric
<1> QED BY <1>2, <1>3 DEF setupOperatorInfoMetric

(* The process and the places of the keepers stay. *)
LEMMA ObjectsTyped ==
  ASSUME Typed, UNCHANGED procVars, UNCHANGED <<pc, metric>>, queued' \in [Keepers -> BOOLEAN],
         obj' \in [Objects -> Object], cobj' \in [Objects -> Object], fresh' \in [Objects -> BOOLEAN],
         missed' \subseteq Kinds, hcp' \in HCP, chcp' \in HCP, budget' \in Nat
  PROVE  Typed'
<1>1. TypeOK'
  BY DEF Typed, TypeOK, procVars
<1>2. Configured'
  BY DEF Typed, Configured, procVars
<1>3. Within'
  BY KeptByStays DEF Typed, Within, procVars
<1> QED BY <1>1, <1>2, <1>3 DEF Typed

LEMMA InitTyped == ASSUME Init PROVE Typed
<1>1. env \in Env
  BY ConstantsAreTyped DEF Init
<1>2. hcp \in HCP
  <2>1. (CHOOSE i \in Infras : TRUE) \in Infras
    BY ConstantsAreTyped
  <2>2. ManagementCluster(env) \in BOOLEAN
    BY DEF ManagementCluster
  <2> QED BY <2>1, <2>2 DEF Init, HCP
<1>3. TypeOK
  BY <1>2, AbsentIsObject, NoMetricType, ConstantsAreTyped DEF Init, TypeOK
<1>4. Configured
  BY DEF Init, Configured
<1>5. Within
  <2>1. ASSUME NEW w \in Keepers PROVE pc[w] = 0
    BY DEF Init
  <2> QED BY <1>1, <2>1, ZeroIsWithin DEF Within
<1> QED BY <1>3, <1>4, <1>5 DEF Typed

-----------------------------------------------------------------------------
(* The invariant of the keepers *)

(* What the cache of a running keeper has as current is current. *)
Cached == \A o \in Objects : Watching(KeeperOf(o)) /\ fresh[o] => cobj[o] = obj[o]

(* An object that the keeper sees as it is, is as it is to be. *)
Holds(o) == fresh[o] /\ Wanted(o, chcp) => obj[o].spec = Desired(o, chcp) \/ o \in missed

Nth(w, i, o) == i \in 1..Len(KeptBy(w)) /\ KeptBy(w)[i] = o

(* A keeper without a request has dealt with what it has passed: all of it, *)
(* unless it is under way.                                                  *)
DoneFor(w) ==
    (Watching(w) /\ ~queued[w]) =>
    \A o \in Objects : \A i \in Nat : Nth(w, i, o) /\ (pc[w] = 0 \/ i <= pc[w]) => Holds(o)

Done == \A w \in Keepers : DoneFor(w)

IInv == Typed /\ Cached /\ Done

LEMMA KeeperOfType == ASSUME NEW o PROVE KeeperOf(o) \in Keepers
  BY DEF KeeperOf, Keepers

LEMMA HoldsStays ==
  ASSUME env' = env, NEW o \in Objects, obj'[o] = obj[o], fresh'[o] => fresh[o],
         o \in missed => o \in missed', chcp' = chcp \/ o # "default", Holds(o)
  PROVE  Holds(o)'
<1>1. Wanted(o, chcp)' = Wanted(o, chcp) /\ Desired(o, chcp)' = Desired(o, chcp)
  BY DEF Wanted, WantsDefault, Desired, DefaultNodeClass
<1> QED BY <1>1 DEF Holds

LEMMA NthStays ==
  ASSUME env' = env, NEW w \in Keepers, NEW i, NEW o PROVE Nth(w, i, o)' <=> Nth(w, i, o)
  BY KeptByStays DEF Nth

LEMMA NthKeeper ==
  ASSUME TypeOK, NEW w \in Keepers, NEW i, NEW o, Nth(w, i, o) PROVE o \in Objects /\ KeeperOf(o) = w
  BY EnvIsEnv, KeptByFacts DEF Nth

LEMMA DoneStays ==
  ASSUME TypeOK, env' = env, NEW w \in Keepers, DoneFor(w), Watching(w)' => Watching(w),
         queued[w] => queued'[w], pc'[w] = pc[w],
         \A o \in Objects : KeeperOf(o) = w /\ Holds(o) => Holds(o)'
  PROVE  DoneFor(w)'
<1> SUFFICES ASSUME Watching(w)', ~queued'[w], NEW o \in Objects, NEW i \in Nat, Nth(w, i, o)',
                    pc'[w] = 0 \/ i <= pc'[w]
             PROVE  Holds(o)'
  BY DEF DoneFor
<1>1. Nth(w, i, o)
  BY NthStays
<1>2. Holds(o)
  BY <1>1 DEF DoneFor
<1> QED BY <1>1, <1>2, NthKeeper

(* What others do to the objects is not current in the caches. *)
LEMMA DisturbedIInv ==
  ASSUME IInv, UNCHANGED procVars, UNCHANGED <<cobj, missed, chcp, queued, pc, metric>>,
         hcp' \in HCP, budget' \in Nat, obj' \in [Objects -> Object], fresh' \in [Objects -> BOOLEAN],
         \A o \in Objects : ~fresh'[o] \/ (obj'[o] = obj[o] /\ fresh'[o] = fresh[o])
  PROVE  IInv'
<1>1. Typed'
  <2>1. queued' \in [Keepers -> BOOLEAN] /\ cobj' \in [Objects -> Object] /\ missed' \subseteq Kinds /\ chcp' \in HCP
    BY DEF IInv, Typed, TypeOK
  <2> QED BY <2>1, ObjectsTyped DEF IInv
<1>2. env' = env /\ proc' = proc /\ synced' = synced
  BY DEF procVars
<1>3. \A w : Watching(w)' <=> Watching(w)
  BY <1>2 DEF Watching
<1>4. Cached'
  BY <1>3 DEF IInv, Cached, KeeperOf
<1>5. ASSUME NEW o \in Objects, Holds(o) PROVE Holds(o)'
  <2>1. CASE ~fresh'[o]
    BY <2>1 DEF Holds
  <2>2. CASE obj'[o] = obj[o] /\ fresh'[o] = fresh[o]
    BY <1>2, <1>5, <2>2, HoldsStays
  <2> QED BY <2>1, <2>2
<1>6. ASSUME NEW w \in Keepers PROVE DoneFor(w)'
  BY <1>2, <1>3, <1>5, DoneStays DEF IInv, Typed, Done
<1> QED BY <1>1, <1>4, <1>6 DEF IInv, Done

LEMMA UsersIInv ==
  ASSUME IInv, \/ \E o \in Touched : EditObject(o) \/ DeleteObject(o)
               \/ \E k \in Touched \cap Kinds : ReplaceCRD(k)
               \/ SetProvisioner \/ SetE2EOverride \/ SetInfraID \/ RemoveHCP
  PROVE  IInv'
<1>0. TypeOK
  BY DEF IInv, Typed
<1>1. ASSUME NEW o \in Objects, NEW x \in Object, Write(o, x), Spend,
             UNCHANGED procVars, UNCHANGED <<cobj, missed, hcp, chcp, queued, pc, metric>>
      PROVE  IInv'
  <2>1. obj' \in [Objects -> Object] /\ fresh' \in [Objects -> BOOLEAN]
    BY <1>0, <1>1 DEF TypeOK, Write
  <2>2. \A y \in Objects : ~fresh'[y] \/ (obj'[y] = obj[y] /\ fresh'[y] = fresh[y])
    BY <1>0, <1>1 DEF TypeOK, Write
  <2>3. hcp' \in HCP
    BY <1>0, <1>1 DEF TypeOK
  <2> QED BY <1>0, <1>1, <2>1, <2>2, <2>3, SpendType, DisturbedIInv
<1>2. ASSUME NEW o \in Touched, EditObject(o) PROVE IInv'
  <2>1. o \in Objects
    BY ConstantsAreTyped
  <2>2. NextGen(o) \in Nat /\ "edited" \in Specs
    BY <1>0, <2>1, NextGenIsNat DEF TypeOK, Specs
  <2> QED BY <1>1, <1>2, <2>1, <2>2, NewObject DEF EditObject
<1>3. ASSUME NEW o \in Touched, DeleteObject(o) PROVE IInv'
  <2>1. PICK gone : /\ obj' = [x \in Objects |-> IF x \in gone THEN Absent ELSE obj[x]]
                    /\ fresh' = [x \in Objects |-> fresh[x] /\ x \notin gone]
    BY <1>3 DEF DeleteObject
  <2>2. obj' \in [Objects -> Object]
    BY <1>0, <2>1, AbsentIsObject DEF TypeOK
  <2>3. fresh' \in [Objects -> BOOLEAN]
    BY <2>1
  <2>4. \A y \in Objects : ~fresh'[y] \/ (obj'[y] = obj[y] /\ fresh'[y] = fresh[y])
    BY <1>0, <2>1 DEF TypeOK
  <2>5. /\ Spend /\ UNCHANGED procVars /\ UNCHANGED <<cobj, missed, chcp, queued, pc, metric>> /\ hcp' \in HCP
    BY <1>0, <1>3 DEF DeleteObject, TypeOK
  <2> QED BY <1>0, <2>2, <2>3, <2>4, <2>5, SpendType, DisturbedIInv
<1>4. ASSUME NEW k \in Touched \cap Kinds, ReplaceCRD(k) PROVE IInv'
  <2>1. k \in Objects /\ "edited" \in Specs
    BY ObjectsAre DEF Specs
  <2> QED BY <1>1, <1>4, <2>1, NewObject DEF ReplaceCRD
<1>5. ASSUME NEW h \in HCP, ChangeHCP(h) PROVE IInv'
  <2>1. obj' \in [Objects -> Object] /\ fresh' \in [Objects -> BOOLEAN] /\ hcp' \in HCP
    BY <1>0, <1>5 DEF TypeOK, ChangeHCP
  <2>2. \A y \in Objects : obj'[y] = obj[y] /\ fresh'[y] = fresh[y]
    BY <1>5 DEF ChangeHCP
  <2>3. Spend /\ UNCHANGED procVars /\ UNCHANGED <<cobj, missed, chcp, queued, pc, metric>>
    BY <1>5 DEF ChangeHCP
  <2> QED BY <1>0, <2>1, <2>2, <2>3, SpendType, DisturbedIInv
<1>6. /\ [hcp EXCEPT !.karpenter = ~@] \in HCP /\ [hcp EXCEPT !.e2e = ~@] \in HCP
      /\ [hcp EXCEPT !.exists = FALSE] \in HCP /\ \A i \in Infras : [hcp EXCEPT !.infra = i] \in HCP
  BY <1>0 DEF TypeOK, HCP
<1>7. ASSUME SetProvisioner \/ SetE2EOverride \/ SetInfraID \/ RemoveHCP PROVE IInv'
  BY <1>5, <1>6, <1>7 DEF SetProvisioner, SetE2EOverride, SetInfraID, RemoveHCP
<1> QED BY <1>2, <1>3, <1>4, <1>7

(* An informer of the keeper w brings its cache up to date: either that     *)
(* queues, or what it brings is known to be unnoticed.                      *)
LEMMA DeliveredIInv ==
  ASSUME IInv, NEW w \in Keepers, NEW news \in SUBSET Objects, \A o \in news : KeeperOf(o) = w,
         cobj' = [o \in Objects |-> IF o \in news THEN obj[o] ELSE cobj[o]],
         fresh' = [o \in Objects |-> o \in news \/ fresh[o]],
         NEW q \in BOOLEAN, queued' = [queued EXCEPT ![w] = q],
         q \/ (~queued[w] /\ news \subseteq missed'), missed \subseteq missed', missed' \subseteq Kinds,
         UNCHANGED procVars, UNCHANGED <<obj, hcp, chcp, pc, metric, budget>>
  PROVE  IInv'
<1>0. TypeOK
  BY DEF IInv, Typed
<1>1. Typed'
  <2>1. queued' \in [Keepers -> BOOLEAN] /\ cobj' \in [Objects -> Object]
    BY <1>0 DEF TypeOK
  <2>2. fresh' \in [Objects -> BOOLEAN]
    OBVIOUS
  <2>3. obj' \in [Objects -> Object] /\ hcp' \in HCP /\ chcp' \in HCP /\ budget' \in Nat
    BY <1>0 DEF TypeOK
  <2> QED BY <2>1, <2>2, <2>3, ObjectsTyped DEF IInv
<1>2. env' = env /\ proc' = proc /\ synced' = synced
  BY DEF procVars
<1>3. \A v : Watching(v)' <=> Watching(v)
  BY <1>2 DEF Watching
<1>4. Cached'
  BY <1>3 DEF IInv, Cached, KeeperOf
<1>5. ASSUME NEW o \in Objects, Holds(o), o \notin news PROVE Holds(o)'
  <2>1. obj'[o] = obj[o] /\ (fresh'[o] => fresh[o]) /\ chcp' = chcp
    BY <1>5
  <2> QED BY <1>2, <1>5, <2>1, HoldsStays
<1>6. ASSUME NEW v \in Keepers PROVE DoneFor(v)'
  <2>1. CASE v # w
    <3>1. queued'[v] = queued[v] /\ pc'[v] = pc[v]
      BY <1>0, <2>1 DEF TypeOK
    <3>2. ASSUME NEW o \in Objects, KeeperOf(o) = v, Holds(o) PROVE Holds(o)'
      BY <1>5, <2>1, <3>2
    <3> QED BY <1>0, <1>2, <1>3, <3>1, <3>2, DoneStays DEF IInv, Done
  <2>2. CASE v = w /\ q
    <3>1. queued'[v]
      BY <1>0, <2>2 DEF TypeOK
    <3> QED BY <3>1 DEF DoneFor
  <2>3. CASE v = w /\ ~q
    <3>1. ~queued[v] /\ pc'[v] = pc[v]
      BY <2>3
    <3>2. ASSUME NEW o \in Objects, Holds(o) PROVE Holds(o)'
      <4>1. CASE o \in news
        BY <2>3, <4>1 DEF Holds
      <4>2. CASE o \notin news
        BY <1>5, <3>2, <4>2
      <4> QED BY <4>1, <4>2
    <3> QED BY <1>0, <1>2, <1>3, <3>1, <3>2, DoneStays DEF IInv, Done
  <2> QED BY <2>1, <2>2, <2>3
<1> QED BY <1>1, <1>4, <1>6 DEF IInv, Done

(* Every type of kept object has one keeper. *)
LEMMA InformersFacts ==
  ASSUME NEW os \in Informers
  PROVE  /\ os \subseteq Objects /\ os # {}
         /\ \A o, p \in os : KeeperOf(o) = KeeperOf(p)
<1>1. CASE os = Kinds
  <2>1. "NodePool" \in Kinds
    BY DEF Kinds
  <2> QED BY <1>1, <2>1, ObjectsAre DEF KeeperOf
<1>2. CASE os = {"policy"} \/ os = {"binding"} \/ os = {"default"}
  BY <1>2, ObjectsAre
<1> QED BY <1>1, <1>2 DEF Informers

LEMMA DeliverIInv == ASSUME IInv, NEW os \in Informers, Deliver(os) PROVE IInv'
<1> DEFINE w == KeeperOf(CHOOSE o \in os : TRUE)
           news == {o \in os : ~fresh[o]}
           q == queued[w] \/ \E o \in news : isManaged(o)
<1>1. w \in Keepers
  BY KeeperOfType
<1>2. news \in SUBSET Objects /\ \A o \in news : KeeperOf(o) = w
  BY InformersFacts
<1>3. /\ news # {}
      /\ cobj' = [o \in Objects |-> IF o \in news THEN obj[o] ELSE cobj[o]]
      /\ fresh' = [o \in Objects |-> o \in news \/ fresh[o]]
      /\ UNCHANGED procVars /\ UNCHANGED <<obj, missed, hcp, chcp, pc, metric, budget>>
  BY DEF Deliver
<1>4. queued' = [queued EXCEPT ![w] = q]
  BY DEF Deliver
<1>5. q
  BY <1>2, <1>3 DEF isManaged
<1>6. q \in BOOLEAN /\ missed' \subseteq Kinds /\ missed \subseteq missed'
  BY <1>3 DEF IInv, Typed, TypeOK
<1> HIDE DEF w, news, q
<1> QED BY <1>1, <1>2, <1>3, <1>4, <1>5, <1>6, DeliveredIInv

LEMMA RelistIInv == ASSUME IInv, Relist PROVE IInv'
<1> DEFINE news == {k \in Kinds : ~fresh[k]}
           seen == {k \in news : GenerationChanged(cobj[k], obj[k])}
           q == queued["crd"] \/ seen # {}
<1>1. "crd" \in Keepers
  BY DEF Keepers
<1>2. news \in SUBSET Objects /\ (\A o \in news : KeeperOf(o) = "crd") /\ news \subseteq Kinds
  BY ObjectsAre DEF KeeperOf
<1>3. /\ cobj' = [o \in Objects |-> IF o \in news THEN obj[o] ELSE cobj[o]]
      /\ fresh' = [o \in Objects |-> o \in news \/ fresh[o]]
      /\ UNCHANGED procVars /\ UNCHANGED <<obj, hcp, chcp, pc, metric, budget>>
  BY DEF Relist
<1>4. queued' = [queued EXCEPT !["crd"] = q] /\ missed' = missed \cup (news \ seen)
  BY DEF Relist
<1>5. q \in BOOLEAN
  OBVIOUS
<1>6. q \/ (~queued["crd"] /\ news \ seen = news)
  OBVIOUS
<1> HIDE DEF news, seen, q
<1>7. missed \subseteq missed' /\ missed' \subseteq Kinds /\ (q \/ (~queued["crd"] /\ news \subseteq missed'))
  BY <1>2, <1>4, <1>6 DEF IInv, Typed, TypeOK
<1> QED BY <1>1, <1>2, <1>3, <1>4, <1>5, <1>7, DeliveredIInv

(* hcpPredicate lets every change pass that DefaultNodeClass depends on. *)
LEMMA DeliverHCPIInv == ASSUME IInv, DeliverHCP PROVE IInv'
<1>0. TypeOK
  BY DEF IInv, Typed
<1>1. hcpPredicate(chcp, hcp)
  BY <1>0 DEF TypeOK, HCP, DeliverHCP, hcpPredicate
<1>2. queued' = [queued EXCEPT !["default"] = TRUE]
  <2>1. (queued["default"] \/ hcpPredicate(chcp, hcp)) = TRUE
    BY <1>1
  <2> QED BY <2>1 DEF DeliverHCP
<1>3. /\ UNCHANGED procVars /\ UNCHANGED <<obj, cobj, fresh, missed, hcp, pc, metric, budget>>
      /\ chcp' = hcp
  BY DEF DeliverHCP
<1>4. Typed'
  <2>1. queued' \in [Keepers -> BOOLEAN]
    BY <1>0, <1>2 DEF TypeOK
  <2>2. /\ obj' \in [Objects -> Object] /\ cobj' \in [Objects -> Object] /\ fresh' \in [Objects -> BOOLEAN]
        /\ missed' \subseteq Kinds /\ hcp' \in HCP /\ chcp' \in HCP /\ budget' \in Nat
    BY <1>0, <1>3 DEF TypeOK
  <2> QED BY <1>3, <2>1, <2>2, ObjectsTyped DEF IInv
<1>5. env' = env /\ \A v : Watching(v)' <=> Watching(v)
  BY <1>3 DEF procVars, Watching
<1>6. Cached'
  BY <1>3, <1>5 DEF IInv, Cached, KeeperOf
<1>7. ASSUME NEW v \in Keepers PROVE DoneFor(v)'
  <2>1. CASE v = "default"
    <3>1. queued'[v]
      BY <1>0, <1>2, <2>1 DEF TypeOK
    <3> QED BY <3>1 DEF DoneFor
  <2>2. CASE v # "default"
    <3>1. queued'[v] = queued[v] /\ pc'[v] = pc[v]
      BY <1>0, <1>2, <1>3, <2>2 DEF TypeOK
    <3>2. ASSUME NEW o \in Objects, KeeperOf(o) = v, Holds(o) PROVE Holds(o)'
      <4>1. o # "default"
        BY <2>2, <3>2, ObjectsAre DEF KeeperOf
      <4> QED BY <1>3, <1>5, <3>2, <4>1, HoldsStays
    <3> QED BY <1>0, <1>5, <3>1, <3>2, DoneStays DEF IInv, Done
  <2> QED BY <2>1, <2>2
<1> QED BY <1>4, <1>6, <1>7 DEF IInv, Done

-----------------------------------------------------------------------------
(* The process *)

(* A keeper that is not running has nothing to answer for. *)
LEMMA NoneWatching ==
  ASSUME Typed', \A w \in Keepers : ~Watching(w)' PROVE IInv'
<1>1. ASSUME NEW o \in Objects PROVE ~Watching(KeeperOf(o))'
  <2>1. PICK w \in Keepers : w = KeeperOf(o)
    BY KeeperOfType
  <2> QED BY <2>1 DEF KeeperOf
<1>2. Cached'
  BY <1>1 DEF Cached
<1>3. Done'
  BY DEF Done, DoneFor
<1> QED BY <1>2, <1>3 DEF IInv

LEMMA StartIInv == ASSUME IInv, Start PROVE IInv'
<1>0. TypeOK
  BY DEF IInv, Typed
<1>1. /\ UNCHANGED <<env, obj, cobj, fresh, missed, hcp, chcp, queued, pc>>
      /\ proc' = (IF Runs(env) THEN "up" ELSE "failed")
      /\ running' = (IF Runs(env) THEN ControllersToRun(env) ELSE {})
      /\ synced' = running' \ Waiting
  BY DEF Start
<1>2. metric' \in Metric /\ budget' \in Nat
  <2>1. \/ setupOperatorInfoMetric(0)
        \/ metric' = NoMetric /\ UNCHANGED budget
    BY DEF Start
  <2> QED BY <1>0, <2>1, AttemptType, NoMetricType DEF TypeOK
<1>3. TypeOK'
  <2>1. proc' \in {"down", "up", "failed"} /\ synced' \subseteq running'
    BY <1>1
  <2> QED BY <1>0, <1>1, <1>2, <2>1 DEF TypeOK
<1>4. Configured'
  <2>1. CASE Runs(env)
    <3>1. proc' = "up" /\ running' = ControllersToRun(env') /\ Runs(env')
      BY <1>1, <2>1
    <3> QED BY <3>1 DEF Configured
  <2>2. CASE ~Runs(env)
    <3>1. proc' = "failed" /\ synced' = {} /\ ~Runs(env')
      BY <1>1, <2>2
    <3> QED BY <3>1 DEF Configured
  <2> QED BY <2>1, <2>2
<1>5. Within'
  BY <1>1, KeptByStays DEF IInv, Typed, Within
<1>6. \A w \in Keepers : ~Watching(w)'
  BY <1>1 DEF Waiting, Watching
<1> QED BY <1>3, <1>4, <1>5, <1>6, NoneWatching DEF Typed

(* The goroutine of the metric changes nothing that the keepers see. *)
LEMMA RetryMetricIInv == ASSUME IInv, RetryMetric PROVE IInv'
<1>0. TypeOK
  BY DEF IInv, Typed
<1>1. UNCHANGED procVars /\ UNCHANGED <<obj, cobj, fresh, missed, hcp, chcp, queued, pc>>
  BY DEF RetryMetric
<1>2. metric' \in Metric /\ budget' \in Nat
  <2>1. metric.failed \in Nat
    BY <1>0 DEF TypeOK, Metric
  <2> QED BY <1>0, <2>1, AttemptType DEF RetryMetric
<1>3. TypeOK'
  BY <1>0, <1>1, <1>2 DEF TypeOK, procVars
<1>4. Configured'
  BY <1>1 DEF IInv, Typed, Configured, procVars
<1>5. Within'
  BY <1>1, KeptByStays DEF IInv, Typed, Within, procVars
<1>6. \A w \in Keepers : Watching(w)' <=> Watching(w)
  BY <1>1 DEF Watching, procVars
<1>7. Cached'
  BY <1>1 DEF IInv, Cached, Watching, KeeperOf, procVars
<1>8. ASSUME NEW w \in Keepers PROVE DoneFor(w)'
  <2>1. ASSUME NEW o \in Objects, Holds(o) PROVE Holds(o)'
    BY <1>1, <2>1, HoldsStays DEF procVars
  <2> QED BY <1>0, <1>1, <1>6, <2>1, DoneStays DEF IInv, Done, procVars
<1> QED BY <1>3, <1>4, <1>5, <1>7, <1>8 DEF IInv, Typed, Done

LEMMA ExitIInv == ASSUME IInv, Exit PROVE IInv'
<1>0. TypeOK
  BY DEF IInv, Typed
<1>1. /\ proc' = "down" /\ running' = {} /\ synced' = {} /\ metric' = NoMetric
      /\ cobj' = [o \in Objects |-> Absent] /\ fresh' = [o \in Objects |-> TRUE] /\ missed' = {}
      /\ queued' = [w \in Keepers |-> FALSE] /\ pc' = [w \in Keepers |-> 0]
      /\ UNCHANGED <<env, obj, hcp, chcp>> /\ budget' \in Nat
  BY <1>0, SpendType DEF Exit
<1>2. TypeOK'
  BY <1>0, <1>1, AbsentIsObject, NoMetricType DEF TypeOK
<1>3. Configured'
  BY <1>1 DEF Configured
<1>4. Within'
  <2>1. ASSUME NEW w \in Keepers PROVE pc'[w] = 0 /\ KeptBy(w)' = KeptBy(w) /\ 0 < Len(KeptBy(w))
    BY <1>0, <1>1, EnvIsEnv, KeptByStays, ZeroIsWithin
  <2> QED BY <2>1 DEF Within
<1>5. \A w \in Keepers : ~Watching(w)'
  BY <1>1 DEF Watching
<1> QED BY <1>2, <1>3, <1>4, <1>5, NoneWatching DEF Typed

LEMMA SyncOthersIInv == ASSUME IInv, SyncOthers PROVE IInv'
<1>0. TypeOK
  BY DEF IInv, Typed
<1>1. PICK ready : /\ ready \subseteq running \ Keepers /\ synced' = synced \cup ready /\ proc = "up"
                   /\ UNCHANGED <<env, proc, running, obj, cobj, fresh, missed, hcp, chcp, queued,
                                  pc, metric, budget>>
  BY DEF SyncOthers
<1>2. TypeOK'
  BY <1>0, <1>1 DEF TypeOK
<1>3. Configured'
  BY <1>1 DEF IInv, Typed, Configured
<1>4. Within'
  BY <1>1, KeptByStays DEF IInv, Typed, Within
<1>5. \A w \in Keepers : Watching(w)' <=> Watching(w)
  BY <1>1 DEF Watching
<1>6. Cached'
  <2>1. ASSUME NEW o \in Objects, Watching(KeeperOf(o))', fresh'[o] PROVE cobj'[o] = obj'[o]
    <3>1. Watching(KeeperOf(o))
      <4>1. PICK w \in Keepers : w = KeeperOf(o)
        BY KeeperOfType
      <4> QED BY <1>5, <2>1, <4>1 DEF KeeperOf
    <3> QED BY <1>1, <2>1, <3>1 DEF IInv, Cached
  <2> QED BY <2>1 DEF Cached
<1>7. ASSUME NEW w \in Keepers PROVE DoneFor(w)'
  <2>1. ASSUME NEW o \in Objects, Holds(o) PROVE Holds(o)'
    BY <1>1, <2>1, HoldsStays
  <2> QED BY <1>0, <1>1, <1>5, <2>1, DoneStays DEF IInv, Done
<1> QED BY <1>2, <1>3, <1>4, <1>6, <1>7 DEF IInv, Typed, Done

(* A keeper that finds no request when its sources have synced keeps nothing: *)
(* there is no HostedControlPlane.                                            *)
LEMMA SyncKeeperIInv == ASSUME IInv, NEW w \in Keepers, SyncKeeper(w) PROVE IInv'
<1>0. TypeOK
  BY DEF IInv, Typed
<1> DEFINE q == InitialRequest(w)
<1>1. /\ proc = "up" /\ w \in running /\ w \notin synced /\ synced' = synced \cup {w}
      /\ cobj' = [o \in Objects |-> IF KeeperOf(o) = w THEN obj[o] ELSE cobj[o]]
      /\ fresh' = [o \in Objects |-> KeeperOf(o) = w \/ fresh[o]]
      /\ chcp' = (IF w = "default" THEN hcp ELSE chcp)
      /\ queued' = [queued EXCEPT ![w] = q]
      /\ UNCHANGED <<env, proc, running, obj, missed, hcp, pc, metric, budget>>
  BY DEF SyncKeeper
<1>2. q \in BOOLEAN /\ (q \/ (w = "default" /\ ~hcp.exists))
  <2>1. hcp.exists \in BOOLEAN
    BY <1>0 DEF TypeOK, HCP
  <2>2. CASE w = "crd" \/ w = "vap"
    BY <2>2 DEF InitialRequest
  <2>3. CASE w = "default"
    BY <2>1, <2>3 DEF InitialRequest, Exists
  <2> QED BY <2>2, <2>3 DEF Keepers
<1> HIDE DEF q
<1>3. TypeOK'
  <2>1. queued' \in [Keepers -> BOOLEAN] /\ cobj' \in [Objects -> Object]
    BY <1>0, <1>1, <1>2 DEF TypeOK
  <2>2. fresh' \in [Objects -> BOOLEAN]
    BY <1>1
  <2>3. synced' \subseteq running' /\ chcp' \in HCP
    BY <1>0, <1>1 DEF TypeOK
  <2> QED BY <1>0, <1>1, <2>1, <2>2, <2>3 DEF TypeOK
<1>4. Configured'
  BY <1>1 DEF IInv, Typed, Configured
<1>5. Within'
  BY <1>1, KeptByStays DEF IInv, Typed, Within
<1>6. \A v \in Keepers : v # w => (Watching(v)' <=> Watching(v))
  BY <1>1 DEF Watching
<1>7. Cached'
  <2>1. ASSUME NEW o \in Objects, Watching(KeeperOf(o))', fresh'[o] PROVE cobj'[o] = obj'[o]
    <3>1. CASE KeeperOf(o) = w
      BY <1>1, <3>1
    <3>2. CASE KeeperOf(o) # w
      <4>1. Watching(KeeperOf(o))
        <5>1. PICK v \in Keepers : v = KeeperOf(o)
          BY KeeperOfType
        <5> QED BY <1>6, <2>1, <3>2, <5>1 DEF KeeperOf
      <4>2. fresh[o] /\ cobj'[o] = cobj[o] /\ obj'[o] = obj[o]
        BY <1>1, <2>1, <3>2
      <4> QED BY <4>1, <4>2 DEF IInv, Cached
    <3> QED BY <3>1, <3>2
  <2> QED BY <2>1 DEF Cached
<1>8. ASSUME NEW v \in Keepers PROVE DoneFor(v)'
  <2>1. CASE v # w
    <3>1. queued'[v] = queued[v] /\ pc'[v] = pc[v]
      BY <1>0, <1>1, <2>1 DEF TypeOK
    <3>2. ASSUME NEW o \in Objects, KeeperOf(o) = v, Holds(o) PROVE Holds(o)'
      <4>1. chcp' = chcp \/ o # "default"
        BY <1>1, <2>1, <3>2, ObjectsAre DEF KeeperOf
      <4>2. obj'[o] = obj[o] /\ (fresh'[o] => fresh[o])
        BY <1>1, <2>1, <3>2
      <4> QED BY <1>1, <3>2, <4>1, <4>2, HoldsStays
    <3> QED BY <1>0, <1>1, <1>6, <2>1, <3>1, <3>2, DoneStays DEF IInv, Done
  <2>2. CASE v = w /\ q
    <3>1. queued'[v]
      BY <1>0, <1>1, <2>2 DEF TypeOK
    <3> QED BY <3>1 DEF DoneFor
  <2>3. CASE v = w /\ ~q
    <3>1. v = "default" /\ ~chcp'.exists
      BY <1>1, <1>2, <2>3
    <3>2. ASSUME NEW o \in Objects, NEW i, Nth(v, i, o)' PROVE Holds(o)'
      <4>1. Nth(v, i, o)
        BY <1>1, <3>2, NthStays
      <4>2. KeeperOf(o) = "default"
        BY <1>0, <3>1, <4>1, NthKeeper
      <4>3. o = "default"
        BY <4>2, ObjectsAre DEF KeeperOf
      <4> QED BY <3>1, <4>3 DEF Holds, Wanted, WantsDefault
    <3> QED BY <3>2 DEF DoneFor
  <2> QED BY <2>1, <2>2, <2>3
<1> QED BY <1>3, <1>4, <1>5, <1>7, <1>8 DEF IInv, Typed, Done

-----------------------------------------------------------------------------
(* The reconciles *)

(* A step of one keeper: the others do not see it, but for what it does to  *)
(* objects, which are its own.                                              *)
LEMMA KeeperStep ==
  ASSUME IInv, NEW w \in Keepers, NEW o \in Objects, KeeperOf(o) = w, NEW n \in Nat, NEW q \in BOOLEAN,
         pc' = [pc EXCEPT ![w] = n], queued' = [queued EXCEPT ![w] = q], n < Len(KeptBy(w)),
         obj' \in [Objects -> Object], fresh' \in [Objects -> BOOLEAN], missed' \subseteq missed,
         \A x \in Objects : ~fresh'[x] \/ (obj'[x] = obj[x] /\ fresh'[x] = fresh[x]),
         \A x \in Objects : x # o => /\ obj'[x] = obj[x] /\ fresh'[x] = fresh[x]
                                     /\ x \in missed => x \in missed',
         UNCHANGED procVars, UNCHANGED <<cobj, hcp, chcp, metric>>, budget' \in Nat,
         DoneFor(w)'
  PROVE  IInv'
<1>0. TypeOK
  BY DEF IInv, Typed
<1>1. env' = env /\ proc' = proc /\ running' = running /\ synced' = synced
  BY DEF procVars
<1>2. n \in 0..4
  <2> DEFINE m == Len(KeptBy(w))
  <2>1. m \in 1..5 /\ n < m
    BY <1>0, EnvIsEnv, KeptByFacts
  <2> HIDE DEF m
  <2> QED BY <2>1
<1>3. TypeOK'
  <2>1. pc' \in [Keepers -> 0..4] /\ queued' \in [Keepers -> BOOLEAN]
    BY <1>0, <1>2 DEF TypeOK
  <2> QED BY <1>0, <1>1, <2>1 DEF TypeOK
<1>4. Configured'
  BY <1>1 DEF IInv, Typed, Configured
<1>5. Within'
  <2>1. ASSUME NEW v \in Keepers PROVE pc'[v] < Len(KeptBy(v)')
    <3>1. KeptBy(v)' = KeptBy(v)
      BY <1>1, KeptByStays
    <3>2. pc'[v] = IF v = w THEN n ELSE pc[v]
      BY <1>0 DEF TypeOK
    <3> QED BY <3>1, <3>2 DEF IInv, Typed, Within
  <2> QED BY <2>1 DEF Within
<1>6. \A v : Watching(v)' <=> Watching(v)
  BY <1>1 DEF Watching
<1>7. Cached'
  BY <1>6 DEF IInv, Cached, KeeperOf
<1>8. ASSUME NEW v \in Keepers PROVE DoneFor(v)'
  <2>1. CASE v # w
    <3>1. queued'[v] = queued[v] /\ pc'[v] = pc[v]
      BY <1>0, <2>1 DEF TypeOK
    <3>2. ASSUME NEW x \in Objects, KeeperOf(x) = v, Holds(x) PROVE Holds(x)'
      <4>1. x # o
        BY <2>1, <3>2
      <4>2. obj'[x] = obj[x] /\ fresh'[x] = fresh[x] /\ (x \in missed => x \in missed')
        BY <4>1
      <4> QED BY <1>1, <3>2, <4>2, HoldsStays
    <3> QED BY <1>0, <1>1, <1>6, <3>1, <3>2, DoneStays DEF IInv, Done
  <2> QED BY <2>1
<1> QED BY <1>3, <1>4, <1>5, <1>7, <1>8 DEF IInv, Typed, Done

(* The object a keeper is at *)
LEMMA AtIsKept ==
  ASSUME IInv, NEW w \in Keepers
  PROVE  /\ At(w) \in 1..Len(KeptBy(w)) /\ At(w) \in Nat /\ pc[w] \in Nat
         /\ Nth(w, At(w), KeptBy(w)[At(w)])
         /\ KeptBy(w)[At(w)] \in Objects /\ KeeperOf(KeptBy(w)[At(w)]) = w
         /\ At(w) # Len(KeptBy(w)) => At(w) < Len(KeptBy(w))
<1> DEFINE m == Len(KeptBy(w))
<1>1. m \in 1..5 /\ pc[w] < m /\ pc[w] \in 0..4
  BY EnvIsEnv, KeptByFacts DEF IInv, Typed, Within, TypeOK
<1> HIDE DEF m
<1>2. At(w) \in 1..m /\ At(w) \in Nat /\ pc[w] \in Nat /\ (At(w) # m => At(w) < m)
  BY <1>1 DEF At
<1>3. Nth(w, At(w), KeptBy(w)[At(w)])
  BY <1>2 DEF Nth, m
<1>4. KeptBy(w)[At(w)] \in Objects /\ KeeperOf(KeptBy(w)[At(w)]) = w
  BY <1>3, NthKeeper DEF IInv, Typed
<1> QED BY <1>2, <1>3, <1>4 DEF m

LEMMA FailedIInv ==
  ASSUME IInv, NEW w \in Keepers, Fail(w), UNCHANGED procVars,
         UNCHANGED <<obj, cobj, fresh, missed, hcp, chcp, metric>>, budget' \in Nat
  PROVE  IInv'
<1>0. TypeOK
  BY DEF IInv, Typed
<1>1. PICK o \in Objects : KeeperOf(o) = w
  BY AtIsKept
<1>2. 0 < Len(KeptBy(w))
  BY <1>0, EnvIsEnv, ZeroIsWithin
<1>3. pc' = [pc EXCEPT ![w] = 0] /\ queued' = [queued EXCEPT ![w] = TRUE]
  BY DEF Fail
<1>4. queued'[w]
  BY <1>0, <1>3 DEF TypeOK
<1>5. DoneFor(w)'
  BY <1>4 DEF DoneFor
<1>6. obj' \in [Objects -> Object] /\ fresh' \in [Objects -> BOOLEAN]
  BY <1>0 DEF TypeOK
<1> QED BY <1>1, <1>2, <1>3, <1>5, <1>6, KeeperStep

(* A keeper goes on once the object it is at holds. *)
LEMMA AdvancedIInv ==
  ASSUME IInv, NEW w \in Keepers, Works(w), Advance(w), NEW o, o = KeptBy(w)[At(w)],
         obj' \in [Objects -> Object], fresh' \in [Objects -> BOOLEAN], missed' \subseteq missed,
         \A x \in Objects : ~fresh'[x] \/ (obj'[x] = obj[x] /\ fresh'[x] = fresh[x]),
         \A x \in Objects : x # o => /\ obj'[x] = obj[x] /\ fresh'[x] = fresh[x]
                                     /\ x \in missed => x \in missed',
         Holds(o)', UNCHANGED procVars, UNCHANGED <<cobj, hcp, chcp, metric, budget>>
  PROVE  IInv'
<1>0. TypeOK
  BY DEF IInv, Typed
<1>1. o \in Objects /\ KeeperOf(o) = w /\ At(w) \in Nat /\ pc[w] \in Nat
  BY AtIsKept
<1> DEFINE m == Len(KeptBy(w))
           n == IF At(w) = m THEN 0 ELSE At(w)
           q == StillQueued(w)
<1>2. pc' = [pc EXCEPT ![w] = n] /\ queued' = [queued EXCEPT ![w] = q]
  BY DEF Advance
<1>3. q \in BOOLEAN
  BY DEF StillQueued
<1>4. n \in Nat /\ n < m
  <2>1. 0 < m
    BY <1>0, EnvIsEnv, ZeroIsWithin
  <2>2. At(w) # m => At(w) < m
    BY AtIsKept
  <2> HIDE DEF m
  <2> QED BY <1>1, <2>1, <2>2
<1>5. env' = env /\ Watching(w)
  BY DEF procVars, Works
<1>6. queued'[w] = q /\ pc'[w] = n
  BY <1>0, <1>2 DEF TypeOK
<1>7. ASSUME ~q, NEW x \in Objects, NEW i \in Nat, Nth(w, i, x)', n = 0 \/ i <= n PROVE Holds(x)'
  <2>1. Nth(w, i, x) /\ i \in 1..m /\ KeptBy(w)[i] = x
    <3>1. Nth(w, i, x)
      BY <1>5, <1>7, NthStays, Zenon
    <3> QED BY <3>1, Zenon DEF Nth
  <2>2. i <= At(w)
    <3>1. CASE At(w) = m
      BY <2>1, <3>1 DEF m
    <3>2. CASE At(w) # m
      <4>1. n = At(w) /\ n # 0
        BY <1>1, <3>2 DEF At
      <4> QED BY <1>7, <4>1
    <3> QED BY <3>1, <3>2
  <2>3. CASE x = o
    BY <2>3
  <2>4. CASE x # o
    <3>1. i # At(w)
      BY <2>1, <2>4
    <3>2. i >= 1 /\ i <= pc[w]
      BY <1>1, <2>1, <2>2, <3>1 DEF At
    <3>3. pc[w] # 0
      BY <1>1, <3>2
    <3>4. ~queued[w]
      BY <1>7, <3>3 DEF StillQueued
    <3>5. Holds(x)
      BY <1>5, <2>1, <3>2, <3>4 DEF IInv, Done, DoneFor
    <3>6. obj'[x] = obj[x] /\ fresh'[x] = fresh[x] /\ (x \in missed => x \in missed')
      BY <2>4
    <3> QED BY <1>5, <3>5, <3>6, HoldsStays
  <2> QED BY <2>3, <2>4
<1> HIDE DEF n, q
<1>8. DoneFor(w)'
  BY <1>6, <1>7 DEF DoneFor
<1>9. budget' \in Nat
  BY <1>0 DEF TypeOK
<1> QED BY <1>1, <1>2, <1>3, <1>4, <1>8, <1>9, KeeperStep DEF m

LEMMA ApplyIInv == ASSUME IInv, NEW w \in Keepers, Apply(w) PROVE IInv'
<1>0. TypeOK
  BY DEF IInv, Typed
<1>1. PICK o : o = KeptBy(w)[At(w)]
  OBVIOUS
<1>2. o \in Objects /\ KeeperOf(o) = w
  BY <1>1, AtIsKept
<1> DEFINE to == [spec |-> Desired(o, chcp), gen |-> NextGen(o)]
<1>3. /\ Works(w) /\ UNCHANGED procVars /\ UNCHANGED <<cobj, hcp, chcp, metric, budget>>
      /\ \/ ~Wanted(o, chcp) /\ Advance(w) /\ UNCHANGED <<obj, fresh, missed>>
         \/ Wanted(o, chcp) /\ ~Writes(o) /\ Advance(w) /\ UNCHANGED <<obj, fresh, missed>>
         \/ Put(o, to) /\ missed' = missed \ {o} /\ Advance(w)
         \/ Fail(w) /\ UNCHANGED <<obj, fresh, missed>>
  BY <1>1 DEF Apply
<1>4. env' = env /\ chcp' = chcp /\ Watching(w)
  BY <1>3 DEF procVars, Works
<1>5. Wanted(o, chcp)' = Wanted(o, chcp) /\ Desired(o, chcp)' = Desired(o, chcp)
  BY <1>4 DEF Wanted, WantsDefault, Desired, DefaultNodeClass
<1>6. ASSUME Advance(w), UNCHANGED <<obj, fresh, missed>>, Holds(o)' PROVE IInv'
  <2>1. obj' \in [Objects -> Object] /\ fresh' \in [Objects -> BOOLEAN] /\ missed' \subseteq missed
    BY <1>0, <1>6 DEF TypeOK
  <2>2. \A x \in Objects : /\ obj'[x] = obj[x] /\ fresh'[x] = fresh[x]
                           /\ x \in missed => x \in missed'
    BY <1>6
  <2> QED BY <1>1, <1>3, <1>6, <2>1, <2>2, AdvancedIInv
<1>7. CASE ~Wanted(o, chcp) /\ Advance(w) /\ UNCHANGED <<obj, fresh, missed>>
  <2>1. Holds(o)'
    BY <1>5, <1>7 DEF Holds
  <2> QED BY <1>6, <1>7, <2>1
<1>8. CASE Wanted(o, chcp) /\ ~Writes(o) /\ Advance(w) /\ UNCHANGED <<obj, fresh, missed>>
  <2>1. cobj[o].spec = Desired(o, chcp)
    BY <1>8 DEF Writes
  <2>2. fresh[o] => cobj[o] = obj[o]
    BY <1>2, <1>4 DEF IInv, Cached
  <2>3. Holds(o)'
    BY <1>5, <1>8, <2>1, <2>2 DEF Holds
  <2> QED BY <1>6, <1>8, <2>3
<1>9. CASE Put(o, to) /\ missed' = missed \ {o} /\ Advance(w)
  <2>1. to \in Object /\ to.spec = Desired(o, chcp)
    BY <1>0, <1>2, DesiredIsSpec, NextGenIsNat, NewObject DEF TypeOK
  <2> HIDE DEF to
  <2>2. \/ obj[o].spec = to.spec /\ obj' = obj /\ fresh' = fresh
        \/ obj' = [obj EXCEPT ![o] = to] /\ fresh' = [fresh EXCEPT ![o] = FALSE]
    BY <1>9 DEF Put, Write
  <2>3. obj' \in [Objects -> Object] /\ fresh' \in [Objects -> BOOLEAN] /\ missed' \subseteq missed
    BY <1>0, <1>9, <2>1, <2>2 DEF TypeOK
  <2>4. \A x \in Objects : ~fresh'[x] \/ (obj'[x] = obj[x] /\ fresh'[x] = fresh[x])
    BY <1>0, <2>2 DEF TypeOK
  <2>5. \A x \in Objects : x # o => /\ obj'[x] = obj[x] /\ fresh'[x] = fresh[x]
                                    /\ x \in missed => x \in missed'
    BY <1>0, <1>9, <2>2 DEF TypeOK
  <2>6. obj'[o].spec = Desired(o, chcp)
    BY <1>0, <1>2, <2>1, <2>2 DEF TypeOK
  <2>7. Holds(o)'
    BY <1>5, <2>6 DEF Holds
  <2> QED BY <1>1, <1>3, <1>9, <2>3, <2>4, <2>5, <2>7, AdvancedIInv
<1>10. CASE Fail(w) /\ UNCHANGED <<obj, fresh, missed>>
  <2>1. budget' \in Nat
    BY <1>0, <1>3 DEF TypeOK
  <2> QED BY <1>3, <1>10, <2>1, FailedIInv
<1> QED BY <1>3, <1>7, <1>8, <1>9, <1>10

LEMMA ApplyFailsIInv == ASSUME IInv, NEW w \in Keepers, ApplyFails(w) PROVE IInv'
<1>1. TypeOK
  BY DEF IInv, Typed
<1> QED BY <1>1, SpendType, FailedIInv DEF ApplyFails

-----------------------------------------------------------------------------
(* Results *)

LEMMA StutterIInv == ASSUME IInv, UNCHANGED vars PROVE IInv'
<1>1. TypeOK
  BY DEF IInv, Typed
<1>2. UNCHANGED procVars /\ UNCHANGED <<cobj, missed, chcp, queued, pc, metric>>
  BY DEF vars, procVars
<1>3. obj' = obj /\ fresh' = fresh /\ hcp' = hcp /\ budget' = budget
  BY DEF vars
<1>4. /\ obj' \in [Objects -> Object] /\ fresh' \in [Objects -> BOOLEAN] /\ hcp' \in HCP /\ budget' \in Nat
      /\ \A o \in Objects : ~fresh'[o] \/ (obj'[o] = obj[o] /\ fresh'[o] = fresh[o])
  BY <1>1, <1>3 DEF TypeOK
<1> QED BY <1>2, <1>4, DisturbedIInv

LEMMA InitIInv == ASSUME Init PROVE IInv
<1>1. \A w : ~Watching(w)
  BY DEF Init, Watching
<1>2. Cached /\ Done
  BY <1>1 DEF Cached, Done, DoneFor
<1> QED BY <1>2, InitTyped DEF IInv

LEMMA Invariance == Spec => []IInv
<1>1. Init => IInv
  BY InitIInv
<1>2. IInv /\ [Next]_vars => IInv'
  <2> SUFFICES ASSUME IInv, [Next]_vars PROVE IInv'
    OBVIOUS
  <2>1. CASE Start \/ RetryMetric \/ Crash \/ \E c \in Waiting : SyncTimeout(c)
    BY <2>1, StartIInv, RetryMetricIInv, ExitIInv DEF Crash, SyncTimeout
  <2>2. CASE SyncOthers \/ \E w \in Keepers : SyncKeeper(w)
    BY <2>2, SyncOthersIInv, SyncKeeperIInv
  <2>3. CASE \/ \E o \in Touched : EditObject(o) \/ DeleteObject(o)
             \/ \E k \in Touched \cap Kinds : ReplaceCRD(k)
             \/ SetProvisioner \/ SetE2EOverride \/ SetInfraID \/ RemoveHCP
    BY <2>3, UsersIInv
  <2>4. CASE DeliverHCP \/ Relist \/ \E os \in Informers : Deliver(os)
    BY <2>4, DeliverHCPIInv, RelistIInv, DeliverIInv
  <2>5. CASE \E w \in Keepers : Apply(w) \/ ApplyFails(w)
    BY <2>5, ApplyIInv, ApplyFailsIInv
  <2>6. CASE UNCHANGED vars
    BY <2>6, StutterIInv
  <2> QED BY <2>1, <2>2, <2>3, <2>4, <2>5, <2>6, Zenon DEF Next
<1> QED BY <1>1, <1>2, PTL DEF Spec

(* Every variable keeps its type: no keeper leaves its list of objects, and  *)
(* only controllers of the process have synced.                              *)
THEOREM TypeCorrect == Spec => []TypeOK
<1>1. IInv => TypeOK
  BY DEF IInv, Typed
<1> QED BY <1>1, Invariance, PTL

(* A process that failed was misconfigured, and one that is up is not and    *)
(* runs every part; no controller waits for a kind that nobody installs.     *)
StartsAsConfigured ==
    /\ proc = "failed" => Misconfigured
    /\ proc = "up" => ~Misconfigured /\ running = Parts /\ \A c \in running : AwaitsOnlyItsOwn(c)

(* For every setting of the flags and the environment, LoadEnv, Validate,    *)
(* discoverInfrastructure and GetCloudProvider together refuse exactly the   *)
(* configurations that are no good; NewControllers leaves no part out; and   *)
(* the kinds that controllers watch are in karpenterCRDs, so that the        *)
(* process cannot wait for itself.                                           *)
THEOREM StartsAsConfiguredTheorem == Spec => []StartsAsConfigured
<1>1. IInv => StartsAsConfigured
  <2> SUFFICES ASSUME IInv PROVE StartsAsConfigured
    OBVIOUS
  <2>1. env \in Env
    BY EnvIsEnv DEF IInv, Typed
  <2>2. proc = "failed" => Misconfigured
    BY <2>1, RunsUnlessMisconfigured DEF IInv, Typed, Configured
  <2>3. ASSUME proc = "up"
        PROVE  ~Misconfigured /\ running = Parts /\ \A c \in running : AwaitsOnlyItsOwn(c)
    <3>1. Runs(env) /\ running = ControllersToRun(env)
      BY <2>3 DEF IInv, Typed, Configured
    <3> QED BY <2>1, <3>1, RunsUnlessMisconfigured, AllPartsRun, NothingElseAwaited
  <2> QED BY <2>2, <2>3 DEF StartsAsConfigured
<1> QED BY <1>1, Invariance, PTL

(* A keeper that is at rest, with the HostedControlPlane current in its cache. *)
AtRest(w) == Watching(w) /\ ~queued[w] /\ pc[w] = 0 /\ chcp = hcp

(* At rest, every wanted object that the cache has as it is, is as it is to  *)
(* be, save a CRD replaced in a gap of the watch.                            *)
KeptAtRest ==
    \A w \in Keepers : AtRest(w) =>
        \A o \in ToSet(KeptBy(w)) :
            fresh[o] /\ Wanted(o, hcp) => obj[o].spec = Desired(o, hcp) \/ o \in missed

(* No keeper goes to sleep over an object that is not as desired: what the   *)
(* predicates drop, a CreateOrUpdate that compares with a cached copy, a     *)
(* failure half-way through the list, and a start without any event never    *)
(* leave one behind, but for the generation predicate of CRDs.               *)
THEOREM KeptAtRestTheorem == Spec => []KeptAtRest
<1>1. IInv => KeptAtRest
  <2> SUFFICES ASSUME IInv, NEW w \in Keepers, AtRest(w), NEW o \in ToSet(KeptBy(w)), fresh[o],
                      Wanted(o, hcp)
               PROVE  obj[o].spec = Desired(o, hcp) \/ o \in missed
    BY DEF KeptAtRest
  <2> DEFINE s == KeptBy(w)
  <2>1. s \in Seq(Objects)
    BY EnvIsEnv, KeptByFacts DEF IInv, Typed
  <2> HIDE DEF s
  <2>2. PICK i \in 1..Len(s) : s[i] = o
    BY <2>1 DEF ToSet, s
  <2>3. i \in Nat /\ Nth(w, i, o)
    BY <2>1, <2>2 DEF Nth, s
  <2>4. o \in Objects
    BY <2>3, NthKeeper DEF IInv, Typed
  <2>5. Holds(o)
    BY <2>3, <2>4 DEF IInv, Done, DoneFor, AtRest
  <2> QED BY <2>5 DEF Holds, AtRest
<1> QED BY <1>1, Invariance, PTL
=============================================================================
