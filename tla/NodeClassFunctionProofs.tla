---------------------- MODULE NodeClassFunctionProofs ----------------------
(***************************************************************************)
(* Proofs about what the NodeClass controllers compute: SyncConditions,    *)
(* for any condition types of the provider and any transition times, and   *)
(* the translation of an OpenshiftEC2NodeClass.  Of the translation TLC    *)
(* checks specs in which one facet varies, with short lists; the lemmas    *)
(* here are about every spec that the CRD admits: all facets at once,      *)
(* lists of any length and any numbers.                                    *)
(***************************************************************************)
EXTENDS MCEC2Translation, FiniteSetTheorems, TLAPS

-----------------------------------------------------------------------------
(* SyncConditions.  All rests on one fact: the provider says nothing about   *)
(* the types of the ignition controller, so the version that Ready depends   *)
(* on is the same before and after a sync.                                   *)

(* The conditions stay well-typed and the provider's stay the provider's. *)
Typed == conditions \in Conditions /\ provider \in ProviderConditions

(* The synced conditions, type by type: the definition of SyncConditions    *)
(* without its intermediate list.                                           *)
LEMMA SyncedByType ==
    ASSUME NEW c \in Conditions, NEW p \in ProviderConditions
    PROVE  LET s == SyncConditions(c, p)
           IN  /\ s \in Conditions
               /\ \A t \in IgnitionTypes : s[t] = c[t]
               /\ \A t \in ProviderTypes :
                     s[t] = IF p[t].status # "None" THEN SetStatusCondition(c[t], p[t]) ELSE c[t]
               /\ s["Ready"] =
                     IF c["VersionResolved"].status # "True"
                       THEN SetStatusCondition(c["Ready"], NotReady)
                     ELSE IF p["Ready"].status # "None"
                       THEN SetStatusCondition(c["Ready"], p["Ready"])
                     ELSE c["Ready"]
<1> DEFINE s == SyncConditions(c, p)
           copied == [t \in CondTypes |->
                         IF t # "Ready" /\ p[t].status # "None"
                           THEN SetStatusCondition(c[t], p[t]) ELSE c[t]]
           ready == IF copied["VersionResolved"].status # "True"
                      THEN SetStatusCondition(c["Ready"], NotReady)
                    ELSE IF p["Ready"].status # "None"
                      THEN SetStatusCondition(c["Ready"], p["Ready"])
                    ELSE c["Ready"]
<1>1. s = [copied EXCEPT !["Ready"] = ready]
  BY DEF SyncConditions
<1>2. NotReady \in Condition
  BY NowIsATime DEF NotReady, Condition
<1>3. p \in Conditions
  BY DEF ProviderConditions
<1>4. ready \in Condition
  BY <1>2, <1>3 DEF Conditions, CondTypes, SetStatusCondition
<1>5. copied \in Conditions
  BY <1>3 DEF Conditions, SetStatusCondition
<1>6. s \in Conditions
  BY <1>1, <1>4, <1>5 DEF Conditions
<1>7. \A t \in CondTypes : s[t] = IF t = "Ready" THEN ready ELSE copied[t]
  BY <1>1, <1>5 DEF Conditions
<1>8. \A t \in IgnitionTypes : copied[t] = c[t] /\ s[t] = c[t]
  <2>1. \A t \in IgnitionTypes : p[t].status = "None"
    BY DEF ProviderConditions, NoCondition
  <2>2. \A t \in IgnitionTypes : t \in CondTypes /\ t # "Ready"
    BY DEF IgnitionTypes, CondTypes
  <2>3. \A t \in IgnitionTypes : copied[t] = c[t]
    BY <2>1, <2>2
  <2> HIDE DEF s, copied, ready
  <2>4. QED
    BY <1>7, <2>2, <2>3
<1>9. \A t \in ProviderTypes :
         s[t] = IF p[t].status # "None" THEN SetStatusCondition(c[t], p[t]) ELSE c[t]
  BY <1>7, ConditionTypesAreDistinct DEF CondTypes
<1>10. s["Ready"] = ready /\ copied["VersionResolved"] = c["VersionResolved"]
  BY <1>7, <1>8 DEF CondTypes, IgnitionTypes
<1> HIDE DEF s, copied
<1>11. QED
  BY <1>6, <1>8, <1>9, <1>10 DEF s

(* Every state of the specification is typed. *)
LEMMA AlwaysTyped == Spec => []Typed
<1>1. Init => Typed
  BY DEF Init, Typed
<1>2. Typed /\ [Sync]_vars => Typed'
  BY SyncedByType DEF Typed, Sync, vars
<1>3. QED
  BY <1>1, <1>2, PTL DEF Spec

(* After a sync the NodeClass is Ready exactly when its version is resolved  *)
(* and the provider NodeClass is ready, or has not said and it was Ready:    *)
(* the two places where SyncConditions touches Ready never disagree.         *)
THEOREM ReadyMeansBothReadyTheorem == Spec => []ReadyMeansBothReady
<1>1. Typed => ReadyMeansBothReady
  <2> SUFFICES ASSUME Typed PROVE ReadyMeansBothReady
    OBVIOUS
  <2> DEFINE s == SyncConditions(conditions, provider)
  <2>1. s["Ready"] =
           IF conditions["VersionResolved"].status # "True"
             THEN SetStatusCondition(conditions["Ready"], NotReady)
           ELSE IF provider["Ready"].status # "None"
             THEN SetStatusCondition(conditions["Ready"], provider["Ready"])
           ELSE conditions["Ready"]
    BY SyncedByType DEF Typed
  <2> HIDE DEF s
  <2>2. s["Ready"].status = "True" <=>
           /\ conditions["VersionResolved"].status = "True"
           /\ \/ provider["Ready"].status = "True"
              \/ provider["Ready"].status = "None" /\ conditions["Ready"].status = "True"
    BY <2>1 DEF SetStatusCondition, NotReady
  <2>3. QED
    BY <2>2 DEF ReadyMeansBothReady, s
<1>2. QED
  BY <1>1, AlwaysTyped, PTL

(* SyncConditions is a projection: what the controller writes it finds in    *)
(* order when its own write wakes it, so it does not write again.            *)
THEOREM SyncIsAFixedPointTheorem == Spec => []SyncIsAFixedPoint
<1>1. Typed => SyncIsAFixedPoint
  <2> SUFFICES ASSUME Typed PROVE SyncIsAFixedPoint
    OBVIOUS
  <2> DEFINE p == provider
             once == SyncConditions(conditions, p)
             twice == SyncConditions(once, p)
  <2>1. once \in Conditions /\ twice \in Conditions
    BY SyncedByType DEF Typed
  <2>2. \A t \in IgnitionTypes : once[t] = conditions[t] /\ twice[t] = once[t]
    BY <2>1, SyncedByType DEF Typed
  <2>3. \A t \in ProviderTypes :
           /\ once[t] = IF p[t].status # "None"
                          THEN SetStatusCondition(conditions[t], p[t]) ELSE conditions[t]
           /\ twice[t] = IF p[t].status # "None"
                           THEN SetStatusCondition(once[t], p[t]) ELSE once[t]
    BY <2>1, SyncedByType DEF Typed
  <2>4. /\ once["Ready"] =
             IF conditions["VersionResolved"].status # "True"
               THEN SetStatusCondition(conditions["Ready"], NotReady)
             ELSE IF p["Ready"].status # "None"
               THEN SetStatusCondition(conditions["Ready"], p["Ready"])
             ELSE conditions["Ready"]
        /\ twice["Ready"] =
             IF once["VersionResolved"].status # "True"
               THEN SetStatusCondition(once["Ready"], NotReady)
             ELSE IF p["Ready"].status # "None"
               THEN SetStatusCondition(once["Ready"], p["Ready"])
             ELSE once["Ready"]
    BY <2>1, SyncedByType DEF Typed
  <2> HIDE DEF once, twice, p
  <2>5. \A t \in ProviderTypes : twice[t] = once[t]
    BY <2>3 DEF SetStatusCondition
  <2>6. twice["Ready"] = once["Ready"]
    BY <2>2, <2>4 DEF SetStatusCondition, IgnitionTypes
  <2>7. \A t \in CondTypes : twice[t] = once[t]
    BY <2>2, <2>5, <2>6 DEF CondTypes
  <2>8. twice = once
    BY <2>1, <2>7 DEF Conditions
  <2>9. QED
    BY <2>8 DEF SyncIsAFixedPoint, once, twice, p
<1>2. QED
  BY <1>1, AlwaysTyped, PTL

(* No sync moves a transition time without a change of status, nor writes a  *)
(* condition of the ignition controller.                                     *)
THEOREM TransitionTimesKeptTheorem == Spec => TransitionTimesKept
<1> DEFINE Kept == \A t \in CondTypes :
                      \/ conditions'[t] = conditions[t]
                      \/ conditions'[t].status # conditions[t].status /\ t \notin IgnitionTypes
<1>1. Typed /\ [Sync]_vars => [Kept]_vars
  <2> SUFFICES ASSUME Typed, Sync PROVE Kept
    BY DEF vars
  <2> DEFINE s == SyncConditions(conditions, provider)
  <2>1. conditions' = s
    BY DEF Sync
  <2>2. \A t \in IgnitionTypes : s[t] = conditions[t]
    BY SyncedByType DEF Typed
  <2>3. \A t \in ProviderTypes :
           s[t] = conditions[t] \/ s[t].status # conditions[t].status
    BY SyncedByType DEF Typed, SetStatusCondition
  <2>4. s["Ready"] = conditions["Ready"] \/ s["Ready"].status # conditions["Ready"].status
    BY SyncedByType DEF Typed, SetStatusCondition
  <2> HIDE DEF s
  <2>5. QED
    BY <2>1, <2>2, <2>3, <2>4, ConditionTypesAreDistinct DEF CondTypes, IgnitionTypes
<1>2. QED
  BY <1>1, AlwaysTyped, PTL DEF Spec, TransitionTimesKept

-----------------------------------------------------------------------------
(* Specs *)

(* STRING; the literals are listed because provers do not know them to be strings. *)
Text ==
    STRING \cup {"memory", "nodefs", "2m", "unparsable", "x", "a", "b", "cluster", "cluster-dotted",
                 "nodepool"}

Quantities == {"quantity", "malformed", "negative", "empty"}
ThresholdType == [form : {"percent", "quantity", "other"}, n : Int]

DocumentType ==
    [maxPods : Opt(Int), podsPerCore : Opt(Int),
     systemReserved : Opt(Quantities), kubeReserved : Opt(Quantities),
     evictionHard : Opt(PartialFunctions(Text, ThresholdType)),
     evictionSoft : Opt(PartialFunctions(Text, ThresholdType)),
     evictionSoftGracePeriod : Opt(PartialFunctions(Text, Text)),
     evictionMaxPodGracePeriod : Opt(Int), imageGCHighThresholdPercent : Opt(Int),
     imageGCLowThresholdPercent : Opt(Int), cpuCFSQuota : Opt(BOOLEAN),
     MaxPods : Opt(Int), maxpods : Opt(Int), other : Opt(Text)]

ReservationTermType ==
    [fields : SUBSET {"tags", "id", "ownerID"}, criteria : {Unset, "Open", "Targeted"}]

DeviceType ==
    [rootVolume : {Unset, "RootVolume", "NotRootVolume"}, deleteOnTermination : {Unset, "Delete", "Retain"},
     encrypted : {Unset, "Encrypted", "Unencrypted"}, snapshot : BOOLEAN, sizeGiB : Int,
     volumeType : {Unset, "Standard", "IO1", "IO2", "GP2", "SC1", "ST1", "GP3"}]

MetadataOptionsType ==
    [access : {Unset, "HTTPEndpoint", "None"}, httpIPProtocol : {Unset, "IPv4", "IPv6"},
     hopLimit : Int, httpTokens : {Unset, "Required", "Optional"}]

TagType == [key : Text, value : Values, allow : BOOLEAN]

SpecTyped ==
    /\ spec.subnetSelectorTerms \in Seq(SUBSET {"tags", "id"})
    /\ spec.securityGroupSelectorTerms \in Seq(SUBSET {"tags", "id", "name"})
    /\ spec.capacityReservationSelectorTerms \in Seq(ReservationTermType)
    /\ spec.blockDeviceMappings \in Seq(DeviceType)
    /\ spec.metadataOptions \in MetadataOptionsType
    /\ spec.kubelet \in DocumentType
    /\ hcp.resourceTags \in Seq(TagType)

Given == SpecTyped /\ SpecAdmitted(spec)

(* Unset is none of the values of an enum. *)
LEMMA UnsetIsNoValue ==
    Unset \notin {"Open", "Targeted", "open", "targeted", "RootVolume", "NotRootVolume", "Delete", "Retain",
                  "Encrypted", "Unencrypted", "HTTPEndpoint", "None", "IPv4", "IPv6", "Required",
                  "Optional", "Standard", "IO1", "IO2", "GP2", "SC1", "ST1", "GP3"}
  BY Zenon DEF Unset

-----------------------------------------------------------------------------
(* Tags.  If every key is given once, the first tag of a key is the last one  *)
(* and the only one that may allow to override it.                            *)
LEMMA TheTagOfAKey ==
  ASSUME NEW platform \in Seq(TagType),
         \A i, j \in DOMAIN platform : platform[i].key = platform[j].key => i = j,
         NEW k \in PlatformKeys(platform)
  PROVE  /\ FirstTag(platform, k).value = PlatformValue(platform, k)
         /\ FirstTag(platform, k).allow <=> AllowOverride(platform, k)
<1>1. PICK n \in DOMAIN platform : platform[n].key = k
  BY DEF PlatformKeys
<1>2. \A i \in DOMAIN platform : platform[i].key = k <=> i = n
  BY <1>1
<1>3. DOMAIN platform \subseteq Int
  OBVIOUS
<1>4. FirstTag(platform, k) = platform[n]
  BY <1>1, <1>2, <1>3 DEF FirstTag
<1>5. PlatformValue(platform, k) = platform[n].value
  BY <1>1, <1>2, <1>3 DEF PlatformValue
<1>6. AllowOverride(platform, k) <=> platform[n].allow
  BY <1>1, <1>2 DEF AllowOverride
<1> QED BY <1>4, <1>5, <1>6

LEMMA ConflictOfTags == Given => ConflictIsReported
<1> DEFINE tags == spec.tags
           platform == hcp.resourceTags
           applied == mergeEC2NodeClassTags(tags, platform)
           condition == setAWSResourceTagConflictCondition(tags, platform)
<1> SUFFICES ASSUME Given, \A i, j \in DOMAIN platform : platform[i].key = platform[j].key => i = j
             PROVE  condition = "True" <=>
                      \E k \in DOMAIN tags : k \notin DOMAIN applied \/ applied[k] # tags[k]
  BY DEF ConflictIsReported, Translated, ec2NodeClassSpec
<1>1. platform \in Seq(TagType) /\ TagsAdmitted(tags)
  BY DEF Given, SpecTyped, SpecAdmitted
<1> HIDE DEF tags, platform
<1>2. ASSUME NEW k \in DOMAIN tags
      PROVE  /\ k \in DOMAIN applied
             /\ applied[k] = IF k \in PlatformKeys(platform) => AllowOverride(platform, k)
                             THEN tags[k] ELSE PlatformValue(platform, k)
  BY <1>1 DEF mergeEC2NodeClassTags, filterRestrictedTags, TagsAdmitted, RestrictedByRule,
              RestrictedByPattern
<1>3. \A k \in DOMAIN tags :
         (k \notin DOMAIN applied \/ applied[k] # tags[k]) <=>
           (k \in PlatformKeys(platform) /\ FirstTag(platform, k).value # tags[k]
              /\ ~FirstTag(platform, k).allow)
  BY <1>1, <1>2, TheTagOfAKey
<1>4. condition = "True" <=>
        \E k \in DOMAIN tags \cap PlatformKeys(platform) :
           FirstTag(platform, k).value # tags[k] /\ ~FirstTag(platform, k).allow
  <2>1. platform = <<>> => PlatformKeys(platform) = {}
    BY DEF PlatformKeys
  <2> QED BY <2>1 DEF setAWSResourceTagConflictCondition
<1> QED BY <1>3, <1>4

-----------------------------------------------------------------------------
(* Enums *)

(* An option that is set overrides the default. *)
LEMMA LastOf == ASSUME NEW x, NEW y PROVE Last(<<x>> \o <<>>) = x /\ Last(<<x>> \o <<y>>) = y
  BY DEF Last

LEMMA LastOfSwitch ==
  ASSUME NEW default, NEW v, NEW a, NEW x, NEW b, NEW y
  PROVE  Last(<<default>> \o Switch(v, a, x, b, y)) =
           IF v = a THEN x ELSE IF v = b THEN y ELSE default
<1>1. CASE v = a
  BY <1>1, LastOf DEF Switch
<1>2. CASE v # a /\ v = b
  BY <1>2, LastOf DEF Switch
<1>3. CASE v # a /\ v # b
  BY <1>3, LastOf DEF Switch
<1> QED BY <1>1, <1>2, <1>3

LEMMA LastOfNumber ==
  ASSUME NEW default, NEW n PROVE Last(<<default>> \o OmitZero(n)) = IF n = 0 THEN default ELSE n
<1>1. CASE n = 0
  BY <1>1, LastOf DEF OmitZero
<1>2. CASE n # 0
  BY <1>2, LastOf DEF OmitZero
<1> QED BY <1>1, <1>2

LEMMA OneIsPresent == ASSUME NEW x PROVE Present(<<x>>) /\ Value(<<x>>) = x /\ ~Present(<<>>)
  BY DEF Present, Value

LEMMA EnumsOfASpec == Given => EnumsMeanTheSame
<1> SUFFICES ASSUME Given PROVE EnumsMeanTheSame
  OBVIOUS
<1> DEFINE mo == spec.metadataOptions
           u == karpenterMetadataOptions(mo)
           terms == spec.capacityReservationSelectorTerms
<1>1. mo \in MetadataOptionsType /\ terms \in Seq(ReservationTermType)
  BY DEF Given, SpecTyped
<1>2. Translated.metadataOptions = u
  BY DEF Translated, ec2NodeClassSpec
<1>3. Translated.capacityReservationSelectorTerms = karpenterCapacityReservationSelectorTerms(terms)
  BY DEF Translated, ec2NodeClassSpec
<1> HIDE DEF mo, terms
<1>4. MetadataDefaults(u) =
        [httpEndpoint |-> IF mo.access = "None" THEN "disabled" ELSE "enabled",
         httpProtocolIPv6 |-> IF mo.httpIPProtocol = "IPv6" THEN "enabled" ELSE "disabled",
         hopLimit |-> IF mo.hopLimit = 0 THEN 1 ELSE mo.hopLimit,
         httpTokens |-> IF mo.httpTokens = "Optional" THEN "optional" ELSE "required"]
  <2> DEFINE unset == [access |-> Unset, httpIPProtocol |-> Unset, hopLimit |-> 0, httpTokens |-> Unset]
  <2>1. CASE mo = unset
    <3>1. mo.access = Unset /\ mo.httpIPProtocol = Unset /\ mo.hopLimit = 0 /\ mo.httpTokens = Unset
      BY <2>1
    <3>2. u = <<>>
      BY <2>1 DEF karpenterMetadataOptions
    <3> HIDE DEF u
    <3> QED BY <3>1, <3>2, LastOf, OneIsPresent, UnsetIsNoValue DEF MetadataDefaults
  <2>2. CASE mo # unset
    <3>1. /\ Present(u)
          /\ u[1].httpEndpoint = Switch(mo.access, "HTTPEndpoint", "enabled", "None", "disabled")
          /\ u[1].httpProtocolIPv6 = Switch(mo.httpIPProtocol, "IPv6", "enabled", "IPv4", "disabled")
          /\ u[1].hopLimit = OmitZero(mo.hopLimit)
          /\ u[1].httpTokens = Switch(mo.httpTokens, "Required", "required", "Optional", "optional")
      BY <2>2, OneIsPresent DEF karpenterMetadataOptions, httpProtocolIPv6
    <3> HIDE DEF u
    <3>2. /\ mo.access \in {Unset, "HTTPEndpoint", "None"} /\ mo.httpIPProtocol \in {Unset, "IPv4", "IPv6"}
          /\ mo.httpTokens \in {Unset, "Required", "Optional"}
      BY <1>1 DEF MetadataOptionsType
    <3>3. /\ Last(<<"enabled">> \o Switch(mo.access, "HTTPEndpoint", "enabled", "None", "disabled")) =
               IF mo.access = "HTTPEndpoint" THEN "enabled"
               ELSE IF mo.access = "None" THEN "disabled" ELSE "enabled"
          /\ Last(<<"disabled">> \o Switch(mo.httpIPProtocol, "IPv6", "enabled", "IPv4", "disabled")) =
               IF mo.httpIPProtocol = "IPv6" THEN "enabled"
               ELSE IF mo.httpIPProtocol = "IPv4" THEN "disabled" ELSE "disabled"
          /\ Last(<<"required">> \o Switch(mo.httpTokens, "Required", "required", "Optional", "optional")) =
               IF mo.httpTokens = "Required" THEN "required"
               ELSE IF mo.httpTokens = "Optional" THEN "optional" ELSE "required"
      BY LastOfSwitch
    <3>4. Last(<<1>> \o u[1].hopLimit) = IF mo.hopLimit = 0 THEN 1 ELSE mo.hopLimit
      BY <3>1, LastOfNumber
    <3>5. /\ Last(<<"enabled">> \o u[1].httpEndpoint) =
               IF mo.access = "None" THEN "disabled" ELSE "enabled"
          /\ Last(<<"disabled">> \o u[1].httpProtocolIPv6) =
               IF mo.httpIPProtocol = "IPv6" THEN "enabled" ELSE "disabled"
          /\ Last(<<"required">> \o u[1].httpTokens) =
               IF mo.httpTokens = "Optional" THEN "optional" ELSE "required"
      BY <3>1, <3>2, <3>3
    <3> QED BY <3>1, <3>4, <3>5 DEF MetadataDefaults, Value
  <2> QED BY <2>1, <2>2
<1>5. \A r \in [criteria : {"open", "targeted"}, type : {"default", "capacity-block"},
                state : {"active", "expiring"}] :
         reservationStatus(r) \in [criteria : {"Open", "Targeted"}, type : {"Default", "CapacityBlock"},
                                   state : {"Active", "Expiring"}]
  BY DEF reservationStatus, upstreamInstanceMatchCriteria, upstreamReservationType,
         upstreamReservationState
<1>6. ASSUME NEW i \in DOMAIN terms, terms[i].criteria # Unset
      PROVE  upstreamInstanceMatchCriteria(
                 karpenterCapacityReservationSelectorTerms(terms)[i].criteria) = terms[i].criteria
  <2>1. terms[i] \in ReservationTermType
    BY <1>1
  <2>2. terms[i].criteria \in {"Open", "Targeted"}
    BY <1>6, <2>1 DEF ReservationTermType
  <2>3. karpenterCapacityReservationSelectorTerms(terms)[i].criteria = ToLower(terms[i].criteria)
    BY <1>6 DEF karpenterCapacityReservationSelectorTerms
  <2>4. ToLower("Open") = "open" /\ ToLower("Targeted") = "targeted"
    BY DEF ToLower
  <2>5. upstreamInstanceMatchCriteria("open") = "Open"
        /\ upstreamInstanceMatchCriteria("targeted") = "Targeted"
    BY DEF upstreamInstanceMatchCriteria
  <2> QED BY <2>2, <2>3, <2>4, <2>5
<1> QED BY <1>2, <1>3, <1>4, <1>5, <1>6 DEF EnumsMeanTheSame, mo, terms

-----------------------------------------------------------------------------
(* The kubelet section *)

LEMMA OptCases ==
  ASSUME NEW S, NEW x \in Opt(S) PROVE x = <<>> \/ (x = <<Value(x)>> /\ Value(x) \in S)
  BY DEF Opt, Value

(* Of the spellings of maxPods that a document has, the last one counts. *)
NumberOf(opt) == IF Present(opt) THEN Value(opt) ELSE 0

MaxPodsOf(d) ==
    IF Present(d.maxpods) THEN NumberOf(d.maxpods)
    ELSE IF Present(d.maxPods) THEN NumberOf(d.maxPods) ELSE NumberOf(d.MaxPods)

LEMMA NumberOfOpt ==
  ASSUME NEW x \in Opt(Int)
  PROVE  /\ NumberOf(x) \in Int /\ (~Present(x) => x = <<>> /\ NumberOf(x) = 0)
         /\ Present(x) => x = <<NumberOf(x)>> /\ Value(x) = NumberOf(x)
  BY OptCases DEF NumberOf, Present

(* Omitting a zero and reading it again gives the number. *)
LEMMA NumberOmitted ==
  ASSUME NEW n \in Int
  PROVE  /\ OmitZero(n) \in Opt(Int) /\ NumberOf(OmitZero(n)) = n
         /\ Present(OmitZero(n)) <=> n # 0
         /\ n # 0 => OmitZero(n) = <<n>>
         /\ n = 0 => OmitZero(n) = <<>>
<1>1. CASE n = 0
  BY <1>1, OneIsPresent DEF OmitZero, Opt, NumberOf
<1>2. CASE n # 0
  BY <1>2, OneIsPresent DEF OmitZero, Opt, NumberOf
<1> QED BY <1>1, <1>2

LEMMA LastOfSpellings ==
  ASSUME NEW S, NEW x \in Opt(S), NEW y \in Opt(S), NEW z \in Opt(S)
  PROVE  Last(<<0>> \o x \o y \o z) =
           IF Present(z) THEN Value(z) ELSE IF Present(y) THEN Value(y)
           ELSE IF Present(x) THEN Value(x) ELSE 0
<1> USE OptCases DEF Present
<1>1. CASE x = <<>> /\ y = <<>> /\ z = <<>>
  BY <1>1 DEF Last
<1>2. CASE x = <<>> /\ y = <<>> /\ z # <<>>
  BY <1>2 DEF Last
<1>3. CASE x = <<>> /\ y # <<>> /\ z = <<>>
  BY <1>3 DEF Last
<1>4. CASE x = <<>> /\ y # <<>> /\ z # <<>>
  BY <1>4 DEF Last
<1>5. CASE x # <<>> /\ y = <<>> /\ z = <<>>
  BY <1>5 DEF Last
<1>6. CASE x # <<>> /\ y = <<>> /\ z # <<>>
  BY <1>6 DEF Last
<1>7. CASE x # <<>> /\ y # <<>> /\ z = <<>>
  BY <1>7 DEF Last
<1>8. CASE x # <<>> /\ y # <<>> /\ z # <<>>
  BY <1>8 DEF Last
<1> QED BY <1>1, <1>2, <1>3, <1>4, <1>5, <1>6, <1>7, <1>8

(* What decoding makes of a document, whatever the receiver was. *)
DecodesTo(d, k) ==
    /\ k.maxPods = MaxPodsOf(d) /\ k.podsPerCore = NumberOf(d.podsPerCore)
    /\ k.systemReserved = d.systemReserved /\ k.kubeReserved = d.kubeReserved
    /\ k.evictionHard = d.evictionHard /\ k.evictionSoft = d.evictionSoft
    /\ k.evictionSoftGracePeriod = d.evictionSoftGracePeriod
    /\ k.evictionMaxPodGracePeriod = d.evictionMaxPodGracePeriod
    /\ k.imageGCHighThresholdPercent = d.imageGCHighThresholdPercent
    /\ k.imageGCLowThresholdPercent = d.imageGCLowThresholdPercent
    /\ k.cpuCFSQuota = d.cpuCFSQuota
    /\ k.overflow = [MaxPods |-> d.MaxPods, maxpods |-> d.maxpods, other |-> d.other]

LEMMA DecodedFields ==
  ASSUME NEW r, NEW d \in DocumentType, NEW k, k = UnmarshalJSON(r, d)
  PROVE  DecodesTo(d, k)
<1> DEFINE j == Decode(ZeroKubelet, d)
           rest == [MaxPods |-> d.MaxPods, maxpods |-> d.maxpods, other |-> d.other]
<1>1. /\ d.maxPods \in Opt(Int) /\ d.podsPerCore \in Opt(Int)
      /\ d.MaxPods \in Opt(Int) /\ d.maxpods \in Opt(Int)
  BY DEF DocumentType
<1>2. /\ j.maxPods = Last(<<0>> \o d.MaxPods \o d.maxPods \o d.maxpods)
      /\ j.podsPerCore = Last(<<0>> \o d.podsPerCore)
      /\ j.overflow = ZeroKubelet.overflow
  BY DEF Decode, ZeroKubelet
<1>3. j.maxPods = MaxPodsOf(d)
  BY <1>1, <1>2, LastOfSpellings DEF MaxPodsOf, NumberOf
<1>4. j.podsPerCore = NumberOf(d.podsPerCore)
  <2>1. CASE d.podsPerCore = <<>>
    BY <1>2, <2>1, LastOf DEF NumberOf, Present
  <2>2. CASE d.podsPerCore = <<Value(d.podsPerCore)>>
    BY <1>2, <2>2, LastOf, OneIsPresent DEF NumberOf
  <2> QED BY <1>1, <2>1, <2>2, OptCases
<1>5. /\ j.systemReserved = d.systemReserved /\ j.kubeReserved = d.kubeReserved
      /\ j.evictionHard = d.evictionHard /\ j.evictionSoft = d.evictionSoft
      /\ j.evictionSoftGracePeriod = d.evictionSoftGracePeriod
      /\ j.evictionMaxPodGracePeriod = d.evictionMaxPodGracePeriod
      /\ j.imageGCHighThresholdPercent = d.imageGCHighThresholdPercent
      /\ j.imageGCLowThresholdPercent = d.imageGCLowThresholdPercent
      /\ j.cpuCFSQuota = d.cpuCFSQuota
  BY DEF Decode, ZeroKubelet, Present
<1>6. k = IF rest = ZeroKubelet.overflow THEN j ELSE [j EXCEPT !.overflow = rest]
  BY DEF UnmarshalJSON, WithOverflow
<1>7. j = [maxPods |-> j.maxPods, podsPerCore |-> j.podsPerCore, systemReserved |-> j.systemReserved,
           kubeReserved |-> j.kubeReserved, evictionHard |-> j.evictionHard,
           evictionSoft |-> j.evictionSoft, evictionSoftGracePeriod |-> j.evictionSoftGracePeriod,
           evictionMaxPodGracePeriod |-> j.evictionMaxPodGracePeriod,
           imageGCHighThresholdPercent |-> j.imageGCHighThresholdPercent,
           imageGCLowThresholdPercent |-> j.imageGCLowThresholdPercent,
           cpuCFSQuota |-> j.cpuCFSQuota, overflow |-> j.overflow]
  BY DEF Decode
<1> HIDE DEF j, rest
<1>8. k.overflow = rest
  <2>1. CASE rest = ZeroKubelet.overflow
    BY <1>2, <1>6, <2>1
  <2>2. CASE rest # ZeroKubelet.overflow
    BY <1>6, <1>7, <2>2
  <2> QED BY <2>1, <2>2
<1>9. /\ k.maxPods = j.maxPods /\ k.podsPerCore = j.podsPerCore
      /\ k.systemReserved = j.systemReserved /\ k.kubeReserved = j.kubeReserved
      /\ k.evictionHard = j.evictionHard /\ k.evictionSoft = j.evictionSoft
      /\ k.evictionSoftGracePeriod = j.evictionSoftGracePeriod
      /\ k.evictionMaxPodGracePeriod = j.evictionMaxPodGracePeriod
      /\ k.imageGCHighThresholdPercent = j.imageGCHighThresholdPercent
      /\ k.imageGCLowThresholdPercent = j.imageGCLowThresholdPercent
      /\ k.cpuCFSQuota = j.cpuCFSQuota
  BY <1>6, <1>7
<1> QED BY <1>3, <1>4, <1>5, <1>8, <1>9 DEF rest, DecodesTo

(* Numbers and maps of an admitted document are not empty, so that leaving    *)
(* out what is empty loses nothing of them.                                    *)
LEMMA AdmittedDocument ==
  ASSUME NEW d \in DocumentType, KubeletAdmitted(d)
  PROVE  /\ Present(d.maxPods) => Value(d.maxPods) \in 1..2500
         /\ OmitZero(NumberOf(d.podsPerCore)) = d.podsPerCore
         /\ OmitEmpty(d.evictionHard) = d.evictionHard
         /\ OmitEmpty(d.evictionSoft) = d.evictionSoft
         /\ OmitEmpty(d.evictionSoftGracePeriod) = d.evictionSoftGracePeriod
<1>1. /\ Present(d.maxPods) => Value(d.maxPods) \in 1..2500
      /\ Present(d.podsPerCore) => Value(d.podsPerCore) \in 1..2500
  BY SMTT(40) DEF KubeletAdmitted, InRange
<1>2. /\ Present(d.evictionHard) => Entries(d.evictionHard) # {}
      /\ Present(d.evictionSoft) => Entries(d.evictionSoft) # {}
      /\ Present(d.evictionSoftGracePeriod) => Entries(d.evictionSoftGracePeriod) # {}
  BY DEF KubeletAdmitted
<1>3. d.podsPerCore \in Opt(Int)
  BY DEF DocumentType
<1>4. OmitZero(NumberOf(d.podsPerCore)) = d.podsPerCore
  <2>1. Present(d.podsPerCore) => NumberOf(d.podsPerCore) # 0
    <3>1. Present(d.podsPerCore) => NumberOf(d.podsPerCore) \in 1..2500
      BY <1>1 DEF NumberOf
    <3> QED BY <3>1
  <2> QED BY <1>3, <2>1, NumberOfOpt, NumberOmitted
<1>5. \A opt : (Present(opt) => Entries(opt) # {}) => OmitEmpty(opt) = opt
  BY DEF OmitEmpty, Entries
<1> QED BY <1>1, <1>2, <1>4, <1>5, SMTT(40)

(* A document read and written: only the key maxPods may differ. *)
ReadAndWritten(d) ==
    [maxPods |-> OmitZero(MaxPodsOf(d)), podsPerCore |-> d.podsPerCore,
     systemReserved |-> d.systemReserved, kubeReserved |-> d.kubeReserved,
     evictionHard |-> d.evictionHard, evictionSoft |-> d.evictionSoft,
     evictionSoftGracePeriod |-> d.evictionSoftGracePeriod,
     evictionMaxPodGracePeriod |-> d.evictionMaxPodGracePeriod,
     imageGCHighThresholdPercent |-> d.imageGCHighThresholdPercent,
     imageGCLowThresholdPercent |-> d.imageGCLowThresholdPercent,
     cpuCFSQuota |-> d.cpuCFSQuota,
     MaxPods |-> d.MaxPods, maxpods |-> d.maxpods, other |-> d.other]

LEMMA MarshalDecoded ==
  ASSUME NEW r, NEW d \in DocumentType,
         OmitZero(NumberOf(d.podsPerCore)) = d.podsPerCore,
         OmitEmpty(d.evictionHard) = d.evictionHard, OmitEmpty(d.evictionSoft) = d.evictionSoft,
         OmitEmpty(d.evictionSoftGracePeriod) = d.evictionSoftGracePeriod
  PROVE  MarshalJSON(UnmarshalJSON(r, d)) = ReadAndWritten(d)
<1> DEFINE k == UnmarshalJSON(r, d)
<1>1. /\ k.maxPods = MaxPodsOf(d) /\ k.podsPerCore = NumberOf(d.podsPerCore)
      /\ k.systemReserved = d.systemReserved /\ k.kubeReserved = d.kubeReserved
      /\ k.evictionHard = d.evictionHard /\ k.evictionSoft = d.evictionSoft
      /\ k.evictionSoftGracePeriod = d.evictionSoftGracePeriod
      /\ k.evictionMaxPodGracePeriod = d.evictionMaxPodGracePeriod
      /\ k.imageGCHighThresholdPercent = d.imageGCHighThresholdPercent
      /\ k.imageGCLowThresholdPercent = d.imageGCLowThresholdPercent
      /\ k.cpuCFSQuota = d.cpuCFSQuota
      /\ k.overflow.MaxPods = d.MaxPods /\ k.overflow.maxpods = d.maxpods
      /\ k.overflow.other = d.other
  <2>1. DecodesTo(d, k)
    BY DecodedFields
  <2> HIDE DEF k
  <2> QED BY <2>1 DEF DecodesTo
<1> HIDE DEF k
<1>2. MarshalJSON(k) = ReadAndWritten(d)
  BY <1>1 DEF MarshalJSON, ReadAndWritten
<1> QED BY <1>2 DEF k

LEMMA RoundTripOfADocument == Given => KubeletRoundTrip
<1> SUFFICES ASSUME Given PROVE KubeletRoundTrip
  OBVIOUS
<1> DEFINE d == spec.kubelet
           e == ReadAndWritten(d)
           full == [ZeroKubelet EXCEPT !.maxPods = 7, !.cpuCFSQuota = <<TRUE>>, !.overflow.other = <<"y">>]
<1>1. d \in DocumentType /\ KubeletAdmitted(d)
  BY DEF Given, SpecTyped, SpecAdmitted
<1> HIDE DEF d, full
<1>2. MarshalJSON(UnmarshalJSON(full, d)) = e
  BY <1>1, AdmittedDocument, MarshalDecoded
<1>3. d.maxPods \in Opt(Int) /\ d.MaxPods \in Opt(Int) /\ d.maxpods \in Opt(Int)
  BY <1>1 DEF DocumentType
<1>0. Present(d.maxPods) => NumberOf(d.maxPods) # 0
  <2>1. Present(d.maxPods) => NumberOf(d.maxPods) \in 1..2500
    BY <1>1, AdmittedDocument DEF NumberOf
  <2> QED BY <2>1
<1>4. ASSUME ~Present(d.MaxPods), ~Present(d.maxpods) PROVE e = d
  <2>1. OmitZero(MaxPodsOf(d)) = d.maxPods
    BY <1>0, <1>3, <1>4, NumberOfOpt, NumberOmitted DEF MaxPodsOf
  <2>2. d = [maxPods |-> d.maxPods, podsPerCore |-> d.podsPerCore,
             systemReserved |-> d.systemReserved, kubeReserved |-> d.kubeReserved,
             evictionHard |-> d.evictionHard, evictionSoft |-> d.evictionSoft,
             evictionSoftGracePeriod |-> d.evictionSoftGracePeriod,
             evictionMaxPodGracePeriod |-> d.evictionMaxPodGracePeriod,
             imageGCHighThresholdPercent |-> d.imageGCHighThresholdPercent,
             imageGCLowThresholdPercent |-> d.imageGCLowThresholdPercent,
             cpuCFSQuota |-> d.cpuCFSQuota,
             MaxPods |-> d.MaxPods, maxpods |-> d.maxpods, other |-> d.other]
    BY <1>1 DEF DocumentType
  <2> QED BY <2>1, <2>2 DEF ReadAndWritten
<1>5. MaxPodsOf(d) \in Int
  BY <1>3, NumberOfOpt DEF MaxPodsOf
<1>6. OmitZero(MaxPodsOf(d)) \in Opt(Int)
  BY <1>5, NumberOmitted
<1>7. /\ e.maxPods = OmitZero(MaxPodsOf(d)) /\ e.podsPerCore = d.podsPerCore
      /\ e.systemReserved = d.systemReserved /\ e.kubeReserved = d.kubeReserved
      /\ e.evictionHard = d.evictionHard /\ e.evictionSoft = d.evictionSoft
      /\ e.evictionSoftGracePeriod = d.evictionSoftGracePeriod
      /\ e.evictionMaxPodGracePeriod = d.evictionMaxPodGracePeriod
      /\ e.imageGCHighThresholdPercent = d.imageGCHighThresholdPercent
      /\ e.imageGCLowThresholdPercent = d.imageGCLowThresholdPercent
      /\ e.cpuCFSQuota = d.cpuCFSQuota
      /\ e.MaxPods = d.MaxPods /\ e.maxpods = d.maxpods /\ e.other = d.other
  BY DEF ReadAndWritten
<1>8. e \in DocumentType
  BY <1>1, <1>6 DEF ReadAndWritten, DocumentType
<1> HIDE DEF e
<1>9. MaxPodsOf(e) = MaxPodsOf(d)
  <2>1. Present(e.maxPods) <=> MaxPodsOf(d) # 0
    BY <1>5, <1>7, NumberOmitted
  <2>2. NumberOf(e.maxPods) = MaxPodsOf(d)
    BY <1>5, <1>7, NumberOmitted
  <2>3. MaxPodsOf(d) = 0 /\ ~Present(d.maxpods) => NumberOf(d.MaxPods) = 0
    BY <1>0 DEF MaxPodsOf
  <2>4. MaxPodsOf(e) = IF Present(d.maxpods) THEN NumberOf(d.maxpods)
                       ELSE IF Present(e.maxPods) THEN NumberOf(e.maxPods) ELSE NumberOf(d.MaxPods)
    BY <1>7 DEF MaxPodsOf
  <2>5. Present(d.maxpods) => MaxPodsOf(d) = NumberOf(d.maxpods)
    BY DEF MaxPodsOf
  <2> QED BY <2>1, <2>2, <2>3, <2>4, <2>5
<1>10. ReadAndWritten(e) = ReadAndWritten(d)
  BY <1>7, <1>9 DEF ReadAndWritten
<1>11. MarshalJSON(UnmarshalJSON(full, e)) = ReadAndWritten(e)
  BY <1>1, <1>7, <1>8, AdmittedDocument, MarshalDecoded
<1>12. MarshalJSON(UnmarshalJSON(full, MarshalJSON(UnmarshalJSON(full, d)))) =
         MarshalJSON(UnmarshalJSON(full, d))
  BY <1>2, <1>10, <1>11 DEF e
<1>13. ~Present(d.MaxPods) /\ ~Present(d.maxpods) => MarshalJSON(UnmarshalJSON(full, d)) = d
  BY <1>2, <1>4
<1> QED BY <1>12, <1>13 DEF KubeletRoundTrip, d, full

LEMMA FieldsOfADocument == Given => NoFieldIsForgotten
<1> SUFFICES ASSUME Given PROVE NoFieldIsForgotten
  OBVIOUS
<1> DEFINE s == spec.kubelet
           k == Decoded
           d == MarshalJSON(k)
           u == karpenterKubeletConfiguration(k)
<1>1. s \in DocumentType /\ KubeletAdmitted(s)
  BY DEF Given, SpecTyped, SpecAdmitted
<1>2. Translated.kubelet = u
  BY DEF Translated, ec2NodeClassSpec, Decoded
<1>3. /\ k.evictionHard = s.evictionHard /\ k.evictionSoft = s.evictionSoft
      /\ k.evictionSoftGracePeriod = s.evictionSoftGracePeriod
      /\ k.overflow = [MaxPods |-> s.MaxPods, maxpods |-> s.maxpods, other |-> s.other]
  <2>1. DecodesTo(s, k)
    BY <1>1, DecodedFields DEF Decoded
  <2> HIDE DEF k
  <2> QED BY <2>1 DEF DecodesTo
<1>4. /\ OmitEmpty(k.evictionHard) = k.evictionHard /\ OmitEmpty(k.evictionSoft) = k.evictionSoft
      /\ OmitEmpty(k.evictionSoftGracePeriod) = k.evictionSoftGracePeriod
  BY <1>1, <1>3, AdmittedDocument
<1> HIDE DEF s, k
<1>5. \A n : OmitZero(n) = <<>> <=> n = 0
  BY OneIsPresent DEF OmitZero, Present
<1>6. IsZero(k) <=> d = EmptyDocument
  <2>1. HasTypedFields(k) <=>
          \/ k.maxPods # 0 \/ k.podsPerCore # 0 \/ k.systemReserved # <<>> \/ k.kubeReserved # <<>>
          \/ k.evictionHard # <<>> \/ k.evictionSoft # <<>> \/ k.evictionSoftGracePeriod # <<>>
          \/ k.evictionMaxPodGracePeriod # <<>> \/ k.imageGCHighThresholdPercent # <<>>
          \/ k.imageGCLowThresholdPercent # <<>> \/ k.cpuCFSQuota # <<>>
    BY DEF HasTypedFields, Present
  <2>2. k.overflow = ZeroKubelet.overflow <=>
          k.overflow.MaxPods = <<>> /\ k.overflow.maxpods = <<>> /\ k.overflow.other = <<>>
    BY <1>3 DEF ZeroKubelet
  <2>3. d = EmptyDocument <=>
          /\ d.maxPods = <<>> /\ d.podsPerCore = <<>> /\ d.systemReserved = <<>>
          /\ d.kubeReserved = <<>> /\ d.evictionHard = <<>> /\ d.evictionSoft = <<>>
          /\ d.evictionSoftGracePeriod = <<>> /\ d.evictionMaxPodGracePeriod = <<>>
          /\ d.imageGCHighThresholdPercent = <<>> /\ d.imageGCLowThresholdPercent = <<>>
          /\ d.cpuCFSQuota = <<>> /\ d.MaxPods = <<>> /\ d.maxpods = <<>> /\ d.other = <<>>
    BY DEF MarshalJSON, EmptyDocument
  <2> QED BY <1>4, <1>5, <2>1, <2>2, <2>3 DEF IsZero, MarshalJSON
<1>7. ASSUME NEW f \in DOMAIN ZeroKubelet \ {"overflow", "evictionSoftGracePeriod"}, Present(d[f])
      PROVE  Present(u) /\ Value(u)[f] = d[f]
  <2>1. f \in {"maxPods", "podsPerCore", "systemReserved", "kubeReserved", "evictionHard",
               "evictionSoft", "evictionMaxPodGracePeriod", "imageGCHighThresholdPercent",
               "imageGCLowThresholdPercent", "cpuCFSQuota"}
    BY <1>7 DEF ZeroKubelet
  <2>2. HasTypedFields(k)
    BY <1>4, <1>5, <1>7, <2>1 DEF HasTypedFields, MarshalJSON, Present
  <2>3. Present(u)
    BY <2>2, OneIsPresent DEF karpenterKubeletConfiguration
  <2>4. Value(u)[f] = d[f]
    BY <2>1, <2>2 DEF karpenterKubeletConfiguration, MarshalJSON, Value
  <2> QED BY <2>3, <2>4
<1> QED BY <1>2, <1>6, <1>7 DEF NoFieldIsForgotten, k

-----------------------------------------------------------------------------
(* What the other CRD rejects, facet by facet *)

LEMMA ToSetOfOne == ASSUME NEW x PROVE <<x>> # <<>> /\ ToSet(<<x>>) = {x}
  BY DEF ToSet

(* The default selector is admitted as well as those of the spec. *)
LEMMA SelectorsFit ==
  ASSUME NEW terms
  PROVE  LET u == IF terms = <<>> THEN <<{"tags"}>> ELSE terms
         IN  /\ SubnetTermsAdmitted(terms) => u # <<>> /\ SubnetTermsAdmitted(u)
             /\ GroupTermsAdmitted(terms) => u # <<>> /\ GroupTermsAdmitted(u)
<1>1. <<{"tags"}>> # <<>> /\ ToSet(<<{"tags"}>>) = {{"tags"}}
  BY ToSetOfOne
<1>2. SubnetTermsAdmitted(<<{"tags"}>>)
  BY <1>1 DEF SubnetTermsAdmitted
<1>3. GroupTermsAdmitted(<<{"tags"}>>)
  BY <1>1 DEF GroupTermsAdmitted
<1> QED BY <1>1, <1>2, <1>3

LEMMA LowerCriteria ==
    /\ ToLower("Open") = "open" /\ ToLower("Targeted") = "targeted"
  BY DEF ToLower

(* Only a term with nothing but an owner does not fit. *)
LEMMA ReservationsFit ==
  ASSUME NEW terms \in Seq(ReservationTermType), ReservationTermsAdmitted(terms),
         NEW u, u = karpenterCapacityReservationSelectorTerms(terms)
  PROVE  /\ IDNotWithOthers(u)
         /\ (\A t \in ToSet(u) : /\ ReservationFields(t) \cap {"tags", "id", "instanceMatchCriteria"} # {}
                                 /\ t.criteria \in {Unset, "open", "targeted"})
            <=> ~ \E t \in ToSet(terms) : ReservationFields(t) = {"ownerID"}
<1>1. DOMAIN u = DOMAIN terms /\ DOMAIN terms = 1..Len(terms)
  BY DEF karpenterCapacityReservationSelectorTerms
<1>2. ASSUME NEW i \in DOMAIN terms
      PROVE  /\ ReservationFields(u[i]) = ReservationFields(terms[i])
             /\ ReservationFields(terms[i]) \subseteq {"tags", "id", "ownerID", "instanceMatchCriteria"}
             /\ u[i].criteria \in {Unset, "open", "targeted"}
             /\ ReservationFields(terms[i]) # {}
  <2>1. terms[i] \in ReservationTermType
    OBVIOUS
  <2>2. terms[i].criteria \in {Unset, "Open", "Targeted"} /\ terms[i].fields \subseteq {"tags", "id", "ownerID"}
    BY <2>1 DEF ReservationTermType
  <2>3. /\ u[i].fields = terms[i].fields
        /\ u[i].criteria = IF terms[i].criteria = Unset THEN Unset ELSE ToLower(terms[i].criteria)
    BY <1>2 DEF karpenterCapacityReservationSelectorTerms
  <2>4. u[i].criteria \in {Unset, "open", "targeted"} /\ (u[i].criteria = Unset <=> terms[i].criteria = Unset)
    BY <2>2, <2>3, LowerCriteria, UnsetIsNoValue
  <2>5. ReservationFields(terms[i]) # {}
    BY <1>2 DEF ReservationTermsAdmitted, ToSet
  <2> QED BY <2>2, <2>3, <2>4, <2>5 DEF ReservationFields
<1>3. terms = <<>> => u = <<>>
  BY DEF karpenterCapacityReservationSelectorTerms
<1>4. IDNotWithOthers(u)
  BY <1>1, <1>2, <1>3 DEF IDNotWithOthers, ReservationTermsAdmitted, ToSet
<1>5. (\A i \in DOMAIN u : /\ ReservationFields(u[i]) \cap {"tags", "id", "instanceMatchCriteria"} # {}
                           /\ u[i].criteria \in {Unset, "open", "targeted"})
      <=> ~ \E i \in DOMAIN terms : ReservationFields(terms[i]) = {"ownerID"}
  <2>1. ASSUME NEW i \in DOMAIN terms
        PROVE  ReservationFields(u[i]) \cap {"tags", "id", "instanceMatchCriteria"} # {}
               <=> ReservationFields(terms[i]) # {"ownerID"}
    BY <1>2
  <2> QED BY <1>1, <1>2, <2>1
<1> QED BY <1>4, <1>5 DEF ToSet

(* Only a platform tag with a key that the pattern misses does not fit. *)
LEMMA TagsFit ==
  ASSUME NEW tags, NEW platform, TagsAdmitted(tags)
  PROVE  TagsAdmitted(mergeEC2NodeClassTags(tags, platform))
         <=> "cluster-dotted" \notin PlatformKeys(platform)
<1>1. DOMAIN mergeEC2NodeClassTags(tags, platform) =
        (DOMAIN tags \cup PlatformKeys(platform)) \ RestrictedByPattern
  BY DEF mergeEC2NodeClassTags, filterRestrictedTags
<1> QED BY <1>1 DEF TagsAdmitted, RestrictedByPattern, RestrictedByRule

LEMMA LowerVolumeTypes ==
    /\ ToLower("Standard") = "standard" /\ ToLower("IO1") = "io1" /\ ToLower("IO2") = "io2"
    /\ ToLower("GP2") = "gp2" /\ ToLower("SC1") = "sc1" /\ ToLower("ST1") = "st1"
    /\ ToLower("GP3") = "gp3"
  BY DEF ToLower

(* The sizes that are written in Ti, and the limits in terms of them *)
LEMMA SizeNumbers ==
  /\ MaxSizeGiB = Tebibytes(64) /\ GiPerTi \in Nat /\ 120 < GiPerTi /\ KarpenterMaxSizeGi \in Nat
  /\ Tebibytes(57) <= KarpenterMaxSizeGi /\ KarpenterMaxSizeGi < Tebibytes(58)
  BY DEF MaxSizeGiB, GiPerTi, KarpenterMaxSizeGi, Tebibytes

LEMMA WholeTebibytes ==
  ASSUME NEW gi \in Nat, gi % GiPerTi = 0
  PROVE  gi \div GiPerTi \in Nat /\ gi = Tebibytes(gi \div GiPerTi)
  BY DEF Tebibytes, GiPerTi

LEMMA TebibytesAreWhole == ASSUME NEW n \in Nat PROVE Tebibytes(n) % GiPerTi = 0
  BY DEF Tebibytes, GiPerTi

LEMMA TebibytesGrow ==
  ASSUME NEW m \in Nat, NEW n \in Nat
  PROVE  /\ Tebibytes(m) \in Nat /\ Tebibytes(m) = Tebibytes(n) <=> m = n
         /\ Tebibytes(m) <= Tebibytes(n) <=> m <= n
  BY DEF Tebibytes, GiPerTi

LEMMA Digits ==
  ASSUME NEW m \in 1..64
  PROVE  (m \in 1..9 \/ (m \in 10..57 /\ m % 10 <= 7) \/ m = 58)
         <=> m <= 58 /\ m \notin {18, 19, 28, 29, 38, 39, 48, 49}
  OBVIOUS

(* The pattern admits the canonical form of a size unless the size is one of *)
(* the two gaps.                                                             *)
LEMMA SizeFits ==
  ASSUME NEW gi \in Nat, gi # 0, gi <= MaxSizeGiB
  PROVE  VolumeSizeAdmitted(CanonicalQuantity(gi)) <=> ~(BeyondPattern(gi) \/ ForgottenByPattern(gi))
<1>1. CASE gi % GiPerTi = 0
  <2> DEFINE m == gi \div GiPerTi
             q == CanonicalQuantity(gi)
  <2>1. m \in Nat /\ gi = Tebibytes(m)
    BY <1>1, WholeTebibytes
  <2>2. q.suffix # "Gi" /\ q.number = m
    BY <1>1 DEF CanonicalQuantity
  <2> HIDE DEF m, q
  <2>3. m \in 1..64
    <3>1. m <= 64
      BY <2>1, SizeNumbers, TebibytesGrow
    <3>2. m # 0
      BY <2>1, SizeNumbers DEF Tebibytes
    <3> QED BY <2>1, <3>1, <3>2
  <2>4. VolumeSizeAdmitted(q) <=> m <= 58 /\ m \notin {18, 19, 28, 29, 38, 39, 48, 49}
    BY <2>2, <2>3, Digits DEF VolumeSizeAdmitted
  <2>5. BeyondPattern(gi) <=> m > 58
    <3>1. gi = Tebibytes(58) <=> m = 58
      BY <2>1, TebibytesGrow
    <3>2. gi <= Tebibytes(57) <=> m <= 57
      BY <2>1, TebibytesGrow
    <3>3. Tebibytes(58) <= gi <=> 58 <= m
      BY <2>1, TebibytesGrow
    <3>4. Tebibytes(57) \in Nat /\ Tebibytes(58) \in Nat
      BY TebibytesGrow
    <3>5. gi > KarpenterMaxSizeGi <=> m > 57
      BY <2>1, <3>2, <3>3, <3>4, SizeNumbers
    <3> QED BY <2>1, <3>1, <3>5 DEF BeyondPattern
  <2>6. ForgottenByPattern(gi) <=> m \in {18, 19, 28, 29, 38, 39, 48, 49}
    <3>1. \A n \in Nat : gi = Tebibytes(n) <=> n = m
      BY <2>1, TebibytesGrow
    <3> QED BY <3>1 DEF ForgottenByPattern
  <2> QED BY <2>3, <2>4, <2>5, <2>6 DEF q
<1>2. CASE gi % GiPerTi # 0
  <2> DEFINE q == CanonicalQuantity(gi)
  <2>1. q.suffix = "Gi" /\ q.number = gi
    BY <1>2 DEF CanonicalQuantity
  <2>2. \A n \in Nat : gi # Tebibytes(n)
    BY <1>2, TebibytesAreWhole
  <2> HIDE DEF q
  <2>3. VolumeSizeAdmitted(q) <=> gi <= KarpenterMaxSizeGi
    BY <2>1, SizeNumbers DEF VolumeSizeAdmitted
  <2>4. BeyondPattern(gi) <=> ~(gi <= KarpenterMaxSizeGi)
    BY <2>2, SizeNumbers DEF BeyondPattern
  <2>5. ~ForgottenByPattern(gi)
    BY <2>2 DEF ForgottenByPattern
  <2> QED BY <2>3, <2>4, <2>5 DEF q
<1> QED BY <1>1, <1>2

(* A size that is not given is no gap. *)
LEMMA NoSizeFits == ~BeyondPattern(0) /\ ~ForgottenByPattern(0)
<1>1. \A n \in {18, 19, 28, 29, 38, 39, 48, 49} : 0 # Tebibytes(n)
  BY DEF Tebibytes, GiPerTi
<1>2. ~(0 > KarpenterMaxSizeGi)
  BY SizeNumbers
<1> QED BY <1>1, <1>2 DEF BeyondPattern, ForgottenByPattern

LEMMA DeviceFits ==
  ASSUME NEW d \in DeviceType, d.snapshot \/ d.sizeGiB # 0, d.sizeGiB \in 0..MaxSizeGiB,
         NEW ebs, ebs = karpenterBlockDevice(d)
  PROVE  /\ ebs.snapshot \/ Present(ebs.volumeSize)
         /\ (Present(ebs.volumeSize) => VolumeSizeAdmitted(Value(ebs.volumeSize)))
              <=> ~(BeyondPattern(d.sizeGiB) \/ ForgottenByPattern(d.sizeGiB))
         /\ Present(ebs.volumeType) =>
              Value(ebs.volumeType) \in {"standard", "io1", "io2", "gp2", "sc1", "st1", "gp3"}
<1>1. /\ ebs.snapshot = d.snapshot /\ ebs.volumeSize = volumeSizeGiBToQuantity(d.sizeGiB)
      /\ ebs.volumeType = IF d.volumeType = Unset THEN <<>> ELSE <<ToLower(d.volumeType)>>
  BY DEF karpenterBlockDevice
<1>2. d.volumeType \in {Unset, "Standard", "IO1", "IO2", "GP2", "SC1", "ST1", "GP3"}
  BY DEF DeviceType
<1>3. Present(ebs.volumeType) =>
        Value(ebs.volumeType) \in {"standard", "io1", "io2", "gp2", "sc1", "st1", "gp3"}
  <2>1. CASE d.volumeType = Unset
    BY <1>1, <2>1, OneIsPresent
  <2>2. CASE d.volumeType # Unset
    <3>1. Value(ebs.volumeType) = ToLower(d.volumeType)
      BY <1>1, <2>2, OneIsPresent
    <3> QED BY <1>2, <2>2, <3>1, LowerVolumeTypes
  <2> QED BY <2>1, <2>2
<1>4. CASE d.sizeGiB = 0
  <2>1. ~Present(ebs.volumeSize)
    BY <1>1, <1>4, OneIsPresent DEF volumeSizeGiBToQuantity
  <2> QED BY <1>1, <1>3, <1>4, <2>1, NoSizeFits, Zenon
<1>5. CASE d.sizeGiB # 0
  <2>1. Present(ebs.volumeSize) /\ Value(ebs.volumeSize) = CanonicalQuantity(d.sizeGiB)
    BY <1>1, <1>5, OneIsPresent, Zenon DEF volumeSizeGiBToQuantity
  <2>2. d.sizeGiB \in Nat /\ d.sizeGiB <= MaxSizeGiB
    OBVIOUS
  <2>3. VolumeSizeAdmitted(CanonicalQuantity(d.sizeGiB))
          <=> ~(BeyondPattern(d.sizeGiB) \/ ForgottenByPattern(d.sizeGiB))
    BY <1>5, <2>2, SizeFits, Zenon
  <2> QED BY <1>3, <2>1, <2>3, Zenon
<1> QED BY <1>4, <1>5, Zenon

(* The root volume of 120Gi that is the default fits. *)
LEMMA DefaultSizeFits == VolumeSizeAdmitted(CanonicalQuantity(120)) /\ volumeSizeGiBToQuantity(120) # <<>>
<1>1. CanonicalQuantity(120) = [number |-> 120, suffix |-> "Gi"]
  BY DEF CanonicalQuantity, GiPerTi
<1>2. 120 \in 1..KarpenterMaxSizeGi
  BY DEF KarpenterMaxSizeGi
<1> QED BY <1>1, <1>2 DEF VolumeSizeAdmitted, volumeSizeGiBToQuantity

(* Only a volume whose size the pattern of the other CRD lacks does not fit. *)
LEMMA DevicesFit ==
  ASSUME NEW devices \in Seq(DeviceType), DevicesAdmitted(devices),
         NEW u, u = karpenterBlockDeviceMapping(devices)
  PROVE      (/\ Cardinality({i \in DOMAIN u : u[i].rootVolume}) <= 1
              /\ \A i \in DOMAIN u :
                   /\ u[i].ebs.snapshot \/ Present(u[i].ebs.volumeSize)
                   /\ Present(u[i].ebs.volumeSize) => VolumeSizeAdmitted(Value(u[i].ebs.volumeSize))
                   /\ Present(u[i].ebs.volumeType) =>
                        Value(u[i].ebs.volumeType) \in {"standard", "io1", "io2", "gp2", "sc1", "st1", "gp3"})
             <=> ~ \E d \in ToSet(devices) : BeyondPattern(d.sizeGiB) \/ ForgottenByPattern(d.sizeGiB)
<1> DEFINE Types == {"standard", "io1", "io2", "gp2", "sc1", "st1", "gp3"}
<1>0. Cardinality({i \in DOMAIN devices : devices[i].rootVolume = "RootVolume"}) <= 1
  BY DEF DevicesAdmitted
<1>1. CASE devices = <<>>
  <2>1. DOMAIN u = {1} /\ u[1] = DefaultDevice
    BY <1>1 DEF karpenterBlockDeviceMapping
  <2>2. /\ DefaultDevice.rootVolume = FALSE /\ DefaultDevice.ebs.volumeSize = volumeSizeGiBToQuantity(120)
        /\ DefaultDevice.ebs.volumeType = <<"gp3">>
    BY DEF DefaultDevice
  <2>3. /\ Present(DefaultDevice.ebs.volumeSize)
        /\ Value(DefaultDevice.ebs.volumeSize) = CanonicalQuantity(120)
        /\ Value(DefaultDevice.ebs.volumeType) = "gp3"
    BY <2>2, OneIsPresent, DefaultSizeFits DEF volumeSizeGiBToQuantity
  <2>4. {i \in DOMAIN u : u[i].rootVolume} = {}
    BY <2>1, <2>2
  <2>5. Cardinality({i \in DOMAIN u : u[i].rootVolume}) <= 1
    <3>1. Cardinality({i \in DOMAIN u : u[i].rootVolume}) = 0
      BY <2>4, FS_EmptySet, Zenon
    <3> QED BY <3>1
  <2>6. ToSet(devices) = {}
    BY <1>1 DEF ToSet
  <2>7. "gp3" \in Types
    OBVIOUS
  <2> HIDE DEF Types
  <2> QED BY <2>1, <2>3, <2>5, <2>6, <2>7, DefaultSizeFits DEF Types
<1>2. CASE devices # <<>>
  <2>1. /\ DOMAIN u = DOMAIN devices
        /\ \A i \in DOMAIN devices : /\ u[i].rootVolume = (devices[i].rootVolume = "RootVolume")
                                     /\ u[i].ebs = karpenterBlockDevice(devices[i])
    BY <1>2 DEF karpenterBlockDeviceMapping
  <2>2. {i \in DOMAIN u : u[i].rootVolume} = {i \in DOMAIN devices : devices[i].rootVolume = "RootVolume"}
    BY <2>1
  <2>3. Cardinality({i \in DOMAIN u : u[i].rootVolume}) <= 1
    BY <1>0, <2>2
  <2>4. ASSUME NEW i \in DOMAIN devices
        PROVE  /\ u[i].ebs.snapshot \/ Present(u[i].ebs.volumeSize)
               /\ (Present(u[i].ebs.volumeSize) => VolumeSizeAdmitted(Value(u[i].ebs.volumeSize)))
                    <=> ~(BeyondPattern(devices[i].sizeGiB) \/ ForgottenByPattern(devices[i].sizeGiB))
               /\ Present(u[i].ebs.volumeType) => Value(u[i].ebs.volumeType) \in Types
    <3>1. devices[i] \in DeviceType
      OBVIOUS
    <3>2. (devices[i].snapshot \/ devices[i].sizeGiB # 0) /\ devices[i].sizeGiB \in 0..MaxSizeGiB
      BY DEF DevicesAdmitted, ToSet
    <3>3. u[i].ebs = karpenterBlockDevice(devices[i])
      BY <2>1
    <3> QED BY <3>1, <3>2, <3>3, DeviceFits
  <2> HIDE DEF Types
  <2> QED BY <2>1, <2>3, <2>4 DEF ToSet, Types
<1> QED BY <1>1, <1>2

(* Metadata options always fit. *)
LEMMA MetadataFits ==
  ASSUME NEW mo \in MetadataOptionsType, mo.hopLimit \in 0..64, NEW u, u = karpenterMetadataOptions(mo), Present(u)
  PROVE  InRange(Value(u).hopLimit, 1, 64)
<1>1. Value(u).hopLimit = OmitZero(mo.hopLimit)
  BY OneIsPresent DEF karpenterMetadataOptions, Value
<1>0. mo.hopLimit \in Int
  OBVIOUS
<1>2. CASE mo.hopLimit = 0
  BY <1>0, <1>1, <1>2, NumberOmitted DEF InRange
<1>3. CASE mo.hopLimit # 0
  <2>1. Value(u).hopLimit = <<mo.hopLimit>>
    BY <1>0, <1>1, <1>3, NumberOmitted
  <2>2. Value(Value(u).hopLimit) = mo.hopLimit
    BY <2>1, OneIsPresent
  <2>3. mo.hopLimit \in 1..64
    BY <1>0, <1>3
  <2> QED BY <2>2, <2>3 DEF InRange
<1> QED BY <1>2, <1>3

(* Only reserved resources that are no quantities, thresholds that are        *)
(* neither percentages nor quantities, durations that cannot be parsed and a  *)
(* negative maxPods in another spelling do not fit.                           *)
LEMMA KubeletFits ==
  ASSUME NEW d \in DocumentType, KubeletAdmitted(d), NEW k, k = UnmarshalJSON(ZeroKubelet, d),
         NEW u, u = karpenterKubeletConfiguration(k)
  PROVE  (Present(u) => KarpenterAdmitsKubelet(Value(u))) <=>
           /\ ~ \E f \in {"systemReserved", "kubeReserved"} : d[f] = <<"malformed">>
           /\ ThresholdsFit(d.evictionHard) /\ ThresholdsFit(d.evictionSoft)
           /\ ~ \E s \in Entries(d.evictionSoftGracePeriod) :
                    Value(d.evictionSoftGracePeriod)[s] = "unparsable"
           /\ ~(k.maxPods < 0)
<1> DEFINE grace == d.evictionSoftGracePeriod
           Unparsed == {s \in Entries(grace) : Value(grace)[s] = "unparsable"}
<1>1. /\ k.maxPods = MaxPodsOf(d) /\ k.podsPerCore = NumberOf(d.podsPerCore)
      /\ k.systemReserved = d.systemReserved /\ k.kubeReserved = d.kubeReserved
      /\ k.evictionHard = d.evictionHard /\ k.evictionSoft = d.evictionSoft
      /\ k.evictionSoftGracePeriod = d.evictionSoftGracePeriod
      /\ k.imageGCHighThresholdPercent = d.imageGCHighThresholdPercent
      /\ k.imageGCLowThresholdPercent = d.imageGCLowThresholdPercent
  <2>1. DecodesTo(d, k)
    BY DecodedFields
  <2> QED BY <2>1 DEF DecodesTo
<1>2. /\ d.maxPods \in Opt(Int) /\ d.MaxPods \in Opt(Int) /\ d.maxpods \in Opt(Int)
      /\ d.podsPerCore \in Opt(Int)
      /\ d.systemReserved \in Opt(Quantities) /\ d.kubeReserved \in Opt(Quantities)
  BY DEF DocumentType
<1>3. k.maxPods \in Int
  BY <1>1, <1>2, NumberOfOpt DEF MaxPodsOf
<1>4. /\ OmitZero(k.podsPerCore) = d.podsPerCore
      /\ OmitEmpty(k.evictionHard) = d.evictionHard /\ OmitEmpty(k.evictionSoft) = d.evictionSoft
  BY <1>1, AdmittedDocument
<1>5. ASSUME ~HasTypedFields(k)
      PROVE  /\ ~Present(u) /\ k.maxPods = 0 /\ ~Present(d.systemReserved) /\ ~Present(d.kubeReserved)
             /\ ~Present(d.evictionHard) /\ ~Present(d.evictionSoft) /\ ~Present(grace)
  <2>1. ~Present(u)
    BY <1>5, OneIsPresent DEF karpenterKubeletConfiguration
  <2>2. /\ k.maxPods = 0 /\ ~Present(k.systemReserved) /\ ~Present(k.kubeReserved)
        /\ ~Present(k.evictionHard) /\ ~Present(k.evictionSoft) /\ ~Present(k.evictionSoftGracePeriod)
    BY <1>5 DEF HasTypedFields
  <2> QED BY <1>1, <2>1, <2>2
<1>6. CASE ~HasTypedFields(k)
  <2>1. \A f \in {"systemReserved", "kubeReserved"} : d[f] # <<"malformed">>
    BY <1>5, <1>6, OneIsPresent
  <2>2. Entries(d.evictionHard) = {} /\ Entries(d.evictionSoft) = {} /\ Entries(grace) = {}
    BY <1>5, <1>6 DEF Entries
  <2>3. ThresholdsFit(d.evictionHard) /\ ThresholdsFit(d.evictionSoft)
    BY <2>2 DEF ThresholdsFit
  <2>4. ~(k.maxPods < 0) /\ ~Present(u)
    BY <1>5, <1>6
  <2> QED BY <2>1, <2>2, <2>3, <2>4
<1>7. CASE HasTypedFields(k)
  <2> DEFINE w == Value(u)
  <2>1. /\ Present(u)
        /\ w.maxPods = OmitZero(k.maxPods) /\ w.podsPerCore = d.podsPerCore
        /\ w.systemReserved = d.systemReserved /\ w.kubeReserved = d.kubeReserved
        /\ w.evictionHard = d.evictionHard /\ w.evictionSoft = d.evictionSoft
        /\ w.evictionSoftGracePeriod = OmitEmpty(evictionSoftGracePeriodToDuration(grace))
        /\ w.imageGCHighThresholdPercent = d.imageGCHighThresholdPercent
        /\ w.imageGCLowThresholdPercent = d.imageGCLowThresholdPercent
    BY <1>1, <1>4, <1>7, OneIsPresent DEF karpenterKubeletConfiguration, Value
  <2> HIDE DEF w
  <2>2. (Present(w.maxPods) => Value(w.maxPods) >= 0) <=> ~(k.maxPods < 0)
    <3>1. CASE k.maxPods = 0
      BY <1>3, <2>1, <3>1, NumberOmitted
    <3>2. CASE k.maxPods # 0
      <4>1. w.maxPods = <<k.maxPods>>
        BY <1>3, <2>1, <3>2, NumberOmitted
      <4>2. Present(w.maxPods) /\ Value(w.maxPods) = k.maxPods
        BY <4>1, OneIsPresent
      <4> QED BY <1>3, <4>2
    <3> QED BY <3>1, <3>2
  <2>3. Present(w.podsPerCore) => Value(w.podsPerCore) >= 0
    <3>1. Present(d.podsPerCore) => Value(d.podsPerCore) \in 1..2500
      BY DEF KubeletAdmitted, InRange
    <3> QED BY <2>1, <3>1
  <2>4. ASSUME NEW x \in Opt(Quantities), Present(x) => Value(x) \notin {"negative", "empty"}
        PROVE  (Present(x) => Value(x) = "quantity") <=> x # <<"malformed">>
    <3>1. CASE x = <<>>
      BY <3>1, OneIsPresent
    <3>2. CASE x # <<>>
      <4>1. x = <<Value(x)>> /\ Value(x) \in Quantities /\ Present(x)
        BY <3>2, OptCases DEF Present
      <4>2. Value(x) \in {"quantity", "malformed"}
        BY <2>4, <4>1 DEF Quantities
      <4>3. x = <<"malformed">> <=> Value(x) = "malformed"
        BY <4>1, OneIsPresent
      <4> QED BY <4>1, <4>2, <4>3
    <3> QED BY <3>1, <3>2
  <2>5. (\A f \in {"systemReserved", "kubeReserved"} : Present(w[f]) => Value(w[f]) = "quantity")
        <=> ~ \E f \in {"systemReserved", "kubeReserved"} : d[f] = <<"malformed">>
    <3>1. /\ Present(d.systemReserved) => Value(d.systemReserved) \notin {"negative", "empty"}
          /\ Present(d.kubeReserved) => Value(d.kubeReserved) \notin {"negative", "empty"}
      BY DEF KubeletAdmitted
    <3>2. /\ (Present(d.systemReserved) => Value(d.systemReserved) = "quantity")
             <=> d.systemReserved # <<"malformed">>
          /\ (Present(d.kubeReserved) => Value(d.kubeReserved) = "quantity")
             <=> d.kubeReserved # <<"malformed">>
      BY <1>2, <2>4, <3>1, Zenon
    <3> QED BY <2>1, <3>2
  <2>6. /\ InRange(w.imageGCHighThresholdPercent, 0, 100) /\ InRange(w.imageGCLowThresholdPercent, 0, 100)
        /\ HighAboveLow(w)
    BY <2>1 DEF KubeletAdmitted, HighAboveLow
  <2>7. SoftEvictionsHaveGracePeriods(w) <=> Unparsed = {}
    <3> DEFINE parsed == evictionSoftGracePeriodToDuration(grace)
    <3>1. Entries(parsed) = {s \in Entries(grace) : Value(grace)[s] # "unparsable"}
      <4>1. CASE ~Present(grace)
        BY <4>1, OneIsPresent DEF evictionSoftGracePeriodToDuration, Entries
      <4>2. CASE Present(grace)
        <5> DEFINE m == [s \in {t \in DOMAIN Value(grace) : Value(grace)[t] # "unparsable"} |-> Value(grace)[s]]
        <5>1. parsed = <<m>>
          BY <4>2 DEF evictionSoftGracePeriodToDuration
        <5>2. Present(parsed) /\ Value(parsed) = m
          BY <5>1, OneIsPresent
        <5>3. DOMAIN m = {s \in Entries(grace) : Value(grace)[s] # "unparsable"}
          BY <4>2 DEF Entries
        <5> HIDE DEF m, parsed
        <5> QED BY <5>2, <5>3 DEF Entries
      <4> QED BY <4>1, <4>2
    <3>2. Entries(w.evictionSoftGracePeriod) = Entries(parsed)
      <4>1. \A opt : Entries(OmitEmpty(opt)) = Entries(opt)
        BY OneIsPresent DEF OmitEmpty, Entries
      <4> QED BY <2>1, <4>1
    <3> HIDE DEF parsed
    <3>3. Entries(w.evictionSoft) = Entries(grace)
      BY <2>1 DEF KubeletAdmitted, SoftEvictionsHaveGracePeriods
    <3> QED BY <3>1, <3>2, <3>3 DEF SoftEvictionsHaveGracePeriods
  <2>8. KarpenterAdmitsKubelet(w) <=>
          /\ Present(w.maxPods) => Value(w.maxPods) >= 0
          /\ Present(w.podsPerCore) => Value(w.podsPerCore) >= 0
          /\ \A f \in {"systemReserved", "kubeReserved"} : Present(w[f]) => Value(w[f]) = "quantity"
          /\ ThresholdsFit(w.evictionHard) /\ ThresholdsFit(w.evictionSoft)
          /\ InRange(w.imageGCHighThresholdPercent, 0, 100) /\ InRange(w.imageGCLowThresholdPercent, 0, 100)
          /\ HighAboveLow(w) /\ SoftEvictionsHaveGracePeriods(w)
    BY DEF KarpenterAdmitsKubelet
  <2>9. KarpenterAdmitsKubelet(w) <=>
          /\ ~ \E f \in {"systemReserved", "kubeReserved"} : d[f] = <<"malformed">>
          /\ ThresholdsFit(d.evictionHard) /\ ThresholdsFit(d.evictionSoft)
          /\ Unparsed = {} /\ ~(k.maxPods < 0)
    BY <2>1, <2>2, <2>3, <2>5, <2>6, <2>7, <2>8
  <2>10. Unparsed = {} <=> ~ \E s \in Entries(grace) : Value(grace)[s] = "unparsable"
    OBVIOUS
  <2> QED BY <2>1, <2>9, <2>10 DEF w
<1> QED BY <1>6, <1>7

LEMMA GapsOfASpec == Given => RejectedOnlyForKnownGaps
<1> SUFFICES ASSUME Given PROVE RejectedOnlyForKnownGaps
  OBVIOUS
<1> DEFINE u == Translated
<1>1. /\ u.tags = mergeEC2NodeClassTags(spec.tags, hcp.resourceTags)
      /\ u.blockDeviceMappings = karpenterBlockDeviceMapping(spec.blockDeviceMappings)
      /\ u.metadataOptions = karpenterMetadataOptions(spec.metadataOptions)
      /\ u.capacityReservationSelectorTerms =
           karpenterCapacityReservationSelectorTerms(spec.capacityReservationSelectorTerms)
      /\ u.kubelet = karpenterKubeletConfiguration(Decoded)
      /\ u.subnetSelectorTerms =
           IF spec.subnetSelectorTerms = <<>> THEN <<{"tags"}>> ELSE spec.subnetSelectorTerms
      /\ u.securityGroupSelectorTerms =
           IF spec.securityGroupSelectorTerms = <<>> THEN <<{"tags"}>> ELSE spec.securityGroupSelectorTerms
  BY DEF Translated, ec2NodeClassSpec, Decoded
<1> HIDE DEF u
<1>2. /\ SubnetTermsAdmitted(spec.subnetSelectorTerms) /\ GroupTermsAdmitted(spec.securityGroupSelectorTerms)
      /\ ReservationTermsAdmitted(spec.capacityReservationSelectorTerms)
      /\ TagsAdmitted(spec.tags) /\ DevicesAdmitted(spec.blockDeviceMappings)
      /\ spec.metadataOptions.hopLimit \in 0..64 /\ KubeletAdmitted(spec.kubelet)
  BY DEF Given, SpecAdmitted
<1>3. /\ spec.capacityReservationSelectorTerms \in Seq(ReservationTermType)
      /\ spec.blockDeviceMappings \in Seq(DeviceType)
      /\ spec.metadataOptions \in MetadataOptionsType /\ spec.kubelet \in DocumentType
  BY DEF Given, SpecTyped
<1> DEFINE Reservations ==
             /\ \A t \in ToSet(u.capacityReservationSelectorTerms) :
                  /\ ReservationFields(t) \cap {"tags", "id", "instanceMatchCriteria"} # {}
                  /\ t.criteria \in {Unset, "open", "targeted"}
             /\ IDNotWithOthers(u.capacityReservationSelectorTerms)
           m == u.blockDeviceMappings
           Devices_ ==
             /\ Cardinality({i \in DOMAIN m : m[i].rootVolume}) <= 1
             /\ \A i \in DOMAIN m :
                  /\ m[i].ebs.snapshot \/ Present(m[i].ebs.volumeSize)
                  /\ Present(m[i].ebs.volumeSize) => VolumeSizeAdmitted(Value(m[i].ebs.volumeSize))
                  /\ Present(m[i].ebs.volumeType) =>
                       Value(m[i].ebs.volumeType) \in {"standard", "io1", "io2", "gp2", "sc1", "st1", "gp3"}
<1>4. /\ u.subnetSelectorTerms # <<>> /\ SubnetTermsAdmitted(u.subnetSelectorTerms)
      /\ u.securityGroupSelectorTerms # <<>> /\ GroupTermsAdmitted(u.securityGroupSelectorTerms)
  BY <1>1, <1>2, SelectorsFit, Zenon
<1>5. Reservations <=> ~OwnerAlone
  BY <1>1, <1>2, <1>3, ReservationsFit, Zenon DEF OwnerAlone
<1>6. TagsAdmitted(u.tags) <=> ~UnfilteredTag
  BY <1>1, <1>2, TagsFit DEF UnfilteredTag
<1>7. Devices_ <=> ~(TooLarge \/ ForgottenSize)
  <2>1. Devices_ <=> ~ \E d \in ToSet(spec.blockDeviceMappings) :
                         BeyondPattern(d.sizeGiB) \/ ForgottenByPattern(d.sizeGiB)
    BY <1>1, <1>2, <1>3, DevicesFit, Zenon
  <2> HIDE DEF Devices_
  <2> QED BY <2>1, Zenon DEF TooLarge, ForgottenSize
<1>8. Present(u.metadataOptions) => InRange(Value(u.metadataOptions).hopLimit, 1, 64)
  BY <1>1, <1>2, <1>3, MetadataFits, Zenon
<1>9. (Present(u.kubelet) => KarpenterAdmitsKubelet(Value(u.kubelet)))
      <=> ~(NoQuantity \/ NoThreshold \/ NoDuration \/ UncheckedSpelling)
  BY <1>1, <1>2, <1>3, KubeletFits, Zenon
     DEF NoQuantity, NoThreshold, NoDuration, UncheckedSpelling, Decoded
<1>10. KarpenterAdmits(u) <=>
         /\ u.subnetSelectorTerms # <<>> /\ SubnetTermsAdmitted(u.subnetSelectorTerms)
         /\ u.securityGroupSelectorTerms # <<>> /\ GroupTermsAdmitted(u.securityGroupSelectorTerms)
         /\ Reservations /\ TagsAdmitted(u.tags) /\ Devices_
         /\ Present(u.metadataOptions) => InRange(Value(u.metadataOptions).hopLimit, 1, 64)
         /\ Present(u.kubelet) => KarpenterAdmitsKubelet(Value(u.kubelet))
  BY Zenon DEF KarpenterAdmits
<1> HIDE DEF Reservations, m, Devices_
<1>11. KarpenterAdmits(u) <=>
         ~ (OwnerAlone \/ TooLarge \/ ForgottenSize \/ UnfilteredTag \/ NoQuantity \/ NoThreshold
              \/ NoDuration \/ UncheckedSpelling)
  BY <1>4, <1>5, <1>6, <1>7, <1>8, <1>9, <1>10
<1> QED BY <1>11 DEF RejectedOnlyForKnownGaps, u

-----------------------------------------------------------------------------
(* The specs that are enumerated *)

LEMMA OptGrows == ASSUME NEW S, NEW T, S \subseteq T PROVE Opt(S) \subseteq Opt(T) /\ <<>> \in Opt(T)
  BY DEF Opt

LEMMA PartialFunctionsGrow ==
  ASSUME NEW D, NEW E, D \subseteq E, NEW S, NEW T, S \subseteq T
  PROVE  PartialFunctions(D, S) \subseteq PartialFunctions(E, T)
<1> SUFFICES ASSUME NEW f \in PartialFunctions(D, S) PROVE f \in PartialFunctions(E, T)
  OBVIOUS
<1>1. PICK d \in SUBSET D : f \in [d -> S]
  BY DEF PartialFunctions
<1>2. d \in SUBSET E /\ f \in [d -> T]
  BY <1>1
<1> QED BY <1>2 DEF PartialFunctions

LEMMA BoundedSeqIsSeq == ASSUME NEW S, NEW s \in BoundedSeq(S, MaxList) PROVE s \in Seq(S)
<1>1. PICK n \in 0..MaxList : s \in [1..n -> S]
  BY DEF BoundedSeq, SeqOf
<1> QED BY <1>1, BoundsAreTyped

LEMMA EmptyDocumentType == EmptyDocument \in DocumentType /\ KubeletAdmitted(EmptyDocument)
<1>1. EmptyDocument \in DocumentType
  BY OptGrows DEF EmptyDocument, DocumentType
<1>2. \A f \in DOMAIN EmptyDocument : ~Present(EmptyDocument[f]) /\ Entries(EmptyDocument[f]) = {}
  BY DEF EmptyDocument, Present, Entries
<1>3. KubeletAdmitted(EmptyDocument)
  BY <1>2 DEF KubeletAdmitted, InRange, HighAboveLow, SoftEvictionsHaveGracePeriods, SoftAboveHard,
              EmptyDocument
<1> QED BY <1>1, <1>3

LEMMA ThresholdsAreTyped ==
  /\ PartialFunctions(Signals, Thresholds) \subseteq PartialFunctions(Text, ThresholdType)
  /\ PartialFunctions(Signals, {"2m", "unparsable"}) \subseteq PartialFunctions(Text, Text)
<1>1. Signals \subseteq Text
  BY DEF Signals, Text
<1>2. {"2m", "unparsable"} \subseteq Text
  BY DEF Text
<1>3. [form : {"percent"}, n : {10, 20, 101}] \subseteq ThresholdType
  <2> SUFFICES ASSUME NEW t \in [form : {"percent"}, n : {10, 20, 101}] PROVE t \in ThresholdType
    OBVIOUS
  <2>1. t.form = "percent" /\ t.n \in Int /\ t = [form |-> t.form, n |-> t.n]
    OBVIOUS
  <2> QED BY <2>1 DEF ThresholdType
<1>4. [form |-> "quantity", n |-> 100] \in ThresholdType /\ [form |-> "other", n |-> 0] \in ThresholdType
  BY DEF ThresholdType
<1>5. Thresholds \subseteq ThresholdType
  BY <1>3, <1>4 DEF Thresholds
<1>6. PartialFunctions(Signals, Thresholds) \subseteq PartialFunctions(Text, ThresholdType)
  BY <1>1, <1>5, PartialFunctionsGrow
<1>7. PartialFunctions(Signals, {"2m", "unparsable"}) \subseteq PartialFunctions(Text, Text)
  BY <1>1, <1>2, PartialFunctionsGrow
<1> QED BY <1>6, <1>7

(* The kubelet sections that are enumerated; the rest of the spec is unset. *)
LEMMA KubeletVariesTyped ==
  ASSUME KubeletVaries
  PROVE  \E d \in DocumentType : WithKubelet(d)
<1>1. \A S : <<>> \in Opt(S)
  BY DEF Opt
<1>2. ASSUME NEW S, S \subseteq Int, NEW x \in Opt(S) PROVE x \in Opt(Int)
  BY <1>2, OptGrows
<1>3. ASSUME NEW x \in Opt({"x"}) PROVE x \in Opt(Text)
  <2>1. {"x"} \subseteq Text
    BY DEF Text
  <2> QED BY <2>1, OptGrows
<1>4. ASSUME NEW x \in Opt({"quantity", "malformed"}) PROVE x \in Opt(Quantities)
  <2>1. {"quantity", "malformed"} \subseteq Quantities
    BY DEF Quantities
  <2> QED BY <2>1, OptGrows
<1>5. CASE \E m \in Opt(PodNumbers), p \in Opt({10}), v \in Opt({-1, 5}), w \in Opt({-1, 5}),
             o \in Opt({"x"}) : WithKubelet(PodLimits(m, p, v, w, o))
  <2>1. PICK m \in Opt(PodNumbers), p \in Opt({10}), v \in Opt({-1, 5}), w \in Opt({-1, 5}),
             o \in Opt({"x"}) : WithKubelet(PodLimits(m, p, v, w, o))
    BY <1>5, Zenon
  <2>2. PodNumbers \subseteq Int /\ {10} \subseteq Int /\ {-1, 5} \subseteq Int
    BY DEF PodNumbers
  <2>3. m \in Opt(Int)
    BY <1>2, <2>2, Zenon
  <2>4. p \in Opt(Int)
    BY <1>2, <2>2, Zenon
  <2>5. v \in Opt(Int) /\ w \in Opt(Int)
    BY <1>2, <2>2, Zenon
  <2>6. o \in Opt(Text)
    BY <1>3
  <2>7. PodLimits(m, p, v, w, o) \in DocumentType
    BY <1>1, <2>3, <2>4, <2>5, <2>6 DEF PodLimits, EmptyDocument, DocumentType
  <2> QED BY <2>1, <2>7, Zenon
<1>6. CASE \E s \in Opt({"quantity", "malformed"}), k \in Opt({"quantity", "malformed"}),
             o \in Opt({"x"}) : WithKubelet(Reserved(s, k, o))
  <2>1. PICK s \in Opt({"quantity", "malformed"}), k \in Opt({"quantity", "malformed"}),
             o \in Opt({"x"}) : WithKubelet(Reserved(s, k, o))
    BY <1>6, Zenon
  <2>2. s \in Opt(Quantities) /\ k \in Opt(Quantities) /\ o \in Opt(Text)
    BY <1>3, <1>4
  <2>3. Reserved(s, k, o) \in DocumentType
    BY <1>1, <2>2 DEF Reserved, EmptyDocument, DocumentType
  <2> QED BY <2>1, <2>3, Zenon
<1>7. CASE \E h \in Opt(PartialFunctions(Signals, Thresholds)),
              s \in Opt(PartialFunctions(Signals, Thresholds)),
              g \in Opt(PartialFunctions(Signals, {"2m", "unparsable"})) : WithKubelet(Evictions(h, s, g))
  <2>1. PICK h \in Opt(PartialFunctions(Signals, Thresholds)),
             s \in Opt(PartialFunctions(Signals, Thresholds)),
             g \in Opt(PartialFunctions(Signals, {"2m", "unparsable"})) : WithKubelet(Evictions(h, s, g))
    BY <1>7, Zenon
  <2>2. h \in Opt(PartialFunctions(Text, ThresholdType)) /\ s \in Opt(PartialFunctions(Text, ThresholdType))
    BY OptGrows, ThresholdsAreTyped, Zenon
  <2>3. g \in Opt(PartialFunctions(Text, Text))
    BY OptGrows, ThresholdsAreTyped, Zenon
  <2>4. Evictions(h, s, g) \in DocumentType
    BY <1>1, <2>2, <2>3 DEF Evictions, EmptyDocument, DocumentType
  <2> QED BY <2>1, <2>4, Zenon
<1>8. CASE \E h \in Opt(Percents), l \in Opt(Percents), c \in Opt(BOOLEAN), g \in Opt({0, 30}),
             o \in Opt({"x"}) : WithKubelet(ImageGC(h, l, c, g, o))
  <2>1. PICK h \in Opt(Percents), l \in Opt(Percents), c \in Opt(BOOLEAN), g \in Opt({0, 30}),
             o \in Opt({"x"}) : WithKubelet(ImageGC(h, l, c, g, o))
    BY <1>8, Zenon
  <2>2. Percents \subseteq Int /\ {0, 30} \subseteq Int
    BY DEF Percents
  <2>3. h \in Opt(Int) /\ l \in Opt(Int)
    BY <1>2, <2>2, Zenon
  <2>4. g \in Opt(Int)
    BY <1>2, <2>2, Zenon
  <2>5. o \in Opt(Text)
    BY <1>3
  <2>6. ImageGC(h, l, c, g, o) \in DocumentType
    BY <1>1, <2>3, <2>4, <2>5 DEF ImageGC, EmptyDocument, DocumentType
  <2> QED BY <2>1, <2>6, Zenon
<1> QED BY <1>5, <1>6, <1>7, <1>8, Zenon DEF KubeletVaries

LEMMA DevicesAreTyped == ASSUME NEW s \in Devices PROVE s \in Seq(DeviceType)
<1>1. Device \subseteq DeviceType
  <2> SUFFICES ASSUME NEW d \in Device PROVE d \in DeviceType
    OBVIOUS
  <2>1. Sizes \subseteq Int
    BY BoundsAreTyped
  <2>2. d.sizeGiB \in Sizes
    BY DEF Device
  <2>3. d.sizeGiB \in Int
    BY <2>1, <2>2
  <2> QED BY <2>3 DEF Device, DeviceType
<1>2. RootDevice \subseteq DeviceType
  <2> SUFFICES ASSUME NEW d \in RootDevice PROVE d \in DeviceType
    OBVIOUS
  <2>1. d.rootVolume \in {Unset, "RootVolume", "NotRootVolume"} /\ d.snapshot \in BOOLEAN
    BY DEF RootDevice
  <2>2. d.deleteOnTermination = Unset /\ d.encrypted = Unset /\ d.volumeType = Unset
    BY DEF RootDevice
  <2>3. d.sizeGiB \in Int
    BY DEF RootDevice
  <2>4. d = [rootVolume |-> d.rootVolume, deleteOnTermination |-> d.deleteOnTermination,
             encrypted |-> d.encrypted, snapshot |-> d.snapshot, sizeGiB |-> d.sizeGiB,
             volumeType |-> d.volumeType]
    BY DEF RootDevice
  <2> QED BY <2>1, <2>2, <2>3, <2>4 DEF DeviceType
<1>3. CASE \E d \in Device : s = <<d>>
  BY <1>1, <1>3
<1>4. CASE s \in BoundedSeq(RootDevice, MaxList)
  <2>1. s \in Seq(RootDevice)
    BY <1>4, BoundedSeqIsSeq
  <2> QED BY <1>2, <2>1
<1> QED BY <1>3, <1>4 DEF Devices

LEMMA UnsetMetadata ==
  [access |-> Unset, httpIPProtocol |-> Unset, hopLimit |-> 0, httpTokens |-> Unset] \in MetadataOptionsType
  BY DEF MetadataOptionsType

LEMMA MetadataIsTyped == MetadataOptions \subseteq MetadataOptionsType
<1> SUFFICES ASSUME NEW m \in MetadataOptions PROVE m \in MetadataOptionsType
  OBVIOUS
<1>1. m.hopLimit \in Int
  BY DEF MetadataOptions
<1> QED BY <1>1 DEF MetadataOptions, MetadataOptionsType

(* A spec is typed when all of its facets but one are unset. *)
LEMMA UnsetIsTyped ==
  /\ UnsetSpec.subnetSelectorTerms \in Seq(SUBSET {"tags", "id"})
  /\ UnsetSpec.securityGroupSelectorTerms \in Seq(SUBSET {"tags", "id", "name"})
  /\ UnsetSpec.capacityReservationSelectorTerms \in Seq(ReservationTermType)
  /\ UnsetSpec.blockDeviceMappings \in Seq(DeviceType)
  /\ UnsetSpec.metadataOptions \in MetadataOptionsType
  /\ UnsetSpec.kubelet \in DocumentType
  BY UnsetMetadata, EmptyDocumentType DEF UnsetSpec

LEMMA UnsetIsAdmitted == SpecAdmitted(UnsetSpec)
<1>1. SubnetTermsAdmitted(<<>>) /\ GroupTermsAdmitted(<<>>)
  BY DEF SubnetTermsAdmitted, GroupTermsAdmitted
<1>2. ToSet(<<>>) = {}
  BY DEF ToSet
<1>3. ReservationTermsAdmitted(<<>>)
  BY <1>2 DEF ReservationTermsAdmitted, IDNotWithOthers
<1>4. TagsAdmitted([k \in {} |-> Unset])
  BY DEF TagsAdmitted
<1>5. DevicesAdmitted(<<>>)
  <2>1. {i \in DOMAIN <<>> : <<>>[i].rootVolume = "RootVolume"} = {}
    OBVIOUS
  <2>2. Cardinality({}) = 0
    BY FS_EmptySet
  <2> QED BY <1>2, <2>1, <2>2 DEF DevicesAdmitted
<1>6. 0 \in 0..64
  OBVIOUS
<1> QED BY <1>1, <1>3, <1>4, <1>5, <1>6, EmptyDocumentType DEF SpecAdmitted, UnsetSpec

LEMMA PlatformTagsAreTyped == ASSUME NEW s \in PlatformTags PROVE s \in Seq(TagType)
<1> DEFINE T == [key : {"a", "b", "cluster", "cluster-dotted", "nodepool"}, value : Values, allow : BOOLEAN]
<1>1. {"a", "b", "cluster", "cluster-dotted", "nodepool"} \subseteq Text
  BY DEF Text
<1>2. T \subseteq TagType
  <2> SUFFICES ASSUME NEW t \in T PROVE t \in TagType
    OBVIOUS
  <2>1. t.key \in Text
    BY <1>1
  <2> QED BY <2>1 DEF TagType
<1>3. s \in BoundedSeq(T, MaxList)
  BY DEF PlatformTags
<1> HIDE DEF T
<1>4. s \in Seq(T)
  BY <1>3, BoundedSeqIsSeq
<1> QED BY <1>2, <1>4

(* Every spec that TLC is given is one the proofs are about. *)
LEMMA InitGiven == TranslationInit => Given
<1> DEFINE FacetsTyped ==
      /\ spec.subnetSelectorTerms \in Seq(SUBSET {"tags", "id"})
      /\ spec.securityGroupSelectorTerms \in Seq(SUBSET {"tags", "id", "name"})
      /\ spec.capacityReservationSelectorTerms \in Seq(ReservationTermType)
      /\ spec.blockDeviceMappings \in Seq(DeviceType)
      /\ spec.metadataOptions \in MetadataOptionsType
      /\ spec.kubelet \in DocumentType
<1>1. ASSUME SpecVaries PROVE FacetsTyped
  <2>1. CASE \E t \in Terms({"tags", "id"}) : spec = [UnsetSpec EXCEPT !.subnetSelectorTerms = t]
    <3>1. PICK t \in Terms({"tags", "id"}) : spec = [UnsetSpec EXCEPT !.subnetSelectorTerms = t]
      BY <2>1
    <3>2. t \in Seq(SUBSET {"tags", "id"})
      BY BoundedSeqIsSeq DEF Terms
    <3> QED BY <3>1, <3>2, UnsetIsTyped DEF UnsetSpec
  <2>2. CASE \E t \in Terms({"tags", "id", "name"}) :
               spec = [UnsetSpec EXCEPT !.securityGroupSelectorTerms = t]
    <3>1. PICK t \in Terms({"tags", "id", "name"}) :
               spec = [UnsetSpec EXCEPT !.securityGroupSelectorTerms = t]
      BY <2>2
    <3>2. t \in Seq(SUBSET {"tags", "id", "name"})
      BY BoundedSeqIsSeq DEF Terms
    <3> QED BY <3>1, <3>2, UnsetIsTyped DEF UnsetSpec
  <2>3. CASE \E t \in ReservationTerms : spec = [UnsetSpec EXCEPT !.capacityReservationSelectorTerms = t]
    <3>1. PICK t \in ReservationTerms : spec = [UnsetSpec EXCEPT !.capacityReservationSelectorTerms = t]
      BY <2>3
    <3>2. t \in BoundedSeq(ReservationTermType, MaxList)
      BY DEF ReservationTerms, ReservationTermType
    <3>3. t \in Seq(ReservationTermType)
      BY <3>2, BoundedSeqIsSeq
    <3> QED BY <3>1, <3>3, UnsetIsTyped DEF UnsetSpec
  <2>4. CASE \E a \in {Unset, "Public", "SubnetDefault"}, m \in {Unset, "Detailed", "Basic"},
                p \in {Unset, "RAID0"} :
               spec = [UnsetSpec EXCEPT !.ipAddressAssociation = a, !.monitoring = m,
                                        !.instanceStorePolicy = p]
    BY <2>4, UnsetIsTyped DEF UnsetSpec
  <2>5. CASE \E d \in Devices : spec = [UnsetSpec EXCEPT !.blockDeviceMappings = d]
    <3>1. PICK d \in Devices : spec = [UnsetSpec EXCEPT !.blockDeviceMappings = d]
      BY <2>5
    <3>2. d \in Seq(DeviceType)
      BY DevicesAreTyped
    <3> QED BY <3>1, <3>2, UnsetIsTyped DEF UnsetSpec
  <2>6. CASE \E m \in MetadataOptions : spec = [UnsetSpec EXCEPT !.metadataOptions = m]
    <3>1. PICK m \in MetadataOptions : spec = [UnsetSpec EXCEPT !.metadataOptions = m]
      BY <2>6
    <3>2. m \in MetadataOptionsType
      BY MetadataIsTyped
    <3> QED BY <3>1, <3>2, UnsetIsTyped DEF UnsetSpec
  <2>7. CASE KubeletVaries
    <3>1. PICK d \in DocumentType : WithKubelet(d)
      BY <2>7, KubeletVariesTyped
    <3> QED BY <3>1, UnsetIsTyped DEF UnsetSpec, WithKubelet
  <2> QED BY <1>1, <2>1, <2>2, <2>3, <2>4, <2>5, <2>6, <2>7 DEF SpecVaries
<1>2. ASSUME TagsVary PROVE FacetsTyped
  <2>1. PICK t : spec = [UnsetSpec EXCEPT !.tags = t]
    BY <1>2 DEF TagsVary
  <2> QED BY <2>1, UnsetIsTyped DEF UnsetSpec
<1>3. spec = UnsetSpec => FacetsTyped /\ SpecAdmitted(spec)
  BY UnsetIsTyped, UnsetIsAdmitted
<1>4. hcp = NoTags \/ hcp \in [resourceTags : {<<>>}, instanceProfile : {Unset, "p"}] =>
        hcp.resourceTags \in Seq(TagType)
  <2>1. hcp = NoTags => hcp.resourceTags = <<>>
    BY DEF NoTags
  <2>2. hcp \in [resourceTags : {<<>>}, instanceProfile : {Unset, "p"}] => hcp.resourceTags = <<>>
    OBVIOUS
  <2>3. <<>> \in Seq(TagType)
    OBVIOUS
  <2> QED BY <2>1, <2>2, <2>3, Zenon
<1>5. hcp \in [resourceTags : PlatformTags, instanceProfile : {Unset}] => hcp.resourceTags \in Seq(TagType)
  BY PlatformTagsAreTyped
<1>6. FacetsTyped /\ hcp.resourceTags \in Seq(TagType) => SpecTyped
  BY Zenon DEF SpecTyped
<1> HIDE DEF FacetsTyped
<1> QED BY <1>1, <1>2, <1>3, <1>4, <1>5, <1>6, Zenon DEF TranslationInit, Given

-----------------------------------------------------------------------------
(* A NodeClass with any spec that the CRD admits, any tags of the platform and *)
(* any conditions.                                                             *)
AdmittedSpec == Given /\ [][Reconcile]_allVars

LEMMA StaysGiven == Given /\ [Reconcile]_allVars => Given'
<1> SUFFICES ASSUME Given, [Reconcile]_allVars PROVE Given'
  OBVIOUS
<1>1. spec' = spec /\ hcp' = hcp
  BY DEF Reconcile, allVars
<1>2. SpecTyped'
  BY <1>1 DEF Given, SpecTyped
<1>3. SpecAdmitted(spec)'
  BY <1>1 DEF Given
<1> QED BY <1>2, <1>3 DEF Given

(* The specs that TLC enumerates for the run are among them: what is stated of *)
(* AdmittedSpec below holds of the run with any Sizes, Values and MaxList.     *)
THEOREM EnumeratedSpecsAreAdmitted == TranslationSpec => AdmittedSpec
  BY InitGiven, PTL DEF TranslationSpec, AdmittedSpec

(* Karpenter's CRD rejects the EC2NodeClass that ec2NodeClassSpec makes of an   *)
(* admitted spec exactly when the spec has one of the listed gaps, whatever    *)
(* its facets are together and however long its lists.                         *)
THEOREM RejectedOnlyForKnownGapsTheorem == AdmittedSpec => []RejectedOnlyForKnownGaps
  BY StaysGiven, GapsOfASpec, PTL DEF AdmittedSpec

(* If no key is given twice, setAWSResourceTagConflictCondition reports a       *)
(* conflict exactly when mergeEC2NodeClassTags does not apply a tag of the     *)
(* NodeClass, for any number of tags.                                          *)
THEOREM ConflictIsReportedTheorem == AdmittedSpec => []ConflictIsReported
  BY StaysGiven, ConflictOfTags, PTL DEF AdmittedSpec

(* UnmarshalJSON and then MarshalJSON give any admitted kubelet section back,   *)
(* with the typed key added once where another spelling of it was used.        *)
THEOREM KubeletRoundTripTheorem == AdmittedSpec => []KubeletRoundTrip
  BY StaysGiven, RoundTripOfADocument, PTL DEF AdmittedSpec

(* HasTypedFields, IsZero and the translation of the kubelet section agree on   *)
(* every section: a field that is set reaches the EC2NodeClass.                *)
THEOREM NoFieldIsForgottenTheorem == AdmittedSpec => []NoFieldIsForgotten
  BY StaysGiven, FieldsOfADocument, PTL DEF AdmittedSpec

(* The enums that the controller translates in both directions keep their       *)
(* meaning, with the defaults of the upstream CRD, for every admitted spec.    *)
THEOREM EnumsMeanTheSameTheorem == AdmittedSpec => []EnumsMeanTheSame
  BY StaysGiven, EnumsOfASpec, PTL DEF AdmittedSpec

=============================================================================
