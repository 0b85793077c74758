-------------------------- MODULE MCEC2Translation --------------------------
(***************************************************************************)
(* The pure functions of an EC2 reconcile on bounded inputs: SyncConditions *)
(* as in MCNodeClassConditions, and the translation on specs that the CRD  *)
(* admits.  One facet of the spec varies at a time and the rest is left    *)
(* unset, save those that a rule or a conversion looks at together.        *)
(***************************************************************************)
EXTENDS MCNodeClassConditions, EC2Translation

CONSTANTS
    Sizes,    \* volume sizes in GiB, 0 for none
    Values,   \* tag values
    MaxList   \* bound on the length of lists

ASSUME BoundsAreTyped == Sizes \subseteq Nat /\ MaxList \in Nat

VARIABLES spec, hcp
allVars == <<conditions, provider, spec, hcp>>

Tebibytes(n) == n * GiPerTi

(* Sizes on both sides of every limit, and all that are written in Ti *)
EdgeSizes == {0, 1, 120, 1023, 1025, 59000, 59001, 59391, 65535} \cup {Tebibytes(n) : n \in 1..64}

Opt(S) == {<<>>} \cup {<<x>> : x \in S}
PartialFunctions(D, S) == UNION {[d -> S] : d \in SUBSET D}

UnsetSpec ==
    [subnetSelectorTerms |-> <<>>, securityGroupSelectorTerms |-> <<>>,
     capacityReservationSelectorTerms |-> <<>>, tags |-> [k \in {} |-> Unset],
     ipAddressAssociation |-> Unset, monitoring |-> Unset, instanceStorePolicy |-> Unset,
     blockDeviceMappings |-> <<>>,
     metadataOptions |-> [access |-> Unset, httpIPProtocol |-> Unset, hopLimit |-> 0, httpTokens |-> Unset],
     kubelet |-> EmptyDocument]

Terms(fields) == BoundedSeq(SUBSET fields, MaxList)

ReservationTerms ==
    BoundedSeq([fields : SUBSET {"tags", "id", "ownerID"}, criteria : {Unset, "Open", "Targeted"}], MaxList)

Device ==
    [rootVolume : {Unset}, deleteOnTermination : {Unset, "Delete", "Retain"},
     encrypted : {Unset, "Encrypted", "Unencrypted"}, snapshot : BOOLEAN, sizeGiB : Sizes,
     volumeType : {Unset, "Standard", "IO1", "IO2", "GP2", "SC1", "ST1", "GP3"}]
RootDevice ==
    [rootVolume : {Unset, "RootVolume", "NotRootVolume"}, deleteOnTermination : {Unset},
     encrypted : {Unset}, snapshot : {TRUE}, sizeGiB : {0}, volumeType : {Unset}]
Devices == {<<d>> : d \in Device} \cup BoundedSeq(RootDevice, MaxList)

MetadataOptions ==
    [access : {Unset, "HTTPEndpoint", "None"}, httpIPProtocol : {Unset, "IPv4", "IPv6"},
     hopLimit : {0, 1, 2, 64}, httpTokens : {Unset, "Required", "Optional"}]

Signals == {"memory", "nodefs"}
Thresholds == [form : {"percent"}, n : {10, 20, 101}]
    \cup {[form |-> "quantity", n |-> 100], [form |-> "other", n |-> 0]}

PodNumbers == {1, 110, 2500}
Percents == {0, 80, 100}

(* Kubelet sections, with the fields together that a rule relates *)
PodLimits(m, p, v, w, o) ==
    [EmptyDocument EXCEPT !.maxPods = m, !.podsPerCore = p, !.MaxPods = v, !.maxpods = w, !.other = o]
Reserved(s, k, o) == [EmptyDocument EXCEPT !.systemReserved = s, !.kubeReserved = k, !.other = o]
Evictions(h, s, g) ==
    [EmptyDocument EXCEPT !.evictionHard = h, !.evictionSoft = s, !.evictionSoftGracePeriod = g]
ImageGC(h, l, c, g, o) ==
    [EmptyDocument EXCEPT !.imageGCHighThresholdPercent = h, !.imageGCLowThresholdPercent = l,
                          !.cpuCFSQuota = c, !.evictionMaxPodGracePeriod = g, !.other = o]

WithKubelet(d) == spec = [UnsetSpec EXCEPT !.kubelet = d]

KubeletVaries ==
    \/ \E m \in Opt(PodNumbers), p \in Opt({10}), v \in Opt({-1, 5}), w \in Opt({-1, 5}),
          o \in Opt({"x"}) : WithKubelet(PodLimits(m, p, v, w, o))
    \/ \E s \in Opt({"quantity", "malformed"}), k \in Opt({"quantity", "malformed"}), o \in Opt({"x"}) :
          WithKubelet(Reserved(s, k, o))
    \/ \E h \in Opt(PartialFunctions(Signals, Thresholds)), s \in Opt(PartialFunctions(Signals, Thresholds)),
          g \in Opt(PartialFunctions(Signals, {"2m", "unparsable"})) : WithKubelet(Evictions(h, s, g))
    \/ \E h \in Opt(Percents), l \in Opt(Percents), c \in Opt(BOOLEAN), g \in Opt({0, 30}),
          o \in Opt({"x"}) : WithKubelet(ImageGC(h, l, c, g, o))

SpecVaries ==
    \/ \E t \in Terms({"tags", "id"}) : spec = [UnsetSpec EXCEPT !.subnetSelectorTerms = t]
    \/ \E t \in Terms({"tags", "id", "name"}) : spec = [UnsetSpec EXCEPT !.securityGroupSelectorTerms = t]
    \/ \E t \in ReservationTerms : spec = [UnsetSpec EXCEPT !.capacityReservationSelectorTerms = t]
    \/ \E a \in {Unset, "Public", "SubnetDefault"}, m \in {Unset, "Detailed", "Basic"}, p \in {Unset, "RAID0"} :
          spec = [UnsetSpec EXCEPT !.ipAddressAssociation = a, !.monitoring = m, !.instanceStorePolicy = p]
    \/ \E d \in Devices : spec = [UnsetSpec EXCEPT !.blockDeviceMappings = d]
    \/ \E m \in MetadataOptions : spec = [UnsetSpec EXCEPT !.metadataOptions = m]
    \/ KubeletVaries

TagsVary == \E t \in PartialFunctions({"a", "b"}, Values) : spec = [UnsetSpec EXCEPT !.tags = t]

PlatformTags ==
    BoundedSeq([key : {"a", "b", "cluster", "cluster-dotted", "nodepool"}, value : Values,
                allow : BOOLEAN], MaxList)

NoTags == [resourceTags |-> <<>>, instanceProfile |-> Unset]

TranslationInit ==
    \/ Init /\ spec = UnsetSpec /\ hcp = NoTags
    \/ /\ conditions = NoConditions /\ provider = NoConditions
       /\ \/ SpecVaries /\ hcp \in [resourceTags : {<<>>}, instanceProfile : {Unset, "p"}]
          \/ TagsVary /\ hcp \in [resourceTags : PlatformTags, instanceProfile : {Unset}]
       /\ SpecAdmitted(spec)

Reconcile == Sync /\ UNCHANGED <<spec, hcp>>

TranslationSpec == TranslationInit /\ [][Reconcile]_allVars

-----------------------------------------------------------------------------
Translated == ec2NodeClassSpec(spec, hcp)
Decoded == UnmarshalJSON(ZeroKubelet, spec.kubelet)

(* What the OpenshiftEC2NodeClass CRD admits and the EC2NodeClass CRD does  *)
(* not, all that is known of it                                              *)
OwnerAlone == \E t \in ToSet(spec.capacityReservationSelectorTerms) : ReservationFields(t) = {"ownerID"}
BeyondPattern(gi) == gi > KarpenterMaxSizeGi /\ gi # Tebibytes(58)
TooLarge == \E d \in ToSet(spec.blockDeviceMappings) : BeyondPattern(d.sizeGiB)
ForgottenByPattern(gi) == \E n \in {18, 19, 28, 29, 38, 39, 48, 49} : gi = Tebibytes(n)
ForgottenSize == \E d \in ToSet(spec.blockDeviceMappings) : ForgottenByPattern(d.sizeGiB)
UnfilteredTag == "cluster-dotted" \in PlatformKeys(hcp.resourceTags)
NoQuantity == \E f \in {"systemReserved", "kubeReserved"} : spec.kubelet[f] = <<"malformed">>
NoThreshold == ~ThresholdsFit(spec.kubelet.evictionHard) \/ ~ThresholdsFit(spec.kubelet.evictionSoft)
NoDuration ==
    \E s \in Entries(spec.kubelet.evictionSoftGracePeriod) :
        Value(spec.kubelet.evictionSoftGracePeriod)[s] = "unparsable"
UncheckedSpelling == Decoded.maxPods < 0

(* An EC2NodeClass that its CRD rejects is never written, and the reconcile *)
(* is retried for ever.  Of the specs that were admitted this meets exactly *)
(* those with one of the gaps above: every enum, default and list that the  *)
(* controller translates fits the other CRD.                                *)
RejectedOnlyForKnownGaps ==
    KarpenterAdmits(Translated) <=>
        ~ (OwnerAlone \/ TooLarge \/ ForgottenSize \/ UnfilteredTag \/ NoQuantity \/ NoThreshold
             \/ NoDuration \/ UncheckedSpelling)

(* mergeEC2NodeClassTags and setAWSResourceTagConflictCondition decide      *)
(* separately; if no key is given twice, the condition says that there is a *)
(* conflict exactly when a tag of the NodeClass is not applied as it is.    *)
ConflictIsReported ==
    (\A i, j \in DOMAIN hcp.resourceTags :
        hcp.resourceTags[i].key = hcp.resourceTags[j].key => i = j) =>
    LET applied == Translated.tags
    IN  setAWSResourceTagConflictCondition(spec.tags, hcp.resourceTags) = "True" <=>
            \E k \in DOMAIN spec.tags : k \notin DOMAIN applied \/ applied[k] # spec.tags[k]

(* Other programs and other reads of this one see the kubelet section as    *)
(* the user wrote it: decoding into any receiver and encoding gives the     *)
(* document back, unless a typed key is spelled in another case; then the   *)
(* typed key is added, once.                                                *)
KubeletRoundTrip ==
    LET d == spec.kubelet
        full == [ZeroKubelet EXCEPT !.maxPods = 7, !.cpuCFSQuota = <<TRUE>>, !.overflow.other = <<"y">>]
        again(x) == MarshalJSON(UnmarshalJSON(full, x))
    IN  /\ ~Present(d.MaxPods) /\ ~Present(d.maxpods) => again(d) = d
        /\ again(again(d)) = again(d)

(* HasTypedFields lists the fields by hand, and both the translation and    *)
(* omitzero rely on it: no field that is set is lost to Karpenter, and the  *)
(* section is left out only if there is nothing in it.                      *)
NoFieldIsForgotten ==
    LET d == MarshalJSON(Decoded)
        u == Translated.kubelet
    IN  /\ IsZero(Decoded) <=> d = EmptyDocument
        /\ \A f \in DOMAIN ZeroKubelet \ {"overflow", "evictionSoftGracePeriod"} :
              Present(d[f]) => Present(u) /\ Value(u)[f] = d[f]

(* Both APIs spell the same things differently.  The metadata service of an *)
(* instance is what the API promises, the defaults of the upstream CRD      *)
(* completing the options where only some are set; the reservations in the  *)
(* status have values that the CRD admits, or every status patch would      *)
(* fail; those found for a term of the spec have the criteria of the term.  *)
EnumsMeanTheSame ==
    /\ LET mo == spec.metadataOptions
       IN  MetadataDefaults(Translated.metadataOptions) =
               [httpEndpoint |-> IF mo.access = "None" THEN "disabled" ELSE "enabled",
                httpProtocolIPv6 |-> IF mo.httpIPProtocol = "IPv6" THEN "enabled" ELSE "disabled",
                hopLimit |-> IF mo.hopLimit = 0 THEN 1 ELSE mo.hopLimit,
                httpTokens |-> IF mo.httpTokens = "Optional" THEN "optional" ELSE "required"]
    /\ \A r \in [criteria : {"open", "targeted"}, type : {"default", "capacity-block"},
                 state : {"active", "expiring"}] :
          reservationStatus(r) \in [criteria : {"Open", "Targeted"}, type : {"Default", "CapacityBlock"},
                                    state : {"Active", "Expiring"}]
    /\ \A i \in DOMAIN spec.capacityReservationSelectorTerms :
          LET c == spec.capacityReservationSelectorTerms[i].criteria
          IN  c # Unset => upstreamInstanceMatchCriteria(
                            Translated.capacityReservationSelectorTerms[i].criteria) = c
=============================================================================
