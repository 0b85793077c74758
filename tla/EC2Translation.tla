--------------------------- MODULE EC2Translation ---------------------------
(***************************************************************************)
(* What the EC2 NodeClass controller makes of the spec of an               *)
(* OpenshiftEC2NodeClass (pkg/controllers/nodeclass/ec2/controller.go and  *)
(* karpenter_util.go), of the resource tags of the HostedControlPlane and  *)
(* of the capacity reservations that Karpenter reports; the rules of its   *)
(* CRD (api/karpenter/v1/karpenter_types.go) and of the EC2NodeClass CRD   *)
(* (pkg/assets/aws/karpenter.k8s.aws_ec2nodeclasses.yaml).                 *)
(*                                                                         *)
(* An unset list is empty, an unset number 0; in the EC2NodeClass an       *)
(* optional value is a sequence of at most one.  A selector term is the    *)
(* set of its fields.  A spec holds the kubelet section as the document    *)
(* that the API server serves.                                             *)
(***************************************************************************)
EXTENDS KubeletConfiguration, FiniteSets

(* An enum or string that is not set *)
Unset == ""

(* strings.ToLower on the enum values it is used for *)
ToLower(v) ==
    [Open |-> "open", Targeted |-> "targeted", Standard |-> "standard", IO1 |-> "io1",
     IO2 |-> "io2", GP2 |-> "gp2", SC1 |-> "sc1", ST1 |-> "st1", GP3 |-> "gp3"][v]

OptIfSet(v) == IF v = Unset THEN <<>> ELSE <<v>>

(* A switch over the values a and b of an enum, unset by default *)
Switch(v, a, x, b, y) == IF v = a THEN <<x>> ELSE IF v = b THEN <<y>> ELSE <<>>

-----------------------------------------------------------------------------
(* Tags.  A key is free, or restricted because Karpenter manages the tag:   *)
(* "cluster" and "cluster-dotted" start with kubernetes.io/cluster, but the *)
(* name in the second has a character that the pattern lacks.               *)

RestrictedByPattern == {"cluster", "nodepool"}
RestrictedByRule == {"cluster", "cluster-dotted", "nodepool"}

TagsAdmitted(tags) == DOMAIN tags \cap RestrictedByRule = {}

(* Platform tags: the last value of a key; an override is allowed if any    *)
(* tag of the key allows it.                                                 *)
PlatformKeys(platform) == {platform[i].key : i \in DOMAIN platform}
PlatformValue(platform, k) ==
    platform[CHOOSE i \in DOMAIN platform :
                platform[i].key = k /\ \A j \in DOMAIN platform : platform[j].key = k => j <= i].value
AllowOverride(platform, k) == \E i \in DOMAIN platform : platform[i].key = k /\ platform[i].allow

filterRestrictedTags(tags) == [k \in DOMAIN tags \ RestrictedByPattern |-> tags[k]]

(* Mutant: the NodeClass wins whatever the policy says. *)
mergeTagsForNodeClass(tags, platform) ==
    filterRestrictedTags([k \in DOMAIN tags \cup PlatformKeys(platform) |->
        IF k \in DOMAIN tags THEN tags[k] ELSE PlatformValue(platform, k)])

mergeEC2NodeClassTags(tags, platform) ==
    filterRestrictedTags([k \in DOMAIN tags \cup PlatformKeys(platform) |->
        IF k \in DOMAIN tags /\ (k \in PlatformKeys(platform) => AllowOverride(platform, k))
          THEN tags[k] ELSE PlatformValue(platform, k)])

(* The status of the conflict condition; the first tag of a key counts. *)
FirstTag(platform, k) ==
    platform[CHOOSE i \in DOMAIN platform :
                platform[i].key = k /\ \A j \in DOMAIN platform : platform[j].key = k => i <= j]

setAWSResourceTagConflictCondition(tags, platform) ==
    IF platform = <<>> \/ DOMAIN tags = {} THEN "None"
    ELSE LET blocked == {k \in DOMAIN tags \cap PlatformKeys(platform) :
                            LET t == FirstTag(platform, k) IN t.value # tags[k] /\ ~t.allow}
         IN  IF blocked = {} THEN "False" ELSE "True"

-----------------------------------------------------------------------------
(* The rules of the OpenshiftEC2NodeClass CRD.  "Mutually exclusive" is     *)
(* violated only if it is in all terms.                                     *)

SubnetTermsAdmitted(terms) ==
    terms # <<>> => /\ \A t \in ToSet(terms) : t \cap {"tags", "id"} # {}
                    /\ \E t \in ToSet(terms) : ~ {"tags", "id"} \subseteq t

GroupTermsAdmitted(terms) ==
    terms # <<>> =>
        /\ \A t \in ToSet(terms) : t \cap {"tags", "id", "name"} # {}
        /\ \E t \in ToSet(terms) : ~ ("id" \in t /\ t \cap {"tags", "name"} # {})
        /\ \E t \in ToSet(terms) : ~ ("name" \in t /\ t \cap {"tags", "id"} # {})

(* The criteria of a reservation term are a field with a value. *)
ReservationFields(t) == t.fields \cup (IF t.criteria = Unset THEN {} ELSE {"instanceMatchCriteria"})

IDNotWithOthers(terms) ==
    terms # <<>> =>
        \E t \in ToSet(terms) : ~ ("id" \in ReservationFields(t) /\ ReservationFields(t) # {"id"})

ReservationTermsAdmitted(terms) ==
    /\ \A t \in ToSet(terms) : ReservationFields(t) # {}
    /\ IDNotWithOthers(terms)

(* The largest volume *)
MaxSizeGiB == 65536

DevicesAdmitted(devices) ==
    /\ Cardinality({i \in DOMAIN devices : devices[i].rootVolume = "RootVolume"}) <= 1
    /\ \A d \in ToSet(devices) : (d.snapshot \/ d.sizeGiB # 0) /\ d.sizeGiB \in 0..MaxSizeGiB

SpecAdmitted(spec) ==
    /\ SubnetTermsAdmitted(spec.subnetSelectorTerms)
    /\ GroupTermsAdmitted(spec.securityGroupSelectorTerms)
    /\ ReservationTermsAdmitted(spec.capacityReservationSelectorTerms)
    /\ TagsAdmitted(spec.tags) /\ DevicesAdmitted(spec.blockDeviceMappings)
    /\ spec.metadataOptions.hopLimit \in 0..64
    /\ KubeletAdmitted(spec.kubelet)

-----------------------------------------------------------------------------
(* Translation *)

(* Mutant: the criteria are passed on as they are. *)
selectorTermsVerbatim(terms) == terms

karpenterCapacityReservationSelectorTerms(terms) ==
    [i \in DOMAIN terms |->
        [fields |-> terms[i].fields,
         criteria |-> IF terms[i].criteria = Unset THEN Unset ELSE ToLower(terms[i].criteria)]]

(* How a resource.Quantity of so many Gi is written: in its canonical form,  *)
(* with the largest suffix that leaves the number whole.  No size reaches Pi. *)
GiPerTi == 1024
CanonicalQuantity(gi) ==
    IF gi % GiPerTi = 0 THEN [number |-> gi \div GiPerTi, suffix |-> "Ti"]
                        ELSE [number |-> gi, suffix |-> "Gi"]

volumeSizeGiBToQuantity(gi) == IF gi = 0 THEN <<>> ELSE <<CanonicalQuantity(gi)>>

karpenterBlockDevice(d) ==
    [deleteOnTermination |-> Switch(d.deleteOnTermination, "Delete", TRUE, "Retain", FALSE),
     encrypted |-> Switch(d.encrypted, "Encrypted", TRUE, "Unencrypted", FALSE),
     snapshot |-> d.snapshot,
     volumeSize |-> volumeSizeGiBToQuantity(d.sizeGiB),
     volumeType |-> IF d.volumeType = Unset THEN <<>> ELSE <<ToLower(d.volumeType)>>]

(* The root volume of OpenShift nodes when no device is given *)
DefaultDevice ==
    [rootVolume |-> FALSE,
     ebs |-> [deleteOnTermination |-> <<>>, encrypted |-> <<TRUE>>, snapshot |-> FALSE,
              volumeSize |-> volumeSizeGiBToQuantity(120), volumeType |-> <<"gp3">>]]

karpenterBlockDeviceMapping(devices) ==
    IF devices = <<>> THEN <<DefaultDevice>>
    ELSE [i \in DOMAIN devices |->
             [rootVolume |-> devices[i].rootVolume = "RootVolume",
              ebs |-> karpenterBlockDevice(devices[i])]]

(* Mutant: a protocol means IPv6. *)
httpProtocolIPv6IfSet(mo) == IF mo.httpIPProtocol = Unset THEN <<>> ELSE <<"enabled">>

httpProtocolIPv6(mo) == Switch(mo.httpIPProtocol, "IPv6", "enabled", "IPv4", "disabled")

karpenterMetadataOptions(mo) ==
    IF mo = [access |-> Unset, httpIPProtocol |-> Unset, hopLimit |-> 0, httpTokens |-> Unset] THEN <<>>
    ELSE <<[httpEndpoint |-> Switch(mo.access, "HTTPEndpoint", "enabled", "None", "disabled"),
            httpProtocolIPv6 |-> httpProtocolIPv6(mo),
            hopLimit |-> OmitZero(mo.hopLimit),
            httpTokens |-> Switch(mo.httpTokens, "Required", "required", "Optional", "optional")]>>

(* reconcileEC2NodeClass without user data and AMIs *)
ec2NodeClassSpec(spec, hcp) ==
    [associatePublicIPAddress |-> Switch(spec.ipAddressAssociation, "Public", TRUE, "SubnetDefault", FALSE),
     detailedMonitoring |-> Switch(spec.monitoring, "Detailed", TRUE, "Basic", FALSE),
     instanceStorePolicy |-> OptIfSet(spec.instanceStorePolicy),
     instanceProfile |-> OptIfSet(hcp.instanceProfile),
     tags |-> mergeEC2NodeClassTags(spec.tags, hcp.resourceTags),
     blockDeviceMappings |-> karpenterBlockDeviceMapping(spec.blockDeviceMappings),
     metadataOptions |-> karpenterMetadataOptions(spec.metadataOptions),
     capacityReservationSelectorTerms |->
         karpenterCapacityReservationSelectorTerms(spec.capacityReservationSelectorTerms),
     kubelet |-> karpenterKubeletConfiguration(UnmarshalJSON(ZeroKubelet, spec.kubelet)),
     subnetSelectorTerms |->
         IF spec.subnetSelectorTerms = <<>> THEN <<{"tags"}>> ELSE spec.subnetSelectorTerms,
     securityGroupSelectorTerms |->
         IF spec.securityGroupSelectorTerms = <<>> THEN <<{"tags"}>>
         ELSE spec.securityGroupSelectorTerms]

-----------------------------------------------------------------------------
(* The rules of the EC2NodeClass CRD *)

(* The pattern of volumeSize: up to 59000Gi, and of Ti 1 to 9, those of 10 to *)
(* 57 whose last digit is at most 7, and 58.                                  *)
KarpenterMaxSizeGi == 59000
VolumeSizeAdmitted(q) ==
    IF q.suffix = "Gi" THEN q.number \in 1..KarpenterMaxSizeGi
    ELSE q.number \in 1..9 \/ (q.number \in 10..57 /\ q.number % 10 <= 7) \/ q.number = 58

KarpenterAdmits(u) ==
    /\ u.subnetSelectorTerms # <<>> /\ SubnetTermsAdmitted(u.subnetSelectorTerms)
    /\ u.securityGroupSelectorTerms # <<>> /\ GroupTermsAdmitted(u.securityGroupSelectorTerms)
    /\ \A t \in ToSet(u.capacityReservationSelectorTerms) :
          /\ ReservationFields(t) \cap {"tags", "id", "instanceMatchCriteria"} # {}
          /\ t.criteria \in {Unset, "open", "targeted"}
    /\ IDNotWithOthers(u.capacityReservationSelectorTerms)
    /\ TagsAdmitted(u.tags)
    /\ Cardinality({i \in DOMAIN u.blockDeviceMappings : u.blockDeviceMappings[i].rootVolume}) <= 1
    /\ \A i \in DOMAIN u.blockDeviceMappings :
          LET ebs == u.blockDeviceMappings[i].ebs
          IN  /\ ebs.snapshot \/ Present(ebs.volumeSize)
              /\ Present(ebs.volumeSize) => VolumeSizeAdmitted(Value(ebs.volumeSize))
              /\ Present(ebs.volumeType) =>
                    Value(ebs.volumeType) \in {"standard", "io1", "io2", "gp2", "sc1", "st1", "gp3"}
    /\ Present(u.metadataOptions) => InRange(Value(u.metadataOptions).hopLimit, 1, 64)
    /\ Present(u.kubelet) => KarpenterAdmitsKubelet(Value(u.kubelet))

(* The defaults with which the API server fills metadata options *)
MetadataDefaults(opt) ==
    LET set(f) == IF Present(opt) THEN Value(opt)[f] ELSE <<>>
    IN  [httpEndpoint |-> Last(<<"enabled">> \o set("httpEndpoint")),
         httpProtocolIPv6 |-> Last(<<"disabled">> \o set("httpProtocolIPv6")),
         hopLimit |-> Last(<<1>> \o set("hopLimit")),
         httpTokens |-> Last(<<"required">> \o set("httpTokens"))]

-----------------------------------------------------------------------------
(* Capacity reservations in the status *)

(* The first letter becomes a capital. *)
upstreamInstanceMatchCriteria(v) == [open |-> "Open", targeted |-> "Targeted"][v]

upstreamReservationType(v) == IF v = "capacity-block" THEN "CapacityBlock" ELSE "Default"
upstreamReservationState(v) == IF v = "expiring" THEN "Expiring" ELSE "Active"

reservationStatus(r) ==
    [criteria |-> upstreamInstanceMatchCriteria(r.criteria),
     type |-> upstreamReservationType(r.type), state |-> upstreamReservationState(r.state)]
=============================================================================
