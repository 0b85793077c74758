------------------------ MODULE KubeletConfiguration ------------------------
(***************************************************************************)
(* The kubelet section of an OpenshiftEC2NodeClass                         *)
(* (api/karpenter/v1/kubelet_config.go): its JSON decoding and encoding,   *)
(* the rules of the CRD, the translation into that of an EC2NodeClass      *)
(* (pkg/controllers/nodeclass/ec2/karpenter_util.go) and the rules of the  *)
(* EC2NodeClass CRD (pkg/assets/aws).                                      *)
(*                                                                         *)
(* An optional value is a sequence of at most one element.  A document has *)
(* the typed keys, one key that is not typed, and two spellings of maxPods *)
(* that differ in case: keys come in the order of their bytes, so MaxPods  *)
(* is read before maxPods and maxpods after it.  The reserved resources    *)
(* have one entry, and of values only what the rules see is kept.          *)
(***************************************************************************)
EXTENDS Integers, SequencesExt

Present(opt) == opt # <<>>
Value(opt) == opt[1]

(* The value of a Go field or map entry that holds a pointer or a map *)
OmitZero(n) == IF n = 0 THEN <<>> ELSE <<n>>
OmitEmpty(opt) == IF Present(opt) /\ DOMAIN Value(opt) = {} THEN <<>> ELSE opt

(* Integer fields hold 0 for an absent value, the others nil *)
ZeroKubelet ==
    [maxPods |-> 0, podsPerCore |-> 0, systemReserved |-> <<>>, kubeReserved |-> <<>>,
     evictionHard |-> <<>>, evictionSoft |-> <<>>, evictionSoftGracePeriod |-> <<>>,
     evictionMaxPodGracePeriod |-> <<>>, imageGCHighThresholdPercent |-> <<>>,
     imageGCLowThresholdPercent |-> <<>>, cpuCFSQuota |-> <<>>,
     overflow |-> [MaxPods |-> <<>>, maxpods |-> <<>>, other |-> <<>>]]

EmptyDocument ==
    [maxPods |-> <<>>, podsPerCore |-> <<>>, systemReserved |-> <<>>, kubeReserved |-> <<>>,
     evictionHard |-> <<>>, evictionSoft |-> <<>>, evictionSoftGracePeriod |-> <<>>,
     evictionMaxPodGracePeriod |-> <<>>, imageGCHighThresholdPercent |-> <<>>,
     imageGCLowThresholdPercent |-> <<>>, cpuCFSQuota |-> <<>>,
     MaxPods |-> <<>>, maxpods |-> <<>>, other |-> <<>>]

-----------------------------------------------------------------------------
(* JSON *)

(* json.Unmarshal into a receiver: a key that is there replaces the field, a *)
(* later one an earlier one, and the case of a key does not matter.          *)
Decode(k, doc) ==
    LET field(old, opt) == IF Present(opt) THEN opt ELSE old
    IN  [maxPods |-> Last(<<k.maxPods>> \o doc.MaxPods \o doc.maxPods \o doc.maxpods),
         podsPerCore |-> Last(<<k.podsPerCore>> \o doc.podsPerCore),
         systemReserved |-> field(k.systemReserved, doc.systemReserved),
         kubeReserved |-> field(k.kubeReserved, doc.kubeReserved),
         evictionHard |-> field(k.evictionHard, doc.evictionHard),
         evictionSoft |-> field(k.evictionSoft, doc.evictionSoft),
         evictionSoftGracePeriod |-> field(k.evictionSoftGracePeriod, doc.evictionSoftGracePeriod),
         evictionMaxPodGracePeriod |-> field(k.evictionMaxPodGracePeriod, doc.evictionMaxPodGracePeriod),
         imageGCHighThresholdPercent |->
             field(k.imageGCHighThresholdPercent, doc.imageGCHighThresholdPercent),
         imageGCLowThresholdPercent |->
             field(k.imageGCLowThresholdPercent, doc.imageGCLowThresholdPercent),
         cpuCFSQuota |-> field(k.cpuCFSQuota, doc.cpuCFSQuota),
         overflow |-> k.overflow]

(* The overflow is what is left without the known keys, exactly as spelled; *)
(* none leaves the overflow of the receiver.                                 *)
WithOverflow(k, doc) ==
    LET rest == [MaxPods |-> doc.MaxPods, maxpods |-> doc.maxpods, other |-> doc.other]
    IN  IF rest = ZeroKubelet.overflow THEN k ELSE [k EXCEPT !.overflow = rest]

(* Mutant: the receiver is not cleared before. *)
UnmarshalOver(k, doc) == WithOverflow(Decode(k, doc), doc)

UnmarshalJSON(k, doc) == WithOverflow(Decode(ZeroKubelet, doc), doc)

(* Known fields that are empty are left out; a typed field wins over the    *)
(* same key of the overflow, which has none of them.                        *)
MarshalJSON(k) ==
    [maxPods |-> OmitZero(k.maxPods), podsPerCore |-> OmitZero(k.podsPerCore),
     systemReserved |-> k.systemReserved, kubeReserved |-> k.kubeReserved,
     evictionHard |-> OmitEmpty(k.evictionHard), evictionSoft |-> OmitEmpty(k.evictionSoft),
     evictionSoftGracePeriod |-> OmitEmpty(k.evictionSoftGracePeriod),
     evictionMaxPodGracePeriod |-> k.evictionMaxPodGracePeriod,
     imageGCHighThresholdPercent |-> k.imageGCHighThresholdPercent,
     imageGCLowThresholdPercent |-> k.imageGCLowThresholdPercent,
     cpuCFSQuota |-> k.cpuCFSQuota,
     MaxPods |-> k.overflow.MaxPods, maxpods |-> k.overflow.maxpods, other |-> k.overflow.other]

(* Mutant: a field added later is forgotten here. *)
HasTypedFieldsButQuota(k) ==
    k.maxPods # 0 \/ k.podsPerCore # 0
    \/ \E f \in {"systemReserved", "kubeReserved", "evictionHard", "evictionSoft",
                 "evictionSoftGracePeriod", "evictionMaxPodGracePeriod",
                 "imageGCHighThresholdPercent", "imageGCLowThresholdPercent"} : Present(k[f])

HasTypedFields(k) ==
    k.maxPods # 0 \/ k.podsPerCore # 0
    \/ \E f \in {"systemReserved", "kubeReserved", "evictionHard", "evictionSoft",
                 "evictionSoftGracePeriod", "evictionMaxPodGracePeriod",
                 "imageGCHighThresholdPercent", "imageGCLowThresholdPercent",
                 "cpuCFSQuota"} : Present(k[f])

(* Is the section left out of the NodeClass?  (omitzero) *)
IsZero(k) == ~HasTypedFields(k) /\ k.overflow = ZeroKubelet.overflow

-----------------------------------------------------------------------------
(* The rules of the OpenshiftEC2NodeClass CRD on a document.  A threshold   *)
(* is a percentage, a quantity, or neither.                                  *)

InRange(opt, lo, hi) == Present(opt) => Value(opt) \in lo..hi
Entries(opt) == IF Present(opt) THEN DOMAIN Value(opt) ELSE {}
ThresholdOf(opt, signal) == Value(opt)[signal]

HighAboveLow(k) ==
    Present(k.imageGCHighThresholdPercent) /\ Present(k.imageGCLowThresholdPercent) =>
        Value(k.imageGCHighThresholdPercent) > Value(k.imageGCLowThresholdPercent)

SoftEvictionsHaveGracePeriods(k) == Entries(k.evictionSoft) = Entries(k.evictionSoftGracePeriod)

(* Thresholds are compared if both have the same known form. *)
SoftAboveHard(doc) ==
    \A s \in Entries(doc.evictionHard) \cap Entries(doc.evictionSoft) :
        LET hard == ThresholdOf(doc.evictionHard, s)
            soft == ThresholdOf(doc.evictionSoft, s)
        IN  hard.form = soft.form /\ hard.form # "other" => soft.n >= hard.n

KubeletAdmitted(doc) ==
    /\ InRange(doc.maxPods, 1, 2500) /\ InRange(doc.podsPerCore, 1, 2500)
    /\ Present(doc.maxPods) /\ Present(doc.podsPerCore) =>
          Value(doc.podsPerCore) <= Value(doc.maxPods)
    /\ \A f \in {"systemReserved", "kubeReserved"} :
          Present(doc[f]) => Value(doc[f]) \notin {"negative", "empty"}
    /\ \A f \in {"evictionHard", "evictionSoft", "evictionSoftGracePeriod"} :
          Present(doc[f]) => Entries(doc[f]) # {}
    /\ \A f \in {"imageGCHighThresholdPercent", "imageGCLowThresholdPercent"} : InRange(doc[f], 0, 100)
    /\ HighAboveLow(doc) /\ SoftEvictionsHaveGracePeriods(doc) /\ SoftAboveHard(doc)

-----------------------------------------------------------------------------
(* Translation *)

(* Grace periods that are no durations are skipped. *)
evictionSoftGracePeriodToDuration(opt) ==
    IF ~Present(opt) THEN <<>>
    ELSE LET parsed == {s \in DOMAIN Value(opt) : Value(opt)[s] # "unparsable"}
         IN  <<[s \in parsed |-> Value(opt)[s]]>>

(* nil when there are only overflow fields *)
karpenterKubeletConfiguration(k) ==
    IF ~HasTypedFields(k) THEN <<>>
    ELSE <<[maxPods |-> OmitZero(k.maxPods), podsPerCore |-> OmitZero(k.podsPerCore),
            systemReserved |-> k.systemReserved, kubeReserved |-> k.kubeReserved,
            evictionHard |-> OmitEmpty(k.evictionHard), evictionSoft |-> OmitEmpty(k.evictionSoft),
            evictionSoftGracePeriod |->
                OmitEmpty(evictionSoftGracePeriodToDuration(k.evictionSoftGracePeriod)),
            evictionMaxPodGracePeriod |-> k.evictionMaxPodGracePeriod,
            imageGCHighThresholdPercent |-> k.imageGCHighThresholdPercent,
            imageGCLowThresholdPercent |-> k.imageGCLowThresholdPercent,
            cpuCFSQuota |-> k.cpuCFSQuota]>>

(* The rules of the EC2NodeClass CRD *)
ThresholdsFit(opt) ==
    \A s \in Entries(opt) :
        LET t == ThresholdOf(opt, s)
        IN  t.form # "other" /\ (t.form = "percent" => t.n <= 100)

KarpenterAdmitsKubelet(u) ==
    /\ \A f \in {"maxPods", "podsPerCore"} : Present(u[f]) => Value(u[f]) >= 0
    /\ \A f \in {"systemReserved", "kubeReserved"} : Present(u[f]) => Value(u[f]) = "quantity"
    /\ ThresholdsFit(u.evictionHard) /\ ThresholdsFit(u.evictionSoft)
    /\ \A f \in {"imageGCHighThresholdPercent", "imageGCLowThresholdPercent"} : InRange(u[f], 0, 100)
    /\ HighAboveLow(u) /\ SoftEvictionsHaveGracePeriods(u)
=============================================================================
