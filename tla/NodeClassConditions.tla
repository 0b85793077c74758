------------------------ MODULE NodeClassConditions ------------------------
(***************************************************************************)
(* The status conditions of an OpenShift NodeClass and SyncConditions, the *)
(* function with which both NodeClass controllers merge the conditions of  *)
(* the provider NodeClass (written by Karpenter) into them                 *)
(* (pkg/controllers/nodeclass/status/conditions.go).                       *)
(*                                                                         *)
(* A condition is its status and its transition time; reason, message and  *)
(* observed generation follow the status and are left out.  A list of      *)
(* conditions is a function from condition types, "None" standing for a    *)
(* type that is not in the list.                                           *)
(***************************************************************************)
CONSTANTS
    ProviderTypes,  \* condition types of the provider NodeClass, besides Ready
    Times,          \* transition times
    Now             \* the time at which the controller runs

ASSUME ConditionTypesAreDistinct ==
    ProviderTypes \cap {"Ready", "VersionResolved", "SupportedVersionSkew"} = {}

ASSUME NowIsATime == Now \in Times

IgnitionTypes == {"VersionResolved", "SupportedVersionSkew"}
CondTypes == {"Ready"} \cup IgnitionTypes \cup ProviderTypes

Condition == [status : {"None", "True", "False", "Unknown"}, time : Times]
NoCondition == [status |-> "None", time |-> Now]
Conditions == [CondTypes -> Condition]
NoConditions == [t \in CondTypes |-> NoCondition]

(* meta.SetStatusCondition: the transition time moves only when the status does. *)
SetStatusCondition(old, new) ==
    IF old.status = new.status THEN old ELSE new

(* The condition with which the controller overrides Ready while the version *)
(* is not resolved; its unset transition time becomes the current time.      *)
NotReady == [status |-> "False", time |-> Now]

(* Mutant: Ready is copied like any other condition and then overridden. *)
SyncConditionsSetsReadyTwice(conditions, provider) ==
    LET copied == [t \in CondTypes |->
                      IF provider[t].status # "None"
                        THEN SetStatusCondition(conditions[t], provider[t])
                        ELSE conditions[t]]
    IN [copied EXCEPT !["Ready"] =
           IF copied["VersionResolved"].status # "True"
             THEN SetStatusCondition(@, NotReady) ELSE @]

(* Mutant: the provider's Ready is copied whether or not the version is resolved. *)
SyncConditionsIgnoresVersion(conditions, provider) ==
    [t \in CondTypes |->
        IF provider[t].status # "None"
          THEN SetStatusCondition(conditions[t], provider[t])
          ELSE conditions[t]]

(* Mutant: a NodeClass that is not ready is reported Unknown until the next sync. *)
SyncConditionsInTwoPasses(conditions, provider) ==
    [t \in CondTypes |->
        IF t = "Ready" /\ conditions["VersionResolved"].status # "True"
          THEN IF conditions[t].status = "True"
                 THEN [status |-> "Unknown", time |-> Now] ELSE NotReady
        ELSE IF provider[t].status # "None"
          THEN SetStatusCondition(conditions[t], provider[t])
        ELSE conditions[t]]

(* Every provider condition but Ready is copied.  Ready is set once: to the  *)
(* provider's when the version is resolved and the provider has one, to      *)
(* NotReady when the version is not resolved.                                *)
SyncConditions(conditions, provider) ==
    LET copied == [t \in CondTypes |->
                      IF t # "Ready" /\ provider[t].status # "None"
                        THEN SetStatusCondition(conditions[t], provider[t])
                        ELSE conditions[t]]
        ready  == IF copied["VersionResolved"].status # "True"
                    THEN SetStatusCondition(conditions["Ready"], NotReady)
                  ELSE IF provider["Ready"].status # "None"
                    THEN SetStatusCondition(conditions["Ready"], provider["Ready"])
                  ELSE conditions["Ready"]
    IN [copied EXCEPT !["Ready"] = ready]
=============================================================================
