----------------------- MODULE MCNodeClassConditions -----------------------
(***************************************************************************)
(* SyncConditions on every pair of condition lists of a small instance.    *)
(* The state is the pair; the one step is the controller's: it replaces    *)
(* the NodeClass conditions by the synced ones.                            *)
(***************************************************************************)
EXTENDS NodeClassConditions

VARIABLES conditions, provider
vars == <<conditions, provider>>

(* Karpenter never writes the condition types of the ignition controller. *)
ProviderConditions ==
    {p \in Conditions : \A t \in IgnitionTypes : p[t] = NoCondition}

Canonical(c) == \A t \in CondTypes : c[t].status = "None" => c[t] = NoCondition

Init ==
    /\ conditions \in {c \in Conditions : Canonical(c) /\ c["SupportedVersionSkew"].time = Now}
    /\ provider \in {p \in ProviderConditions : Canonical(p)}

Sync ==
    /\ conditions' = SyncConditions(conditions, provider)
    /\ UNCHANGED provider

Spec == Init /\ [][Sync]_vars

(* Reference definition of readiness, stated from the callers' side: Ready   *)
(* is True after a sync exactly when the version is resolved and the         *)
(* provider says Ready, or says nothing and Ready was True before.           *)
ReadyMeansBothReady ==
    LET r == SyncConditions(conditions, provider)["Ready"].status
    IN  r = "True" <=> /\ conditions["VersionResolved"].status = "True"
                       /\ \/ provider["Ready"].status = "True"
                          \/ /\ provider["Ready"].status = "None"
                             /\ conditions["Ready"].status = "True"

(* A second sync changes nothing.  The controllers write the status only if  *)
(* the synced conditions differ, and their own write wakes them again: were  *)
(* SyncConditions not a projection, they would write forever.                *)
SyncIsAFixedPoint ==
    LET once == SyncConditions(conditions, provider)
    IN  SyncConditions(once, provider) = once

(* No sync moves the transition time of a condition whose status it keeps,   *)
(* and none touches the conditions owned by the ignition controller: Ready   *)
(* is set once, so overriding a provider's Ready leaves no trace.            *)
TransitionTimesKept ==
    [][\A t \in CondTypes :
          \/ conditions'[t] = conditions[t]
          \/ conditions'[t].status # conditions[t].status /\ t \notin IgnitionTypes]_vars

=============================================================================
