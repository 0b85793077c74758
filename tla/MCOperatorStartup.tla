------------------------- MODULE MCOperatorStartup -------------------------
(***************************************************************************)
(* Environments for OperatorStartup: a good one for each mode and          *)
(* platform, and each of them with one thing wrong.                        *)
(***************************************************************************)
EXTENDS OperatorStartup

Good(management, platform) ==
    [namespace |-> TRUE, set |-> IF management = "true" THEN Required ELSE {}, podName |-> TRUE,
     credentials |-> TRUE, management |-> management, uid |-> "unset", platform |-> platform,
     infrastructure |-> "complete"]

GoodEnvs == {Good("true", "AWS"), Good("true", "Azure"), Good("unset", "AWS"), Good("false", "None"),
             Good("unset", "Azure")}

OneWrong(e) ==
    {[e EXCEPT !.namespace = FALSE], [e EXCEPT !.management = "invalid"]}
    \cup {[e EXCEPT !.uid = u] : u \in {"invalid", "zero"}}
    \cup IF e.management = "true"
           THEN {[e EXCEPT !.credentials = FALSE], [e EXCEPT !.platform = "None"]}
                \cup {[e EXCEPT !.set = @ \ {r}] : r \in Required}
           ELSE {[e EXCEPT !.infrastructure = i] : i \in {"noPlatformStatus", "noName"}}

MCEnvs == GoodEnvs \cup UNION {OneWrong(e) : e \in GoodEnvs}
    \cup {[Good("unset", "AWS") EXCEPT !.podName = FALSE, !.uid = "positive"],
          [Good("unset", "AWS") EXCEPT !.infrastructure = "noRegion"],
          [Good("unset", "AWS") EXCEPT !.credentials = FALSE]}
=============================================================================
