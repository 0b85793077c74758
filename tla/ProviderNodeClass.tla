------------------------- MODULE ProviderNodeClass -------------------------
(***************************************************************************)
(* What a NodeClass controller promises about the lifetimes of an          *)
(* OpenShift NodeClass (the owner) and the provider NodeClass it is        *)
(* translated into, whatever caches, retries and crashes lie between:      *)
(* a provider NodeClass exists only while its owner does.  Nobody but the  *)
(* operator may delete a provider NodeClass, so one that outlives its      *)
(* owner stays forever.                                                    *)
(***************************************************************************)
CONSTANT Names

VARIABLES owner, provider

Phase == {"absent", "live", "terminating"}

Init ==
    /\ owner \in [Names -> {"absent", "live"}]
    /\ provider = [n \in Names |-> "absent"]

(* The user creates a NodeClass, or deletes one. *)
CreateOwner(n) ==
    /\ owner[n] = "absent" /\ provider[n] = "absent"
    /\ owner' = [owner EXCEPT ![n] = "live"]
    /\ UNCHANGED provider

TerminateOwner(n) ==
    /\ owner[n] = "live"
    /\ owner' = [owner EXCEPT ![n] = "terminating"]
    /\ UNCHANGED provider

(* The owner goes away only when nothing is left of its provider NodeClass. *)
ReleaseOwner(n) ==
    /\ owner[n] # "absent" /\ provider[n] = "absent"
    /\ owner' = [owner EXCEPT ![n] = "absent"]
    /\ UNCHANGED provider

(* A provider NodeClass is created for an owner that still exists; a         *)
(* reconcile that started before the deletion may still create it.           *)
CreateProvider(n) ==
    /\ owner[n] # "absent" /\ provider[n] = "absent"
    /\ provider' = [provider EXCEPT ![n] = "live"]
    /\ UNCHANGED owner

TerminateProvider(n) ==
    /\ provider[n] = "live"
    /\ provider' = [provider EXCEPT ![n] = "terminating"]
    /\ UNCHANGED owner

ReleaseProvider(n) ==
    /\ provider[n] # "absent"
    /\ provider' = [provider EXCEPT ![n] = "absent"]
    /\ UNCHANGED owner

Next ==
    \E n \in Names :
        \/ CreateOwner(n) \/ TerminateOwner(n) \/ ReleaseOwner(n)
        \/ CreateProvider(n) \/ TerminateProvider(n) \/ ReleaseProvider(n)

Spec == Init /\ [][Next]_<<owner, provider>>
=============================================================================
