-------------------------------- MODULE Inbox --------------------------------
(***************************************************************************)
(* What the webhook inbox promises a provider (pkg/connectors/webhooks):   *)
(* an event it accepts waits, and is then handled once, given up, or set   *)
(* aside as a duplicate; the outcome is never revised, and it is the only  *)
(* one.  That it comes at all is more than the inbox promises: a drainer   *)
(* that dies may leave an event waiting for ever.                          *)
(***************************************************************************)
CONSTANT Events

VARIABLE outcome   \* of each event: "unknown", "waiting" or an outcome

Outcomes == {"handled", "failed", "duplicate"}

Init == outcome = [e \in Events |-> "unknown"]

Accept(e) ==
    /\ outcome[e] = "unknown"
    /\ outcome' = [outcome EXCEPT ![e] = "waiting"]

Settle(e, o) ==
    /\ outcome[e] = "waiting"
    /\ outcome' = [outcome EXCEPT ![e] = o]

Next == \E e \in Events : Accept(e) \/ \E o \in Outcomes : Settle(e, o)

Spec == Init /\ [][Next]_outcome
=============================================================================
