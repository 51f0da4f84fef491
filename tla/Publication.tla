----------------------------- MODULE Publication -----------------------------
(***************************************************************************)
(* What the social publication queue promises the producer of a post,      *)
(* whatever crashes, fails or is lost below (worker.go, store.go): a post  *)
(* waits, goes live on networks it was meant for and on no other, and is   *)
(* in the end complete, live on every one of them, or given up. Once it is *)
(* out of the queue it is left alone.                                      *)
(***************************************************************************)
EXTENDS FiniteSets

CONSTANTS Posts, Networks

VARIABLES
    state,     \* "absent", "pending", "sent" or "failed"
    networks,  \* networks each post is meant for
    live       \* pairs <<post, network>> the provider of the network has

vars == <<state, networks, live>>

Init ==
    /\ state = [p \in Posts |-> "absent"]
    /\ networks = [p \in Posts |-> {}]
    /\ live = {}

Submit(p, nets) ==
    /\ nets # {}
    /\ state[p] = "absent"
    /\ state' = [state EXCEPT ![p] = "pending"]
    /\ networks' = [networks EXCEPT ![p] = nets]
    /\ UNCHANGED live

Publish(p, n) ==
    /\ state[p] = "pending"
    /\ n \in networks[p]
    /\ live' = live \cup {<<p, n>>}
    /\ UNCHANGED <<state, networks>>

Complete(p) ==
    /\ state[p] = "pending"
    /\ \A n \in networks[p] : <<p, n>> \in live
    /\ state' = [state EXCEPT ![p] = "sent"]
    /\ UNCHANGED <<networks, live>>

GiveUp(p) ==
    /\ state[p] = "pending"
    /\ state' = [state EXCEPT ![p] = "failed"]
    /\ UNCHANGED <<networks, live>>

Next ==
    \E p \in Posts :
        \/ \E nets \in SUBSET Networks : Submit(p, nets)
        \/ \E n \in Networks : Publish(p, n)
        \/ Complete(p)
        \/ GiveUp(p)

Spec == Init /\ [][Next]_vars
=============================================================================
