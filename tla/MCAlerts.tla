------------------------------- MODULE MCAlerts -------------------------------
(* Small instances of Alerts, and through it of MailOutbox. *)
EXTENDS Alerts, TLC

CONSTANTS x1, x2, x3

MCSubjects == Pairs

\* Two searches match the older listing, a third the newer.
MCListingOf == x1 :> 1 @@ x2 :> 2 @@ x3 :> 1
=============================================================================
