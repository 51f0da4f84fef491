--------------------------- MODULE MCSocialQueue ---------------------------
(* Small instances of SocialQueue for TLC.                                 *)
EXTENDS SocialQueue, TLC

CONSTANTS p1, p2, n1, n2, n3

\* The second post is scheduled one tick after the first.
TwoSchedules == p1 :> 0 @@ p2 :> 1
OneSchedule == p1 :> 0
=============================================================================
