--------------------------- MODULE MCTranscription ---------------------------
(* Small instances of Transcription. *)
EXTENDS Transcription, TLC

CONSTANTS r1, r2, s1, s2
=============================================================================
