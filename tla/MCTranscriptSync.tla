-------------------------- MODULE MCTranscriptSync --------------------------
(* Instances of TranscriptSync for TLC: the .cfg files give every constant. *)
EXTENDS TranscriptSyncProps
=============================================================================
