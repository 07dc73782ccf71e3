------------------------ MODULE MCTranscriptTransfer ------------------------
(***************************************************************************)
(* The module TLC runs TranscriptTransfer and its properties from.         *)
(***************************************************************************)
EXTENDS TranscriptTransferProps
=============================================================================
