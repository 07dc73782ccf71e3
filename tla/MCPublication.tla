--------------------------- MODULE MCPublication ---------------------------
(* Publication for TLC: a refresh of two commands. *)
EXTENDS PublicationProps, TLC

TwoCommands == <<"ingest", "geocode">>
=============================================================================
