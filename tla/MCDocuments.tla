---------------------------- MODULE MCDocuments -----------------------------
(***************************************************************************)
(* Instances of Interpretation for TLC.  Record 2 is of the later meeting. *)
(***************************************************************************)
EXTENDS DocumentsProps, TLC

CONSTANTS f1, f2, t1, t2

\* The earlier record has a file and a summary; the later one is listed by either
\* view of its file.
TwoFiles ==
  (1 :> {[url |-> [file |-> f1, html |-> FALSE], summary |-> t2]}) @@
  (2 :> {[url |-> [file |-> f2, html |-> h], summary |-> Blank] : h \in BOOLEAN})

\* A document with text and a scan without, neither with an exact start.
ProseAndScan == {[text |-> t, exact |-> FALSE] : t \in {t1, Blank}}
=============================================================================
