--------------------------- MODULE MCReaderAccess ---------------------------
(* ReaderAccess for TLC: two readers, one browser with two requests under  *)
(* way and one phone.                                                      *)
EXTENDS ReaderAccessProps, TLC

BothTowns == {<<"milton", "board">>, <<"hull", "board">>}
Q(w, p, f, r) == [web |-> w, phone |-> p, faults |-> f, restarts |-> r]
Each == {Q(4, 0, 1, 0), Q(3, 0, 0, 1), Q(0, 3, 1, 0), Q(0, 2, 1, 1), Q(1, 2, 0, 0)}

OneTown == {<<"milton", "board">>}
=============================================================================
