------------------------------- MODULE MCFeed -------------------------------
(* Instances of Feed for TLC: sources and towns as strings. *)
EXTENDS FeedProps, TLC

\* One town: a board's own listing, and the site-wide index.
OneTown == [s \in Sources |-> "milton"]

BoardFirst == [s \in Sources |-> IF s = "board" THEN 10 ELSE 20]
=============================================================================
