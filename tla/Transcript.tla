----------------------------- MODULE Transcript -----------------------------
(***************************************************************************)
(* One meeting transcript as the publisher posts it and as the feed keeps  *)
(* it, and the upsert that both the live sync and the archive import use.  *)
(***************************************************************************)
EXTENDS Integers

CONSTANTS
  Contents,   \* what a well-formed post can say
  Malformed,  \* a post whose transcript does not parse
  None        \* no post, no row

Version == [modified : Nat, content : Contents \union {Malformed}]
Row == [modified : Nat, content : Contents, revision : Nat]

\* Mutants: an older version let through; a metadata-only edit not recorded.
StaleNever(r, v) == FALSE
UpsertedForgettingClock(r, v) ==
  IF r = None THEN [modified |-> v.modified, content |-> v.content, revision |-> 1]
  ELSE IF v.modified < r.modified \/ r.content = v.content THEN r
  ELSE [modified |-> v.modified, content |-> v.content, revision |-> r.revision + 1]

\* upsertWordpressTranscript: an older version never replaces a newer one, and an
\* edit of metadata alone moves the clock without making a revision.
Stale(r, v) == r # None /\ v.modified < r.modified

Upserted(r, v) ==
  IF r = None THEN [modified |-> v.modified, content |-> v.content, revision |-> 1]
  ELSE IF Stale(r, v) THEN r
  ELSE [modified |-> v.modified, content |-> v.content,
        revision |-> IF r.content = v.content THEN r.revision ELSE r.revision + 1]
=============================================================================
