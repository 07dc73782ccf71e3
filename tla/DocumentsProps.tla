--------------------------- MODULE DocumentsProps ---------------------------
(***************************************************************************)
(* What extraction and interpretation must satisfy together, over the      *)
(* state of module Interpretation.                                         *)
(***************************************************************************)
EXTENDS Interpretation

\* What the store holds, in full but for the objects whose one write was cut short
\* in a store that writes in place: the next put of the same content finds an
\* object there and leaves it as it is (local.ts:31-34).
Durable == {o \in store : o \in torn => InPlace /\ o \in cut}

\* A record is marked extracted only once everything it was extracted from is
\* durable: the file, its whole text beside it (README.md: "kept in two places
\* for two different jobs") and the attachment that names them.  A kill, or a
\* write that fails, between any two of those must leave the record pending.
\* One that falls inside a put leaves it pending too, but what the local backend
\* has of the object by then is what the record rests on after the retry.
ExtractedIsKept ==
  \A e \in Events :
    row[e] # None /\ row[e].extracted =>
      /\ row[e].text = Blank \/ row[e].text \in Durable
      /\ \E d \in Durable \intersect Documents : d.text = row[e].text /\ filed[d] # None

\* An unattended run opens no link under which the record's file last failed
\* within the backoff of that failure (README.md: "avoiding a broken URL consuming
\* the front of every limited run"), while the town moves links about and operators
\* start runs between.  The exception is the code's: a file has one failure row,
\* which keeps the link it first failed under (extract.ts:266-276), so once a
\* record is listed by the other view of that file, its failures hold back no run.
BackoffHolds ==
  pc = "extract" /\ ~forced =>
    \A e \in queue :
      LET u == row[e].listing.url
      IN  resting[e][u] > 0 => first[e][u.file] # u

\* All readings of a record are of one text and by one version of the
\* interpreter: "a reading is a view of the current document, not a history of
\* views" (interpret.ts), through revisions, releases, kills and failures.
OneView ==
  \A r, s \in readings : r.event = s.event => r.text = s.text /\ r.version = s.version

\* An interpreter, which may be metered, is not asked again for what it has read
\* in full, not even when it found nothing, unless the run is forced.
PaidOnce ==
  [][\A e \in Events :
       pc = "interpret" /\ pc' = "replace" /\ Current(e) /\ ~forced =>
         whole[e] # [text |-> Source(e), version |-> version]]_vars

\* A record whose link keeps answering with a document is extracted, although a
\* newer one is not found, the limit is one document to a run, runs are killed
\* and requests fail.  Two kinds of failure that do hold up the queue are
\* excluded: links broken in other ways, since their backoff has run out by the
\* next scheduled run, and a missing file listed by another of its views than it
\* first failed under, which no backoff covers.
Served(e) == row[e] # None /\ site[FileOf(e)] \in Documents

HoldsUp(e) ==
  row[e] # None /\ \/ site[FileOf(e)] = Broken
                   \/ site[FileOf(e)] = Missing /\ first[e][FileOf(e)] \notin {None, row[e].listing.url}

EverythingExtracted ==
  \A e \in Events :
    <>[](Served(e) /\ \A f \in Events : ~HoldsUp(f)) => <>[](row[e] # None /\ row[e].extracted)

\* If an operator keeps starting the interpreter, the newest minutes with text, as
\* many as its limit, end up with a current reading and keep it, although runs are
\* killed, the interpreter fails and documents change.  Older minutes are never
\* read without a larger limit or --event: the limit counts what is current too.
Readable(e) == e \in Minutes /\ row[e] # None /\ Source(e) # Blank
WithinLimit(e) ==
  Readable(e) /\ Cardinality({f \in Minutes : f > e /\ Readable(f)}) < ReadingLimit

EverythingRead ==
  []<><<StartInterpret(FALSE)>>_vars => <>[](\A e \in Minutes : WithinLimit(e) => isCurrent(e))
=============================================================================
