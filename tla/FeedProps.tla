----------------------------- MODULE FeedProps -----------------------------
(***************************************************************************)
(* What the feed must satisfy, over the state of module Feed.              *)
(***************************************************************************)
EXTENDS Feed

\* A row of k that source s, reporting content c, would leave alone.
Settled(s, k, c) ==
  /\ record[k] # None
  /\ \/ record[k].owner = s /\ record[k].content = c
     \/ record[k].owner # s /\ Prec[record[k].owner] <= Prec[s]

\* While a source's stored validator is the one its server would answer 304 to,
\* everything the server lists has been taken in: by this source as listed, or
\* by one that outranks it.  Saving the validator before the events, or clearing
\* events without it, loses items until the publisher next edits the page
\* (ingest.ts updates the validator last; clear.ts forgets it with the events).
ValidatorFaithful ==
  \A s \in Sources :
    validator[s] = version[s] =>
      \A i \in Items : listing[s][i] # None => Settled(s, KeyOf(s, i), listing[s][i])

\* In whatever order sources were visited, and whatever was amended, failed or
\* replayed in between, the owner of a row is at least as authoritative as every
\* source that has reported it (upsertEvent's precedence rule), and it is one of
\* them.
OwnerIsStrongest ==
  \A k \in Keys :
    /\ record[k] = None <=> reported[k] = {}
    /\ record[k] # None =>
         /\ record[k].owner \in reported[k]
         /\ \A s \in reported[k] : Prec[record[k].owner] <= Prec[s]

\* The bodies whose object is the body, or, in a store that writes in place, what
\* a kill left of the one write this object ever gets: the next put of the same
\* body takes whatever is at the key for the body (local.ts:31-34).
Archived ==
  {b \in Page : \E o \in stored :
                  /\ o[1] = b
                  /\ \/ o[2] = "whole"
                     \/ InPlace /\ b \in cut}

\* The document store is the authority: whatever a row says was read from a body
\* that was put before the first upsert of it, and that stays true across clears,
\* crashes and retried visits.  The archive holds that body whole, but for the
\* local backend's one hole: the retry of a visit killed inside its put writes
\* rows over the half-written object.
RecordsAreArchived ==
  \A k \in Keys :
    record[k] # None =>
      \E b \in Listing : b[k[2]] = record[k].content /\ b \in Archived

\* A source whose last visit failed holds no validator, so the failure cannot
\* hide behind a 304 on the next visit (docs/operations.md: access pages must
\* not "leave conditional-fetch validators that hide the failure").
FailureForgetsValidator ==
  \A s \in lastError : validator[s] = 0

Promise == INSTANCE RecordPromise

\* The whole machinery of visits, retries, crashes and clears only ever moves a
\* record the way RecordPromise allows.
ImplementsRecordPromise == Promise!Spec

\* What converging means: every item some readable page lists is in the feed,
\* no row is owned by a source weaker than one that lists it, and a row whose
\* owner still lists it shows what the owner lists.
Lists(s, k) == TownOf[s] = k[1] /\ s \notin obstructed /\ listing[s][k[2]] # None

Current(k) ==
  \A s \in Sources :
    Lists(s, k) =>
      /\ record[k] # None
      /\ Prec[record[k].owner] <= Prec[s]
      /\ record[k].owner = s => record[k].content = listing[s][k[2]]

\* Once publishers stop editing, the scheduled refresh brings the whole feed up
\* to date and keeps it there, through crashes, failed visits, 304s and clears.
FeedConverges == <>[](\A k \in Keys : Current(k))
=============================================================================
