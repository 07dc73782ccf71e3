------------------------ MODULE TranscriptSyncProps ------------------------
(***************************************************************************)
(* What the transcript synchronization must satisfy.                       *)
(***************************************************************************)
EXTENDS TranscriptSync

\* The row of p says what the publisher serves, as of the same modification.
Current(p) ==
  /\ row[p] # None
  /\ row[p].modified = post[p].modified
  /\ row[p].content = post[p].content

\* The watermark is never ahead of the archive: every post the publisher still
\* serves and last modified before it is in the feed as it stands, although the
\* inventory was read page by page from an archive that moved, the batches over
\* several runs, and any of them may have failed (docs/transcripts.md,
\* Synchronization and storage).
NothingSkipped ==
  \A p \in Posts :
    post[p] # None /\ post[p].modified < saved.completed => Current(p)

\* The saved cursor is never ahead of the archive either: a post of the frozen
\* window is still queued or already in the feed as it stands.
CursorHonest ==
  saved.through # Never =>
    \A p \in Posts :
      post[p] # None /\ post[p].modified < saved.through =>
        p \in saved.left \/ Current(p)

\* A pending inventory is only ever worked off: until it is done no run, whatever
\* its options, freezes another window or puts an id back ("never resume a moving
\* page offset").  Clearing the records drops it whole.
QueueIsFrozen ==
  [][saved.through # Never /\ saved'.through # Never =>
       saved'.through = saved.through /\ saved'.left \subseteq saved.left]_vars

\* When the publisher stops leaving posts that do not parse, everything it serves
\* ends up in the feed as it stands and stays there.  (The clock is bounded: only
\* posts the last window reaches count.)
SyncConverges ==
  <>[](\A p \in Posts : post[p] # None => post[p].content # Malformed)
    => <>[](\A p \in Posts :
              post[p] # None /\ post[p].modified < MaxTime - Lag => Current(p))
=============================================================================
