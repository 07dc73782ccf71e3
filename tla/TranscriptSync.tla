--------------------------- MODULE TranscriptSync ---------------------------
(***************************************************************************)
(* syncWordpressTranscripts: a source whose archive is read through a      *)
(* paginated API.  A run first freezes the list of post ids modified in a  *)
(* window of time, reading it page by page from an archive that moves;     *)
(* then it fetches the posts by id, a batch to a transaction that also     *)
(* advances the saved cursor; and when the list is exhausted it advances   *)
(* the watermark, so that the next list starts there.  A run does at most  *)
(* MaxBatches batches and the next one resumes from the saved cursor.      *)
(*                                                                         *)
(* Time is counted in steps of the clock; a post carries the publisher's   *)
(* modification time, which runs at most Skew away from ours.  The list    *)
(* of ids and its cursor are the set of ids not yet fetched: ids are read  *)
(* and fetched in ascending order.  The archive of raw responses and the   *)
(* fetch log are left out.                                                 *)
(***************************************************************************)
EXTENDS Transcript, FiniteSets

CONSTANTS
  Posts,      \* post ids
  ListSize,   \* ids to a page of the inventory (100)
  MaxPages,   \* pages an inventory may have (100)
  BatchSize,  \* posts to a content request (source.options.pageSize)
  MaxBatches, \* content requests to a run (--max-pages)
  Skew,       \* how far the publisher's clock may be from ours
  Lag,        \* how far behind our clock the window ends (five minutes)
  Overlap,    \* how far before the watermark the window starts (a day)
  MaxTime, MaxEdits, MaxFaults, MaxClears  \* bounds

ASSUME SyncConstants ==
  /\ Posts \subseteq Nat /\ IsFiniteSet(Posts)
  /\ {ListSize, MaxPages, BatchSize, MaxBatches, Overlap} \subseteq Nat \ {0}
  /\ {Skew, Lag, MaxTime, MaxEdits, MaxFaults, MaxClears} \subseteq Nat
  /\ Skew <= Lag
  /\ None \notin Version /\ None \notin Row
  /\ Malformed \notin Contents

Never == -1   \* a null time, earlier than every modification

VARIABLES
  post,    \* post[p]: what the publisher serves under id p
  stamp,   \* the latest modification time the publisher has given out
  now,     \* our clock
  row,     \* events rows of the source
  saved,   \* transcript_sync.state: watermark, pending window end and ids left
  pc, dry, job,    \* the process: whether it may write, and the state it works on
  edits, faults, clears

publisher == <<post, stamp>>
database == <<row, saved>>
budget == <<edits, faults, clears>>
vars == <<publisher, now, database, pc, dry, job, budget>>

Saved == [completed : Int, through : Int, left : SUBSET Posts]
NothingSaved == [completed |-> Never, through |-> Never, left |-> {}]

Job == [through : Int, after : Int, ids : SUBSET Posts, total : Nat, page : Nat,
        pages : Nat, batches : Nat, batch : SUBSET Posts,
        got : [Posts -> Version \union {None}]]
NoJob == [through |-> Never, after |-> Never, ids |-> {}, total |-> 0, page |-> 1,
          pages |-> 1, batches |-> 0, batch |-> {}, got |-> [p \in Posts |-> None]]

TypeOK ==
  /\ post \in [Posts -> Version \union {None}]
  /\ stamp \in Nat /\ now \in Nat
  /\ row \in [Posts -> Row \union {None}]
  /\ saved \in Saved
  /\ pc \in {"idle", "discover", "content", "commit"}
  /\ dry \in BOOLEAN
  /\ job \in Job
  /\ edits \in Nat /\ faults \in Nat /\ clears \in Nat

Init ==
  /\ post \in [Posts -> {None} \union {[modified |-> 0, content |-> c] : c \in Contents}]
  /\ stamp = 0 /\ now = Lag
  /\ row = [p \in Posts |-> None]
  /\ saved = NothingSaved
  /\ pc = "idle" /\ dry = FALSE /\ job = NoJob
  /\ edits = 0 /\ faults = 0 /\ clears = 0

-----------------------------------------------------------------------------
(* The publisher and the clock. *)

Tick ==
  /\ now < MaxTime
  /\ now' = now + 1
  /\ UNCHANGED <<publisher, database, pc, dry, job, budget>>

\* A post is published or edited.  The publisher's clock never runs backwards.
Save(p, c, m) ==
  /\ edits < MaxEdits
  /\ m >= stamp /\ now - Skew <= m /\ m <= now + Skew
  /\ post' = [post EXCEPT ![p] = [modified |-> m, content |-> c]]
  /\ stamp' = m
  /\ edits' = edits + 1
  /\ UNCHANGED <<now, database, pc, dry, job, faults, clears>>

\* A post is removed, unpublished, or moved out of the category.
Remove(p) ==
  /\ edits < MaxEdits
  /\ post[p] # None
  /\ post' = [post EXCEPT ![p] = None]
  /\ edits' = edits + 1
  /\ UNCHANGED <<stamp, now, database, pc, dry, job, faults, clears>>

\* What the API lists for modified_after / modified_before, both exclusive.
Window(through, after) ==
  {p \in Posts : post[p] # None /\ after < post[p].modified /\ post[p].modified < through}

Below(p, S) == Cardinality({q \in S : q < p})

\* Page n of S in ascending order.
PageOf(S, n, size) == {p \in S : (n - 1) * size <= Below(p, S) /\ Below(p, S) < n * size}
PagesOf(S, size) == (Cardinality(S) + size - 1) \div size

-----------------------------------------------------------------------------
(* A run. *)

Resume(fl) ==
  /\ pc = "idle"
  /\ saved.through # Never
  /\ pc' = "content"
  /\ dry' = ("dry" \in fl)
  /\ job' = [NoJob EXCEPT !.through = saved.through, !.ids = saved.left]
  /\ UNCHANGED <<publisher, now, database, budget>>

\* Mutant: the window starts at the watermark.
WindowStartAtWatermark(fl) ==
  IF "full" \in fl \/ saved.completed = Never THEN Never ELSE saved.completed

\* --backfill and --force list the whole archive again.
WindowStart(fl) ==
  IF "full" \in fl \/ saved.completed = Never THEN Never ELSE saved.completed - Overlap

\* Mutant: --backfill lists the archive again over an inventory still pending.
DiscoverAgain(fl) ==
  /\ pc = "idle"
  /\ saved.through = Never \/ "full" \in fl
  /\ pc' = "discover"
  /\ dry' = ("dry" \in fl)
  /\ job' = [NoJob EXCEPT !.through = now - Lag, !.after = WindowStart(fl)]
  /\ UNCHANGED <<publisher, now, database, budget>>

Discover(fl) ==
  /\ pc = "idle"
  /\ saved.through = Never
  /\ pc' = "discover"
  /\ dry' = ("dry" \in fl)
  /\ job' = [NoJob EXCEPT !.through = now - Lag, !.after = WindowStart(fl)]
  /\ UNCHANGED <<publisher, now, database, budget>>

\* The run ends here, whatever it has saved.
Stop ==
  /\ pc' = "idle"
  /\ dry' = FALSE
  /\ job' = NoJob

\* Mutant: the total is not compared with that of the first page.
ListPageUnchecked ==
  /\ pc = "discover"
  /\ job.page <= job.pages
  /\ LET listed == Window(job.through, job.after)
         ids == PageOf(listed, job.page, ListSize)
     IN IF \E p \in ids, q \in job.ids : p <= q
        THEN Stop
        ELSE /\ job' = [job EXCEPT !.ids = @ \union ids,
                                   !.total = Cardinality(listed),
                                   !.page = @ + 1,
                                   !.pages = PagesOf(listed, ListSize)]
             /\ UNCHANGED <<pc, dry>>
  /\ UNCHANGED <<publisher, now, database, budget>>

\* One page of ids, refused when the inventory is too long, when its total moved
\* since the first page, or when the ids do not follow those already read.
ListPage ==
  /\ pc = "discover"
  /\ job.page <= job.pages
  /\ LET listed == Window(job.through, job.after)
         ids == PageOf(listed, job.page, ListSize)
     IN IF \/ PagesOf(listed, ListSize) > MaxPages
           \/ job.page > 1 /\ Cardinality(listed) # job.total
           \/ \E p \in ids, q \in job.ids : p <= q
        THEN Stop
        ELSE /\ job' = [job EXCEPT !.ids = @ \union ids,
                                   !.total = Cardinality(listed),
                                   !.page = @ + 1,
                                   !.pages = PagesOf(listed, ListSize)]
             /\ UNCHANGED <<pc, dry>>
  /\ UNCHANGED <<publisher, now, database, budget>>

Freeze ==
  /\ pc = "discover"
  /\ job.page > job.pages
  /\ IF Cardinality(job.ids) # job.total
     THEN Stop /\ UNCHANGED saved
     ELSE /\ pc' = "content"
          /\ saved' = IF dry THEN saved
                      ELSE [saved EXCEPT !.through = job.through, !.left = job.ids]
          /\ UNCHANGED <<dry, job>>
  /\ UNCHANGED <<publisher, now, row, budget>>

\* Mutant: the cursor is saved before the rows are.
FetchBatchAdvancing ==
  /\ pc = "content"
  /\ job.ids # {}
  /\ job.batches < MaxBatches
  /\ LET batch == PageOf(job.ids, 1, BatchSize)
     IN /\ \A p \in batch : post[p] # None => post[p].content # Malformed
        /\ job' = [job EXCEPT !.batch = batch,
                              !.got = [p \in Posts |-> IF p \in batch THEN post[p] ELSE None]]
        /\ saved' = IF dry THEN saved ELSE [saved EXCEPT !.left = @ \ batch]
  /\ pc' = "commit"
  /\ UNCHANGED <<publisher, now, row, dry, budget>>

\* A batch by id.  A post that is gone is reported and skipped; one that does not
\* parse fails the whole batch.
FetchBatch ==
  /\ pc = "content"
  /\ job.ids # {}
  /\ job.batches < MaxBatches
  /\ LET batch == PageOf(job.ids, 1, BatchSize)
     IN IF \E p \in batch : post[p] # None /\ post[p].content = Malformed
        THEN Stop
        ELSE /\ pc' = "commit"
             /\ job' = [job EXCEPT !.batch = batch,
                                   !.got = [p \in Posts |-> IF p \in batch THEN post[p] ELSE None]]
             /\ UNCHANGED dry
  /\ UNCHANGED <<publisher, now, database, budget>>

\* The events of the batch and the cursor past it, in one transaction.
Commit ==
  /\ pc = "commit"
  /\ pc' = "content"
  /\ job' = [job EXCEPT !.ids = @ \ job.batch, !.batches = @ + 1, !.batch = {},
                        !.got = NoJob.got]
  /\ IF dry
     THEN UNCHANGED database
     ELSE /\ row' = [p \in Posts |-> IF job.got[p] = None THEN row[p]
                                     ELSE Upserted(row[p], job.got[p])]
          /\ saved' = [saved EXCEPT !.left = job.ids \ job.batch]
  /\ UNCHANGED <<publisher, now, dry, budget>>

\* Nothing pending any more: the watermark moves to the end of the window.
Finish ==
  /\ pc = "content"
  /\ job.ids = {}
  /\ saved' = IF dry THEN saved
              ELSE [completed |-> job.through, through |-> Never, left |-> {}]
  /\ Stop
  /\ UNCHANGED <<publisher, now, row, budget>>

Pause ==
  /\ pc = "content"
  /\ job.ids # {}
  /\ job.batches = MaxBatches
  /\ Stop
  /\ UNCHANGED <<publisher, now, database, budget>>

\* A request or a transaction fails (the transaction rolls back), or the process
\* is killed.
Fail ==
  /\ pc # "idle"
  /\ faults < MaxFaults
  /\ faults' = faults + 1
  /\ Stop
  /\ UNCHANGED <<publisher, now, database, edits, clears>>

\* clear --scope records deletes the rows and the checkpoint together.
Clear ==
  /\ pc = "idle"
  /\ clears < MaxClears
  /\ clears' = clears + 1
  /\ row' = [p \in Posts |-> None]
  /\ saved' = NothingSaved
  /\ UNCHANGED <<publisher, now, pc, dry, job, edits, faults>>

-----------------------------------------------------------------------------
Publish ==
  \/ \E p \in Posts, c \in Contents \union {Malformed}, m \in now - Skew .. now + Skew :
       m \in Nat /\ Save(p, c, m)
  \/ \E p \in Posts : Remove(p)

Start(fl) == Resume(fl) \/ Discover(fl)

Work == ListPage \/ Freeze \/ FetchBatch \/ Commit \/ Finish \/ Pause

Next ==
  \/ Tick \/ Publish
  \/ \E fl \in SUBSET {"full", "dry"} : Start(fl)
  \/ Work \/ Fail \/ Clear

Spec == Init /\ [][Next]_vars

\* A run that was started goes on, the clock goes on, and a plain run comes round
\* again whatever other runs are started in between.
Fairness ==
  /\ WF_vars(Work)
  /\ WF_vars(Tick)
  /\ SF_vars(Start({}))

FairSpec == Spec /\ Fairness
=============================================================================
