------------------------ MODULE TranscriptSyncProofs ------------------------
(***************************************************************************)
(* For every archive, page size, batch size, overlap, lag, and clock skew  *)
(* up to the lag, neither the watermark nor the saved cursor of the        *)
(* transcript synchronization passes a post that is not in the feed.       *)
(*                                                                         *)
(* The argument: an edit is stamped no earlier than the skew behind our    *)
(* clock, so it leaves every window that is open or was ever finished, and *)
(* those windows only lose posts.  An inventory whose pages all had the    *)
(* same total was read from one and the same window, and one with as many  *)
(* ids as that total has them all.  What is in a batch and still in the    *)
(* window has not been edited since it was fetched.                        *)
(***************************************************************************)
EXTENDS TranscriptSyncProps, FiniteSetTheorems, TLAPS

\* Windows end behind every stamp that is still to come; what is stored or
\* fetched is never newer than what the publisher gave out.
Clocks ==
  /\ Lag <= now /\ stamp <= now + Skew
  /\ saved.completed <= now - Lag
  /\ saved.through <= now - Lag
  /\ job.through <= now - Lag
  /\ \A p \in Posts : post[p] # None => post[p].modified <= stamp
  /\ \A p \in Posts : row[p] # None =>
       /\ row[p].modified <= stamp
       /\ post[p] # None => row[p].modified <= post[p].modified
  /\ \A p \in Posts : job.got[p] # None =>
       /\ job.got[p].modified <= stamp
       /\ post[p] # None => job.got[p].modified <= post[p].modified

\* What the process works on is what is saved, and never starts behind it.
Matching ==
  /\ saved.through # Never => saved.through \in Nat /\ saved.completed <= saved.through
  /\ pc # "idle" => job.through \in Nat /\ saved.completed <= job.through
  /\ pc = "discover" =>
       saved.through = Never /\ (job.after = Never \/ job.after < saved.completed)
  /\ pc \in {"content", "commit"} /\ ~dry =>
       saved.through = job.through /\ saved.left = job.ids
  /\ job.batch \subseteq job.ids

\* A post of the batch that is still in the window is the one fetched.
Fetched ==
  pc = "commit" =>
    /\ \A p \in Posts : job.got[p] # None => p \in job.batch /\ job.got[p].content \in Contents
    /\ \A p \in job.batch :
         post[p] # None /\ post[p].modified < job.through => job.got[p] = post[p]

\* One set W of posts has held the window since the first page was read.
Listed ==
  pc = "discover" =>
    /\ job.page >= 1
    /\ job.page = 1 => job.pages = 1 /\ job.ids = {}
    /\ job.page > 1 =>
         \E W \in SUBSET Posts : /\ Window(job.through, job.after) \subseteq W
                                 /\ Cardinality(W) = job.total
                                 /\ job.ids \subseteq W

IInv == TypeOK /\ Clocks /\ Matching /\ Fetched /\ Listed /\ NothingSkipped /\ CursorHonest

-----------------------------------------------------------------------------
(* Facts about pages, windows and the upsert. *)

\* The arithmetic of the constants, once and for all.
LEMMA Constants ==
  /\ IsFiniteSet(Posts)
  /\ ListSize \in Nat /\ ListSize > 0
  /\ Overlap \in Nat /\ Overlap > 0
  /\ Skew \in Nat /\ Lag \in Nat /\ Skew <= Lag
  /\ None \notin Version /\ None \notin Row /\ Malformed \notin Contents
  /\ Never \in Int /\ Never < 0
BY SyncConstants DEF SyncConstants, Never

\* A page has only posts of what it is a page of.
LEMMA PageWithin == ASSUME NEW S, NEW n, NEW size PROVE PageOf(S, n, size) \subseteq S
BY DEF PageOf

\* A window is a finite set of posts.
LEMMA WindowTypes ==
  ASSUME NEW t, NEW a
  PROVE  /\ Window(t, a) \subseteq Posts
         /\ IsFiniteSet(Window(t, a))
         /\ Cardinality(Window(t, a)) \in Nat
<1>1. Window(t, a) \in SUBSET Posts
  BY DEF Window
<1>2. IsFiniteSet(Window(t, a))
  BY <1>1, FS_Subset, Constants
<1>3. Cardinality(Window(t, a)) \in Nat
  BY <1>2, FS_CardinalityType
<1> QED
  BY <1>1, <1>2, <1>3

\* The number of pages is a natural number.
LEMMA PagesType ==
  ASSUME NEW t, NEW a
  PROVE  PagesOf(Window(t, a), ListSize) \in Nat
<1>1. Cardinality(Window(t, a)) + ListSize - 1 \in Nat
  BY WindowTypes, Constants
<1>2. \A n \in Nat : n \div ListSize \in Nat
  BY Constants
<1> QED
  BY <1>1, <1>2 DEF PagesOf

\* The upsert of a version no older than the row stores that version, whole.
LEMMA UpsertStores ==
  ASSUME NEW r \in Row \union {None}, NEW v \in Version, v.content \in Contents,
         r # None => r.modified <= v.modified
  PROVE  /\ Upserted(r, v) \in Row
         /\ Upserted(r, v).modified = v.modified
         /\ Upserted(r, v).content = v.content
<1>1. CASE r = None
  BY <1>1 DEF Upserted, Row, Version
<1>2. CASE r # None
  <2>1. r \in Row
    BY <1>2
  <2>2. ~Stale(r, v)
    BY <1>2, <2>1 DEF Stale, Row, Version
  <2> QED
    BY <1>2, <2>1, <2>2 DEF Upserted, Row, Version
<1> QED
  BY <1>1, <1>2

\* Whatever version arrives, the row ends as a row no newer than the newer of the two.
LEMMA UpsertType ==
  ASSUME NEW r \in Row \union {None}, NEW v \in Version, v.content \in Contents
  PROVE  /\ Upserted(r, v) \in Row
         /\ Upserted(r, v).modified = v.modified \/ (r # None /\ Upserted(r, v) = r)
BY DEF Upserted, Stale, Row, Version

-----------------------------------------------------------------------------
(* Types. *)

\* The locals of a run that has not begun.
LEMMA NoJobType == NoJob \in Job
BY Constants DEF NoJob, Job

\* A page that is not refused adds its ids; nothing else is touched.
LEMMA PageRead ==
  ASSUME TypeOK, ListPage, ~Stop
  PROVE  LET listed == Window(job.through, job.after) IN
         /\ pc = "discover" /\ pc' = "discover" /\ job.page <= job.pages
         /\ job.page > 1 => Cardinality(listed) = job.total
         /\ job'.through = job.through /\ job'.after = job.after
         /\ job'.ids = job.ids \union PageOf(listed, job.page, ListSize)
         /\ job'.total = Cardinality(listed)
         /\ job'.page = job.page + 1
         /\ job'.batch = job.batch /\ job'.got = job.got
         /\ UNCHANGED <<post, stamp, now, row, saved, dry>>
<1> DEFINE listed == Window(job.through, job.after)
           read == job.ids \union PageOf(listed, job.page, ListSize)
           n == Cardinality(listed)
           k == job.page + 1
           g == PagesOf(listed, ListSize)
<1>1. /\ pc = "discover" /\ job.page <= job.pages
      /\ job.page > 1 => n = job.total
      /\ job' = [job EXCEPT !.ids = read, !.total = n, !.page = k, !.pages = g]
      /\ UNCHANGED <<publisher, now, database, pc, dry>>
  BY DEF ListPage
<1>2. /\ job'.through = job.through /\ job'.after = job.after
      /\ job'.ids = read /\ job'.total = n /\ job'.page = k
      /\ job'.batch = job.batch /\ job'.got = job.got
  <2> HIDE DEF listed, read, n, k, g
  <2> QED BY <1>1 DEF TypeOK, Job
<1> QED
  BY <1>1, <1>2 DEF publisher, database

\* A batch that parses is fetched whole; nothing else is touched.
LEMMA BatchRead ==
  ASSUME TypeOK, FetchBatch, ~Stop
  PROVE  /\ pc = "content" /\ pc' = "commit"
         /\ \A p \in job'.batch : post[p] # None => post[p].content # Malformed
         /\ job'.through = job.through /\ job'.ids = job.ids
         /\ job'.batch \subseteq job.ids
         /\ job'.got = [p \in Posts |-> IF p \in job'.batch THEN post[p] ELSE None]
         /\ UNCHANGED <<post, stamp, now, row, saved, dry>>
<1> DEFINE batch == PageOf(job.ids, 1, BatchSize)
           got == [p \in Posts |-> IF p \in batch THEN post[p] ELSE None]
<1>1. /\ pc = "content" /\ pc' = "commit"
      /\ \A p \in batch : post[p] # None => post[p].content # Malformed
      /\ job' = [job EXCEPT !.batch = batch, !.got = got]
      /\ UNCHANGED <<publisher, now, database, dry>>
  BY DEF FetchBatch
<1>2. /\ job'.through = job.through /\ job'.ids = job.ids
      /\ job'.batch = batch /\ job'.got = got
  <2> HIDE DEF batch, got
  <2> QED BY <1>1 DEF TypeOK, Job
<1>3. batch \subseteq job.ids
  BY PageWithin
<1> QED
  BY <1>1, <1>2, <1>3 DEF publisher, database

\* The initial states satisfy the invariant: nothing is saved, nothing fetched.
LEMMA InitHolds == Init => IInv
<1> SUFFICES ASSUME Init PROVE IInv
  OBVIOUS
<1>1. TypeOK
  <2>1. \A c \in Contents : [modified |-> 0, content |-> c] \in Version
    BY DEF Version
  <2>2. post \in [Posts -> Version \union {None}]
    BY <2>1 DEF Init
  <2>3. NothingSaved \in Saved
    BY Constants DEF NothingSaved, Saved
  <2>4. row \in [Posts -> Row \union {None}]
    BY DEF Init
  <2> QED
    BY <2>2, <2>3, <2>4, NoJobType, Constants DEF Init, TypeOK
<1>2. Clocks
  BY <1>1, Constants DEF Init, Clocks, NothingSaved, NoJob, Never
<1>3. Matching /\ Fetched /\ Listed
  BY DEF Init, Matching, Fetched, Listed, NothingSaved, NoJob
<1>4. NothingSkipped /\ CursorHonest
  <2>1. \A p \in Posts : post[p] # None => 0 <= post[p].modified
    BY <1>1 DEF TypeOK, Version
  <2> QED
    BY <1>1, <2>1 DEF Init, NothingSkipped, CursorHonest, NothingSaved, Never, TypeOK, Version
<1> QED
  BY <1>1, <1>2, <1>3, <1>4 DEF IInv

\* Every step keeps the types; that a batch parsed is what Fetched says of it.
LEMMA StepTypes ==
  ASSUME TypeOK, Fetched, [Next]_vars
  PROVE  TypeOK'
<1> USE DEF TypeOK
<1>1. CASE Tick
  BY <1>1 DEF Tick, publisher, database, budget
<1>2. ASSUME NEW p \in Posts, NEW c \in Contents \union {Malformed},
             NEW m \in now - Skew .. now + Skew, m \in Nat, Save(p, c, m)
      PROVE  TypeOK'
  <2>1. [modified |-> m, content |-> c] \in Version
    BY <1>2 DEF Version
  <2> QED
    BY <1>2, <2>1 DEF Save, database
<1>3. ASSUME NEW p \in Posts, Remove(p) PROVE TypeOK'
  BY <1>3 DEF Remove, database
<1>4. ASSUME NEW fl \in SUBSET {"full", "dry"}, Resume(fl) PROVE TypeOK'
  <2>1. job' \in Job
    BY <1>4, NoJobType DEF Resume, Job, Saved
  <2> QED
    BY <1>4, <2>1 DEF Resume, publisher, database, budget
<1>5. ASSUME NEW fl \in SUBSET {"full", "dry"}, Discover(fl) PROVE TypeOK'
  <2>1. WindowStart(fl) \in Int /\ now - Lag \in Int
    BY Constants DEF WindowStart, Saved
  <2>2. job' \in Job
    BY <1>5, <2>1, NoJobType DEF Discover, Job
  <2> QED
    BY <1>5, <2>2 DEF Discover, publisher, database, budget
<1>6. CASE ListPage
  <2> DEFINE listed == Window(job.through, job.after)
             ids == PageOf(listed, job.page, ListSize)
             read == job.ids \union ids
             n == Cardinality(listed)
             k == job.page + 1
             g == PagesOf(listed, ListSize)
  <2>1. CASE Stop
    BY <1>6, <2>1, NoJobType DEF ListPage, Stop, publisher, database, budget
  <2>2. CASE ~Stop
    <3>1. /\ job' = [job EXCEPT !.ids = read, !.total = n, !.page = k, !.pages = g]
          /\ UNCHANGED <<pc, dry>>
      BY <1>6, <2>2 DEF ListPage
    <3>2. ids \subseteq Posts /\ n \in Nat /\ g \in Nat
      BY WindowTypes, PageWithin, PagesType
    <3>3. read \in SUBSET Posts /\ k \in Nat
      BY <3>2 DEF Job
    <3>4. job' \in Job
      <4> HIDE DEF read, n, k, g
      <4> QED BY <3>1, <3>2, <3>3 DEF Job
    <3> QED
      BY <1>6, <3>1, <3>4 DEF ListPage, publisher, database, budget
  <2> QED
    BY <2>1, <2>2
<1>7. CASE Freeze
  BY <1>7, NoJobType DEF Freeze, Stop, publisher, budget, Saved, Job
<1>8. CASE FetchBatch
  <2> DEFINE batch == PageOf(job.ids, 1, BatchSize)
             got == [p \in Posts |-> IF p \in batch THEN post[p] ELSE None]
  <2>1. CASE Stop
    BY <1>8, <2>1, NoJobType DEF FetchBatch, Stop, publisher, database, budget
  <2>2. CASE ~Stop
    <3>1. /\ pc' = "commit"
          /\ job' = [job EXCEPT !.batch = batch, !.got = got]
          /\ UNCHANGED dry
      BY <1>8, <2>2 DEF FetchBatch
    <3>2. batch \subseteq Posts
      BY PageWithin DEF Job
    <3>3. got \in [Posts -> Version \union {None}]
      OBVIOUS
    <3>4. job' \in Job
      <4> HIDE DEF batch, got
      <4> QED BY <3>1, <3>2, <3>3 DEF Job
    <3> QED
      BY <1>8, <3>1, <3>4 DEF FetchBatch, publisher, database, budget
  <2> QED
    BY <2>1, <2>2
<1>9. CASE Commit
  <2>1. job' \in Job
    <3> DEFINE left == job.ids \ job.batch
               n == job.batches + 1
               got == NoJob.got
    <3>1. left \in SUBSET Posts /\ n \in Nat
      BY DEF Job
    <3>2. got \in [Posts -> Version \union {None}]
      BY NoJobType DEF Job
    <3>3. job' = [job EXCEPT !.ids = left, !.batches = n, !.batch = {}, !.got = got]
      BY <1>9 DEF Commit
    <3> HIDE DEF left, n, got
    <3> QED BY <3>1, <3>2, <3>3 DEF Job
  <2>2. row' \in [Posts -> Row \union {None}]
    <3>1. \A p \in Posts : job.got[p] # None => Upserted(row[p], job.got[p]) \in Row
      BY <1>9, UpsertType DEF Commit, Fetched, Job
    <3> QED
      BY <1>9, <3>1 DEF Commit, database
  <2>3. saved' \in Saved
    <3>1. job.ids \ job.batch \in SUBSET Posts
      BY DEF Job
    <3>2. CASE dry
      BY <1>9, <3>2 DEF Commit, database
    <3>3. CASE ~dry
      <4>1. saved' = [saved EXCEPT !.left = job.ids \ job.batch]
        BY <1>9, <3>3 DEF Commit
      <4> QED
        BY <3>1, <4>1 DEF Saved
    <3> QED
      BY <3>2, <3>3
  <2> QED
    BY <1>9, <2>1, <2>2, <2>3 DEF Commit, publisher, budget
<1>10. CASE Finish
  <2>1. saved' \in Saved
    BY <1>10, Constants DEF Finish, Saved, Job
  <2> QED
    BY <1>10, <2>1, NoJobType DEF Finish, Stop, publisher, budget
<1>11. CASE Pause
  BY <1>11, NoJobType DEF Pause, Stop, publisher, database, budget
<1>12. CASE Fail
  <2>1. job' \in Job /\ faults' \in Nat
    BY <1>12, NoJobType DEF Fail, Stop
  <2> QED
    BY <1>12, <2>1 DEF Fail, Stop, publisher, database
<1>13. CASE Clear
  BY <1>13, Constants DEF Clear, NothingSaved, Saved, publisher
<1>14. CASE UNCHANGED vars
  BY <1>14 DEF vars, publisher, database, budget
<1> QED
  BY <1>1, <1>2, <1>3, <1>4, <1>5, <1>6, <1>7, <1>8, <1>9, <1>10, <1>11, <1>12, <1>13, <1>14
     DEF Next, Publish, Start, Work

-----------------------------------------------------------------------------
(* Clocks. *)

\* The modification times are numbers.
LEMMA Stamps ==
  ASSUME TypeOK
  PROVE  /\ \A p \in Posts : post[p] # None => post[p].modified \in Nat
         /\ \A p \in Posts : row[p] # None => row[p].modified \in Nat
         /\ \A p \in Posts : job.got[p] # None =>
              job.got[p] \in Version /\ job.got[p].modified \in Nat
         /\ saved.completed \in Int /\ saved.through \in Int
         /\ job.through \in Int /\ job.after \in Int
         /\ now \in Nat /\ stamp \in Nat
BY DEF TypeOK, Version, Row, Saved, Job

\* No step lets a window end ahead of a stamp still to come.
LEMMA StepClocks ==
  ASSUME TypeOK, Clocks, Fetched, [Next]_vars
  PROVE  Clocks'
<1> USE Stamps, Constants DEF Clocks
<1>0. ASSUME UNCHANGED publisher, UNCHANGED row, UNCHANGED now,
             saved'.completed = saved.completed \/ saved'.completed <= now - Lag,
             saved'.through = saved.through \/ saved'.through <= now - Lag,
             job'.through = job.through \/ job'.through <= now - Lag,
             \A p \in Posts : job'.got[p] # None => job'.got[p] = job.got[p]
      PROVE  Clocks'
  BY <1>0 DEF publisher
<1>s. ASSUME Stop, UNCHANGED publisher, UNCHANGED row, UNCHANGED now,
             saved'.completed = saved.completed \/ saved'.completed <= now - Lag,
             saved'.through = saved.through \/ saved'.through <= now - Lag
      PROVE  Clocks'
  <2>1. job'.through = Never /\ \A p \in Posts : job'.got[p] = None
    BY <1>s DEF Stop, NoJob
  <2> QED
    BY <1>0, <1>s, <2>1
<1>1. CASE Tick
  <2>1. /\ now' = now + 1
        /\ UNCHANGED <<post, stamp, row, saved, job>>
    BY <1>1 DEF Tick, publisher, database
  <2> QED
    BY <2>1
<1>2. ASSUME NEW p \in Posts, NEW c \in Contents \union {Malformed},
             NEW m \in now - Skew .. now + Skew, m \in Nat, Save(p, c, m)
      PROVE  Clocks'
  <2>1. /\ m >= stamp /\ m <= now + Skew
        /\ stamp' = m
        /\ UNCHANGED <<now, row, saved, job>>
    BY <1>2 DEF Save, database
  <2>2. \A q \in Posts : post'[q] = post[q] \/ post'[q].modified = m
    BY <1>2 DEF Save, TypeOK
  <2> QED
    BY <2>1, <2>2
<1>3. ASSUME NEW p \in Posts, Remove(p) PROVE Clocks'
  <2>1. UNCHANGED <<stamp, now, row, saved, job>>
    BY <1>3 DEF Remove, database
  <2>2. \A q \in Posts : post'[q] = post[q] \/ post'[q] = None
    BY <1>3 DEF Remove, TypeOK
  <2> QED
    BY <2>1, <2>2
<1>4. ASSUME NEW fl \in SUBSET {"full", "dry"}, Resume(fl) PROVE Clocks'
  <2>1. job'.through = saved.through /\ \A p \in Posts : job'.got[p] = None
    BY <1>4 DEF Resume, NoJob
  <2> QED
    BY <1>0, <1>4, <2>1 DEF Resume, database
<1>5. ASSUME NEW fl \in SUBSET {"full", "dry"}, Discover(fl) PROVE Clocks'
  <2>1. job'.through = now - Lag /\ \A p \in Posts : job'.got[p] = None
    BY <1>5 DEF Discover, NoJob
  <2> QED
    BY <1>0, <1>5, <2>1 DEF Discover, database
<1>6. CASE ListPage
  <2>1. UNCHANGED <<publisher, now, row, saved>>
    BY <1>6 DEF ListPage, database
  <2>2. CASE ~Stop
    BY <1>0, <1>6, <2>1, <2>2, PageRead
  <2> QED
    BY <1>s, <2>1, <2>2
<1>7. CASE Freeze
  <2>1. UNCHANGED <<publisher, now, row>>
    BY <1>7 DEF Freeze
  <2>2. CASE Cardinality(job.ids) # job.total
    BY <1>7, <1>s, <2>1, <2>2 DEF Freeze
  <2>3. CASE Cardinality(job.ids) = job.total
    <3>1. /\ UNCHANGED job
          /\ saved' = IF dry THEN saved
                      ELSE [saved EXCEPT !.through = job.through, !.left = job.ids]
      BY <1>7, <2>3 DEF Freeze
    <3>2. saved'.completed = saved.completed
          /\ (saved'.through = saved.through \/ saved'.through = job.through)
      BY <3>1 DEF TypeOK, Saved
    <3> QED
      BY <1>0, <2>1, <3>1, <3>2
  <2> QED
    BY <2>2, <2>3
<1>8. CASE FetchBatch
  <2>1. UNCHANGED <<publisher, now, row, saved>>
    BY <1>8 DEF FetchBatch, database
  <2>2. CASE ~Stop
    <3>1. job'.through = job.through /\ \A p \in Posts : job'.got[p] \in {None, post[p]}
      BY <1>8, <2>2, BatchRead
    <3> QED
      BY <2>1, <3>1 DEF publisher
  <2> QED
    BY <1>s, <2>1, <2>2
<1>9. CASE Commit
  <2>1. UNCHANGED <<publisher, now>>
    BY <1>9 DEF Commit
  <2>2. job'.through = job.through /\ \A p \in Posts : job'.got[p] = None
    BY <1>9 DEF Commit, TypeOK, Job, NoJob
  <2>3. saved'.completed = saved.completed /\ saved'.through = saved.through
    BY <1>9 DEF Commit, database, TypeOK, Saved
  <2>4. ASSUME NEW p \in Posts, row'[p] # None
        PROVE  \/ row[p] # None /\ row'[p].modified = row[p].modified
               \/ job.got[p] # None /\ row'[p].modified = job.got[p].modified
    <3>1. CASE dry
      BY <1>9, <2>4, <3>1 DEF Commit, database
    <3>2. ASSUME ~dry, job.got[p] # None
          PROVE  \/ row'[p].modified = job.got[p].modified
                 \/ row[p] # None /\ row'[p].modified = row[p].modified
      <4>1. row'[p] = Upserted(row[p], job.got[p])
        BY <1>9, <3>2 DEF Commit
      <4>2. job.got[p].content \in Contents
        BY <1>9, <3>2 DEF Commit, Fetched
      <4>3. row[p] \in Row \union {None} /\ job.got[p] \in Version
        BY <3>2 DEF TypeOK
      <4>4. \/ Upserted(row[p], job.got[p]).modified = job.got[p].modified
            \/ row[p] # None /\ Upserted(row[p], job.got[p]) = row[p]
        BY <4>2, <4>3, UpsertType
      <4> QED
        BY <4>1, <4>4
    <3>3. ASSUME ~dry, job.got[p] = None
          PROVE  row'[p] = row[p]
      BY <1>9, <3>3 DEF Commit
    <3> QED
      BY <2>4, <3>1, <3>2, <3>3
  <2> QED
    BY <2>1, <2>2, <2>3, <2>4 DEF publisher
<1>10. CASE Finish
  <2>1. saved'.completed \in {saved.completed, job.through}
        /\ saved'.through \in {saved.through, Never}
    BY <1>10 DEF Finish
  <2> QED
    BY <1>s, <1>10, <2>1 DEF Finish
<1>11. CASE Pause
  BY <1>s, <1>11 DEF Pause, database
<1>12. CASE Fail
  BY <1>s, <1>12 DEF Fail, database
<1>13. CASE Clear
  <2>1. saved'.completed = Never /\ saved'.through = Never
        /\ \A p \in Posts : row'[p] = None
    BY <1>13 DEF Clear, NothingSaved
  <2> QED
    BY <1>13, <2>1 DEF Clear, publisher
<1>14. CASE UNCHANGED vars
  BY <1>14 DEF vars, publisher, database
<1> QED
  BY <1>1, <1>2, <1>3, <1>4, <1>5, <1>6, <1>7, <1>8, <1>9, <1>10, <1>11, <1>12, <1>13, <1>14
     DEF Next, Publish, Start, Work

-----------------------------------------------------------------------------
(* The process and what is saved. *)

\* A run keeps working on what is saved.
LEMMA StepMatching ==
  ASSUME TypeOK, Clocks, Matching, [Next]_vars
  PROVE  Matching'
<1> USE Stamps, Constants DEF Matching
<1>0. ASSUME UNCHANGED <<saved, pc, dry, job>> PROVE Matching'
  BY <1>0
<1>s. ASSUME Stop, saved' \in {saved, NothingSaved} PROVE Matching'
  BY <1>s DEF Stop, NoJob, NothingSaved
<1>1. CASE Tick
  BY <1>0, <1>1 DEF Tick, database
<1>2. CASE Publish
  BY <1>0, <1>2 DEF Publish, Save, Remove, database
<1>3. ASSUME NEW fl \in SUBSET {"full", "dry"}, Resume(fl) PROVE Matching'
  BY <1>3 DEF Resume, NoJob, database
<1>4. ASSUME NEW fl \in SUBSET {"full", "dry"}, Discover(fl) PROVE Matching'
  <2>1. /\ saved.through = Never /\ UNCHANGED saved /\ pc' = "discover"
        /\ job'.through = now - Lag /\ job'.after = WindowStart(fl)
        /\ job'.batch = {} /\ job'.ids = {}
    BY <1>4 DEF Discover, NoJob, database
  <2>2. now - Lag \in Nat /\ saved.completed <= now - Lag
    BY DEF Clocks
  <2>3. WindowStart(fl) = Never \/ WindowStart(fl) < saved.completed
    BY DEF WindowStart
  <2> QED
    BY <2>1, <2>2, <2>3
<1>5. CASE ListPage
  <2>1. CASE Stop
    BY <1>s, <1>5, <2>1 DEF ListPage, database
  <2>2. CASE ~Stop
    <3>1. job.ids \subseteq job'.ids
      BY <1>5, <2>2, PageRead
    <3> QED
      BY <1>5, <2>2, <3>1, PageRead
  <2> QED
    BY <2>1, <2>2
<1>6. CASE Freeze
  <2>1. CASE Cardinality(job.ids) # job.total
    BY <1>6, <1>s, <2>1 DEF Freeze
  <2>2. CASE Cardinality(job.ids) = job.total
    <3>1. /\ pc = "discover" /\ pc' = "content" /\ UNCHANGED <<dry, job>>
          /\ saved' = IF dry THEN saved
                      ELSE [saved EXCEPT !.through = job.through, !.left = job.ids]
      BY <1>6, <2>2 DEF Freeze
    <3>2. /\ saved'.completed = saved.completed
          /\ dry => saved' = saved
          /\ ~dry => saved'.through = job.through /\ saved'.left = job.ids
      BY <3>1 DEF TypeOK, Saved
    <3> QED
      BY <3>1, <3>2
  <2> QED
    BY <2>1, <2>2
<1>7. CASE FetchBatch
  <2>1. CASE Stop
    BY <1>s, <1>7, <2>1 DEF FetchBatch, database
  <2>2. CASE ~Stop
    BY <1>7, <2>2, BatchRead
  <2> QED
    BY <2>1, <2>2
<1>8. CASE Commit
  <2>1. /\ pc = "commit" /\ pc' = "content" /\ UNCHANGED dry
        /\ job'.through = job.through /\ job'.ids = job.ids \ job.batch /\ job'.batch = {}
    BY <1>8 DEF Commit, TypeOK, Job
  <2>2. /\ saved'.completed = saved.completed /\ saved'.through = saved.through
        /\ ~dry => saved'.left = job.ids \ job.batch
    BY <1>8 DEF Commit, database, TypeOK, Saved
  <2> QED
    BY <2>1, <2>2
<1>9. CASE Finish
  <2>1. /\ pc' = "idle" /\ job'.batch = {} /\ job'.ids = {}
        /\ saved' = saved \/ saved'.through = Never
    BY <1>9 DEF Finish, Stop, NoJob
  <2> QED
    BY <2>1
<1>10. CASE Pause \/ Fail \/ Clear
  <2>1. CASE Pause \/ Fail
    BY <1>s, <2>1 DEF Pause, Fail, database
  <2>2. CASE Clear
    BY <2>2 DEF Clear, NothingSaved
  <2> QED
    BY <1>10, <2>1, <2>2
<1>11. CASE UNCHANGED vars
  BY <1>0, <1>11 DEF vars, database
<1> QED
  BY <1>1, <1>2, <1>3, <1>4, <1>5, <1>6, <1>7, <1>8, <1>9, <1>10, <1>11
     DEF Next, Start, Work

\* An edit leaves every window that ends in the past, and no step but an edit
\* brings a post into one.
LEMMA PublishLeaves ==
  ASSUME TypeOK, Clocks, Publish, NEW t \in Int, t <= now - Lag, NEW p \in Posts,
         post'[p] # None, post'[p].modified < t
  PROVE  post'[p] = post[p]
<1> USE Stamps, Constants DEF TypeOK
<1>1. ASSUME NEW q \in Posts, NEW c \in Contents \union {Malformed},
             NEW m \in now - Skew .. now + Skew, m \in Nat, Save(q, c, m)
      PROVE  post'[p] = post[p]
  <2>1. m >= t
    BY DEF Save
  <2>2. post'[p] = [modified |-> m, content |-> c] \/ post'[p] = post[p]
    BY <1>1 DEF Save
  <2> QED
    BY <2>1, <2>2
<1>2. ASSUME NEW q \in Posts, Remove(q) PROVE post'[p] = post[p]
  BY <1>2 DEF Remove
<1> QED
  BY <1>1, <1>2 DEF Publish

\* A fetched batch stays what the publisher serves in the window.
LEMMA StepFetched ==
  ASSUME TypeOK, Clocks, Matching, Fetched, [Next]_vars
  PROVE  Fetched'
<1> USE DEF Fetched
<1>0. ASSUME UNCHANGED <<post, pc, job>> PROVE Fetched'
  BY <1>0
<1>1. CASE Tick
  BY <1>0, <1>1 DEF Tick, publisher
<1>2. CASE Publish
  <2>1. UNCHANGED <<pc, job>>
    BY <1>2 DEF Publish, Save, Remove
  <2>2. ASSUME pc = "commit", NEW p \in job.batch, post'[p] # None,
               post'[p].modified < job.through
        PROVE  job.got[p] = post'[p]
    <3>1. p \in Posts /\ job.through \in Int /\ job.through <= now - Lag
      BY Stamps DEF TypeOK, Job, Clocks
    <3>2. post'[p] = post[p]
      BY <1>2, <2>2, <3>1, PublishLeaves
    <3> QED
      BY <2>2, <3>2
  <2> QED
    BY <2>1, <2>2
<1>3. CASE FetchBatch
  <2>1. CASE Stop
    BY <2>1 DEF Stop
  <2>2. CASE ~Stop
    <3>1. /\ \A p \in job'.batch : post[p] # None => post[p].content # Malformed
          /\ job'.batch \subseteq Posts
          /\ job'.got = [p \in Posts |-> IF p \in job'.batch THEN post[p] ELSE None]
          /\ UNCHANGED post
      BY <1>3, <2>2, BatchRead DEF TypeOK, Job
    <3>2. \A p \in Posts : post[p] # None /\ post[p].content # Malformed
                             => post[p].content \in Contents
      BY DEF TypeOK, Version
    <3> QED
      BY <3>1, <3>2
  <2> QED
    BY <2>1, <2>2
<1>4. CASE pc' # "commit"
  BY <1>4
<1>5. CASE UNCHANGED vars
  BY <1>0, <1>5 DEF vars, publisher
<1>6. CASE \/ \E fl \in SUBSET {"full", "dry"} : Start(fl)
           \/ ListPage \/ Freeze \/ Commit \/ Finish \/ Pause \/ Fail \/ Clear
  <2>1. pc' # "commit"
    BY <1>6 DEF Start, Resume, Discover, ListPage, Freeze, Commit, Finish, Pause, Fail,
                Clear, Stop
  <2> QED
    BY <1>4, <2>1
<1> QED
  BY <1>1, <1>2, <1>3, <1>5, <1>6 DEF Next, Work

\* Pages with the same total were read from the same window.
LEMMA StepListed ==
  ASSUME TypeOK, Clocks, Listed, [Next]_vars
  PROVE  Listed'
<1> USE DEF Listed
<1>0. ASSUME UNCHANGED <<post, pc, job>> PROVE Listed'
  BY <1>0 DEF Window
<1>1. CASE Tick
  BY <1>0, <1>1 DEF Tick, publisher
<1>2. CASE Publish
  <2>1. UNCHANGED <<pc, job>>
    BY <1>2 DEF Publish, Save, Remove
  <2>2. Window(job.through, job.after)' \subseteq Window(job.through, job.after)
    <3>1. job.through \in Int /\ job.through <= now - Lag
      BY Stamps DEF Clocks
    <3>2. ASSUME NEW p \in Posts, post'[p] # None, post'[p].modified < job.through
          PROVE  post'[p] = post[p]
      BY <1>2, <3>1, <3>2, PublishLeaves
    <3> QED
      BY <2>1, <3>2 DEF Window
  <2> QED
    BY <2>1, <2>2
<1>3. ASSUME NEW fl \in SUBSET {"full", "dry"}, Discover(fl) PROVE Listed'
  BY <1>3 DEF Discover, NoJob
<1>4. CASE ListPage
  <2> DEFINE listed == Window(job.through, job.after)
  <2>1. CASE Stop
    BY <2>1 DEF Stop
  <2>2. CASE ~Stop
    <3>1. /\ pc = "discover" /\ pc' = "discover"
          /\ job.page > 1 => Cardinality(listed) = job.total
          /\ job'.ids = job.ids \union PageOf(listed, job.page, ListSize)
          /\ job'.total = Cardinality(listed)
          /\ job'.page = job.page + 1
          /\ job'.through = job.through /\ job'.after = job.after /\ UNCHANGED post
      BY <1>4, <2>2, PageRead
    <3>2. Window(job.through, job.after)' = listed
      BY <3>1 DEF Window
    <3>3. job'.page \in Nat /\ job'.page > 1
      BY <3>1 DEF TypeOK, Job
    <3>4. job.ids \subseteq listed
      <4>1. CASE job.page = 1
        BY <3>1, <4>1
      <4>2. CASE job.page # 1
        <5>1. job.page > 1
          BY <3>1, <4>2 DEF TypeOK, Job
        <5>2. PICK W \in SUBSET Posts :
                listed \subseteq W /\ Cardinality(W) = job.total /\ job.ids \subseteq W
          BY <3>1, <5>1
        <5>3. IsFiniteSet(W)
          BY FS_Subset, Constants
        <5>4. listed \in SUBSET W /\ Cardinality(W) = Cardinality(listed)
          BY <3>1, <5>1, <5>2
        <5>5. W = listed
          BY <5>3, <5>4, FS_Subset
        <5> QED
          BY <5>2, <5>5
      <4> QED
        BY <4>1, <4>2
    <3>5. listed \in SUBSET Posts /\ PageOf(listed, job.page, ListSize) \subseteq listed
      BY WindowTypes, PageWithin
    <3>6. job'.ids \subseteq listed
      BY <3>1, <3>4, <3>5
    <3>7. \E W \in SUBSET Posts : /\ Window(job.through, job.after)' \subseteq W
                                  /\ Cardinality(W) = job'.total
                                  /\ job'.ids \subseteq W
      BY <3>1, <3>2, <3>5, <3>6
    <3> QED
      BY <3>3, <3>7
  <2> QED
    BY <2>1, <2>2
<1>5. CASE UNCHANGED vars
  BY <1>0, <1>5 DEF vars, publisher
<1>6. CASE \/ \E fl \in SUBSET {"full", "dry"} : Resume(fl)
           \/ Freeze \/ FetchBatch \/ Commit \/ Finish \/ Pause \/ Fail \/ Clear
  <2>1. pc' # "discover"
    BY <1>6 DEF Resume, Freeze, FetchBatch, Commit, Finish, Pause, Fail, Clear, Stop
  <2> QED
    BY <2>1
<1> QED
  BY <1>1, <1>2, <1>3, <1>4, <1>5, <1>6 DEF Next, Start, Work

-----------------------------------------------------------------------------
(* The watermark and the cursor. *)

\* Publishing leaves the rows of a window that ends in the past as current as they
\* were.
LEMMA PublishKeeps ==
  ASSUME TypeOK, Clocks, Publish, NEW t \in Int, t <= now - Lag, NEW p \in Posts,
         post'[p] # None, post'[p].modified < t
  PROVE  /\ post[p] # None /\ post[p].modified < t
         /\ Current(p) => Current(p)'
<1>1. post'[p] = post[p]
  BY PublishLeaves
<1>2. UNCHANGED row
  BY DEF Publish, Save, Remove, database
<1> QED
  BY <1>1, <1>2 DEF Current

\* A commit brings the rows of its batch up to what the publisher serves, and
\* leaves the others as they were.
LEMMA CommitKeeps ==
  ASSUME TypeOK, Clocks, Fetched, Commit, ~dry, NEW p \in Posts,
         post[p] # None, post[p].modified < job.through, p \in job.batch \/ Current(p)
  PROVE  Current(p)'
<1>1. /\ pc = "commit" /\ UNCHANGED post
      /\ row'[p] = IF job.got[p] = None THEN row[p] ELSE Upserted(row[p], job.got[p])
  BY DEF Commit, publisher
<1>2. CASE p \notin job.batch
  <2>1. job.got[p] = None
    BY <1>1, <1>2 DEF Fetched
  <2> QED
    BY <1>1, <1>2, <2>1 DEF Current
<1>3. CASE p \in job.batch
  <2>1. job.got[p] = post[p] /\ job.got[p].content \in Contents
    BY <1>1, <1>3 DEF Fetched
  <2>2. row[p] \in Row \union {None} /\ post[p] \in Version
    BY DEF TypeOK
  <2>3. row[p] # None => row[p].modified <= post[p].modified
    BY DEF Clocks
  <2>4. Upserted(row[p], post[p]) \in Row
        /\ Upserted(row[p], post[p]).modified = post[p].modified
        /\ Upserted(row[p], post[p]).content = post[p].content
    BY <2>1, <2>2, <2>3, UpsertStores
  <2>5. row'[p] = Upserted(row[p], post[p])
    BY <1>1, <2>1
  <2> QED
    BY <1>1, <2>4, <2>5, Constants DEF Current
<1> QED
  BY <1>2, <1>3

\* An inventory with as many ids as its total has every post of its window.
LEMMA FrozenWhole ==
  ASSUME TypeOK, Listed, pc = "discover", job.page > job.pages,
         Cardinality(job.ids) = job.total
  PROVE  Window(job.through, job.after) \subseteq job.ids
<1>1. job.page > 1
  BY DEF Listed, TypeOK, Job
<1>2. PICK W \in SUBSET Posts : /\ Window(job.through, job.after) \subseteq W
                                /\ Cardinality(W) = job.total
                                /\ job.ids \subseteq W
  BY <1>1 DEF Listed
<1>3. IsFiniteSet(W)
  BY FS_Subset, Constants
<1>4. job.ids \in SUBSET W /\ Cardinality(W) = Cardinality(job.ids)
  BY <1>2
<1>5. W = job.ids
  BY <1>3, <1>4, FS_Subset
<1> QED
  BY <1>2, <1>5

\* A post behind the end of the window being listed is in the window, or behind
\* the watermark and so in the feed already.
LEMMA BeforeWindow ==
  ASSUME TypeOK, Matching, NothingSkipped, pc = "discover", NEW p \in Posts,
         post[p] # None, post[p].modified < job.through
  PROVE  p \in Window(job.through, job.after) \/ Current(p)
<1>1. post[p].modified \in Nat
  BY Stamps
<1>2. CASE job.after < post[p].modified
  BY <1>2 DEF Window
<1>3. CASE ~(job.after < post[p].modified)
  <2>1. job.after < saved.completed
    BY <1>1, <1>3, Constants DEF Matching
  <2>2. post[p].modified < saved.completed
    BY <1>1, <1>3, <2>1, Stamps
  <2> QED
    BY <2>2 DEF NothingSkipped
<1> QED
  BY <1>2, <1>3

\* No step takes the watermark past a post that is not in the feed.
LEMMA StepSkipped ==
  ASSUME TypeOK, Clocks, Matching, Fetched, NothingSkipped, CursorHonest, [Next]_vars
  PROVE  NothingSkipped'
<1> USE DEF NothingSkipped
<1>0. ASSUME UNCHANGED <<post, row>>, saved'.completed = saved.completed
      PROVE  NothingSkipped'
  BY <1>0 DEF Current
<1>1. CASE Tick
  BY <1>0, <1>1 DEF Tick, publisher, database
<1>2. CASE Publish
  <2>1. UNCHANGED saved
    BY <1>2 DEF Publish, Save, Remove, database
  <2>2. saved.completed \in Int /\ saved.completed <= now - Lag
    BY Stamps DEF Clocks
  <2> QED
    BY <1>2, <2>1, <2>2, PublishKeeps
<1>3. CASE Freeze
  <2>1. saved' = saved \/ saved' = [saved EXCEPT !.through = job.through, !.left = job.ids]
    BY <1>3 DEF Freeze
  <2>2. saved'.completed = saved.completed
    BY <2>1 DEF TypeOK, Saved
  <2> QED
    BY <1>0, <1>3, <2>2 DEF Freeze, publisher
<1>4. CASE Commit
  <2>1. saved'.completed = saved.completed
    BY <1>4 DEF Commit, database, TypeOK, Saved
  <2>2. CASE dry
    BY <1>0, <1>4, <2>1, <2>2 DEF Commit, database, publisher
  <2>3. CASE ~dry
    <3>1. UNCHANGED post /\ saved.completed <= job.through
      BY <1>4 DEF Commit, publisher, Matching
    <3>2. ASSUME NEW p \in Posts, post[p] # None, post[p].modified < saved.completed
          PROVE  Current(p)'
      <4>1. post[p].modified < job.through
        BY <3>1, <3>2, Stamps
      <4> QED
        BY <1>4, <2>3, <3>2, <4>1, CommitKeeps
    <3> QED
      BY <2>1, <3>1, <3>2
  <2> QED
    BY <2>2, <2>3
<1>5. CASE Finish
  <2>1. UNCHANGED <<post, row>> /\ pc = "content" /\ job.ids = {}
    BY <1>5 DEF Finish, publisher
  <2>2. CASE dry
    BY <1>0, <1>5, <2>1, <2>2 DEF Finish
  <2>3. CASE ~dry
    <3>1. saved'.completed = job.through
      BY <1>5, <2>3 DEF Finish
    <3>2. /\ saved.through = job.through /\ saved.left = {}
          /\ saved.through # Never
      BY <2>1, <2>3, Constants DEF Matching
    <3>3. \A p \in Posts : post[p] # None /\ post[p].modified < job.through => Current(p)
      BY <3>2 DEF CursorHonest
    <3> QED
      BY <2>1, <3>1, <3>3 DEF Current
  <2> QED
    BY <2>2, <2>3
<1>6. CASE Clear
  <2>1. saved'.completed = Never /\ UNCHANGED post
    BY <1>6 DEF Clear, NothingSaved, publisher
  <2> QED
    BY <2>1, Stamps, Constants
<1>7. CASE \/ \E fl \in SUBSET {"full", "dry"} : Start(fl)
           \/ ListPage \/ FetchBatch \/ Pause \/ Fail
  BY <1>0, <1>7 DEF Start, Resume, Discover, ListPage, FetchBatch, Pause, Fail, publisher,
                    database
<1>8. CASE UNCHANGED vars
  BY <1>0, <1>8 DEF vars, publisher, database
<1> QED
  BY <1>1, <1>2, <1>3, <1>4, <1>5, <1>6, <1>7, <1>8 DEF Next, Work

\* No step takes the saved cursor past a post that is not in the feed.
LEMMA StepCursor ==
  ASSUME TypeOK, Clocks, Matching, Fetched, Listed, NothingSkipped, CursorHonest,
         [Next]_vars
  PROVE  CursorHonest'
<1> USE DEF CursorHonest
<1>0. ASSUME UNCHANGED <<post, row, saved>> PROVE CursorHonest'
  BY <1>0 DEF Current
<1>1. CASE Tick
  BY <1>0, <1>1 DEF Tick, publisher, database
<1>2. CASE Publish
  <2>1. UNCHANGED saved
    BY <1>2 DEF Publish, Save, Remove, database
  <2>2. saved.through \in Int /\ saved.through <= now - Lag
    BY Stamps DEF Clocks
  <2> QED
    BY <1>2, <2>1, <2>2, PublishKeeps
<1>3. CASE Freeze
  <2>1. UNCHANGED <<post, row>> /\ pc = "discover" /\ job.page > job.pages
    BY <1>3 DEF Freeze, publisher
  <2>2. CASE dry \/ Cardinality(job.ids) # job.total
    BY <1>0, <1>3, <2>1, <2>2 DEF Freeze
  <2>3. CASE ~dry /\ Cardinality(job.ids) = job.total
    <3>1. saved'.through = job.through /\ saved'.left = job.ids
      BY <1>3, <2>3 DEF Freeze, TypeOK, Saved
    <3>2. \A p \in Posts : post[p] # None /\ post[p].modified < job.through
                            => p \in job.ids \/ Current(p)
      BY <2>1, <2>3, FrozenWhole, BeforeWindow
    <3> QED
      BY <2>1, <3>1, <3>2 DEF Current
  <2> QED
    BY <2>2, <2>3
<1>4. CASE Commit
  <2>1. CASE dry
    BY <1>0, <1>4, <2>1 DEF Commit, database, publisher
  <2>2. CASE ~dry
    <3>1. UNCHANGED post /\ saved.through = job.through /\ saved.left = job.ids
      BY <1>4, <2>2 DEF Commit, publisher, Matching
    <3>2. saved'.through = saved.through /\ saved'.left = job.ids \ job.batch
      BY <1>4, <2>2 DEF Commit, TypeOK, Saved
    <3>3. ASSUME NEW p \in Posts, saved.through # Never,
                 post[p] # None, post[p].modified < job.through
          PROVE  p \in job.ids \ job.batch \/ Current(p)'
      BY <1>4, <2>2, <3>1, <3>3, CommitKeeps
    <3> QED
      BY <3>1, <3>2, <3>3
  <2> QED
    BY <2>1, <2>2
<1>5. CASE Finish
  BY <1>0, <1>5 DEF Finish, publisher
<1>6. CASE Clear
  BY <1>6 DEF Clear, NothingSaved
<1>7. CASE \/ \E fl \in SUBSET {"full", "dry"} : Start(fl)
           \/ ListPage \/ FetchBatch \/ Pause \/ Fail
  BY <1>0, <1>7 DEF Start, Resume, Discover, ListPage, FetchBatch, Pause, Fail, publisher,
                    database
<1>8. CASE UNCHANGED vars
  BY <1>0, <1>8 DEF vars, publisher, database
<1> QED
  BY <1>1, <1>2, <1>3, <1>4, <1>5, <1>6, <1>7, <1>8 DEF Next, Work

-----------------------------------------------------------------------------
(* The theorems. *)

\* The invariant holds in every reachable state.
LEMMA Invariant == Spec => []IInv
<1>1. IInv /\ [Next]_vars => IInv'
  BY StepTypes, StepClocks, StepMatching, StepFetched, StepListed, StepSkipped, StepCursor
     DEF IInv
<1> QED
  BY InitHolds, <1>1, PTL DEF Spec

\* The state of the synchronization keeps its types, whatever the archive, the
\* window and the order of the runs.
THEOREM SyncTypes == Spec => []TypeOK
BY Invariant, PTL DEF IInv

\* For every archive and every page and batch size, a watermark never passes a
\* post that the feed does not hold as the publisher serves it.
THEOREM WatermarkHonest == Spec => []NothingSkipped
BY Invariant, PTL DEF IInv

\* For every archive and every page and batch size, the cursor that a run saves
\* never passes a post of the frozen window that the feed does not hold.
THEOREM SavedCursorHonest == Spec => []CursorHonest
BY Invariant, PTL DEF IInv

\* No step, of any run or of the publisher, moves the end of a pending window or
\* puts an id back into it.
LEMMA StepFrozen ==
  ASSUME TypeOK, Matching, [Next]_vars, saved.through # Never, saved'.through # Never
  PROVE  saved'.through = saved.through /\ saved'.left \subseteq saved.left
<1>1. CASE Freeze
  <2>1. saved.through = Never
    BY <1>1 DEF Freeze, Matching
  <2> QED
    BY <2>1
<1>2. CASE Commit
  <2>1. CASE dry
    BY <1>2, <2>1 DEF Commit, database
  <2>2. CASE ~dry
    BY <1>2, <2>2 DEF Commit, Matching, TypeOK, Saved
  <2> QED
    BY <2>1, <2>2
<1>3. CASE Finish
  BY <1>3 DEF Finish
<1>4. CASE Clear
  BY <1>4 DEF Clear, NothingSaved
<1>5. CASE \/ Tick \/ Publish \/ \E fl \in SUBSET {"full", "dry"} : Start(fl)
           \/ ListPage \/ FetchBatch \/ Pause \/ Fail
  BY <1>5 DEF Tick, Publish, Save, Remove, Start, Resume, Discover, ListPage, FetchBatch,
              Pause, Fail, database
<1>6. CASE UNCHANGED vars
  BY <1>6 DEF vars, database
<1> QED
  BY <1>1, <1>2, <1>3, <1>4, <1>5, <1>6 DEF Next, Work

\* A pending inventory is only ever worked off: no run resumes a moving window.
THEOREM InventoryFrozen == Spec => QueueIsFrozen
<1>1. IInv /\ [Next]_vars =>
        [saved.through # Never /\ saved'.through # Never =>
           saved'.through = saved.through /\ saved'.left \subseteq saved.left]_vars
  BY StepFrozen DEF IInv
<1> QED
  BY Invariant, <1>1, PTL DEF Spec, QueueIsFrozen
=============================================================================
