----------------------------- MODULE FeedProofs -----------------------------
(***************************************************************************)
(* Proofs, for every value of the constants, that the specification Spec   *)
(* of module Feed keeps the invariants of FeedProps and implements         *)
(* RecordPromise.                                                          *)
(*                                                                         *)
(* Held says what a visit holds at each of its steps; Fresh relates the    *)
(* validators to the page versions they stand for.  Neither is interesting *)
(* by itself; they are what makes the invariants of FeedProps inductive.   *)
(***************************************************************************)
EXTENDS FeedProps, TLAPS

\* The two variables of the document store are unfolded everywhere.
USE DEF archive

\* What the visit holds at each step; no dry run, and an object is torn only while
\* it is being written, or because a kill cut its write.
Held ==
  /\ "dry" \notin flags
  /\ \A o \in stored : o[2] # "whole" =>
       InPlace /\ (o[1] \in cut \/ (pc = "write" /\ o[1] = visit.body))
  /\ pc = "store" => visit.body \in Page
  /\ pc = "write" => InPlace /\ visit.body \in Page
  /\ pc = "apply" =>
       /\ visit.body \in Listing
       /\ visit.body \in Archived
       /\ visit.outcome = "parsed"
       /\ \A i \in visit.left : visit.body[i] # None
  /\ pc = "close" => visit.outcome \in {"failed", "notModified"}

\* The initial state is well typed and holds no visit.
LEMMA InitSound == Init => TypeOK /\ Held
BY FeedConstants
   DEF Init, TypeOK, Held, NoVisit, Visit, Keys, Page, Listing

\* A row, or no row, becomes a row when a source reports a content.
LEMMA UpsertedIsRecord ==
  ASSUME NEW r \in Record \union {None}, NEW s \in Sources, NEW c \in Contents
  PROVE  Upserted(r, s, c) \in Record
BY FeedConstants DEF Upserted, Duplicate, Unchanged, Record

\* The key a source writes an item under belongs to its town.
LEMMA KeyOfIsKey ==
  ASSUME NEW s \in Sources, NEW i \in Items
  PROVE  KeyOf(s, i) \in Keys /\ KeyOf(s, i)[1] = TownOf[s] /\ KeyOf(s, i)[2] = i
BY FeedConstants DEF KeyOf, Keys

\* A put leaves its body archived, and nothing that was archived less so.
LEMMA PutArchives ==
  ASSUME TypeOK, Held,
         \/ StoreBody
         \/ FinishPut
  PROVE  /\ stored' \subseteq Page \X {"whole", "torn"}
         /\ visit.body \in Page /\ visit.body \in Archived'
         /\ \A o \in stored' : o[2] # "whole" => InPlace /\ o[1] \in cut
         /\ Archived \subseteq Archived'
         /\ cut' = cut
<1> USE FeedConstants
<1>1. CASE StoreBody
  <2>1. /\ pc = "store" /\ visit.body \in Page /\ cut' = cut
        /\ stored' = Put(visit.body)
    BY <1>1 DEF StoreBody, Held
  <2>2. \A o \in stored : o[2] # "whole" => InPlace /\ o[1] \in cut
    BY <2>1 DEF Held
  <2>3. CASE Has(visit.body)
    <3>1. stored' = stored
      BY <2>1, <2>3 DEF Put
    <3>2. PICK o \in stored : o[1] = visit.body
      BY <2>3 DEF Has
    <3>3. visit.body \in Archived
      BY <2>1, <2>2, <3>2 DEF Archived
    <3> QED
      BY <2>1, <2>2, <3>1, <3>3 DEF Archived, TypeOK
  <2>4. CASE ~Has(visit.body)
    <3>1. stored' = stored \union {<<visit.body, "whole">>}
      BY <2>1, <2>4 DEF Put
    <3>2. /\ <<visit.body, "whole">> \in stored'
          /\ <<visit.body, "whole">>[1] = visit.body /\ <<visit.body, "whole">>[2] = "whole"
          /\ stored \subseteq stored'
      BY <3>1
    <3>3. visit.body \in Archived' /\ Archived \subseteq Archived'
      BY <2>1, <3>2 DEF Archived
    <3> QED
      BY <2>1, <2>2, <3>1, <3>3 DEF TypeOK
  <2> QED
    BY <2>3, <2>4
<1>2. CASE FinishPut
  <2>1. /\ pc = "write" /\ InPlace /\ visit.body \in Page /\ cut' = cut
        /\ stored' = (stored \ {<<visit.body, "torn">>}) \union {<<visit.body, "whole">>}
    BY <1>2 DEF FinishPut, Held
  <2>2. stored' \subseteq Page \X {"whole", "torn"}
    BY <2>1 DEF TypeOK
  <2>3. /\ <<visit.body, "whole">> \in stored'
        /\ <<visit.body, "whole">>[1] = visit.body /\ <<visit.body, "whole">>[2] = "whole"
    BY <2>1
  <2>4. visit.body \in Archived'
    BY <2>1, <2>3 DEF Archived
  <2>5. ASSUME NEW o \in stored', o[2] # "whole"
        PROVE  InPlace /\ o[1] \in cut
    <3>1. o \in stored /\ o # <<visit.body, "torn">>
      BY <2>1, <2>5
    <3>2. o = <<o[1], o[2]>> /\ o[2] = "torn"
      BY <2>5, <3>1 DEF TypeOK
    <3> QED
      BY <2>1, <2>5, <3>1, <3>2 DEF Held
  <2>6. ASSUME NEW b \in Archived
        PROVE  b \in Archived'
    <3>1. CASE b = visit.body
      BY <2>4, <3>1
    <3>2. CASE b # visit.body
      <4>p. b \in Page
        BY <2>6 DEF Archived
      <4>1. PICK o \in stored : o[1] = b /\ (o[2] = "whole" \/ (InPlace /\ b \in cut))
        BY <2>6 DEF Archived
      <4>2. o \in stored'
        BY <2>1, <3>2, <4>1
      <4>3. b \in Page /\ (o[2] = "whole" \/ (InPlace /\ b \in cut')) /\ o[1] = b
        BY <2>1, <4>p, <4>1
      <4> QED
        BY <4>2, <4>3 DEF Archived
    <3> QED
      BY <3>1, <3>2
  <2> QED
    BY <2>1, <2>2, <2>4, <2>5, <2>6
<1> QED
  BY <1>1, <1>2

\* Every step keeps the types and what the visit holds; one case per action.
LEMMA StepSound == TypeOK /\ Held /\ [Next]_vars => TypeOK' /\ Held'
<1> SUFFICES ASSUME TypeOK, Held, [Next]_vars
             PROVE  TypeOK' /\ Held'
    OBVIOUS
<1> USE FeedConstants
<1>1. ASSUME NEW s \in Sources, NEW i \in Items, NEW c \in Contents \union {None},
             Edit(s, i, c)
      PROVE  TypeOK' /\ Held'
  <2>1. listing' \in [Sources -> Listing]
    BY <1>1 DEF Edit, TypeOK, Listing
  <2>2. version' \in [Sources -> Nat \ {0}]
    BY <1>1 DEF Edit, TypeOK
  <2> QED
    BY <1>1, <2>1, <2>2 DEF Edit, TypeOK, Held, Archived, sourceRow, feed, run, budget
<1>2. ASSUME NEW s \in Sources, Obstruct(s)
      PROVE  TypeOK' /\ Held'
  BY <1>2 DEF Obstruct, TypeOK, Held, Archived, sourceRow, feed, run, budget
<1>3. ASSUME NEW s \in Sources, BeginVisit(s)
      PROVE  TypeOK' /\ Held'
  <2>1. visit' \in Visit /\ visit'.src = s
    BY <1>3 DEF BeginVisit, TypeOK, NoVisit, Visit
  <2> QED
    BY <1>3, <2>1 DEF BeginVisit, TypeOK, Held, publisher, sourceRow, feed, budget
<1>4. CASE AnswerNotModified
  <2>1. visit' \in Visit /\ visit'.src = visit.src /\ visit'.outcome = "notModified"
    BY <1>4 DEF AnswerNotModified, FetchEnds, Fetched, TypeOK, Visit
  <2> QED
    BY <1>4, <2>1
       DEF AnswerNotModified, FetchEnds, TypeOK, Held, publisher, sourceRow, feed, run
<1>5. CASE AnswerBody
  <2>1. Served(visit.src) \in Page
    BY <1>5 DEF AnswerBody, FetchEnds, Served, TypeOK, Page
  <2>2. visit \in Visit /\ version[visit.src] \in Nat
    BY <1>5 DEF AnswerBody, FetchEnds, TypeOK
  <2>3. visit' \in Visit /\ visit'.src = visit.src /\ visit'.body = Served(visit.src)
    BY <1>5, <2>1, <2>2 DEF AnswerBody, Fetched, Visit
  <2> QED
    BY <1>5, <2>1, <2>3 DEF AnswerBody, FetchEnds, TypeOK, Held, publisher, sourceRow, feed, run
<1>6. CASE AnswerRefused
  <2>1. visit' \in Visit /\ visit'.src = visit.src /\ visit'.outcome = "failed"
    BY <1>6 DEF AnswerRefused, FetchEnds, Fetched, TypeOK, Visit
  <2> QED
    BY <1>6, <2>1 DEF AnswerRefused, FetchEnds, TypeOK, Held, publisher, sourceRow, feed, run
<1>7. CASE AnswerRetryable
  <2> visit \in Visit
    BY DEF TypeOK
  <2>1. CASE FetchEnds("fetch") /\ visit' = [visit EXCEPT !.tries = @ + 1]
    <3>1. visit' \in Visit /\ visit'.src = visit.src
      BY <2>1 DEF Visit
    <3> QED
      BY <1>7, <2>1, <3>1
         DEF AnswerRetryable, FetchEnds, TypeOK, Held, publisher, sourceRow, feed, run
  <2>2. CASE FetchEnds("close") /\ visit' = [Fetched EXCEPT !.outcome = "failed"]
    <3>1. visit' \in Visit /\ visit'.src = visit.src /\ visit'.outcome = "failed"
      BY <2>2 DEF Fetched, Visit
    <3> QED
      BY <1>7, <2>2, <3>1
         DEF AnswerRetryable, FetchEnds, TypeOK, Held, publisher, sourceRow, feed, run
  <2> QED
    BY <1>7, <2>1, <2>2 DEF AnswerRetryable
<1>8. ASSUME StoreBody \/ FinishPut
      PROVE  TypeOK' /\ Held'
  <2>1. stored' \subseteq Page \X {"whole", "torn"} /\ cut' = cut
    BY <1>8, PutArchives
  <2>2. visit.body \in Archived' /\ \A o \in stored' : o[2] # "whole" => InPlace /\ o[1] \in cut'
    BY <1>8, PutArchives
  <2>3. visit \in Visit /\ visit.body \in Page /\ visit.src \in Sources
    BY <1>8, PutArchives DEF StoreBody, FinishPut, TypeOK
  <2>p. /\ Parse
        /\ UNCHANGED <<publisher, cut, sourceRow, feed, run, budget>>
    BY <1>8 DEF StoreBody, FinishPut
  <2>4. CASE visit.body = Unparseable
    <3>1. pc' = "close" /\ visit' = [visit EXCEPT !.outcome = "failed"]
      BY <2>p, <2>4 DEF Parse
    <3>2. visit' \in Visit /\ visit'.src = visit.src /\ visit'.outcome = "failed"
      BY <2>3, <3>1 DEF Visit
    <3> QED
      BY <2>p, <2>1, <2>2, <2>3, <3>1, <3>2
         DEF TypeOK, Held, publisher, sourceRow, feed, run, budget
  <2>5. CASE visit.body # Unparseable
    <3> DEFINE listed == {i \in Items : visit.body[i] # None}
    <3>1. pc' = "apply" /\ visit' = [visit EXCEPT !.left = listed, !.outcome = "parsed"]
      BY <2>p, <2>5 DEF Parse
    <3>2. listed \in SUBSET Items
      OBVIOUS
    <3> HIDE DEF listed
    <3>3. /\ visit' \in Visit /\ visit'.src = visit.src /\ visit'.body = visit.body
          /\ visit'.outcome = "parsed" /\ visit'.left = listed
      BY <2>3, <3>1, <3>2 DEF Visit
    <3>4. \A i \in visit'.left : visit'.body[i] # None
      BY <3>3 DEF listed
    <3>5. visit'.body \in Listing /\ visit'.body \in Archived'
      BY <2>2, <2>3, <2>5, <3>3 DEF Page, Archived
    <3> QED
      BY <2>p, <2>1, <2>2, <2>3, <3>1, <3>3, <3>4, <3>5
         DEF TypeOK, Held, publisher, sourceRow, feed, run, budget
  <2> QED
    BY <2>4, <2>5
<1>81. CASE BeginPut
  <2>1. /\ pc = "store" /\ pc' = "write" /\ InPlace /\ visit.body \in Page
        /\ stored' = stored \union {<<visit.body, "torn">>}
        /\ UNCHANGED <<publisher, cut, sourceRow, feed, run, visit, budget>>
    BY <1>81 DEF BeginPut, Held
  <2>2. stored' \subseteq Page \X {"whole", "torn"}
    BY <2>1 DEF TypeOK
  <2> QED
    BY <2>1, <2>2 DEF TypeOK, Held, publisher, sourceRow, feed, run, budget
<1>9. ASSUME NEW i \in Items, ApplyItem(i)
      PROVE  TypeOK' /\ Held'
  <2> DEFINE k == KeyOf(visit.src, i)
  <2>1. visit.src \in Sources /\ visit.body[i] \in Contents
    BY <1>9 DEF ApplyItem, TypeOK, Held, Listing
  <2>2. k \in Keys
    BY <2>1, KeyOfIsKey
  <2>3. record[k] \in Record \union {None}
    BY <2>2 DEF TypeOK
  <2>4. Upserted(record[k], visit.src, visit.body[i]) \in Record
    BY <2>1, <2>3, UpsertedIsRecord
  <2>5. /\ record' = [record EXCEPT ![k] = Upserted(@, visit.src, visit.body[i])]
        /\ reported' = [reported EXCEPT ![k] = @ \union {visit.src}]
    BY <1>9 DEF ApplyItem, Held
  <2>6. record' \in [Keys -> Record \union {None}]
    BY <2>4, <2>5 DEF TypeOK
  <2>7. reported' \in [Keys -> SUBSET Sources]
    BY <2>1, <2>2, <2>5 DEF TypeOK
  <2>8. /\ visit' \in Visit /\ visit'.src = visit.src /\ visit'.body = visit.body
        /\ visit'.outcome = visit.outcome /\ visit'.left \subseteq visit.left
    BY <1>9 DEF ApplyItem, TypeOK, Visit
  <2>9. visit'.body \in Archived'
    BY <1>9, <2>8 DEF ApplyItem, Held, Archived
  <2> QED
    BY <1>9, <2>6, <2>7, <2>8, <2>9
       DEF ApplyItem, TypeOK, Held, publisher, sourceRow, run, budget
<1>10. CASE WriteFails
  <2>1. visit' \in Visit /\ visit'.src = visit.src /\ visit'.outcome = "failed"
    BY <1>10 DEF WriteFails, TypeOK, Visit
  <2> QED
    BY <1>10, <2>1 DEF WriteFails, TypeOK, Held, publisher, sourceRow, feed, run
<1>11. CASE CloseVisit
  <2>1. NextValidator(validator[visit.src]) \in Nat /\ NoVisit \in Visit
    BY <1>11 DEF CloseVisit, NextValidator, TypeOK, Visit, NoVisit
  <2> QED
    BY <1>11, <2>1
       DEF CloseVisit, TypeOK, Held, publisher, feed, run, budget
<1>12. CASE EndRun
  BY <1>12 DEF EndRun, TypeOK, Held, publisher, sourceRow, feed, budget
<1>13. CASE Crash
  <2>1. NoVisit \in Visit
    BY DEF Visit, NoVisit
  <2>2. cut' \subseteq Page
    BY <1>13 DEF Crash, TypeOK, Held
  <2>3. \A o \in stored' : o[2] # "whole" => InPlace /\ o[1] \in cut'
    BY <1>13 DEF Crash, Held
  <2> QED
    BY <1>13, <2>1, <2>2, <2>3 DEF Crash, TypeOK, Held, publisher, sourceRow, feed
<1>14. ASSUME NEW S \in SUBSET Sources \ {{}}, NEW fl \in SUBSET {"force"}, StartRun(S, fl)
       PROVE  TypeOK' /\ Held'
  BY <1>14 DEF StartRun, TypeOK, Held, publisher, sourceRow, feed, budget
<1>15. ASSUME NEW t \in Towns, ClearRecords(t)
       PROVE  TypeOK' /\ Held'
  <2>1. record' \in [Keys -> Record \union {None}]
    BY <1>15 DEF ClearRecords, Clear, Wiped, TypeOK
  <2>2. reported' \in [Keys -> SUBSET Sources]
    BY <1>15 DEF ClearRecords, Clear, Wiped, TypeOK
  <2> QED
    BY <1>15, <2>1, <2>2 DEF ClearRecords, Clear, TypeOK, Held, publisher, run
<1>16. CASE UNCHANGED vars
  BY <1>16 DEF vars, TypeOK, Held, Archived, publisher, sourceRow, feed, run, budget
<1> QED
  BY <1>1, <1>2, <1>3, <1>4, <1>5, <1>6, <1>7, <1>8, <1>81, <1>9, <1>10, <1>11, <1>12,
     <1>13, <1>14, <1>15, <1>16
     DEF Next, Publish, Work, Fail, Operate

\* Types and the visit's holdings, together because neither is inductive alone:
\* an applied content is a content only because the body was read as a listing.
THEOREM Soundness == Spec => [](TypeOK /\ Held)
BY InitSound, StepSound, PTL DEF Spec

\* Every variable keeps its type: in particular an item written to the events
\* has a content, and a visit past its beginning has a source.
THEOREM TypeCorrect == Spec => []TypeOK
BY Soundness, PTL

-----------------------------------------------------------------------------
(* The rows. *)

\* What one step does to the rows: nothing, one item of the body being applied,
\* or one town wiped.
LEMMA RowSteps ==
  ASSUME TypeOK, Held, [Next]_vars
  PROVE  \/ UNCHANGED <<record, reported>>
         \/ \E i \in Items : pc = "apply" /\ i \in visit.left /\ ApplyItem(i)
         \/ \E t \in Towns : ClearRecords(t)
BY DEF Next, Publish, Work, Fail, Operate, Edit, Obstruct, BeginVisit,
       AnswerNotModified, AnswerBody, AnswerRefused, AnswerRetryable, FetchEnds,
       BeginPut, FinishPut, StoreBody, ApplyItem, WriteFails, CloseVisit, EndRun, Crash, StartRun, vars, feed

\* The row of the item being applied, before and after.
LEMMA AppliedRow ==
  ASSUME TypeOK, Held, NEW i \in Items, ApplyItem(i), NEW k, k = KeyOf(visit.src, i)
  PROVE  /\ k \in Keys
         /\ visit.src \in Sources
         /\ visit.body[i] \in Contents
         /\ record' = [record EXCEPT ![k] = Upserted(record[k], visit.src, visit.body[i])]
         /\ reported' = [reported EXCEPT ![k] = reported[k] \union {visit.src}]
         /\ Upserted(record[k], visit.src, visit.body[i]) \in Record
<1>1. visit.src \in Sources /\ visit.body[i] \in Contents
  BY DEF ApplyItem, TypeOK, Held, Listing
<1>2. k \in Keys
  BY <1>1, KeyOfIsKey
<1>3. Upserted(record[k], visit.src, visit.body[i]) \in Record
  BY <1>1, <1>2, UpsertedIsRecord DEF TypeOK
<1> QED
  BY <1>1, <1>2, <1>3 DEF ApplyItem, Held

\* Only an applied item can change an owner, and it hands the row to the visiting
\* source only when that source is the owner or outranks it.
LEMMA StepOwner ==
  ASSUME TypeOK, Held, OwnerIsStrongest, [Next]_vars
  PROVE  OwnerIsStrongest'
<1> USE FeedConstants
<1>1. CASE UNCHANGED <<record, reported>>
  BY <1>1 DEF OwnerIsStrongest
<1>2. ASSUME NEW i \in Items, ApplyItem(i)
      PROVE  OwnerIsStrongest'
  <2> DEFINE k == KeyOf(visit.src, i)
             r == record[k]
             q == Upserted(r, visit.src, visit.body[i])
  <2>1. /\ k \in Keys /\ visit.src \in Sources /\ q \in Record
        /\ record' = [record EXCEPT ![k] = q]
        /\ reported' = [reported EXCEPT ![k] = reported[k] \union {visit.src}]
    BY <1>2, AppliedRow
  <2>2. r \in Record \union {None} /\ reported[k] \subseteq Sources
    BY <2>1 DEF TypeOK
  <2>3. /\ r = None <=> reported[k] = {}
        /\ r # None => /\ r.owner \in reported[k]
                       /\ \A s \in reported[k] : Prec[r.owner] <= Prec[s]
    BY <2>1 DEF OwnerIsStrongest
  <2>4. \/ r = None /\ q.owner = visit.src
        \/ r # None /\ q = r /\ (r.owner = visit.src \/ Prec[r.owner] <= Prec[visit.src])
        \/ r # None /\ q.owner = visit.src /\ (r.owner = visit.src \/ Prec[visit.src] < Prec[r.owner])
    BY <2>1, <2>2 DEF Upserted, Duplicate, Unchanged, Record
  <2> HIDE DEF k, r, q
  <2>5. \A s \in reported[k] \union {visit.src} : Prec[q.owner] <= Prec[s]
    BY <2>1, <2>2, <2>3, <2>4 DEF Record
  <2>6. q # None /\ q.owner \in reported[k] \union {visit.src}
    BY <2>1, <2>3, <2>4
  <2>7. ASSUME NEW l \in Keys
        PROVE  /\ record'[l] = None <=> reported'[l] = {}
               /\ record'[l] # None =>
                    /\ record'[l].owner \in reported'[l]
                    /\ \A s \in reported'[l] : Prec[record'[l].owner] <= Prec[s]
    <3>1. CASE l = k
      BY <2>1, <2>5, <2>6, <3>1 DEF TypeOK
    <3>2. CASE l # k
      <4>1. record'[l] = record[l] /\ reported'[l] = reported[l]
        BY <2>1, <3>2 DEF TypeOK
      <4> QED
        BY <4>1 DEF OwnerIsStrongest
    <3> QED
      BY <3>1, <3>2
  <2> QED
    BY <2>7 DEF OwnerIsStrongest
<1>3. ASSUME NEW t \in Towns, ClearRecords(t)
      PROVE  OwnerIsStrongest'
  BY <1>3 DEF ClearRecords, Clear, Wiped, OwnerIsStrongest
<1> QED
  BY <1>1, <1>2, <1>3, RowSteps

\* However visits interleave with edits, failures, crashes and clears, no row is
\* owned by a source weaker than one that has reported it.
THEOREM StrongestOwner == Spec => []OwnerIsStrongest
<1>1. Init => OwnerIsStrongest
  BY DEF Init, OwnerIsStrongest
<1> QED
  BY <1>1, Soundness, StepOwner, PTL DEF Spec

\* What is archived stays archived, and an item is applied from an archived body.
LEMMA StepArchived ==
  ASSUME TypeOK, Held, RecordsAreArchived, [Next]_vars
  PROVE  RecordsAreArchived'
<1> USE FeedConstants
<1>1. ASSUME NEW b \in Archived
      PROVE  b \in Archived'
  <2>1. CASE StoreBody \/ FinishPut
    BY <1>1, <2>1, PutArchives
  <2>2. CASE stored \subseteq stored' /\ cut \subseteq cut'
    BY <1>1, <2>2 DEF Archived
  <2>3. CASE BeginPut \/ Crash
    BY <2>2, <2>3 DEF BeginPut, Crash
  <2> QED
    BY <2>1, <2>2, <2>3
       DEF Next, Publish, Work, Fail, Operate, Edit, Obstruct, BeginVisit,
           AnswerNotModified, AnswerBody, AnswerRefused, AnswerRetryable, FetchEnds,
           ApplyItem, WriteFails, CloseVisit, EndRun, StartRun, ClearRecords, Clear, vars
<1>2. CASE UNCHANGED <<record, reported>>
  BY <1>1, <1>2 DEF RecordsAreArchived, Page
<1>3. ASSUME NEW i \in Items, ApplyItem(i)
      PROVE  RecordsAreArchived'
  <2> DEFINE k == KeyOf(visit.src, i)
             q == Upserted(record[k], visit.src, visit.body[i])
  <2>1. /\ k \in Keys /\ visit.src \in Sources /\ visit.body[i] \in Contents
        /\ q \in Record
        /\ record' = [record EXCEPT ![k] = q]
    BY <1>3, AppliedRow
  <2>2. k[2] = i
    BY <2>1, KeyOfIsKey
  <2>3. (record[k] # None /\ q = record[k]) \/ q.content = visit.body[i]
    BY <2>1 DEF Upserted, Duplicate, Unchanged
  <2>4. visit.body \in Listing /\ visit.body \in Archived
    BY <1>3 DEF ApplyItem, Held
  <2> HIDE DEF k, q
  <2>5. ASSUME NEW l \in Keys, record'[l] # None
        PROVE  \E b \in Listing : b[l[2]] = record'[l].content /\ b \in Archived'
    <3>1. CASE l = k /\ q.content = visit.body[i]
      <4>1. record'[l].content = visit.body[l[2]]
        BY <2>1, <2>2, <3>1 DEF TypeOK
      <4> QED
        BY <1>1, <2>4, <4>1 DEF Page
    <3>2. CASE record'[l] = record[l]
      BY <1>1, <2>5, <3>2 DEF RecordsAreArchived, Page
    <3> QED
      BY <2>1, <2>3, <3>1, <3>2 DEF TypeOK
  <2> QED
    BY <2>5 DEF RecordsAreArchived
<1>4. ASSUME NEW t \in Towns, ClearRecords(t)
      PROVE  RecordsAreArchived'
  BY <1>1, <1>4 DEF ClearRecords, Clear, Wiped, RecordsAreArchived, Page
<1> QED
  BY <1>2, <1>3, <1>4, RowSteps

\* Every row can be read back from an archived body: whole under a store that
\* writes whole objects, and under one that writes in place whole but for the
\* bodies whose only write a kill cut short.
THEOREM Provenance == Spec => []RecordsAreArchived
<1>1. Init => RecordsAreArchived
  BY DEF Init, RecordsAreArchived
<1> QED
  BY <1>1, Soundness, StepArchived, PTL DEF Spec

-----------------------------------------------------------------------------
(* The promise. *)

\* The step refinement: an applied item is Appear, Amend, TakeOver or a stutter,
\* a clear is Wipe, and every other action stutters.
LEMMA StepPromise ==
  ASSUME TypeOK, Held, [Next]_vars
  PROVE  [Promise!Next]_record
<1> USE FeedConstants
<1>1. CASE UNCHANGED <<record, reported>>
  BY <1>1
<1>2. ASSUME NEW i \in Items, ApplyItem(i)
      PROVE  [Promise!Next]_record
  <2> DEFINE s == visit.src
             c == visit.body[i]
             k == <<TownOf[s], i>>
             r == record[k]
             q == Upserted(r, s, c)
  <2>1. /\ k \in Keys /\ s \in Sources /\ c \in Contents
        /\ record' = [record EXCEPT ![k] = q]
    BY <1>2, AppliedRow DEF KeyOf
  <2>2. r \in Record \union {None}
    BY <2>1 DEF TypeOK
  <2>3. \/ record' = record
        \/ r = None /\ q = [owner |-> s, content |-> c, revision |-> 1]
        \/ /\ r # None /\ ~Duplicate(r, s) /\ ~Unchanged(r, s, c)
           /\ q = [owner |-> s, content |-> c, revision |-> r.revision + 1]
    <3>1. q = r => record' = record
      BY <2>1 DEF TypeOK
    <3> QED
      BY <3>1 DEF Upserted
  <2>4. CASE r = None /\ q = [owner |-> s, content |-> c, revision |-> 1]
    <3>1. Promise!Appear(k, s, c)
      BY <2>1, <2>4 DEF Promise!Appear
    <3> QED
      BY <2>1, <3>1 DEF Promise!Next
  <2>5. CASE /\ r # None /\ ~Duplicate(r, s) /\ ~Unchanged(r, s, c)
             /\ q = [owner |-> s, content |-> c, revision |-> r.revision + 1]
    <3>1. CASE r.owner = s
      <4>1. Promise!Amend(k, s, c)
        BY <2>1, <2>5, <3>1 DEF Promise!Amend, Unchanged
      <4> QED
        BY <2>1, <4>1 DEF Promise!Next
    <3>2. CASE r.owner # s
      <4>1. Prec[s] < Prec[r.owner]
        BY <2>1, <2>2, <2>5, <3>2 DEF Duplicate, Record
      <4>2. Promise!TakeOver(k, s, c)
        BY <2>1, <2>5, <4>1 DEF Promise!TakeOver
      <4> QED
        BY <2>1, <4>2 DEF Promise!Next
    <3> QED
      BY <3>1, <3>2
  <2> QED
    BY <2>3, <2>4, <2>5
<1>3. ASSUME NEW t \in Towns, ClearRecords(t)
      PROVE  [Promise!Next]_record
  <2>1. Promise!Wipe(t)
    BY <1>3 DEF ClearRecords, Clear, Wiped, Promise!Wipe, Keys, Promise!Keys
  <2> QED
    BY <2>1 DEF Promise!Next
<1> QED
  BY <1>1, <1>2, <1>3, RowSteps

\* The machinery of visits implements RecordPromise: every step of it is one of
\* the promise's steps, or leaves the rows alone.
THEOREM Implements == Spec => ImplementsRecordPromise
<1>1. Init => Promise!Init
  BY DEF Init, Promise!Init, Keys, Promise!Keys
<1> QED
  BY <1>1, Soundness, StepPromise, PTL DEF Spec, ImplementsRecordPromise, Promise!Spec

-----------------------------------------------------------------------------
(* The validators. *)

\* Validators never run ahead of the page, a body that carries the current one is
\* the current page, and a 304 is only ever about the validator still stored.
Fresh ==
  /\ \A s \in Sources : validator[s] <= version[s]
  /\ \A s \in Sources \ Tagged : validator[s] = 0
  /\ pc = "fetch" /\ visit.cond # 0 => visit.cond = validator[visit.src]
  /\ pc = "close" /\ visit.outcome = "notModified" => visit.tag = validator[visit.src]
  /\ pc \in {"store", "write", "apply"} =>
       /\ visit.src \in Tagged => validator[visit.src] <= visit.tag
       /\ visit.src \notin Tagged => visit.tag = 0
       /\ visit.tag <= version[visit.src]
       /\ visit.tag = version[visit.src] => visit.body = Served(visit.src)

\* What the visit has applied so far needs no further step of this source.
AppliedSettled ==
  pc = "apply" =>
    \A i \in Items \ visit.left :
      visit.body[i] # None => Settled(visit.src, KeyOf(visit.src, i), visit.body[i])

\* A publisher that moves its own page gives it a validator nobody holds yet.
LEMMA PageMoves ==
  ASSUME TypeOK, Fresh, NEW s \in Sources,
         version' = [version EXCEPT ![s] = @ + 1],
         \A x \in Sources \ {s} : listing'[x] = listing[x] /\ (x \in obstructed' <=> x \in obstructed),
         UNCHANGED <<validator, pc, visit>>
  PROVE  Fresh'
<1>1. \A x \in Sources : version'[x] >= version[x] /\ version[x] \in Nat /\ validator[x] \in Nat
  BY DEF TypeOK
<1>2. version'[s] = version[s] + 1
  BY DEF TypeOK
<1>3. \A x \in Sources : validator'[x] <= version'[x]
  BY <1>1 DEF Fresh, TypeOK
<1>4. ASSUME pc \in {"store", "write", "apply"}
      PROVE  /\ visit.tag <= version'[visit.src]
             /\ visit.tag = version'[visit.src] => visit.body = Served(visit.src)'
  <2>1. visit.src \in Sources /\ visit.tag \in Nat /\ visit.tag <= version[visit.src]
    BY <1>4 DEF TypeOK, Visit, Fresh
  <2>2. CASE visit.src = s
    BY <1>1, <1>2, <2>1, <2>2
  <2>3. CASE visit.src # s
    BY <1>4, <2>1, <2>3 DEF Fresh, Served, TypeOK
  <2> QED
    BY <2>2, <2>3
<1> QED
  BY <1>3, <1>4 DEF Fresh

\* Only closing a visit and clearing a town move a validator, and only the
\* publisher moves a page.
LEMMA StepFresh ==
  ASSUME TypeOK, Held, Fresh, [Next]_vars
  PROVE  Fresh'
<1> USE FeedConstants
<1>0. visit \in Visit /\ version \in [Sources -> Nat \ {0}] /\ validator \in [Sources -> Nat]
  BY DEF TypeOK
<1>1. ASSUME NEW s \in Sources, NEW i \in Items, NEW c \in Contents \union {None},
             Edit(s, i, c)
      PROVE  Fresh'
  BY <1>1, PageMoves DEF Edit, TypeOK, sourceRow
<1>2. ASSUME NEW s \in Sources, Obstruct(s)
      PROVE  Fresh'
  BY <1>2, PageMoves DEF Obstruct, TypeOK, sourceRow
<1>3. ASSUME NEW s \in Sources, BeginVisit(s)
      PROVE  Fresh'
  BY <1>0, <1>3 DEF BeginVisit, Fresh, NoVisit, publisher, sourceRow
<1>4. CASE AnswerNotModified
  <2>1. /\ pc' = "close" /\ visit'.src = visit.src /\ visit'.tag = validator[visit.src]
        /\ UNCHANGED <<validator, version>>
    BY <1>0, <1>4
       DEF AnswerNotModified, FetchEnds, Fetched, Fresh, Visit, publisher, sourceRow
  <2> QED
    BY <2>1 DEF Fresh
<1>5. CASE AnswerBody
  <2> DEFINE g == IF visit.src \in Tagged THEN version[visit.src] ELSE 0
  <2>1. /\ pc' = "store" /\ visit'.src = visit.src /\ visit'.tag = g
        /\ visit'.body = Served(visit.src)
        /\ UNCHANGED <<validator, version, listing, obstructed>>
    BY <1>0, <1>5 DEF AnswerBody, FetchEnds, Fetched, Visit, publisher, sourceRow
  <2>2. visit.src \in Sources
    BY <1>5 DEF AnswerBody, FetchEnds, TypeOK
  <2> QED
    BY <1>0, <2>1, <2>2 DEF Fresh, Served
<1>6. CASE AnswerRefused
  <2>1. pc' = "close" /\ visit'.outcome = "failed" /\ UNCHANGED <<validator, version>>
    BY <1>0, <1>6 DEF AnswerRefused, FetchEnds, Fetched, Visit, publisher, sourceRow
  <2> QED
    BY <2>1 DEF Fresh
<1>7. CASE AnswerRetryable
  <2>1. CASE FetchEnds("fetch") /\ visit' = [visit EXCEPT !.tries = @ + 1]
    <3>1. visit'.cond = visit.cond /\ visit'.src = visit.src
      BY <1>0, <2>1 DEF Visit
    <3> QED
      BY <2>1, <3>1 DEF FetchEnds, Fresh, publisher, sourceRow
  <2>2. CASE FetchEnds("close") /\ visit' = [Fetched EXCEPT !.outcome = "failed"]
    <3>1. visit'.outcome = "failed"
      BY <1>0, <2>2 DEF Fetched, Visit
    <3> QED
      BY <2>2, <3>1 DEF FetchEnds, Fresh, publisher, sourceRow
  <2> QED
    BY <1>7, <2>1, <2>2 DEF AnswerRetryable
<1>8. ASSUME StoreBody \/ FinishPut
      PROVE  Fresh'
  <2>1. /\ visit'.src = visit.src /\ visit'.tag = visit.tag /\ visit'.body = visit.body
        /\ pc' = "apply" \/ (pc' = "close" /\ visit'.outcome = "failed")
        /\ pc \in {"store", "write"} /\ UNCHANGED <<validator, version, listing, obstructed>>
    <3>1. \/ pc' = "close" /\ visit' = [visit EXCEPT !.outcome = "failed"]
          \/ \E L : pc' = "apply" /\ visit' = [visit EXCEPT !.left = L, !.outcome = "parsed"]
      BY <1>8 DEF StoreBody, FinishPut, Parse
    <3> QED
      BY <1>0, <1>8, <3>1 DEF StoreBody, FinishPut, Visit, publisher, sourceRow
  <2> QED
    BY <2>1 DEF Fresh, Served
<1>81. CASE BeginPut
  BY <1>81 DEF BeginPut, Fresh, Served, publisher, sourceRow
<1>9. ASSUME NEW i \in Items, ApplyItem(i)
      PROVE  Fresh'
  <2>1. /\ visit'.src = visit.src /\ visit'.tag = visit.tag /\ visit'.body = visit.body
        /\ pc = "apply" /\ UNCHANGED <<pc, validator, version, listing, obstructed>>
    BY <1>0, <1>9 DEF ApplyItem, Visit, publisher, sourceRow
  <2> QED
    BY <2>1 DEF Fresh, Served
<1>10. CASE WriteFails
  <2>1. visit'.outcome = "failed"
    BY <1>0, <1>10 DEF WriteFails, Visit
  <2> QED
    BY <1>10, <2>1 DEF WriteFails, Fresh, publisher, sourceRow
<1>11. CASE CloseVisit
  <2> DEFINE s == visit.src
  <2>1. s \in Sources /\ visit.tag \in Nat
    BY <1>0, <1>11 DEF CloseVisit, TypeOK, Visit
  <2>2. validator' = [validator EXCEPT ![s] = NextValidator(validator[s])]
    BY <1>11 DEF CloseVisit
  <2>3. /\ NextValidator(validator[s]) \in {0, visit.tag, validator[s]}
        /\ visit.outcome # "failed" => visit.tag <= version[s]
        /\ visit.outcome # "failed" /\ s \notin Tagged => visit.tag = 0
    BY <1>0, <1>11, <2>1 DEF CloseVisit, NextValidator, Fresh, Held
  <2>4. NextValidator(validator[s]) \in Nat /\ NextValidator(validator[s]) <= version[s]
    BY <1>0, <2>1, <2>3 DEF NextValidator, Fresh
  <2>5. s \notin Tagged => NextValidator(validator[s]) = 0
    BY <2>1, <2>3 DEF NextValidator, Fresh
  <2>6. pc' = "next" /\ UNCHANGED version
    BY <1>11 DEF CloseVisit, publisher
  <2> HIDE DEF s
  <2>7. /\ \A x \in Sources : validator'[x] <= version[x]
        /\ \A x \in Sources \ Tagged : validator'[x] = 0
    BY <1>0, <2>1, <2>2, <2>4, <2>5 DEF Fresh
  <2> QED
    BY <2>6, <2>7 DEF Fresh
<1>12. CASE EndRun
  BY <1>12 DEF EndRun, Fresh, publisher, sourceRow
<1>13. CASE Crash
  BY <1>13 DEF Crash, Fresh, publisher, sourceRow
<1>14. ASSUME NEW S \in SUBSET Sources \ {{}}, NEW fl \in SUBSET {"force"}, StartRun(S, fl)
       PROVE  Fresh'
  BY <1>14 DEF StartRun, Fresh, publisher, sourceRow
<1>15. ASSUME NEW t \in Towns, ClearRecords(t)
       PROVE  Fresh'
  <2>1. \A x \in Sources : validator'[x] = 0 \/ validator'[x] = validator[x]
    BY <1>15 DEF ClearRecords, Clear
  <2>2. pc' = "idle" /\ UNCHANGED version
    BY <1>15 DEF ClearRecords, Clear, publisher
  <2> QED
    BY <1>0, <2>1, <2>2 DEF Fresh
<1>16. CASE UNCHANGED vars
  BY <1>16 DEF vars, Fresh, Served, publisher, sourceRow
<1> QED
  BY <1>1, <1>2, <1>3, <1>4, <1>5, <1>6, <1>7, <1>8, <1>81, <1>9, <1>10, <1>11, <1>12,
     <1>13, <1>14, <1>15, <1>16
     DEF Next, Publish, Work, Fail, Operate

\* Fresh is inductive given the types and the holdings.
LEMMA FreshAlways == Spec => []Fresh
<1>1. Init => Fresh
  BY FeedConstants DEF Init, Fresh
<1> QED
  BY <1>1, Soundness, StepFresh, PTL DEF Spec

\* A close records the failure and forgets the validator in one write.
LEMMA StepFailure ==
  ASSUME TypeOK, FailureForgetsValidator, [Next]_vars
  PROVE  FailureForgetsValidator'
<1>1. CASE UNCHANGED <<validator, lastError>>
  BY <1>1 DEF FailureForgetsValidator
<1>2. CASE CloseVisit
  <2>1. visit.outcome = "failed" => NextValidator(validator[visit.src]) = 0
    BY DEF NextValidator
  <2> QED
    BY <1>2, <2>1 DEF CloseVisit, FailureForgetsValidator, TypeOK
<1>3. ASSUME NEW t \in Towns, ClearRecords(t)
      PROVE  FailureForgetsValidator'
  BY <1>3 DEF ClearRecords, Clear, FailureForgetsValidator, TypeOK
<1> QED
  BY <1>1, <1>2, <1>3
     DEF Next, Publish, Work, Fail, Operate, Edit, Obstruct, BeginVisit,
         AnswerNotModified, AnswerBody, AnswerRefused, AnswerRetryable, FetchEnds,
         BeginPut, FinishPut, StoreBody, ApplyItem, WriteFails, EndRun, Crash, StartRun, vars, sourceRow

\* No failed visit leaves a validator behind it.
THEOREM FailureForgets == Spec => []FailureForgetsValidator
<1>1. Init => FailureForgetsValidator
  BY DEF Init, FailureForgetsValidator
<1> QED
  BY <1>1, Soundness, StepFailure, PTL DEF Spec

-----------------------------------------------------------------------------
(* Validators and rows. *)

\* Applying an item settles it, and unsettles nothing but an older content of the
\* same item of the same source.
LEMMA ApplySettles ==
  ASSUME TypeOK, Held, NEW i \in Items, ApplyItem(i),
         NEW x \in Sources, NEW l \in Keys, NEW c,
         \/ x = visit.src /\ l = KeyOf(visit.src, i) /\ c = visit.body[i]
         \/ /\ Settled(x, l, c)
            /\ x # visit.src \/ l # KeyOf(visit.src, i)
  PROVE  Settled(x, l, c)'
<1> USE FeedConstants
<1> DEFINE s == visit.src
           k == KeyOf(s, i)
           q == Upserted(record[k], s, visit.body[i])
<1>1. /\ k \in Keys /\ s \in Sources /\ visit.body[i] \in Contents /\ q \in Record
      /\ record' = [record EXCEPT ![k] = q]
  BY AppliedRow
<1>2. record[k] \in Record \union {None}
  BY <1>1 DEF TypeOK
<1>3. CASE l # k
  BY <1>1, <1>3 DEF Settled, TypeOK
<1>4. CASE l = k
  <2>1. record'[l] = q /\ q # None
    BY <1>1, <1>4 DEF TypeOK
  <2>2. CASE x = s
    <3>1. c = visit.body[i]
      BY <1>4, <2>2
    <3>2. \/ q.owner = s /\ q.content = visit.body[i]
          \/ q.owner # s /\ Prec[q.owner] <= Prec[s]
      BY <1>1, <1>2 DEF Upserted, Duplicate, Unchanged, Record
    <3> QED
      BY <2>1, <2>2, <3>1, <3>2 DEF Settled
  <2>3. CASE x # s
    <3>1. Settled(x, l, c)
      BY <2>3
    <3>2. \/ q = record[k]
          \/ q.owner = s /\ (record[k].owner = s \/ Prec[s] < Prec[record[k].owner])
      BY <1>1, <1>2, <1>4, <3>1 DEF Upserted, Duplicate, Record, Settled
    <3>3. \/ q.owner = x /\ q.content = c
          \/ q.owner # x /\ Prec[q.owner] <= Prec[x]
      BY <1>1, <1>2, <1>4, <2>3, <3>1, <3>2 DEF Settled, Record
    <3> QED
      BY <2>1, <3>3 DEF Settled
  <2> QED
    BY <2>2, <2>3
<1> QED
  BY <1>3, <1>4

\* Applying one item leaves the items applied before it settled.
LEMMA StepApplied ==
  ASSUME TypeOK, TypeOK', Held, AppliedSettled, [Next]_vars
  PROVE  AppliedSettled'
<1> USE FeedConstants
<1>0. visit \in Visit
  BY DEF TypeOK
<1>1. SUFFICES ASSUME pc' = "apply", NEW j \in Items, j \notin visit'.left, visit'.body[j] # None
               PROVE  Settled(visit.src, KeyOf(visit.src, j), visit.body[j])'
  BY DEF AppliedSettled
<1>2. CASE pc = "apply" /\ UNCHANGED <<record, visit>>
  BY <1>1, <1>2 DEF AppliedSettled, Settled, KeyOf
<1>3. CASE StoreBody \/ FinishPut
  <2>1. visit.body # Unparseable /\ Parse
    BY <1>1, <1>3 DEF StoreBody, FinishPut, Parse
  <2> DEFINE listed == {i \in Items : visit.body[i] # None}
  <2>2. visit' = [visit EXCEPT !.left = listed, !.outcome = "parsed"]
    BY <2>1 DEF Parse
  <2> HIDE DEF listed
  <2>3. visit'.left = listed /\ visit'.body = visit.body
    BY <1>0, <2>2 DEF Visit
  <2> QED
    BY <1>1, <2>3 DEF listed
<1>4. ASSUME NEW i \in Items, ApplyItem(i)
      PROVE  Settled(visit.src, KeyOf(visit.src, j), visit.body[j])'
  <2>1. /\ visit'.src = visit.src /\ visit'.body = visit.body
        /\ visit'.left = visit.left \ {i} /\ pc = "apply"
    BY <1>0, <1>4 DEF ApplyItem, Visit
  <2> DEFINE x == visit.src
             l == KeyOf(x, j)
             c == visit.body[j]
  <2>2. x \in Sources /\ l \in Keys
    BY <1>4, AppliedRow, KeyOfIsKey
  <2>3. j # i => Settled(x, l, c) /\ l # KeyOf(x, i)
    BY <1>1, <2>1, <2>2, KeyOfIsKey DEF AppliedSettled
  <2>4. ASSUME NEW y \in Sources, NEW m \in Keys, NEW d, y = x, m = l, d = c
        PROVE  Settled(y, m, d)'
    BY <1>4, <2>3, <2>4, ApplySettles
  <2> HIDE DEF l, c
  <2>5. PICK y \in Sources, m \in Keys, d \in {c} : y = x /\ m = l /\ d = c
    BY <2>2
  <2>6. Settled(y, m, d)'
    BY <2>4, <2>5
  <2> QED
    BY <2>1, <2>5, <2>6 DEF Settled, KeyOf, l, c
<1> QED
  BY <1>1, <1>2, <1>3, <1>4
     DEF Next, Publish, Work, Fail, Operate, Edit, Obstruct, BeginVisit,
         AnswerNotModified, AnswerBody, AnswerRefused, AnswerRetryable, FetchEnds,
         BeginPut, WriteFails, CloseVisit, EndRun, Crash, StartRun, ClearRecords, Clear,
         vars, feed

\* A validator becomes current only when a visit that applied the current page
\* closes, and once it is, only a page edit or a clear can change what it covers.
LEMMA StepFaithful ==
  ASSUME TypeOK, Held, Fresh, AppliedSettled, ValidatorFaithful, [Next]_vars
  PROVE  ValidatorFaithful'
<1> USE FeedConstants
<1>0. visit \in Visit /\ version \in [Sources -> Nat \ {0}] /\ validator \in [Sources -> Nat]
  BY DEF TypeOK
<1> SUFFICES ASSUME NEW s \in Sources, NEW i \in Items,
                    validator'[s] = version'[s], listing'[s][i] # None
             PROVE  Settled(s, KeyOf(s, i), listing[s][i])'
  BY DEF ValidatorFaithful
<1> DEFINE k == KeyOf(s, i)
           c == listing[s][i]
<1>k. k \in Keys /\ k[1] = TownOf[s] /\ k[2] = i
  BY KeyOfIsKey
<1>1. CASE /\ validator'[s] = validator[s] /\ version'[s] = version[s]
           /\ listing'[s] = listing[s] /\ record'[k] = record[k]
  BY <1>1 DEF ValidatorFaithful, Settled, KeyOf
<1>2. ASSUME NEW x \in Sources, x = s, version' = [version EXCEPT ![x] = @ + 1],
             UNCHANGED validator
      PROVE  FALSE
  BY <1>0, <1>2 DEF Fresh
<1>3. ASSUME NEW x \in Sources, NEW j \in Items, NEW d \in Contents \union {None}, Edit(x, j, d)
      PROVE  Settled(s, KeyOf(s, i), listing[s][i])'
  <2>1. x = s => FALSE
    BY <1>2, <1>3 DEF Edit, sourceRow
  <2> QED
    BY <1>1, <1>3, <2>1 DEF Edit, TypeOK, sourceRow, feed
<1>4. ASSUME NEW x \in Sources, Obstruct(x)
      PROVE  Settled(s, KeyOf(s, i), listing[s][i])'
  <2>1. x = s => FALSE
    BY <1>2, <1>4 DEF Obstruct, sourceRow
  <2> QED
    BY <1>1, <1>4, <2>1 DEF Obstruct, TypeOK, sourceRow, feed
<1>5. ASSUME NEW j \in Items, ApplyItem(j)
      PROVE  Settled(s, KeyOf(s, i), listing[s][i])'
  <2>1. pc = "apply" /\ UNCHANGED <<listing, version, validator>>
    BY <1>5 DEF ApplyItem, publisher, sourceRow
  <2>2. Settled(s, k, c)
    BY <2>1 DEF ValidatorFaithful
  <2>3. s = visit.src => visit.body = listing[s]
    <3>1. ASSUME s = visit.src
          PROVE  visit.tag = version[s]
      <4>1. s \in Tagged
        BY <1>0, <2>1 DEF Fresh
      <4> QED
        BY <1>0, <2>1, <3>1, <4>1 DEF Fresh, Visit
    <3> QED
      BY <2>1, <3>1 DEF Fresh, Served, Held
  <2>4. \/ s = visit.src /\ k = KeyOf(visit.src, j) /\ c = visit.body[j]
        \/ s # visit.src \/ k # KeyOf(visit.src, j)
    BY <2>3, KeyOfIsKey
  <2>5. ASSUME NEW d, d = c
        PROVE  Settled(s, k, d)'
    BY <1>5, <1>k, <2>2, <2>4, <2>5, ApplySettles
  <2> QED
    BY <2>1, <2>5 DEF Settled, KeyOf
<1>6. CASE CloseVisit
  <2> DEFINE x == visit.src
  <2>1. /\ x \in Sources /\ UNCHANGED <<listing, version, record>>
        /\ validator' = [validator EXCEPT ![x] = NextValidator(validator[x])]
    BY <1>6 DEF CloseVisit, TypeOK, publisher, feed
  <2>2. CASE s # x
    BY <1>0, <1>1, <2>1, <2>2
  <2>3. CASE s = x
    <3>1. validator'[s] = NextValidator(validator[s])
      BY <1>0, <2>1, <2>3
    <3>2. visit.outcome # "failed"
      BY <1>0, <2>1, <3>1 DEF NextValidator
    <3>3. CASE validator'[s] = validator[s]
      BY <1>1, <2>1, <3>3
    <3>4. CASE validator'[s] = visit.tag /\ visit.tag # validator[s]
      <4>1. pc = "apply" /\ visit.left = {}
        BY <1>6, <2>3, <3>2, <3>4 DEF CloseVisit, Fresh, Held
      <4>2. visit.body = Served(s) /\ visit.body \in Listing
        BY <2>1, <2>3, <3>4, <4>1 DEF Fresh, Held
      <4>3. visit.body = listing[s]
        BY <4>2 DEF Served
      <4>4. Settled(s, k, c)
        BY <2>1, <2>3, <4>1, <4>3 DEF AppliedSettled
      <4> QED
        BY <2>1, <4>4 DEF Settled, KeyOf
    <3> QED
      BY <3>1, <3>2, <3>3, <3>4 DEF NextValidator
  <2> QED
    BY <2>2, <2>3
<1>7. ASSUME NEW t \in Towns, ClearRecords(t)
      PROVE  Settled(s, KeyOf(s, i), listing[s][i])'
  <2>1. TownOf[s] # t
    BY <1>0, <1>7 DEF ClearRecords, Clear, publisher
  <2> QED
    BY <1>1, <1>7, <1>k, <2>1 DEF ClearRecords, Clear, Wiped, publisher
<1> QED
  BY <1>1, <1>3, <1>4, <1>5, <1>6, <1>7
     DEF Next, Publish, Work, Fail, Operate, BeginVisit, AnswerNotModified, AnswerBody,
         AnswerRefused, AnswerRetryable, FetchEnds, BeginPut, FinishPut, StoreBody, WriteFails, EndRun, Crash,
         StartRun, vars, publisher, sourceRow, feed

\* A stored validator that would be answered 304 hides nothing: whatever the page
\* lists is already in the feed.
THEOREM FaithfulValidators == Spec => []ValidatorFaithful
<1>1. Init => AppliedSettled /\ ValidatorFaithful
  BY DEF Init, AppliedSettled, ValidatorFaithful
<1> QED
  BY <1>1, Soundness, FreshAlways, StepApplied, StepFaithful, PTL DEF Spec
=============================================================================
