--------------------------- MODULE DocumentsProofs --------------------------
(***************************************************************************)
(* For any records, files, texts, listings, documents, limits, waits and   *)
(* either store: what is marked extracted is durable, unattended runs keep *)
(* to the backoff, and the readings of a record are of one text by one     *)
(* version of the interpreter, and not paid for twice.                     *)
(***************************************************************************)
EXTENDS DocumentsProps, TLAPS

Writing == {"put", "write", "text", "writeText", "attach", "update"}
Reads == {"interpret", "replace", "insert"}

\* A run is over records that exist, and one that reads over records with text.
Queued ==
  /\ pc # "idle" => \A e \in queue : row[e] # None
  /\ pc \in Reads => \A e \in queue : Source(e) \in Texts

\* How far the document in hand has got, and what the store holds part of: the
\* object being written, and those whose write was cut short.
InHand ==
  /\ pc \in Writing => doc \in Documents
  /\ pc = "write" => doc \in store
  /\ pc \in {"text", "writeText", "attach", "update"} => doc \in Durable
  /\ pc = "writeText" => doc.text \in store /\ doc.text # Blank
  /\ pc \in {"attach", "update"} => doc.text = Blank \/ doc.text \in Durable
  /\ pc = "update" => filed[doc] # None
  /\ \A o \in torn : InPlace /\ (o \in cut \/ o \in Unfinished)

\* While a reading is replaced, whatever is there of it is of the text at hand.
Replacing ==
  pc = "insert" =>
    \A e \in queue : Current(e) =>
      \A r \in readings : r.event = e => r.text = Source(e) /\ r.version = version

IInv == TypeOK /\ Queued /\ InHand /\ ExtractedIsKept /\ OneView /\ Replacing

-----------------------------------------------------------------------------
\* The markers are apart from what they mark the absence of.
LEMMA Constants ==
  /\ None \notin Row /\ None \notin Events /\ None \notin Failure /\ None \notin Texts
  /\ None # Blank /\ None \notin Documents /\ None \notin Url /\ Blank \notin Texts
  /\ Missing \notin Documents /\ Broken \notin Documents
  /\ Limit \in Nat /\ NotFoundWait \in Nat /\ MaxUpsets \in Nat
  /\ Events \subseteq Nat /\ Minutes \subseteq Events
BY ExtractionConstants, InterpretationConstants

\* What is listed, and what a document says.
LEMMA Listed ==
  ASSUME NEW e \in Events, NEW l \in Listings[e]
  PROVE  l.url \in Url /\ l.url.file \in Files /\ l.summary \in Texts \union {Blank}
BY ExtractionConstants DEF Url

LEMMA Said ==
  ASSUME NEW d \in Documents
  PROVE  d.text \in Texts \union {Blank} /\ d.exact \in BOOLEAN
BY ExtractionConstants

\* A record that is there.
LEMMA RowThere ==
  ASSUME TypeOK, NEW e \in Events, row[e] # None
  PROVE  /\ row[e] \in Row
         /\ FileOf(e) \in Files
         /\ row[e].listing.url \in Url
         /\ Source(e) \in Texts \union {Blank}
<1>1. row[e] \in Row
  BY DEF TypeOK, ExtractionTypes
<1>2. row[e].text \in Texts \union {Blank, None}
  BY <1>1 DEF Row
<1>3. PICK g \in Events : row[e].listing \in Listings[g]
  BY <1>1 DEF Row
<1> QED
  BY <1>1, <1>2, <1>3, Listed, Constants DEF FileOf, preferDocumentUrl, Source

\* A failure is a row of the attachments, whatever row was there before.
LEMMA FailTypes ==
  ASSUME TypeOK, NEW e \in Events, row[e] # None, NEW wait \in Nat, Fail(e, wait)
  PROVE  /\ failed' \in [Events -> [Files -> Failure \union {None}]]
         /\ resting' \in [Events -> [Url -> Nat]]
         /\ first' \in [Events -> [Files -> Url \union {None}]]
         /\ queue' \subseteq queue /\ doc' = None /\ pc' = "extract"
         /\ UNCHANGED <<row, site, store, torn, filed, forced>>
<1>1. FileOf(e) \in Files /\ row[e].listing.url \in Url
  BY RowThere
<1> DEFINE old == failed[e][FileOf(e)]
           new == IF old = None THEN [url |-> row[e].listing.url, wait |-> wait]
                  ELSE [old EXCEPT !.wait = wait]
<1>2. old \in Failure \union {None}
  BY <1>1 DEF TypeOK, ExtractionTypes
<1>3. new \in Failure
  BY <1>1, <1>2 DEF Failure
<1>4. failed' = [failed EXCEPT ![e][FileOf(e)] = new]
  BY DEF Fail
<1> HIDE DEF new, old
<1>5. failed' \in [Events -> [Files -> Failure \union {None}]]
  BY <1>1, <1>3, <1>4 DEF TypeOK, ExtractionTypes
<1>6. resting' \in [Events -> [Url -> Nat]]
  <2>1. LastFailed(e, wait) \in [Url -> Nat]
    BY DEF LastFailed, TypeOK, ExtractionTypes
  <2> QED
    BY <2>1 DEF Fail, TypeOK, ExtractionTypes
<1>7. first' \in [Events -> [Files -> Url \union {None}]]
  <2>1. first' = [first EXCEPT ![e][FileOf(e)] =
                    IF first[e][FileOf(e)] = None THEN row[e].listing.url ELSE first[e][FileOf(e)]]
    BY DEF Fail
  <2> QED
    BY <1>1, <2>1 DEF TypeOK, ExtractionTypes
<1> QED
  BY <1>5, <1>6, <1>7 DEF Fail

-----------------------------------------------------------------------------
LEMMA InitHolds == Init => IInv
<1> SUFFICES ASSUME Init PROVE IInv
  OBVIOUS
<1>1. TypeOK
  BY DEF Init, ExtractionInit, TypeOK, ExtractionTypes, Answers
<1>2. Queued /\ InHand /\ OneView /\ Replacing
  BY DEF Init, ExtractionInit, Queued, InHand, OneView, Replacing, Writing, Reads, Unfinished
<1>3. ExtractedIsKept
  BY DEF Init, ExtractionInit, ExtractedIsKept
<1> QED
  BY <1>1, <1>2, <1>3 DEF IInv

-----------------------------------------------------------------------------
\* The steps of the surroundings keep the types.
LEMMA SurroundingsTypes ==
  ASSUME TypeOK, Surroundings, UNCHANGED interpretation
  PROVE  TypeOK'
<1>1. ASSUME NEW f \in Files, NEW a \in Answers, Publish(f, a)
      PROVE  TypeOK'
  <2>1. site' \in [Files -> Answers] /\ upsets' \in Nat
    BY <1>1 DEF Publish, Upset, TypeOK, ExtractionTypes
  <2> QED
    BY <1>1, <2>1 DEF Publish, TypeOK, ExtractionTypes, interpretation, run, archive, failures
<1>2. ASSUME NEW e \in Events, NEW l \in Listings[e], Ingest(e, l)
      PROVE  TypeOK'
  <2>1. CASE row[e] = None
    <3> DEFINE new == [listing |-> l, exact |-> FALSE, text |-> None, extracted |-> FALSE]
    <3>1. new \in Row
      BY <1>2 DEF Row
    <3>2. row' = [row EXCEPT ![e] = new] /\ upsets' = upsets
      BY <1>2, <2>1 DEF Ingest
    <3> HIDE DEF new
    <3>3. row' \in [Events -> Row \union {None}]
      BY <3>1, <3>2 DEF TypeOK, ExtractionTypes
    <3> QED
      BY <1>2, <3>2, <3>3 DEF Ingest, TypeOK, ExtractionTypes, interpretation, run, archive, failures
  <2>2. CASE row[e] # None
    <3> DEFINE new == [row[e] EXCEPT !.listing = l, !.exact = FALSE]
    <3>1. new \in Row
      BY <1>2, <2>2, RowThere DEF Row
    <3>2. row' = [row EXCEPT ![e] = new] /\ upsets' = upsets + 1
      BY <1>2, <2>2 DEF Ingest, Upset, TypeOK, ExtractionTypes
    <3> HIDE DEF new
    <3>3. row' \in [Events -> Row \union {None}] /\ upsets' \in Nat
      BY <3>1, <3>2 DEF TypeOK, ExtractionTypes
    <3> QED
      BY <1>2, <3>3 DEF Ingest, TypeOK, ExtractionTypes, interpretation, run, archive, failures
  <2> QED
    BY <2>1, <2>2
<1> QED
  BY <1>1, <1>2 DEF Surroundings

\* So do those of extraction.
LEMMA ExtractTypes ==
  ASSUME TypeOK, Queued, InHand, Extract, UNCHANGED interpretation
  PROVE  TypeOK'
<1> USE DEF run, archive, failures
<1>1. ASSUME NEW f \in BOOLEAN, NEW t \in {0, 1}, StartExtract(f, t), upsets' \in Nat
      PROVE  TypeOK'
  <2>1. \A wait \in Nat : Later(wait, t) \in Nat
    BY DEF Later
  <2>2. failed' \in [Events -> [Files -> Failure \union {None}]]
    <3>1. ASSUME NEW e \in Events, NEW g \in Files, failed[e][g] # None
          PROVE  [failed[e][g] EXCEPT !.wait = Later(@, t)] \in Failure
      <4>1. failed[e][g] \in Failure
        BY <3>1 DEF TypeOK, ExtractionTypes
      <4> QED
        BY <2>1, <4>1 DEF Failure
    <3> QED
      BY <1>1, <3>1 DEF StartExtract
  <2>3. resting' \in [Events -> [Url -> Nat]]
    BY <1>1, <2>1 DEF StartExtract, TypeOK, ExtractionTypes
  <2>4. queue' \subseteq Events /\ forced' \in BOOLEAN
    BY <1>1 DEF StartExtract, Newest
  <2>5. pc' = "extract" /\ UNCHANGED <<row, site, store, torn, cut, filed, first, doc>>
    BY <1>1 DEF StartExtract
  <2> QED
    BY <1>1, <2>2, <2>3, <2>4, <2>5 DEF TypeOK, ExtractionTypes, interpretation
<1>11. CASE Scheduled \/ Started
  <2>1. upsets' \in Nat
    <3>1. upsets \in Nat
      BY DEF TypeOK, ExtractionTypes
    <3>2. upsets' = upsets \/ upsets' = upsets + 1
      BY <1>11 DEF Scheduled, Started, Upset
    <3> QED
      BY <3>1, <3>2
  <2>2. PICK f \in BOOLEAN, t \in {0, 1} : StartExtract(f, t)
    BY <1>11 DEF Scheduled, Started
  <2> QED
    BY <1>1, <2>1, <2>2
<1>2. ASSUME NEW e \in Events, NEW wait \in Nat, row[e] # None, Fail(e, wait), upsets' \in Nat,
             cut' \subseteq store
      PROVE  TypeOK'
  BY <1>2, FailTypes DEF TypeOK, ExtractionTypes, interpretation
<1>3. ASSUME NEW e \in Events, Download(e)
      PROVE  TypeOK'
  BY <1>3 DEF Download, TypeOK, ExtractionTypes, interpretation
<1>4. ASSUME NEW e \in Events, Unreadable(e)
      PROVE  TypeOK'
  <2>1. row[e] # None /\ upsets' \in Nat /\ cut' \subseteq store
    BY <1>4 DEF Unreadable, Current, Queued, TypeOK, ExtractionTypes
  <2>2. Fail(e, NotFoundWait) \/ Fail(e, 1)
    BY <1>4 DEF Unreadable
  <2> QED
    BY <1>2, <2>1, <2>2, Constants
<1>5. ASSUME NEW e \in Events, Fault(e)
      PROVE  TypeOK'
  <2>1. row[e] # None /\ upsets' \in Nat /\ Fail(e, 1)
    BY <1>5 DEF Fault, Upset, Current, Queued, TypeOK, ExtractionTypes
  <2>2. cut' \subseteq store
    BY <1>5 DEF Fault, Unfinished, InHand, TypeOK, ExtractionTypes
  <2> QED
    BY <1>2, <2>1, <2>2
<1>6. CASE BeginPut \/ FinishPut \/ Put
  <2>1. doc \in Documents
    BY <1>6 DEF BeginPut, FinishPut, Put, InHand, Writing
  <2>2. /\ store' \subseteq Documents \union Texts /\ torn' \subseteq store' /\ cut' \subseteq store'
    BY <1>6, <2>1 DEF BeginPut, FinishPut, Put, Open, Close, Have, TypeOK, ExtractionTypes
  <2>3. pc' \in {"write", "text"} /\ UNCHANGED <<row, site, filed, failures, run, upsets>>
    BY <1>6 DEF BeginPut, FinishPut, Put, Open, Close, Have
  <2> QED
    BY <2>2, <2>3 DEF TypeOK, ExtractionTypes, interpretation
<1>7. CASE BeginPutText \/ FinishPutText \/ PutText
  <2>1. doc.text \in Texts \union {Blank}
    BY <1>7, Said DEF BeginPutText, FinishPutText, PutText, InHand, Writing
  <2>2. /\ store' \subseteq Documents \union Texts /\ torn' \subseteq store' /\ cut' \subseteq store'
    BY <1>7, <2>1 DEF BeginPutText, FinishPutText, PutText, Open, Close, Have, TypeOK, ExtractionTypes
  <2>3. pc' \in {"writeText", "attach"} /\ UNCHANGED <<row, site, filed, failures, run, upsets>>
    BY <1>7 DEF BeginPutText, FinishPutText, PutText, Open, Close, Have
  <2> QED
    BY <2>2, <2>3 DEF TypeOK, ExtractionTypes, interpretation
<1>8. ASSUME NEW e \in Events, Attach(e)
      PROVE  TypeOK'
  <2>1. filed' \in [Documents -> Events \union {None}]
    BY <1>8 DEF Attach, TypeOK, ExtractionTypes
  <2> QED
    BY <1>8, <2>1 DEF Attach, TypeOK, ExtractionTypes, interpretation
<1>9. ASSUME NEW e \in Events, Update(e)
      PROVE  TypeOK'
  <2> DEFINE new == [row[e] EXCEPT !.text = doc.text, !.exact = @ \/ doc.exact, !.extracted = TRUE]
  <2>1. row[e] \in Row /\ doc \in Documents
    BY <1>9, RowThere DEF Update, Current, Queued, InHand, Writing
  <2>2. new \in Row
    BY <2>1, Said DEF Row
  <2>3. row' = [row EXCEPT ![e] = new]
    BY <1>9 DEF Update, TypeOK, ExtractionTypes
  <2> HIDE DEF new
  <2>4. row' \in [Events -> Row \union {None}]
    BY <2>2, <2>3 DEF TypeOK, ExtractionTypes
  <2> QED
    BY <1>9, <2>4 DEF Update, TypeOK, ExtractionTypes, interpretation
<1>10. ASSUME EndExtract
       PROVE  TypeOK'
  BY <1>10 DEF EndExtract, TypeOK, ExtractionTypes, interpretation
<1> QED
  BY <1>3, <1>4, <1>5, <1>6, <1>7, <1>8, <1>9, <1>10, <1>11 DEF Extract, ExtractStep

\* And those of interpretation, and what the operator does in between.
LEMMA InterpretTypes ==
  ASSUME TypeOK, Queued, InHand,
         \/ \E f \in BOOLEAN : StartInterpret(f)
         \/ InterpretStep
         \/ \E e \in Events : InterpretFails(e)
         \/ Crash \/ Release
         \/ \E records \in BOOLEAN : Clear(records)
  PROVE  TypeOK'
<1> USE DEF run, interpretation, archive, failures
<1>1. ASSUME NEW f \in BOOLEAN, StartInterpret(f)
      PROVE  TypeOK'
  <2>1. queue' \subseteq Events
    BY <1>1, Constants DEF StartInterpret, Newest
  <2>2. upsets' \in Nat /\ forced' \in BOOLEAN /\ pc' = "interpret"
    BY <1>1 DEF StartInterpret, Upset, TypeOK, ExtractionTypes
  <2>3. UNCHANGED <<row, site, archive, filed, failures, doc, interpretation>>
    BY <1>1 DEF StartInterpret
  <2> QED
    BY <2>1, <2>2, <2>3 DEF TypeOK, ExtractionTypes
<1>2. ASSUME NEW e \in Events, Skip(e)
      PROVE  TypeOK'
  BY <1>2 DEF Skip, TypeOK, ExtractionTypes
<1>3. ASSUME NEW e \in Events, Ask(e)
      PROVE  TypeOK'
  BY <1>3 DEF Ask, TypeOK, ExtractionTypes
<1>4. ASSUME NEW e \in Events, Replace(e)
      PROVE  TypeOK'
  <2>1. readings' \subseteq Reading
    BY <1>4 DEF Replace, TypeOK
  <2>2. whole' \in [Events -> [text : Texts, version : Nat] \union {None}]
    BY <1>4 DEF Replace, TypeOK
  <2> QED
    BY <1>4, <2>1, <2>2 DEF Replace, TypeOK, ExtractionTypes
<1>5. ASSUME NEW e \in Events, NEW k \in found, Insert(e, k)
      PROVE  TypeOK'
  <2>1. Source(e) \in Texts /\ version \in Nat /\ k \in Kinds \union {"summary"}
    BY <1>5 DEF Insert, Current, Queued, Reads, TypeOK
  <2> DEFINE new == [event |-> e, kind |-> k, text |-> Source(e), version |-> version]
             last == [text |-> Source(e), version |-> version]
  <2>2. new \in Reading /\ last \in [text : Texts, version : Nat]
    BY <2>1 DEF Reading
  <2>3. readings' = readings \union {new}
    BY <1>5 DEF Insert
  <2>4. whole' = whole \/ whole' = [whole EXCEPT ![e] = last]
    BY <1>5 DEF Insert
  <2>5. queue' \subseteq Events /\ found' \subseteq Kinds \union {"summary"} /\ pc' \in {"insert", "interpret"}
    BY <1>5 DEF Insert, TypeOK, ExtractionTypes
  <2>6. UNCHANGED <<row, site, archive, filed, failures, forced, doc, upsets, version>>
    BY <1>5 DEF Insert
  <2> HIDE DEF new, last
  <2>7. readings' \subseteq Reading
    BY <2>2, <2>3 DEF TypeOK
  <2>8. whole' \in [Events -> [text : Texts, version : Nat] \union {None}]
    BY <2>2, <2>4 DEF TypeOK
  <2> QED
    BY <2>5, <2>6, <2>7, <2>8 DEF TypeOK, ExtractionTypes
<1>6. ASSUME NEW e \in Events, InterpretFails(e)
      PROVE  TypeOK'
  BY <1>6 DEF InterpretFails, Upset, TypeOK, ExtractionTypes
<1>7. ASSUME EndInterpret
      PROVE  TypeOK'
  BY <1>7 DEF EndInterpret, TypeOK, ExtractionTypes
<1>8. ASSUME Crash
      PROVE  TypeOK'
  <2>1. forced' \in BOOLEAN
    BY <1>8, Zenon DEF Crash
  <2>2. queue' \subseteq Events /\ found' \subseteq Kinds \union {"summary"}
    BY <1>8, Zenon DEF Crash
  <2>3. pc' = "idle" /\ doc' = None /\ upsets' \in Nat
    BY <1>8 DEF Crash, Upset, TypeOK, ExtractionTypes
  <2>4. UNCHANGED <<row, site, store, torn, filed, failures, readings, version, whole>>
    BY <1>8 DEF Crash
  <2>5. cut' \subseteq store
    BY <1>8 DEF Crash, Unfinished, InHand, TypeOK, ExtractionTypes
  <2> QED
    BY <2>1, <2>2, <2>3, <2>4, <2>5 DEF TypeOK, ExtractionTypes
<1>9. ASSUME Release
      PROVE  TypeOK'
  BY <1>9 DEF Release, Upset, TypeOK, ExtractionTypes
<1>10. ASSUME NEW records \in BOOLEAN, Clear(records)
       PROVE  TypeOK'
  <2>1. /\ row' \in [Events -> Row \union {None}]
        /\ filed' \in [Documents -> Events \union {None}]
        /\ failed' \in [Events -> [Files -> Failure \union {None}]]
        /\ resting' \in [Events -> [Url -> Nat]]
        /\ first' \in [Events -> [Files -> Url \union {None}]]
    <3>1. CASE records
      BY <1>10, <3>1 DEF Clear, ForgetRecords
    <3>2. CASE ~records
      BY <1>10, <3>2 DEF Clear, TypeOK, ExtractionTypes
    <3> QED
      BY <3>1, <3>2
  <2>2. whole' \in [Events -> [text : Texts, version : Nat] \union {None}] /\ readings' \subseteq Reading
    BY <1>10 DEF Clear
  <2> QED
    BY <1>10, <2>1, <2>2 DEF Clear, Upset, TypeOK, ExtractionTypes
<1> QED
  BY <1>1, <1>2, <1>3, <1>4, <1>5, <1>6, <1>7, <1>8, <1>9, <1>10 DEF InterpretStep

LEMMA TypesKept ==
  ASSUME TypeOK, Queued, InHand, [Next]_vars
  PROVE  TypeOK'
<1>1. CASE UNCHANGED vars
  BY <1>1 DEF vars, extraction, interpretation, run, archive, failures, TypeOK, ExtractionTypes
<1> QED
  BY <1>1, SurroundingsTypes, ExtractTypes, InterpretTypes DEF Next

-----------------------------------------------------------------------------
\* What a record is read from depends on its row alone.
LEMMA SameSource ==
  ASSUME NEW e \in Events, row'[e] = row[e]
  PROVE  Source(e)' = Source(e)
BY DEF Source

\* A run goes on over the records it selected: none of them disappears, and
\* none of them loses its text, before the run has ended.
LEMMA QueuedKept ==
  ASSUME TypeOK, Queued, InHand, [Next]_vars
  PROVE  Queued'
<1> USE DEF run, extraction, interpretation, archive, failures
<1>1. CASE UNCHANGED vars
  BY <1>1, SameSource DEF vars, Queued, TypeOK, ExtractionTypes
<1>2. ASSUME pc' = "idle"
      PROVE  Queued'
  BY <1>2 DEF Queued, Reads
<1>3. ASSUME queue' \subseteq queue, pc # "idle", row' = row, pc' \in Reads => pc \in Reads
      PROVE  Queued'
  BY <1>3, SameSource DEF Queued, TypeOK, ExtractionTypes
<1>4. ASSUME NEW f \in Files, NEW a \in Answers, Publish(f, a)
      PROVE  Queued'
  BY <1>4, <1>2, <1>3 DEF Publish
<1>5. ASSUME NEW e \in Events, NEW l \in Listings[e], Ingest(e, l)
      PROVE  Queued'
  BY <1>5, <1>2 DEF Ingest
<1>6. ASSUME NEW f \in BOOLEAN, NEW t \in {0, 1}, StartExtract(f, t)
      PROVE  Queued'
  <2>1. pc' = "extract" /\ row' = row /\ \A e \in queue' : Pending(e, f, t)
    BY <1>6 DEF StartExtract, Newest
  <2> QED
    BY <2>1 DEF Pending, Queued, Reads
<1>7. ASSUME NEW e \in Events, Update(e)
      PROVE  Queued'
  <2>1. pc' = "extract" /\ pc # "idle" /\ queue' \subseteq queue
    BY <1>7 DEF Update
  <2>2. ASSUME NEW g \in queue'
        PROVE  row'[g] # None
    <3>1. row[g] # None /\ g \in Events
      BY <2>1, <2>2 DEF Queued, TypeOK, ExtractionTypes
    <3>2. g # e
      BY <1>7, <2>2 DEF Update
    <3>3. row'[g] = row[g]
      BY <1>7, <3>1, <3>2 DEF Update, TypeOK, ExtractionTypes
    <3> QED
      BY <3>1, <3>3
  <2> QED
    BY <2>1, <2>2 DEF Queued, Reads
<1>8. ASSUME NEW e \in Events, Download(e) \/ Unreadable(e) \/ Attach(e) \/ Fault(e)
      PROVE  Queued'
  BY <1>8, <1>3 DEF Download, Unreadable, Attach, Fault, Fail, Reads
<1>9. CASE BeginPut \/ FinishPut \/ Put \/ BeginPutText \/ FinishPutText \/ PutText \/ EndExtract
  BY <1>9, <1>2, <1>3 DEF BeginPut, FinishPut, Put, BeginPutText, FinishPutText, PutText, Open, Close,
                          Have, EndExtract, Reads
<1>10. ASSUME NEW f \in BOOLEAN, StartInterpret(f)
       PROVE  Queued'
  <2>1. /\ pc' = "interpret" /\ row' = row
        /\ \A e \in queue' : e \in Minutes /\ row[e] # None /\ Source(e) # Blank
    BY <1>10 DEF StartInterpret, Newest
  <2>2. \A e \in queue' : row'[e] # None /\ Source(e)' \in Texts
    BY <2>1, RowThere, SameSource, Constants
  <2> QED
    BY <2>1, <2>2 DEF Queued
<1>11. ASSUME NEW e \in Events, Skip(e) \/ Ask(e) \/ Replace(e) \/ InterpretFails(e)
       PROVE  Queued'
  BY <1>11, <1>3 DEF Skip, Ask, Replace, InterpretFails, Reads
<1>12. ASSUME NEW e \in Events, NEW k \in found, Insert(e, k)
       PROVE  Queued'
  BY <1>12, <1>3 DEF Insert, Reads
<1>13. ASSUME EndInterpret \/ Crash
       PROVE  Queued'
  BY <1>13, <1>2 DEF EndInterpret, Crash
<1>14. ASSUME Release \/ \E records \in BOOLEAN : Clear(records)
       PROVE  Queued'
  BY <1>14, <1>2 DEF Release, Clear
<1> QED
  BY <1>1, <1>4, <1>5, <1>6, <1>7, <1>8, <1>9, <1>10, <1>11, <1>12, <1>13, <1>14
  DEF Next, Surroundings, Extract, Scheduled, Started, ExtractStep, InterpretStep

-----------------------------------------------------------------------------
\* An object is torn only from its first write on, so what is durable stays so.
LEMMA DurableKept ==
  ASSUME store \subseteq store', cut \subseteq cut', \A o \in torn' : o \in torn \/ o \notin store
  PROVE  Durable \subseteq Durable'
BY DEF Durable

\* What three operators do to the store, each started with nothing unfinished.
LEMMA OpenIs ==
  ASSUME NEW o, NEW next, Open(o, next)
  PROVE  /\ InPlace /\ Durable \subseteq Durable' /\ o \in store'
         /\ store' = store \union {o} /\ torn' = torn \union {o} /\ cut' = cut
         /\ pc' = next /\ UNCHANGED <<row, site, filed, failures, run, upsets>>
BY DurableKept DEF Open

LEMMA CloseIs ==
  ASSUME NEW next, Close(next)
  PROVE  /\ Durable \subseteq Durable' /\ (Unfinished \intersect store) \subseteq Durable'
         /\ store' = store /\ torn' = torn \ Unfinished /\ cut' = cut
         /\ pc' = next /\ UNCHANGED <<row, site, filed, failures, run, upsets>>
<1>1. store' = store /\ torn' = torn \ Unfinished /\ cut' = cut
  BY DEF Close
<1> QED
  BY <1>1, DurableKept DEF Close, Durable

LEMMA HaveIs ==
  ASSUME InHand, NEW O, NEW next, Have(O, next), Unfinished = {}
  PROVE  /\ Durable \subseteq Durable' /\ O \subseteq Durable'
         /\ store' = store \union O /\ torn' = torn /\ cut' = cut
         /\ pc' = next /\ UNCHANGED <<row, site, filed, failures, run, upsets>>
<1>1. store' = store \union O /\ torn' = torn /\ cut' = cut
  BY DEF Have
<1>2. \A o \in torn : InPlace /\ o \in cut
  BY DEF InHand
<1> QED
  BY <1>1, <1>2 DEF Have, Durable

\* The writes of applyExtraction come one after the other.
LEMMA InHandKept ==
  ASSUME TypeOK, Queued, InHand, [Next]_vars
  PROVE  InHand'
<1> USE DEF run, extraction, interpretation, archive, failures
<1>1. ASSUME pc' \notin Writing, torn' = torn, cut' = cut \union Unfinished
      PROVE  InHand'
  BY <1>1 DEF InHand, Writing, Unfinished
<1>2. ASSUME UNCHANGED <<pc, doc, archive, filed>>
      PROVE  InHand'
  BY <1>2 DEF InHand, Unfinished, Durable
<1>3. ASSUME NEW e \in Events, Download(e)
      PROVE  InHand'
  BY <1>3, Constants DEF Download, InHand, Writing, Unfinished, Durable
<1>20. ASSUME pc' \notin Writing, pc \notin {"write", "writeText"}, torn' = torn, cut' = cut
       PROVE  InHand'
  BY <1>20 DEF InHand, Writing, Unfinished
<1>21. CASE BeginPut
  <2>1. pc = "put" /\ Open(doc, "write") /\ doc \in Documents
    BY <1>21 DEF BeginPut, InHand, Writing
  <2>2. /\ InPlace /\ doc' = doc /\ doc \in store' /\ pc' = "write"
        /\ torn' = torn \union {doc} /\ cut' = cut
    BY <2>1, OpenIs
  <2>3. \A o \in torn' : InPlace /\ (o \in cut' \/ o \in Unfinished')
    BY <2>1, <2>2 DEF InHand, Unfinished
  <2> QED
    BY <2>1, <2>2, <2>3 DEF InHand
<1>22. CASE FinishPut
  <2>1. pc = "write" /\ Close("text") /\ doc \in Documents /\ doc \in store /\ Unfinished = {doc}
    BY <1>22 DEF FinishPut, InHand, Writing, Unfinished
  <2>2. doc' = doc /\ doc \in Durable' /\ pc' = "text" /\ torn' = torn \ {doc} /\ cut' = cut
    BY <2>1, CloseIs
  <2>3. \A o \in torn' : InPlace /\ (o \in cut' \/ o \in Unfinished')
    BY <2>1, <2>2 DEF InHand
  <2> QED
    BY <2>1, <2>2, <2>3 DEF InHand
<1>4. CASE Put
  <2>1. pc = "put" /\ Have({doc}, "text") /\ doc \in Documents /\ Unfinished = {}
    BY <1>4 DEF Put, InHand, Writing, Unfinished
  <2>2. doc' = doc /\ doc \in Durable' /\ pc' = "text" /\ torn' = torn /\ cut' = cut
    BY <2>1, HaveIs
  <2>3. \A o \in torn' : InPlace /\ (o \in cut' \/ o \in Unfinished')
    BY <2>1, <2>2 DEF InHand
  <2> QED
    BY <2>1, <2>2, <2>3 DEF InHand
<1>23. CASE BeginPutText
  <2>1. /\ pc = "text" /\ Open(doc.text, "writeText") /\ doc \in Documents /\ doc \in Durable
        /\ doc.text # Blank
    BY <1>23 DEF BeginPutText, InHand, Writing
  <2>2. /\ InPlace /\ doc' = doc /\ doc \in Durable' /\ doc.text \in store' /\ pc' = "writeText"
        /\ torn' = torn \union {doc.text} /\ cut' = cut
    BY <2>1, OpenIs
  <2>3. \A o \in torn' : InPlace /\ (o \in cut' \/ o \in Unfinished')
    BY <2>1, <2>2 DEF InHand, Unfinished
  <2> QED
    BY <2>1, <2>2, <2>3 DEF InHand
<1>24. CASE FinishPutText
  <2>1. /\ pc = "writeText" /\ Close("attach") /\ doc \in Documents /\ doc \in Durable
        /\ doc.text \in store /\ Unfinished = {doc.text}
    BY <1>24 DEF FinishPutText, InHand, Writing, Unfinished
  <2>2. /\ doc' = doc /\ doc \in Durable' /\ doc.text \in Durable' /\ pc' = "attach"
        /\ torn' = torn \ {doc.text} /\ cut' = cut
    BY <2>1, CloseIs
  <2>3. \A o \in torn' : InPlace /\ (o \in cut' \/ o \in Unfinished')
    BY <2>1, <2>2 DEF InHand
  <2> QED
    BY <2>1, <2>2, <2>3 DEF InHand
<1>5. CASE PutText
  <2>1. /\ pc = "text" /\ Have({doc.text} \ {Blank}, "attach") /\ doc \in Documents /\ doc \in Durable
        /\ Unfinished = {}
    BY <1>5 DEF PutText, InHand, Writing, Unfinished
  <2>2. /\ doc' = doc /\ doc \in Durable' /\ (doc.text = Blank \/ doc.text \in Durable')
        /\ pc' = "attach" /\ torn' = torn /\ cut' = cut
    BY <2>1, HaveIs
  <2>3. \A o \in torn' : InPlace /\ (o \in cut' \/ o \in Unfinished')
    BY <2>1, <2>2 DEF InHand
  <2> QED
    BY <2>1, <2>2, <2>3 DEF InHand
<1>6. ASSUME NEW e \in Events, Attach(e)
      PROVE  InHand'
  <2>1. /\ doc' = doc /\ archive' = archive /\ pc' = "update" /\ doc \in Documents
        /\ doc \in Durable' /\ (doc.text = Blank \/ doc.text \in Durable')
    BY <1>6 DEF Attach, InHand, Writing, Durable
  <2>2. filed'[doc] # None
    BY <1>6, <2>1, Constants DEF Attach, TypeOK, ExtractionTypes
  <2>3. \A o \in torn' : InPlace /\ (o \in cut' \/ o \in Unfinished')
    BY <1>6, <2>1 DEF InHand, Attach, Unfinished
  <2> QED
    BY <2>1, <2>2, <2>3 DEF InHand
<1>7. ASSUME NEW e \in Events, Unreadable(e) \/ Fault(e) \/ Update(e)
      PROVE  InHand'
  BY <1>7, <1>1, <1>20 DEF Unreadable, Fault, Fail, Update, Writing
<1>8. ASSUME NEW f \in BOOLEAN, NEW t \in {0, 1}, StartExtract(f, t) \/ StartInterpret(f)
      PROVE  InHand'
  BY <1>8, <1>20 DEF StartExtract, StartInterpret, Writing
<1>9. CASE EndExtract \/ EndInterpret \/ Crash
  BY <1>9, <1>1, <1>20 DEF EndExtract, EndInterpret, Crash, Writing
<1>10. ASSUME NEW e \in Events,
              Skip(e) \/ Ask(e) \/ Replace(e) \/ InterpretFails(e) \/ \E k \in found : Insert(e, k)
       PROVE  InHand'
  BY <1>10, <1>20 DEF Skip, Ask, Replace, InterpretFails, Insert, Writing
<1>11. CASE Release \/ \E records \in BOOLEAN : Clear(records)
  BY <1>11, <1>20 DEF Release, Clear, Writing
<1>12. CASE Surroundings
  <2>1. ASSUME NEW f \in Files, NEW a \in Answers, Publish(f, a)
        PROVE  InHand'
    BY <2>1, <1>2 DEF Publish
  <2>2. ASSUME NEW e \in Events, NEW l \in Listings[e], Ingest(e, l)
        PROVE  InHand'
    BY <2>2, <1>2 DEF Ingest
  <2> QED
    BY <1>12, <2>1, <2>2 DEF Surroundings
<1>13. CASE UNCHANGED vars
  BY <1>13, <1>2 DEF vars
<1> QED
  BY <1>3, <1>4, <1>5, <1>6, <1>7, <1>8, <1>9, <1>10, <1>11, <1>12, <1>13,
     <1>21, <1>22, <1>23, <1>24
  DEF Next, Extract, Scheduled, Started, ExtractStep, InterpretStep

-----------------------------------------------------------------------------
\* What an extracted record was extracted from.
Kept(e) ==
  /\ row[e].text = Blank \/ row[e].text \in Durable
  /\ \E d \in Durable \intersect Documents : d.text = row[e].text /\ filed[d] # None

\* What is durable stays so and attachments change hands; only the last write of
\* applyExtraction marks a record, and by then all of it is there.
LEMMA ExtractedKept ==
  ASSUME TypeOK, Queued, InHand, ExtractedIsKept, [Next]_vars
  PROVE  ExtractedIsKept'
<1> USE DEF run, extraction, interpretation, archive, failures
<1>1. ASSUME Durable \subseteq Durable', \A d \in Documents : filed[d] # None => filed'[d] # None,
             NEW e \in Events, row'[e] # None, row[e] # None,
             row'[e].text = row[e].text, row[e].extracted
      PROVE  Kept(e)'
  BY <1>1 DEF ExtractedIsKept, Kept
<1>2. ASSUME Durable \subseteq Durable', \A d \in Documents : filed[d] # None => filed'[d] # None,
             row' = row
      PROVE  ExtractedIsKept'
  BY <1>1, <1>2 DEF ExtractedIsKept, Kept
<1>3. ASSUME UNCHANGED <<row, store, torn, filed>>, cut \subseteq cut'
      PROVE  ExtractedIsKept'
  BY <1>2, <1>3, DurableKept
<1>4. ASSUME NEW e \in Events, NEW l \in Listings[e], Ingest(e, l)
      PROVE  ExtractedIsKept'
  <2>1. Durable \subseteq Durable' /\ filed' = filed
    BY <1>4, DurableKept DEF Ingest
  <2>2. ASSUME NEW g \in Events, row'[g] # None, row'[g].extracted
        PROVE  row[g] # None /\ row'[g].text = row[g].text /\ row[g].extracted
    <3>1. CASE g # e
      BY <1>4, <2>2, <3>1 DEF Ingest, TypeOK, ExtractionTypes
    <3>2. CASE g = e /\ row[e] = None
      BY <1>4, <2>2, <3>2 DEF Ingest, TypeOK, ExtractionTypes
    <3>3. CASE g = e /\ row[e] # None
      <4>1. row' = [row EXCEPT ![e] = [row[e] EXCEPT !.listing = l, !.exact = FALSE]]
        BY <1>4, <3>3 DEF Ingest, TypeOK, ExtractionTypes
      <4>2. row[e] \in Row
        BY <3>3, RowThere
      <4>3. row'[e] = [row[e] EXCEPT !.listing = l, !.exact = FALSE]
        BY <4>1 DEF TypeOK, ExtractionTypes
      <4> QED
        BY <2>2, <3>3, <4>2, <4>3 DEF Row
    <3> QED
      BY <3>1, <3>2, <3>3
  <2>3. \A g \in Events : row'[g] # None /\ row'[g].extracted => Kept(g)'
    BY <1>1, <2>1, <2>2
  <2> QED
    BY <2>3 DEF ExtractedIsKept, Kept
<1>5. ASSUME NEW e \in Events, Attach(e)
      PROVE  ExtractedIsKept'
  <2>1. \A d \in Documents : filed[d] # None => filed'[d] # None
    BY <1>5, Constants DEF Attach, TypeOK, ExtractionTypes
  <2> QED
    BY <1>2, <1>5, <2>1, DurableKept DEF Attach
<1>6. ASSUME NEW e \in Events, Update(e)
      PROVE  ExtractedIsKept'
  <2>1. /\ Durable \subseteq Durable' /\ filed' = filed /\ filed[doc] # None
        /\ doc \in Durable' \intersect Documents /\ (doc.text = Blank \/ doc.text \in Durable')
    BY <1>6, DurableKept DEF Update, InHand, Writing
  <2>2. row[e] \in Row
    BY <1>6, RowThere DEF Update, Current, Queued
  <2>3. row'[e].text = doc.text
    BY <1>6, <2>2 DEF Update, TypeOK, ExtractionTypes, Row
  <2>4. Kept(e)'
    BY <2>1, <2>3 DEF Kept
  <2>5. \A g \in Events : g # e => row'[g] = row[g]
    BY <1>6 DEF Update, TypeOK, ExtractionTypes
  <2>6. \A g \in Events : row'[g] # None /\ row'[g].extracted => Kept(g)'
    BY <1>1, <2>1, <2>4, <2>5
  <2> QED
    BY <2>6 DEF ExtractedIsKept, Kept
<1>7. ASSUME NEW records \in BOOLEAN, Clear(records)
      PROVE  ExtractedIsKept'
  <2>1. CASE records
    BY <1>7, <2>1 DEF Clear, ForgetRecords, ExtractedIsKept
  <2>2. CASE ~records
    BY <1>7, <2>2, <1>3 DEF Clear
  <2> QED
    BY <2>1, <2>2
<1>8. CASE BeginPut \/ FinishPut \/ Put \/ BeginPutText \/ FinishPutText \/ PutText
  <2>1. store \subseteq store' /\ cut' = cut /\ (\A o \in torn' : o \in torn \/ o \notin store)
    BY <1>8 DEF BeginPut, FinishPut, Put, BeginPutText, FinishPutText, PutText, Open, Close, Have
  <2>2. row' = row /\ filed' = filed
    BY <1>8 DEF BeginPut, FinishPut, Put, BeginPutText, FinishPutText, PutText, Open, Close, Have
  <2> QED
    BY <2>1, <2>2, <1>2, DurableKept
<1>9. ASSUME NEW e \in Events, Download(e) \/ Unreadable(e) \/ Fault(e)
      PROVE  ExtractedIsKept'
  BY <1>9, <1>3 DEF Download, Unreadable, Fault, Fail
<1>10. ASSUME NEW f \in BOOLEAN, NEW t \in {0, 1}, StartExtract(f, t) \/ StartInterpret(f)
       PROVE  ExtractedIsKept'
  BY <1>10, <1>3 DEF StartExtract, StartInterpret
<1>11. CASE EndExtract \/ EndInterpret \/ Crash \/ Release
  BY <1>11, <1>3 DEF EndExtract, EndInterpret, Crash, Release
<1>12. ASSUME NEW e \in Events,
              Skip(e) \/ Ask(e) \/ Replace(e) \/ InterpretFails(e) \/ \E k \in found : Insert(e, k)
       PROVE  ExtractedIsKept'
  BY <1>12, <1>3 DEF Skip, Ask, Replace, InterpretFails, Insert
<1>13. ASSUME NEW f \in Files, NEW a \in Answers, Publish(f, a)
       PROVE  ExtractedIsKept'
  BY <1>13, <1>3 DEF Publish
<1>14. CASE UNCHANGED vars
  BY <1>14, <1>3 DEF vars
<1> QED
  BY <1>4, <1>5, <1>6, <1>7, <1>8, <1>9, <1>10, <1>11, <1>12, <1>13, <1>14
  DEF Next, Surroundings, Extract, Scheduled, Started, ExtractStep, InterpretStep

-----------------------------------------------------------------------------
\* There is one record a run is at.
LEMMA OneCurrent ==
  ASSUME queue \subseteq Events, NEW e \in Events, NEW f \in Events, Current(e), Current(f)
  PROVE  e = f
<1>1. e \in Nat /\ f \in Nat /\ e <= f /\ f <= e
  BY Constants DEF Current
<1> QED
  BY <1>1

\* A reading is taken down whole before the first row of the next is put up,
\* and the rows put up are all of the text and by the version at hand.
LEMMA ViewsKept ==
  ASSUME TypeOK, Queued, OneView, Replacing, [Next]_vars
  PROVE  OneView' /\ Replacing'
<1> USE DEF run, extraction, interpretation, archive, failures
<1>1. ASSUME readings' = readings, pc' # "insert"
      PROVE  OneView' /\ Replacing'
  BY <1>1 DEF OneView, Replacing
<1>2. ASSUME UNCHANGED <<readings, version, pc, queue, row>>
      PROVE  OneView' /\ Replacing'
  <2>1. queue \subseteq Events /\ \A e \in Events : Source(e)' = Source(e)
    BY <1>2, SameSource DEF TypeOK, ExtractionTypes
  <2> QED
    BY <1>2, <2>1 DEF OneView, Replacing, Current
<1>3. ASSUME NEW e \in Events, Replace(e)
      PROVE  OneView' /\ Replacing'
  <2>1. readings' = {r \in readings : r.event # e} /\ queue' = queue /\ Current(e)
    BY <1>3 DEF Replace
  <2>2. OneView'
    BY <2>1 DEF OneView
  <2>3. \A f \in queue' : Current(f)' => f = e
    BY <2>1, OneCurrent DEF Current, TypeOK, ExtractionTypes
  <2> QED
    BY <2>1, <2>2, <2>3 DEF Replacing
<1>4. ASSUME NEW e \in Events, NEW k \in found, Insert(e, k)
      PROVE  OneView' /\ Replacing'
  <2> DEFINE new == [event |-> e, kind |-> k, text |-> Source(e), version |-> version]
  <2>1. /\ readings' = readings \union {new} /\ Current(e) /\ row' = row /\ version' = version
        /\ pc = "insert" /\ (pc' = "insert" => queue' = queue)
    BY <1>4 DEF Insert
  <2>2. new.event = e /\ new.text = Source(e) /\ new.version = version
    OBVIOUS
  <2> HIDE DEF new
  <2>3. \A r \in readings' : r.event = e => r.text = Source(e) /\ r.version = version
    BY <2>1, <2>2 DEF Replacing, Current
  <2>4. \A r \in readings' : r.event # e => r \in readings
    BY <2>1, <2>2
  <2>5. OneView'
    BY <2>3, <2>4 DEF OneView
  <2>6. ASSUME pc' = "insert", NEW f \in queue', Current(f)'
        PROVE  f = e
    BY <2>1, <2>6, OneCurrent DEF Current, TypeOK, ExtractionTypes
  <2>7. Source(e)' = Source(e)
    BY <2>1, SameSource
  <2>8. Replacing'
    BY <2>1, <2>3, <2>6, <2>7 DEF Replacing
  <2> QED
    BY <2>5, <2>8
<1>5. ASSUME NEW records \in BOOLEAN, Clear(records)
      PROVE  OneView' /\ Replacing'
  BY <1>5 DEF Clear, OneView, Replacing
<1>6. ASSUME NEW e \in Events, Skip(e) \/ Ask(e) \/ InterpretFails(e)
      PROVE  OneView' /\ Replacing'
  BY <1>6, <1>1 DEF Skip, Ask, InterpretFails
<1>7. ASSUME NEW e \in Events, UNCHANGED interpretation,
             Download(e) \/ Unreadable(e) \/ Fault(e) \/ Attach(e) \/ Update(e)
      PROVE  OneView' /\ Replacing'
  BY <1>7, <1>1 DEF Download, Unreadable, Fault, Fail, Attach, Update
<1>8. ASSUME NEW f \in BOOLEAN, NEW t \in {0, 1},
             (StartExtract(f, t) /\ UNCHANGED interpretation) \/ StartInterpret(f)
      PROVE  OneView' /\ Replacing'
  BY <1>8, <1>1 DEF StartExtract, StartInterpret
<1>9. CASE \/ /\ BeginPut \/ FinishPut \/ Put \/ BeginPutText \/ FinishPutText \/ PutText \/ EndExtract
              /\ UNCHANGED interpretation
           \/ EndInterpret \/ Crash \/ Release
  BY <1>9, <1>1 DEF BeginPut, FinishPut, Put, BeginPutText, FinishPutText, PutText, Open, Close, Have,
                    EndExtract, EndInterpret, Crash, Release
<1>10. ASSUME NEW f \in Files, NEW a \in Answers, Publish(f, a), UNCHANGED interpretation
       PROVE  OneView' /\ Replacing'
  BY <1>10, <1>2 DEF Publish
<1>11. ASSUME NEW e \in Events, NEW l \in Listings[e], Ingest(e, l), UNCHANGED interpretation
       PROVE  OneView' /\ Replacing'
  BY <1>11, <1>1 DEF Ingest
<1>12. CASE UNCHANGED vars
  BY <1>12, <1>2 DEF vars
<1> QED
  BY <1>3, <1>4, <1>5, <1>6, <1>7, <1>8, <1>9, <1>10, <1>11, <1>12
  DEF Next, Surroundings, Extract, Scheduled, Started, ExtractStep, InterpretStep

-----------------------------------------------------------------------------
LEMMA Inductive == IInv /\ [Next]_vars => IInv'
BY TypesKept, QueuedKept, InHandKept, ExtractedKept, ViewsKept DEF IInv

LEMMA Invariance == Spec => []IInv
BY InitHolds, Inductive, PTL DEF Spec

\* Every variable keeps its type: only records with text are ever read.
THEOREM DocumentTypes == Spec => []TypeOK
<1>1. IInv => TypeOK
  BY DEF IInv
<1> QED
  BY <1>1, Invariance, PTL

\* A record marked extracted has its file, its text and its attachment, through
\* kills, failed writes, forced runs, revisions and clears, in a store that writes
\* whole; in one that writes in place, all of it but objects whose write was cut short.
THEOREM ExtractedRecordsKept == Spec => []ExtractedIsKept
<1>1. IInv => ExtractedIsKept
  BY DEF IInv
<1> QED
  BY <1>1, Invariance, PTL

\* The readings of a record are of one text and by one version, whatever is
\* killed half way, re-extracted, revised or released.
THEOREM ReadingsAreOneView == Spec => []OneView
<1>1. IInv => OneView
  BY DEF IInv
<1> QED
  BY <1>1, Invariance, PTL

-----------------------------------------------------------------------------
\* The failure row of a file names the link it first failed under.  If that link
\* rests, so does the row, and for as long.
Waits ==
  /\ \A e \in Events, f \in Files :
       /\ failed[e][f] = None <=> first[e][f] = None
       /\ failed[e][f] # None => failed[e][f].url = first[e][f]
  /\ \A e \in Events, u \in Url :
       first[e][u.file] = u => resting[e][u] = 0 \/ resting[e][u] <= failed[e][u.file].wait

\* The links still to be opened by an unattended run have rested, but for those
\* whose file first failed under another.
Rested ==
  pc \in {"extract"} \union Writing /\ ~forced =>
    \A e \in queue :
      LET u == row[e].listing.url
      IN  first[e][u.file] = u => resting[e][u] = 0

BInv == IInv /\ Waits /\ Rested

\* A failure is filed under the first link of the file.
LEMMA FailWaits ==
  ASSUME TypeOK, Waits, NEW e \in Events, row[e] # None, NEW wait \in Nat, Fail(e, wait)
  PROVE  /\ Waits'
         /\ \A g \in Events : g # e => resting'[g] = resting[g] /\ first'[g] = first[g]
<1> DEFINE url == row[e].listing.url
           f == FileOf(e)
           old == failed[e][f]
<1>1. url \in Url /\ f = url.file /\ f \in Files
  BY RowThere DEF FileOf, preferDocumentUrl
<1>2. \A g \in Events : g # e =>
        failed'[g] = failed[g] /\ resting'[g] = resting[g] /\ first'[g] = first[g]
  BY DEF Fail, TypeOK, ExtractionTypes
<1>3. \A g \in Files : g # f => failed'[e][g] = failed[e][g] /\ first'[e][g] = first[e][g]
  BY <1>1 DEF Fail, TypeOK, ExtractionTypes
<1>4. \A u \in Url : resting'[e][u] = IF u = url THEN wait
                                      ELSE IF u.file = f THEN 0 ELSE resting[e][u]
  <2>1. resting'[e] = LastFailed(e, wait)
    BY DEF Fail, TypeOK, ExtractionTypes
  <2> QED
    BY <2>1 DEF LastFailed
<1>5. first'[e][f] = IF first[e][f] = None THEN url ELSE first[e][f]
  BY <1>1 DEF Fail, TypeOK, ExtractionTypes
<1>6. failed'[e][f] = IF old = None THEN [url |-> url, wait |-> wait] ELSE [old EXCEPT !.wait = wait]
  BY <1>1 DEF Fail, TypeOK, ExtractionTypes
<1>7. old = None <=> first[e][f] = None
  BY <1>1 DEF Waits
<1>8. /\ failed'[e][f] # None /\ first'[e][f] # None
      /\ failed'[e][f].url = first'[e][f] /\ failed'[e][f].wait = wait
  <2>1. CASE old = None
    <3>1. [url |-> url, wait |-> wait] \in Failure
      BY <1>1 DEF Failure
    <3> HIDE DEF url, f, old
    <3> QED
      BY <1>1, <1>5, <1>6, <1>7, <2>1, <3>1, Constants
  <2>2. CASE old # None
    <3>1. old \in Failure
      BY <1>1, <2>2 DEF TypeOK, ExtractionTypes
    <3>2. old.url = first[e][f]
      BY <1>1, <2>2 DEF Waits
    <3> HIDE DEF url, f, old
    <3>3. /\ [old EXCEPT !.wait = wait] \in Failure /\ [old EXCEPT !.wait = wait].url = old.url
          /\ [old EXCEPT !.wait = wait].wait = wait
      BY <3>1 DEF Failure
    <3> QED
      BY <1>5, <1>6, <1>7, <2>2, <3>2, <3>3, Constants
  <2> QED
    BY <2>1, <2>2
<1> HIDE DEF url, f, old
<1>9. ASSUME NEW g \in Events, NEW h \in Files
      PROVE  /\ failed'[g][h] = None <=> first'[g][h] = None
             /\ failed'[g][h] # None => failed'[g][h].url = first'[g][h]
  <2>1. CASE g = e /\ h = f
    BY <1>8, <2>1
  <2>2. CASE ~(g = e /\ h = f)
    BY <1>2, <1>3, <2>2 DEF Waits
  <2> QED
    BY <2>1, <2>2
<1>10. ASSUME NEW g \in Events, NEW u \in Url, first'[g][u.file] = u
       PROVE  resting'[g][u] = 0 \/ resting'[g][u] <= failed'[g][u.file].wait
  <2>0. u.file \in Files
    BY DEF Url
  <2>1. CASE g # e
    BY <1>2, <1>10, <2>1 DEF Waits
  <2>2. CASE g = e /\ u.file = f
    BY <1>4, <1>8, <2>2
  <2>3. CASE g = e /\ u.file # f
    <3>1. /\ first[e][u.file] = u /\ resting'[e][u] = resting[e][u]
          /\ failed'[e][u.file] = failed[e][u.file]
      BY <1>1, <1>3, <1>4, <1>10, <2>0, <2>3
    <3> QED
      BY <2>3, <3>1 DEF Waits
  <2> QED
    BY <2>1, <2>2, <2>3
<1> QED
  BY <1>2, <1>9, <1>10 DEF Waits

\* A run starts over links that have rested, and time has passed for the others.
LEMMA StartWaits ==
  ASSUME TypeOK, Waits, NEW f \in BOOLEAN, NEW t \in {0, 1}, StartExtract(f, t)
  PROVE  Waits' /\ Rested'
<1>1. \A w, r \in Nat :
        /\ Later(w, t) \in Nat /\ Later(0, t) = 0
        /\ r <= w => Later(r, t) <= Later(w, t)
        /\ r <= w /\ ~(w > t) => Later(r, t) = 0
  BY DEF Later
<1>2. \A e \in Events, u \in Url :
        resting'[e][u] = Later(resting[e][u], t) /\ resting[e][u] \in Nat /\ u.file \in Files
  <2>1. \A e \in Events, u \in Url : resting'[e][u] = Later(resting[e][u], t)
    BY DEF StartExtract
  <2>2. \A e \in Events, u \in Url : resting[e][u] \in Nat
    BY DEF TypeOK, ExtractionTypes
  <2>3. \A u \in Url : u.file \in Files
    BY DEF Url
  <2> QED
    BY <2>1, <2>2, <2>3
<1>3. ASSUME NEW e \in Events, NEW g \in Files, failed[e][g] # None
      PROVE  /\ failed'[e][g] # None /\ failed'[e][g].url = failed[e][g].url
             /\ failed[e][g].wait \in Nat
             /\ failed'[e][g].wait = Later(failed[e][g].wait, t)
  <2> DEFINE left == Later(failed[e][g].wait, t)
             new == [failed[e][g] EXCEPT !.wait = left]
  <2>1. failed[e][g] \in Failure /\ failed[e][g].wait \in Nat
    BY <1>3 DEF TypeOK, ExtractionTypes, Failure
  <2>2. left \in Nat
    BY <1>1, <2>1 DEF Later
  <2>3. failed'[e][g] = new
    BY <1>3 DEF StartExtract
  <2> HIDE DEF left
  <2>4. new \in Failure /\ new.url = failed[e][g].url /\ new.wait = left
    BY <2>1, <2>2 DEF Failure
  <2> HIDE DEF new
  <2> QED
    BY <2>1, <2>4, <2>3, Constants DEF left
<1>4. first' = first /\ \A e \in Events, g \in Files : failed[e][g] = None => failed'[e][g] = None
  BY DEF StartExtract, failures
\* A link that rests and is the first of its file: its row waits for as long.
<1>5. ASSUME NEW e \in Events, NEW u \in Url, first[e][u.file] = u
      PROVE  /\ failed[e][u.file] # None /\ failed[e][u.file].url = u
             /\ resting[e][u] = 0 \/ resting[e][u] <= failed[e][u.file].wait
  BY <1>2, <1>5, Constants DEF Waits
<1>6. Waits'
  <2>1. ASSUME NEW e \in Events, NEW g \in Files
        PROVE  /\ failed'[e][g] = None <=> first'[e][g] = None
               /\ failed'[e][g] # None => failed'[e][g].url = first'[e][g]
    BY <1>3, <1>4 DEF Waits
  <2>2. ASSUME NEW e \in Events, NEW u \in Url, first'[e][u.file] = u
        PROVE  resting'[e][u] = 0 \/ resting'[e][u] <= failed'[e][u.file].wait
    <3>1. first[e][u.file] = u
      BY <1>4, <2>2
    <3>2. failed[e][u.file] # None /\ (resting[e][u] = 0 \/ resting[e][u] <= failed[e][u.file].wait)
      BY <1>5, <3>1
    <3>3. /\ failed[e][u.file].wait \in Nat
          /\ failed'[e][u.file].wait = Later(failed[e][u.file].wait, t)
      BY <1>2, <1>3, <3>2
    <3> QED
      BY <1>1, <1>2, <3>2, <3>3
  <2> QED
    BY <2>1, <2>2 DEF Waits
<1>7. ASSUME ~f, NEW e \in queue', first[e][row[e].listing.url.file] = row[e].listing.url
      PROVE  resting'[e][row[e].listing.url] = 0
  <2> DEFINE u == row[e].listing.url
  <2>1. e \in Events /\ row[e] # None /\ ~BackingOff(e, t)
    BY <1>7 DEF StartExtract, Newest, Pending
  <2>2. u \in Url
    BY <2>1, RowThere
  <2>3. \A g \in Files : failed[e][g] # None /\ failed[e][g].url = u => ~(failed[e][g].wait > t)
    BY <2>1 DEF BackingOff
  <2>4. first[e][u.file] = u
    BY <1>7
  <2> HIDE DEF u
  <2>5. /\ failed[e][u.file] # None /\ failed[e][u.file].url = u
        /\ resting[e][u] = 0 \/ resting[e][u] <= failed[e][u.file].wait
    BY <1>5, <2>1, <2>2, <2>4
  <2>6. failed[e][u.file].wait \in Nat /\ ~(failed[e][u.file].wait > t)
    BY <1>2, <1>3, <2>1, <2>2, <2>3, <2>5
  <2>7. resting'[e][u] = 0
    BY <1>1, <1>2, <2>1, <2>2, <2>5, <2>6
  <2> QED
    BY <2>7 DEF u
<1>8. row' = row /\ forced' = f
  BY DEF StartExtract
<1> QED
  BY <1>4, <1>6, <1>7, <1>8 DEF Rested

\* And so through every step.
LEMMA RestKept ==
  ASSUME IInv, Waits, Rested, [Next]_vars
  PROVE  Waits' /\ Rested'
<1> USE DEF run, extraction, interpretation, archive, failures, IInv
<1>1. ASSUME UNCHANGED failures, pc' \notin {"extract"} \union Writing
      PROVE  Waits' /\ Rested'
  BY <1>1 DEF Waits, Rested
<1>2. ASSUME UNCHANGED <<failures, row, queue, forced>>,
             pc' \in {"extract"} \union Writing => pc \in {"extract"} \union Writing
      PROVE  Waits' /\ Rested'
  BY <1>2 DEF Waits, Rested
<1>3. ASSUME NEW e \in Events, NEW wait \in Nat, Fail(e, wait), row[e] # None,
             pc \in {"extract"} \union Writing
      PROVE  Waits' /\ Rested'
  <2>1. Waits' /\ \A g \in Events : g # e => resting'[g] = resting[g] /\ first'[g] = first[g]
    BY <1>3, FailWaits
  <2>2. queue' = queue \ {e} /\ row' = row /\ forced' = forced /\ queue \subseteq Events
    BY <1>3 DEF Fail, TypeOK, ExtractionTypes
  <2> QED
    BY <1>3, <2>1, <2>2 DEF Rested
<1>4. ASSUME NEW f \in BOOLEAN, NEW t \in {0, 1}, StartExtract(f, t)
      PROVE  Waits' /\ Rested'
  BY <1>4, StartWaits
<1>5. ASSUME NEW e \in Events, Download(e) \/ Attach(e)
      PROVE  Waits' /\ Rested'
  BY <1>5, <1>2 DEF Download, Attach, Writing
<1>6. ASSUME NEW e \in Events, Unreadable(e)
      PROVE  Waits' /\ Rested'
  <2>1. row[e] # None /\ pc = "extract" /\ (Fail(e, NotFoundWait) \/ Fail(e, 1))
    BY <1>6 DEF Unreadable, Current, Queued
  <2> QED
    BY <1>3, <2>1, Constants
<1>7. ASSUME NEW e \in Events, Fault(e)
      PROVE  Waits' /\ Rested'
  <2>1. row[e] # None /\ pc \in {"extract"} \union Writing /\ Fail(e, 1)
    BY <1>7 DEF Fault, Current, Queued, Writing
  <2> QED
    BY <1>3, <2>1
<1>8. CASE BeginPut \/ FinishPut \/ Put \/ BeginPutText \/ FinishPutText \/ PutText
  BY <1>8, <1>2 DEF BeginPut, FinishPut, Put, BeginPutText, FinishPutText, PutText, Open, Close, Have,
                    Writing
<1>9. ASSUME NEW e \in Events, Update(e)
      PROVE  Waits' /\ Rested'
  <2>1. /\ pc = "update" /\ queue' = queue \ {e} /\ queue \subseteq Events
        /\ UNCHANGED <<failures, forced>>
        /\ \A g \in Events : g # e => row'[g] = row[g]
    BY <1>9 DEF Update, TypeOK, ExtractionTypes
  <2> QED
    BY <2>1 DEF Waits, Rested, Writing
<1>10. CASE EndExtract \/ EndInterpret \/ Crash
  BY <1>10, <1>1 DEF EndExtract, EndInterpret, Crash, Writing
<1>11. ASSUME NEW f \in BOOLEAN, StartInterpret(f)
       PROVE  Waits' /\ Rested'
  BY <1>11, <1>1 DEF StartInterpret, Writing
<1>12. ASSUME NEW e \in Events,
              Skip(e) \/ Ask(e) \/ Replace(e) \/ InterpretFails(e) \/ \E k \in found : Insert(e, k)
       PROVE  Waits' /\ Rested'
  BY <1>12, <1>1 DEF Skip, Ask, Replace, InterpretFails, Insert, Writing
<1>13. CASE Release
  BY <1>13, <1>1 DEF Release, Writing
<1>14. ASSUME NEW records \in BOOLEAN, Clear(records)
       PROVE  Waits' /\ Rested'
  <2>1. CASE records
    <3>1. /\ \A e \in Events, f \in Files : failed'[e][f] = None /\ first'[e][f] = None
          /\ \A e \in Events, u \in Url : resting'[e][u] = 0
          /\ pc' = "idle"
      BY <1>14, <2>1 DEF Clear, ForgetRecords
    <3> QED
      BY <3>1 DEF Waits, Rested, Writing
  <2>2. CASE ~records
    BY <1>14, <2>2, <1>1 DEF Clear, Writing
  <2> QED
    BY <2>1, <2>2
<1>15. ASSUME NEW f \in Files, NEW a \in Answers, Publish(f, a)
       PROVE  Waits' /\ Rested'
  BY <1>15, <1>2 DEF Publish
<1>16. ASSUME NEW e \in Events, NEW l \in Listings[e], Ingest(e, l)
       PROVE  Waits' /\ Rested'
  BY <1>16, <1>1 DEF Ingest, Writing
<1>17. CASE UNCHANGED vars
  BY <1>17, <1>2 DEF vars
<1> QED
  BY <1>4, <1>5, <1>6, <1>7, <1>8, <1>9, <1>10, <1>11, <1>12, <1>13, <1>14, <1>15, <1>16, <1>17
  DEF Next, Surroundings, Extract, Scheduled, Started, ExtractStep, InterpretStep

\* An unattended run opens no link under which the record's file first failed, and
\* last failed too, within the backoff of that failure, for any waits, limits,
\* listings and changes.
THEOREM BackoffKept == Spec => []BackoffHolds
<1>1. Init => BInv
  <2>1. Init => Waits
    BY DEF Init, ExtractionInit, Waits
  <2>2. Init => Rested
    BY DEF Init, ExtractionInit, Rested, Writing
  <2> QED
    BY <2>1, <2>2, InitHolds DEF BInv
<1>2. BInv /\ [Next]_vars => BInv'
  BY Inductive, RestKept DEF BInv
<1>3. BInv => BackoffHolds
  <2> SUFFICES ASSUME BInv, pc = "extract", ~forced, NEW e \in queue
               PROVE  LET u == row[e].listing.url
                      IN  resting[e][u] > 0 => first[e][u.file] # u
    BY DEF BackoffHolds
  <2>1. first[e][row[e].listing.url.file] = row[e].listing.url => resting[e][row[e].listing.url] = 0
    BY DEF BInv, Rested
  <2> QED
    BY <2>1
<1> QED
  BY <1>1, <1>2, <1>3, PTL DEF Spec

-----------------------------------------------------------------------------
\* A reading kept in full is still there, until it is replaced or cleared.
WholeThere ==
  \A e \in Events : whole[e] # None =>
    \E r \in readings : r.event = e /\ r.text = whole[e].text /\ r.version = whole[e].version

LEMMA WholeKept ==
  ASSUME TypeOK, WholeThere, [Next]_vars
  PROVE  WholeThere'
<1> USE DEF run, extraction, interpretation, archive, failures
<1>1. ASSUME UNCHANGED <<readings, whole>>
      PROVE  WholeThere'
  BY <1>1 DEF WholeThere
<1>2. ASSUME NEW e \in Events, Replace(e)
      PROVE  WholeThere'
  <2>1. /\ readings' = {r \in readings : r.event # e}
        /\ whole'[e] = None
        /\ \A g \in Events : g # e => whole'[g] = whole[g]
    BY <1>2 DEF Replace, TypeOK
  <2> QED
    BY <2>1 DEF WholeThere
<1>3. ASSUME NEW e \in Events, NEW k \in found, Insert(e, k)
      PROVE  WholeThere'
  <2> DEFINE new == [event |-> e, kind |-> k, text |-> Source(e), version |-> version]
             last == [text |-> Source(e), version |-> version]
  <2>1. readings' = readings \union {new} /\ (whole' = whole \/ whole' = [whole EXCEPT ![e] = last])
    BY <1>3 DEF Insert
  <2>2. new.event = e /\ new.text = last.text /\ new.version = last.version
    OBVIOUS
  <2> HIDE DEF new, last
  <2>3. ASSUME NEW g \in Events, whole'[g] # None
        PROVE  \E r \in readings' : r.event = g /\ r.text = whole'[g].text /\ r.version = whole'[g].version
    <3>1. CASE whole'[g] = whole[g]
      BY <2>1, <2>3, <3>1 DEF WholeThere
    <3>2. CASE g = e /\ whole'[g] = last
      BY <2>1, <2>2, <3>2
    <3> QED
      BY <2>1, <3>1, <3>2 DEF TypeOK
  <2> QED
    BY <2>3 DEF WholeThere
<1>4. ASSUME NEW records \in BOOLEAN, Clear(records)
      PROVE  WholeThere'
  BY <1>4 DEF Clear, WholeThere
<1>5. ASSUME NEW e \in Events, Skip(e) \/ Ask(e) \/ InterpretFails(e)
      PROVE  WholeThere'
  BY <1>5, <1>1 DEF Skip, Ask, InterpretFails
<1>6. ASSUME NEW f \in BOOLEAN, StartInterpret(f)
      PROVE  WholeThere'
  BY <1>6, <1>1 DEF StartInterpret
<1>7. CASE EndInterpret \/ Crash \/ Release
  BY <1>7, <1>1 DEF EndInterpret, Crash, Release
<1>8. CASE UNCHANGED interpretation
  BY <1>8, <1>1
<1>9. CASE UNCHANGED vars
  BY <1>9, <1>1 DEF vars
<1> QED
  BY <1>2, <1>3, <1>4, <1>5, <1>6, <1>7, <1>8, <1>9 DEF Next, InterpretStep

\* Nothing but asking leads from the choice of a record to its replacement.
LEMMA OnlyAsking ==
  ASSUME [Next]_vars, pc = "interpret", pc' = "replace"
  PROVE  \E e \in Events : Ask(e)
<1> USE DEF run, extraction, interpretation, archive, failures
<1>1. ~(Surroundings \/ Extract)
  BY DEF Surroundings, Publish, Ingest, Extract, ExtractStep, StartExtract, Download, Unreadable,
         Attach, Update, BeginPut, FinishPut, Put, BeginPutText, FinishPutText, PutText, Open, Close,
         Have, Scheduled, Started, EndExtract, Fault, Fail
<1>2. ~ \E f \in BOOLEAN : StartInterpret(f) \/ Clear(f)
  BY DEF StartInterpret, Clear
<1>3. ~ \E e \in Events : Skip(e) \/ Replace(e) \/ InterpretFails(e) \/ \E k \in found : Insert(e, k)
  BY DEF Skip, Replace, InterpretFails, Insert
<1>4. ~(EndInterpret \/ Crash \/ Release) /\ ~UNCHANGED vars
  BY DEF EndInterpret, Crash, Release, vars
<1> QED
  BY <1>1, <1>2, <1>3, <1>4 DEF Next, InterpretStep

\* An unforced run asks only about what it has not read in full as it stands,
\* for any texts, kinds, limits and releases.
THEOREM NothingPaidTwice == Spec => PaidOnce
<1> DEFINE Once == \A e \in Events :
                     pc = "interpret" /\ pc' = "replace" /\ Current(e) /\ ~forced =>
                       whole[e] # [text |-> Source(e), version |-> version]
<1>1. Init => WholeThere
  BY DEF Init, WholeThere
<1>2. IInv /\ WholeThere /\ [Next]_vars => WholeThere'
  BY WholeKept DEF IInv
<1>3. ASSUME IInv, WholeThere, [Next]_vars
      PROVE  Once
  <2> SUFFICES ASSUME NEW e \in Events, pc = "interpret", pc' = "replace", Current(e), ~forced,
                      whole[e] = [text |-> Source(e), version |-> version]
               PROVE  FALSE
    OBVIOUS
  <2>1. PICK g \in Events : Ask(g)
    BY <1>3, OnlyAsking
  <2>2. g = e /\ ~isCurrent(e)
    BY <1>3, <2>1, OneCurrent DEF IInv, Ask, TypeOK, ExtractionTypes
  <2>3. whole[e] # None
    <3>1. Source(e) \in Texts /\ version \in Nat
      BY <1>3 DEF IInv, Queued, Reads, Current, TypeOK
    <3> QED
      BY <3>1, InterpretationConstants
  <2>4. whole[e].text = Source(e) /\ whole[e].version = version
    OBVIOUS
  <2> QED
    BY <1>3, <2>2, <2>3, <2>4 DEF WholeThere, isCurrent
<1> QED
  BY <1>1, <1>2, <1>3, Invariance, PTL DEF Spec, PaidOnce
=============================================================================
