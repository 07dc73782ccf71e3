---------------------- MODULE TranscriptTransferProofs ----------------------
(***************************************************************************)
(* For any posts, edits, uploads, imports and failures: the manifest is    *)
(* complete, receipts are honest, and no row ever reverts.                 *)
(*                                                                         *)
(* The argument for the rows: every page anywhere holds versions the       *)
(* publisher really served, and the upsert refuses what is stamped before  *)
(* the row; so whatever the order of arrival, no row goes back in time.    *)
(***************************************************************************)
EXTENDS TranscriptTransferProps, TLAPS

\* Whatever the manifest or an upload refers to has been put.
Stored == manifest \subseteq objects /\ refs \subseteq objects

\* What the publisher serves and parses is on record.
PostsTold == \A p \in Posts : post[p] # None /\ post[p].content # Malformed => post[p] \in said[p]

\* A page of versions the publisher served.
Told(pages) == \A b \in pages, p \in Posts : b[p] # None => b[p] \in said[p]

PagesTold == Told(fetched) /\ Told(toPut) /\ Told(objects) /\ Told(receipts)

\* A row says what a version the publisher served says.
RowsTold == \A p \in Posts : row[p] # None => Says(row[p]) \in said[p]

IInv == TypeOK /\ Stored /\ PostsTold /\ PagesTold /\ RowsTold /\ ReceiptsHonest

-----------------------------------------------------------------------------
(* The upsert. *)

\* The markers are apart.
LEMMA Constants ==
  /\ None \notin Row /\ None \notin Fit /\ None \notin Version
  /\ Malformed \notin Contents /\ Fit \subseteq Version
BY TransferConstants DEF TransferConstants, Fit, Version

\* The upsert ends with the later of the row and the version, and stores a version whole.
LEMMA UpsertLatest ==
  ASSUME NEW r \in Row \union {None}, NEW v \in Fit
  PROVE  /\ Upserted(r, v) \in Row
         /\ Upserted(r, v).modified >= v.modified
         /\ \/ /\ Upserted(r, v).modified = v.modified /\ Upserted(r, v).content = v.content
               /\ Says(Upserted(r, v)) = v
               /\ r # None => r.modified <= v.modified
            \/ r # None /\ Upserted(r, v) = r /\ v.modified < r.modified
<1>1. CASE r = None
  BY <1>1 DEF Upserted, Row, Fit, Says
<1>2. CASE r # None /\ v.modified < r.modified
  BY <1>2 DEF Upserted, Stale, Row, Fit
<1>3. CASE r # None /\ ~(v.modified < r.modified)
  <2>1. r \in Row
    BY <1>3
  <2>2. ~Stale(r, v)
    BY <1>3 DEF Stale
  <2>3. v.modified >= r.modified
    BY <1>3, <2>1 DEF Row, Fit
  <2> QED
    BY <1>3, <2>1, <2>2, <2>3 DEF Upserted, Row, Fit, Says
<1> QED
  BY <1>1, <1>2, <1>3

\* Upserting a served version into a row of a served version moves the row to a served
\* version that is stamped no earlier, or leaves it.
LEMMA UpsertAdvances ==
  ASSUME TypeOK, RowsTold, NEW p \in Posts, NEW v \in Fit, v \in said[p]
  PROVE  LET u == Upserted(row[p], v) IN
         /\ u \in Row
         /\ u.modified >= v.modified
         /\ Says(u) \in said[p]
         /\ u # row[p] => row[p] = None \/ row[p].modified <= u.modified
<1> DEFINE u == Upserted(row[p], v)
<1>1. row[p] \in Row \union {None}
  BY DEF TypeOK
<1>2. /\ u \in Row /\ u.modified >= v.modified
      /\ \/ /\ u.modified = v.modified /\ Says(u) = v
            /\ row[p] # None => row[p].modified <= v.modified
         \/ row[p] # None /\ u = row[p]
  BY <1>1, UpsertLatest
<1> HIDE DEF u
<1>3. Says(u) \in said[p]
  BY <1>2 DEF RowsTold
<1> QED
  BY <1>2, <1>3 DEF u

-----------------------------------------------------------------------------
(* The steps. *)

\* Nothing has been said, fetched or imported yet.
LEMMA InitHolds == Init => IInv
<1> SUFFICES ASSUME Init PROVE IInv
  OBVIOUS
<1>1. /\ post \in [Posts -> Version \union {None}] /\ said \in [Posts -> SUBSET Fit]
      /\ row \in [Posts -> Row \union {None}]
  BY DEF Init, NoRows
<1>2. TypeOK
  BY <1>1 DEF Init, TypeOK
<1>3. PostsTold /\ RowsTold
  BY DEF Init, PostsTold, RowsTold, NoRows
<1>4. Stored /\ PagesTold /\ ReceiptsHonest
  BY DEF Init, Stored, PagesTold, Told, ReceiptsHonest
<1> QED
  BY <1>2, <1>3, <1>4 DEF IInv

\* What was read of the manifest is a part of it.
LEMMA ReadPart == ASSUME NEW known \in {manifest, {}} PROVE known \subseteq manifest
OBVIOUS

\* Every step keeps the types.
LEMMA StepTypes ==
  ASSUME IInv, [Next]_vars
  PROVE  TypeOK'
<1> USE DEF publisher, laptop, store, site, budget
<1> TypeOK
  BY DEF IInv
<1>1. ASSUME NEW p \in Posts, NEW c \in Contents \union {Malformed}, Save(p, c) PROVE TypeOK'
  <2>1. stamp' \in Nat /\ edits' \in Nat
    BY <1>1 DEF Save, TypeOK
  <2>2. [modified |-> stamp', content |-> c] \in Version
    BY <2>1 DEF Version
  <2>3. post' \in [Posts -> Version \union {None}]
    BY <1>1, <2>2 DEF Save, TypeOK
  <2>4. c # Malformed => [modified |-> stamp', content |-> c] \in Fit
    BY <2>1 DEF Fit
  <2>5. said' \in [Posts -> SUBSET Fit]
    <3>1. CASE c = Malformed
      BY <1>1, <3>1 DEF Save, TypeOK
    <3>2. CASE c # Malformed
      BY <1>1, <2>4, <3>2 DEF Save, TypeOK
    <3> QED
      BY <3>1, <3>2
  <2> QED
    BY <1>1, <2>1, <2>3, <2>5 DEF Save, TypeOK
<1>2. ASSUME NEW p \in Posts, Remove(p) PROVE TypeOK'
  BY <1>2 DEF Remove, TypeOK
<1>3. ASSUME NEW p \in Posts, Poll(p) PROVE TypeOK'
  <2>1. post[p] \in Fit
    BY <1>3 DEF Poll, TypeOK, Version, Fit
  <2>2. Upserted(row[p], post[p]) \in Row
    BY <2>1, UpsertLatest DEF TypeOK
  <2> QED
    BY <1>3, <2>2 DEF Poll, TypeOK
<1>4. ASSUME NEW S \in SUBSET Posts, Fetch(S) PROVE TypeOK'
  <2>1. \A p \in S : post[p] \in Fit \union {None}
    BY <1>4 DEF Fetch, TypeOK, Version, Fit
  <2>2. [p \in Posts |-> IF p \in S THEN post[p] ELSE None] \in Page
    BY <2>1 DEF Page
  <2> QED
    BY <1>4, <2>2 DEF Fetch, TypeOK
<1>5. CASE Forget
  BY <1>5 DEF Forget, TypeOK
<1>6. CASE StartUpload
  <2>1. PICK known \in {manifest, {}} :
          ReadManifest(known) /\ refs' = known /\ toPut' = fetched \ known
    BY <1>6 DEF StartUpload
  <2>2. faults' \in Nat
    BY <2>1 DEF ReadManifest, TypeOK
  <2>3. refs' \subseteq Page /\ toPut' \subseteq Page
    BY <2>1 DEF TypeOK
  <2> QED
    BY <1>6, <2>2, <2>3 DEF StartUpload, TypeOK
<1>7. ASSUME NEW b \in toPut, Put(b) PROVE TypeOK'
  BY <1>7 DEF Put, TypeOK
<1>8. CASE Publish
  BY <1>8 DEF Publish, StopUpload, TypeOK
<1>9. CASE UploadFails
  <2>1. refs' = {} /\ toPut' = {} /\ uploaded' = FALSE /\ upPc' = "idle"
    BY <1>9 DEF UploadFails, StopUpload
  <2>2. refs' \subseteq Page /\ toPut' \subseteq Page /\ uploaded' \in BOOLEAN
    BY <2>1, Zenon
  <2>3. faults' \in Nat
    BY <1>9 DEF UploadFails, TypeOK
  <2> QED
    BY <1>9, <2>1, <2>2, <2>3 DEF UploadFails, StopUpload, TypeOK
<1>10. ASSUME NEW d \in BOOLEAN, StartImport(d) PROVE TypeOK'
  <2>1. PICK known \in {manifest, {}} : ReadManifest(known) /\ toImport' = known \ receipts
    BY <1>10 DEF StartImport
  <2>2. faults' \in Nat
    BY <2>1 DEF ReadManifest, TypeOK
  <2>3. toImport' \subseteq Page
    BY <2>1 DEF TypeOK
  <2> QED
    BY <1>10, <2>2, <2>3 DEF StartImport, TypeOK
<1>11. ASSUME NEW b \in toImport, ImportPage(b) PROVE TypeOK'
  <2>1. ASSUME NEW p \in Posts, b[p] # None PROVE Upserted(row[p], b[p]) \in Row
    <3>1. b[p] \in Fit /\ row[p] \in Row \union {None}
      BY <2>1 DEF TypeOK, Page
    <3> QED
      BY <3>1, UpsertLatest
  <2>2. RowsWith(b) \in [Posts -> Row \union {None}]
    BY <2>1 DEF RowsWith, TypeOK
  <2> QED
    BY <1>11, <2>2 DEF ImportPage, TypeOK
<1>12. CASE EndImport
  BY <1>12 DEF EndImport, StopImport, TypeOK
<1>13. CASE ImportFails
  <2>1. toImport' = {} /\ dry' = FALSE /\ imPc' = "idle"
    BY <1>13 DEF ImportFails, StopImport
  <2>2. toImport' \subseteq Page /\ dry' \in BOOLEAN
    BY <2>1, Zenon
  <2>3. faults' \in Nat
    BY <1>13 DEF ImportFails, TypeOK
  <2> QED
    BY <1>13, <2>1, <2>2, <2>3 DEF ImportFails, StopImport, TypeOK
<1>14. CASE Clear
  BY <1>14 DEF Clear, NoRows, TypeOK
<1>15. CASE UNCHANGED vars
  BY <1>15 DEF vars, TypeOK
<1>16. CASE Upload \/ Import
  BY <1>7, <1>8, <1>11, <1>12, <1>16 DEF Upload, Import
<1>17. CASE \E d \in BOOLEAN : StartImport(d)
  BY <1>10, <1>17
<1> QED
  BY <1>1, <1>2, <1>3, <1>4, <1>5, <1>6, <1>9, <1>13, <1>14, <1>15, <1>16, <1>17 DEF Next

\* Objects are put before they are referred to, and never go.
LEMMA StepStored ==
  ASSUME IInv, [Next]_vars
  PROVE  Stored'
<1> USE DEF store, laptop
<1> Stored
  BY DEF IInv
<1>1. CASE StartUpload
  BY <1>1 DEF StartUpload, Stored
<1>2. ASSUME NEW b \in toPut, Put(b) PROVE Stored'
  BY <1>2 DEF Put, Stored
<1>3. CASE Publish
  BY <1>3 DEF Publish, StopUpload, Stored
<1>4. CASE UploadFails
  BY <1>4 DEF UploadFails, StopUpload, Stored
<1>5. CASE \/ \E p \in Posts, c \in Contents \union {Malformed} : Save(p, c)
           \/ \E p \in Posts : Remove(p) \/ Poll(p)
           \/ \E S \in SUBSET Posts : Fetch(S)
           \/ Forget \/ Clear \/ Import \/ ImportFails \/ UNCHANGED vars
           \/ \E d \in BOOLEAN : StartImport(d)
  <2>1. UNCHANGED <<manifest, refs, objects>>
    BY <1>5 DEF Save, Remove, Poll, Fetch, Forget, Clear, Import, ImportPage, EndImport,
                ImportFails, StartImport, vars
  <2> QED
    BY <2>1 DEF Stored
<1> QED
  BY <1>1, <1>2, <1>3, <1>4, <1>5 DEF Next, Upload

\* What the publisher has said stays said, and what it serves it has said.
LEMMA StepPosts ==
  ASSUME IInv, [Next]_vars
  PROVE  PostsTold' /\ (\A p \in Posts : said[p] \subseteq said'[p])
<1> TypeOK /\ PostsTold
  BY DEF IInv
<1>1. ASSUME NEW p \in Posts, NEW c \in Contents \union {Malformed}, Save(p, c)
      PROVE  PostsTold' /\ (\A q \in Posts : said[q] \subseteq said'[q])
  <2> DEFINE new == [modified |-> stamp', content |-> c]
  <2>1. /\ post' = [post EXCEPT ![p] = new]
        /\ said' = [said EXCEPT ![p] = @ \union (IF c = Malformed THEN {} ELSE {new})]
    BY <1>1 DEF Save
  <2>2. new.content = c
    OBVIOUS
  <2> HIDE DEF new
  <2>3. /\ said'[p] = said[p] \union (IF c = Malformed THEN {} ELSE {new})
        /\ \A q \in Posts : q # p => said'[q] = said[q]
    BY <2>1 DEF TypeOK
  <2>4. c # Malformed => new \in said'[p]
    BY <2>3, Zenon
  <2>5. \A q \in Posts : said[q] \subseteq said'[q]
    BY <2>3
  <2>6. ASSUME NEW q \in Posts, post'[q] # None, post'[q].content # Malformed
        PROVE  post'[q] \in said'[q]
    <3>1. CASE q = p
      BY <2>1, <2>2, <2>4, <2>6, <3>1 DEF TypeOK
    <3>2. CASE q # p
      <4>1. post'[q] = post[q]
        BY <2>1, <3>2 DEF TypeOK
      <4> QED
        BY <2>5, <2>6, <4>1 DEF PostsTold
    <3> QED
      BY <3>1, <3>2
  <2> QED
    BY <2>5, <2>6 DEF PostsTold
<1>2. ASSUME NEW p \in Posts, Remove(p)
      PROVE  PostsTold' /\ (\A q \in Posts : said[q] \subseteq said'[q])
  <2>1. said' = said /\ post' = [post EXCEPT ![p] = None]
    BY <1>2 DEF Remove
  <2>2. \A q \in Posts : post'[q] = post[q] \/ post'[q] = None
    BY <2>1 DEF TypeOK
  <2> QED
    BY <2>1, <2>2 DEF PostsTold
<1>3. CASE ~ \/ \E p \in Posts, c \in Contents \union {Malformed} : Save(p, c)
             \/ \E p \in Posts : Remove(p)
  <2>1. UNCHANGED publisher
    BY <1>3 DEF Next, Poll, Fetch, Forget, Clear, StartUpload, Upload, Put, Publish, UploadFails,
                StartImport, Import, ImportPage, EndImport, ImportFails, vars
  <2> QED
    BY <2>1 DEF publisher, PostsTold
<1> QED
  BY <1>1, <1>2, <1>3

\* Pages are made of what the publisher serves and are only passed on.
LEMMA StepPages ==
  ASSUME IInv, [Next]_vars
  PROVE  PagesTold'
<1> USE DEF laptop, store, site
<1> DEFINE Fair(pages) == \A b \in pages, p \in Posts : b[p] # None => b[p] \in said'[p]
<1>1. Fair(fetched) /\ Fair(toPut) /\ Fair(objects) /\ Fair(receipts)
  BY StepPosts DEF IInv, PagesTold, Told
<1>2. ASSUME NEW S \in SUBSET Posts, Fetch(S) PROVE Fair(fetched')
  <2> DEFINE page == [p \in Posts |-> IF p \in S THEN post[p] ELSE None]
  <2>1. \A p \in Posts : page[p] # None => page[p] \in said[p]
    BY <1>2 DEF Fetch, IInv, PostsTold
  <2>2. fetched' = fetched \union {page} /\ said' = said
    BY <1>2 DEF Fetch, publisher
  <2> HIDE DEF page
  <2> QED
    BY <1>1, <2>1, <2>2
<1>3. fetched' \subseteq fetched \/ \E S \in SUBSET Posts : Fetch(S)
  BY DEF Next, Save, Remove, Poll, Forget, Clear, StartUpload, Upload, Put, Publish, StopUpload,
         UploadFails, StartImport, Import, ImportPage, EndImport, ImportFails, vars
<1>4. toPut' \subseteq toPut \union fetched
  BY DEF Next, Save, Remove, Poll, Fetch, Forget, Clear, StartUpload, Upload, Put, Publish,
         StopUpload, UploadFails, StartImport, Import, ImportPage, EndImport, ImportFails, vars
<1>5. objects' \subseteq objects \union toPut
  BY DEF Next, Save, Remove, Poll, Fetch, Forget, Clear, StartUpload, Upload, Put, Publish,
         UploadFails, StartImport, Import, ImportPage, EndImport, ImportFails, vars
<1>6. receipts' \subseteq receipts \union objects
  BY DEF Next, Save, Remove, Poll, Fetch, Forget, Clear, StartUpload, Upload, Put, Publish,
         UploadFails, StartImport, Import, ImportPage, EndImport, StopImport, ImportFails, vars
<1>7. Fair(fetched')
  BY <1>1, <1>2, <1>3
<1> QED
  BY <1>1, <1>4, <1>5, <1>6, <1>7 DEF PagesTold, Told

\* A page being imported was put, and what was put was served.
LEMMA ImportTold ==
  ASSUME IInv, NEW b \in toImport, ImportPage(b), NEW p \in Posts, b[p] # None
  PROVE  b[p] \in Fit /\ b[p] \in said[p]
<1>1. b \in objects /\ b \in Page
  BY DEF ImportPage, IInv, TypeOK
<1>2. b[p] \in Fit
  BY <1>1 DEF Page
<1> QED
  BY <1>1, <1>2 DEF IInv, PagesTold, Told

\* How a step changes the rows: they are wiped with the receipts, or each stays or moves
\* to a version that was served and is stamped no earlier.
LEMMA RowsMove ==
  ASSUME IInv, [Next]_vars, NEW p \in Posts, row'[p] # row[p]
  PROVE  \/ row' = NoRows /\ receipts' = {}
         \/ /\ Says(row'[p]) \in said[p]
            /\ row[p] = None \/ row[p].modified <= row'[p].modified
            /\ row'[p] \in Row
<1> TypeOK /\ PostsTold /\ RowsTold
  BY DEF IInv
<1>1. CASE Clear
  BY <1>1 DEF Clear
<1>2. ASSUME NEW q \in Posts, Poll(q) PROVE
        \E v \in said[p] :
          /\ v \in Fit /\ row'[p] = Upserted(row[p], v)
  <2>1. row' = [row EXCEPT ![q] = Upserted(row[q], post[q])] /\ post[q] \in said[q]
    BY <1>2 DEF Poll, PostsTold
  <2>2. p = q /\ row'[p] = Upserted(row[p], post[p])
    BY <2>1 DEF TypeOK
  <2>3. post[p] \in Fit
    BY <2>1, <2>2 DEF TypeOK
  <2> QED
    BY <2>1, <2>2, <2>3
<1>3. ASSUME NEW b \in toImport, ImportPage(b) PROVE
        \E v \in said[p] :
          /\ v \in Fit /\ row'[p] = Upserted(row[p], v)
  <2>1. row' = RowsWith(b)
    BY <1>3 DEF ImportPage
  <2>2. b[p] # None /\ row'[p] = Upserted(row[p], b[p])
    BY <2>1 DEF RowsWith
  <2>3. b[p] \in Fit /\ b[p] \in said[p]
    BY <1>3, <2>2, ImportTold
  <2> QED
    BY <2>2, <2>3
<1>4. Clear \/ (\E q \in Posts : Poll(q)) \/ \E b \in toImport : ImportPage(b)
  BY DEF Next, Save, Remove, Fetch, Forget, StartUpload, Upload, Put, Publish, UploadFails,
         StartImport, Import, EndImport, StopImport, ImportFails, vars, site
<1>5. CASE (\E q \in Posts : Poll(q)) \/ \E b \in toImport : ImportPage(b)
  <2>1. PICK v \in said[p] : v \in Fit /\ row'[p] = Upserted(row[p], v)
    BY <1>2, <1>3, <1>5
  <2> QED
    BY <2>1, UpsertAdvances
<1> QED
  BY <1>1, <1>4, <1>5

\* Rows keep saying what was served.
LEMMA StepRows ==
  ASSUME IInv, [Next]_vars
  PROVE  RowsTold'
<1> SUFFICES ASSUME NEW p \in Posts, row'[p] # None
             PROVE  Says(row'[p]) \in said'[p]
  BY DEF RowsTold
<1>1. said[p] \subseteq said'[p]
  BY StepPosts
<1>2. CASE row'[p] = row[p]
  BY <1>1, <1>2 DEF IInv, RowsTold
<1>3. CASE row'[p] # row[p]
  BY <1>1, <1>3, RowsMove DEF NoRows
<1> QED
  BY <1>2, <1>3

\* A receipt is written with its rows, and rows only go forward.
LEMMA StepReceipts ==
  ASSUME IInv, [Next]_vars
  PROVE  ReceiptsHonest'
<1> USE DEF site
<1> TypeOK /\ RowsTold /\ ReceiptsHonest
  BY DEF IInv
<1> SUFFICES ASSUME NEW b \in receipts', NEW p \in Posts, b[p] # None
             PROVE  row'[p] # None /\ row'[p].modified >= b[p].modified
  BY StepRows DEF ReceiptsHonest, RowsTold
<1>1. CASE b \in receipts
  <2>1. row[p] # None /\ row[p].modified >= b[p].modified
    BY <1>1 DEF ReceiptsHonest
  <2>2. CASE row'[p] = row[p]
    BY <2>1, <2>2
  <2>3. CASE row'[p] # row[p]
    <3>1. row[p].modified <= row'[p].modified /\ row'[p] \in Row
      BY <2>1, <2>3, RowsMove
    <3>2. row'[p].modified \in Nat /\ row[p].modified \in Nat /\ b[p].modified \in Nat
      <4>1. b \in Page
        BY <1>1 DEF TypeOK
      <4> QED
        BY <2>1, <3>1, <4>1 DEF TypeOK, Row, Fit, Page
    <3> QED
      BY <2>1, <3>1, <3>2, Constants
  <2> QED
    BY <2>2, <2>3
<1>2. CASE b \notin receipts
  <2>1. PICK c \in toImport : ImportPage(c)
    BY <1>2 DEF Next, Save, Remove, Poll, Fetch, Forget, Clear, StartUpload, Upload, Put, Publish,
                UploadFails, StartImport, Import, EndImport, StopImport, ImportFails, vars
  <2>2. b = c /\ row' = RowsWith(b)
    BY <1>2, <2>1 DEF ImportPage
  <2>3. row'[p] = Upserted(row[p], b[p])
    BY <2>2 DEF RowsWith
  <2>4. b[p] \in Fit /\ b[p] \in said[p]
    BY <2>1, <2>2, ImportTold
  <2>5. row'[p] \in Row /\ row'[p].modified >= b[p].modified
    BY <2>3, <2>4, UpsertAdvances
  <2> QED
    BY <2>5, Constants
<1> QED
  BY <1>1, <1>2

-----------------------------------------------------------------------------
\* The invariant is inductive.
LEMMA Invariant == Spec => []IInv
<1>1. IInv /\ [Next]_vars => IInv'
  BY StepTypes, StepStored, StepPosts, StepPages, StepRows, StepReceipts DEF IInv
<1> QED
  BY <1>1, InitHolds, PTL DEF Spec

\* Every variable keeps its type: only pages that parse are passed on.
THEOREM TransferTypes == Spec => []TypeOK
<1>1. IInv => TypeOK
  BY DEF IInv
<1> QED
  BY <1>1, Invariant, PTL

\* An importer never reads of a page that is not there, whatever an upload died of.
THEOREM ManifestNamesObjects == Spec => []ManifestComplete
<1>1. IInv => ManifestComplete
  BY DEF IInv, Stored, ManifestComplete
<1> QED
  BY <1>1, Invariant, PTL

\* A page with a receipt is in the rows, as it was or as the publisher put it no earlier.
THEOREM HonestReceipts == Spec => []ReceiptsHonest
<1>1. IInv => ReceiptsHonest
  BY DEF IInv
<1> QED
  BY <1>1, Invariant, PTL

\* In any order of arrival a row only moves to a served version stamped no earlier.
THEOREM RowsOnlyAdvance == Spec => NothingReverts
<1> DEFINE Moves == \A p \in Posts : row'[p] # row[p] =>
      \/ row' = NoRows /\ receipts' = {}
      \/ /\ Says(row'[p]) \in said[p]
         /\ row[p] = None \/ row[p].modified <= row'[p].modified
<1>1. IInv /\ [Next]_vars => Moves
  BY RowsMove
<1>2. IInv /\ [Next]_vars => [Moves]_vars
  BY <1>1
<1> QED
  BY <1>2, Invariant, PTL DEF Spec, NothingReverts
=============================================================================
