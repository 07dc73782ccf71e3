------------------------- MODULE TranscriptTransfer -------------------------
(***************************************************************************)
(* Transcripts on their way from a laptop to the published site.  A laptop *)
(* fetches pages of posts into its archive; uploadTranscripts copies the   *)
(* pages to the object store and then replaces a cumulative manifest;      *)
(* importTranscripts, elsewhere and at any time, reads the manifest and    *)
(* upserts page by page, with a receipt for each page it has done.         *)
(*                                                                         *)
(* A page is what its bytes say, as it is the hash of them that names it.  *)
(* There is one uploader, and the database imported into has one process   *)
(* at a time, as documented.                                               *)
(***************************************************************************)
EXTENDS Transcript, FiniteSets

CONSTANTS
  Posts,
  MaxDocuments,  \* references a manifest may hold (10,000, or 4 MiB)
  MaxEdits, MaxFaults, MaxClears  \* bounds

ASSUME TransferConstants ==
  /\ Malformed \notin Contents
  /\ None \notin Version \union Row
  /\ {MaxDocuments, MaxEdits, MaxFaults, MaxClears} \subseteq Nat

\* A page holds some posts, all of which parse.
Fit == [modified : Nat, content : Contents]
Page == [Posts -> Fit \union {None}]

VARIABLES
  post,      \* the publisher's posts
  stamp,     \* its clock
  said,      \* history: the well-formed versions it has ever served
  fetched,   \* laptop: pages of the successful fetches on record
  objects,   \* store: pages under transcripts keys
  manifest,  \* store: pages the manifest refers to
  upPc, refs, toPut, uploaded,  \* the uploader
  row,       \* site: events
  receipts,  \* site: transcript_imports
  imPc, toImport, dry,          \* the importer
  edits, faults, clears

laptop == <<fetched, upPc, refs, toPut, uploaded>>
store == <<objects, manifest>>
site == <<row, receipts, imPc, toImport, dry>>
publisher == <<post, stamp, said>>
budget == <<edits, faults, clears>>
vars == <<publisher, laptop, store, site, budget>>

TypeOK ==
  /\ post \in [Posts -> Version \union {None}]
  /\ stamp \in Nat
  /\ said \in [Posts -> SUBSET Fit]
  /\ fetched \subseteq Page
  /\ objects \subseteq Page
  /\ manifest \subseteq Page
  /\ upPc \in {"idle", "put"}
  /\ refs \subseteq Page /\ toPut \subseteq Page
  /\ uploaded \in BOOLEAN
  /\ row \in [Posts -> Row \union {None}]
  /\ receipts \subseteq Page
  /\ imPc \in {"idle", "import"}
  /\ toImport \subseteq Page
  /\ dry \in BOOLEAN
  /\ edits \in Nat /\ faults \in Nat /\ clears \in Nat

NoRows == [p \in Posts |-> None]

Init ==
  /\ post = [p \in Posts |-> None] /\ stamp = 0 /\ said = [p \in Posts |-> {}]
  /\ fetched = {} /\ upPc = "idle" /\ refs = {} /\ toPut = {} /\ uploaded = FALSE
  /\ objects = {} /\ manifest = {}
  /\ row = NoRows /\ receipts = {}
  /\ imPc = "idle" /\ toImport = {} /\ dry = FALSE
  /\ edits = 0 /\ faults = 0 /\ clears = 0

-----------------------------------------------------------------------------
(* The publisher and the laptop. *)

\* modified_gmt counts seconds: of two saves within one, both carry its stamp.
Save(p, c) ==
  /\ edits < MaxEdits
  /\ edits' = edits + 1
  /\ stamp' \in {stamp, stamp + 1}
  /\ post' = [post EXCEPT ![p] = [modified |-> stamp', content |-> c]]
  /\ said' = [said EXCEPT ![p] =
       @ \union (IF c = Malformed THEN {} ELSE {[modified |-> stamp', content |-> c]})]
  /\ UNCHANGED <<laptop, store, site, faults, clears>>

Remove(p) ==
  /\ post[p] # None
  /\ edits < MaxEdits
  /\ edits' = edits + 1
  /\ post' = [post EXCEPT ![p] = None]
  /\ UNCHANGED <<stamp, said, laptop, store, site, faults, clears>>

\* A fetch of posts S succeeds when all it gets parses; a failed one is archived and
\* logged, and left out by every upload.
Fetch(S) ==
  /\ S # {}
  /\ ~\E p \in S : post[p] # None /\ post[p].content = Malformed
  /\ fetched' = fetched \union {[p \in Posts |-> IF p \in S THEN post[p] ELSE None]}
  /\ UNCHANGED <<publisher, upPc, refs, toPut, uploaded, store, site, budget>>

\* clear --scope town on the laptop, or another laptop: the fetch log is gone.
Forget ==
  /\ fetched # {}
  /\ clears < MaxClears
  /\ clears' = clears + 1
  /\ fetched' = {}
  /\ UNCHANGED <<publisher, upPc, refs, toPut, uploaded, store, site, edits, faults>>

-----------------------------------------------------------------------------
(* readManifest as the object store answers it: a request that fails looks  *)
(* like a manifest that is not there.                                       *)

ReadManifest(known) ==
  \/ known = manifest /\ UNCHANGED faults
  \/ known = {} /\ faults < MaxFaults /\ faults' = faults + 1

StartUpload ==
  /\ upPc = "idle"
  /\ \E known \in {manifest, {}} :
       /\ ReadManifest(known)
       /\ refs' = known
       /\ toPut' = fetched \ known
  /\ uploaded' = FALSE
  /\ upPc' = "put"
  /\ UNCHANGED <<publisher, fetched, store, site, edits, clears>>

Put(b) ==
  /\ upPc = "put"
  /\ b \in toPut
  /\ objects' = objects \union {b}
  /\ refs' = refs \union {b}
  /\ toPut' = toPut \ {b}
  /\ uploaded' = TRUE
  /\ UNCHANGED <<publisher, fetched, upPc, manifest, site, budget>>

StopUpload ==
  /\ upPc' = "idle" /\ refs' = {} /\ toPut' = {} /\ uploaded' = FALSE
  /\ UNCHANGED fetched

\* Mutants: the manifest before its objects; and like any object, once.
PublishFirst ==
  /\ upPc = "put"
  /\ Cardinality(refs \union toPut) <= MaxDocuments
  /\ manifest' = refs \union toPut
  /\ StopUpload
  /\ UNCHANGED <<publisher, objects, site, budget>>

PublishOnce ==
  /\ upPc = "put"
  /\ toPut = {}
  /\ manifest' = IF manifest = {} THEN refs ELSE manifest
  /\ StopUpload
  /\ UNCHANGED <<publisher, objects, site, budget>>

\* Every page is there: the manifest is replaced, unless nothing is new or it is too long.
Publish ==
  /\ upPc = "put"
  /\ toPut = {}
  /\ manifest' = IF uploaded /\ Cardinality(refs) <= MaxDocuments THEN refs ELSE manifest
  /\ StopUpload
  /\ UNCHANGED <<publisher, objects, site, budget>>

\* A page that cannot be read, a put that is refused, a kill.
UploadFails ==
  /\ upPc = "put"
  /\ faults < MaxFaults
  /\ faults' = faults + 1
  /\ StopUpload
  /\ UNCHANGED <<publisher, store, site, edits, clears>>

-----------------------------------------------------------------------------
(* The site. *)

StartImport(d) ==
  /\ imPc = "idle"
  /\ \E known \in {manifest, {}} :
       /\ ReadManifest(known)
       /\ toImport' = known \ receipts
  /\ dry' = d
  /\ imPc' = "import"
  /\ UNCHANGED <<publisher, laptop, store, row, receipts, edits, clears>>

\* The rows after page b: each post it holds, upserted by the publisher's clock.
RowsWith(b) == [p \in Posts |-> IF b[p] = None THEN row[p] ELSE Upserted(row[p], b[p])]

\* Mutant: the receipt is not part of the transaction and comes first.
ImportPageApart(b) ==
  /\ imPc = "import"
  /\ b \in toImport \intersect objects
  /\ toImport' = toImport \ {b}
  /\ receipts' = IF dry THEN receipts ELSE receipts \union {b}
  /\ row' \in {row, IF dry THEN row ELSE RowsWith(b)}
  /\ UNCHANGED <<publisher, laptop, store, imPc, dry, budget>>

\* One transaction: the page's rows and its receipt.  A dry run only reads.
ImportPage(b) ==
  /\ imPc = "import"
  /\ b \in toImport \intersect objects
  /\ toImport' = toImport \ {b}
  /\ IF dry
     THEN UNCHANGED <<row, receipts>>
     ELSE row' = RowsWith(b) /\ receipts' = receipts \union {b}
  /\ UNCHANGED <<publisher, laptop, store, imPc, dry, budget>>

StopImport ==
  /\ imPc' = "idle" /\ toImport' = {} /\ dry' = FALSE
  /\ UNCHANGED <<row, receipts>>

\* Done, or what is left refers to objects that are missing.
EndImport ==
  /\ imPc = "import"
  /\ toImport \intersect objects = {}
  /\ StopImport
  /\ UNCHANGED <<publisher, laptop, store, budget>>

\* A page that cannot be read, a write that throws and is rolled back, a kill.
ImportFails ==
  /\ imPc = "import"
  /\ faults < MaxFaults
  /\ faults' = faults + 1
  /\ StopImport
  /\ UNCHANGED <<publisher, laptop, store, edits, clears>>

\* The site may also poll the publisher itself.
Poll(p) ==
  /\ imPc = "idle"
  /\ post[p] # None
  /\ post[p].content # Malformed
  /\ row' = [row EXCEPT ![p] = Upserted(@, post[p])]
  /\ UNCHANGED <<publisher, laptop, store, receipts, imPc, toImport, dry, budget>>

\* clear --scope records, or the lost cache of the workflow.
Clear ==
  /\ imPc = "idle"
  /\ clears < MaxClears
  /\ clears' = clears + 1
  /\ row' = NoRows /\ receipts' = {}
  /\ UNCHANGED <<publisher, laptop, store, imPc, toImport, dry, edits, faults>>

-----------------------------------------------------------------------------
Upload == Publish \/ \E b \in toPut : Put(b)
Import == EndImport \/ \E b \in toImport : ImportPage(b)

Next ==
  \/ \E p \in Posts, c \in Contents \union {Malformed} : Save(p, c)
  \/ \E p \in Posts : Remove(p) \/ Poll(p)
  \/ \E S \in SUBSET Posts : Fetch(S)
  \/ Forget \/ Clear
  \/ StartUpload \/ Upload \/ UploadFails
  \/ \E d \in BOOLEAN : StartImport(d)
  \/ Import \/ ImportFails

Spec == Init /\ [][Next]_vars

\* A run goes on.  Uploads are repeated by whoever fetches, imports by the workflow.
Fairness ==
  /\ WF_vars(Upload) /\ WF_vars(Import)
  /\ SF_vars(StartUpload) /\ SF_vars(StartImport(FALSE))

FairSpec == Spec /\ Fairness
=============================================================================
