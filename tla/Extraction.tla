----------------------------- MODULE Extraction -----------------------------
(***************************************************************************)
(* The second pass of the pipeline: extractDocuments opens the document    *)
(* each record links to, archives its bytes and its text, files an         *)
(* attachment and writes what the document says onto the record.           *)
(*                                                                         *)
(* Of what a listing and a document say, a row keeps the text, and whether *)
(* the start of the meeting is the document's exact one or the listing's   *)
(* date; subjects, tags and the agenda's summary are left out.  Time is    *)
(* counted in refresh cycles.  Commands run one at a time, as the          *)
(* workflows see to (refresh.yml: "they must never race each other").      *)
(***************************************************************************)
EXTENDS Integers, FiniteSets

CONSTANTS
  Events,      \* records, numbered: a later meeting has a larger number
  Files,       \* what a link can name, once ?html=true is stripped
  Texts,       \* what can be read
  Listings,    \* ways a town lists each record: its link and its one-line summary
  Documents,   \* files a town may serve, by content: text, exact start or not
  Missing, Broken,  \* answers of the site: 404 or 410, anything else unreadable
  Blank, None,      \* no text, no row
  InPlace,          \* the store writes objects in place (local, the default), or whole (S3)
  Limit,            \* documents to a run (--limit)
  NotFoundWait,     \* cycles to wait after a 404 (a week); any other failure waits one
  MaxUpsets         \* bound on changes, forced runs, failures and kills together

Url == [file : Files, html : BOOLEAN]
Row == [listing : UNION {Listings[e] : e \in Events}, exact : BOOLEAN, text : Texts \union {Blank, None}, extracted : BOOLEAN]
Answers == Documents \union {Missing, Broken}
Failure == [url : Url, wait : Nat]

ASSUME ExtractionConstants ==
  /\ Events \subseteq Nat /\ IsFiniteSet(Events)
  /\ Listings \in [Events -> SUBSET [url : Url, summary : Texts \union {Blank}]]
  /\ Documents \subseteq [text : Texts \union {Blank}, exact : BOOLEAN]
  /\ None \notin Row \union Events \union Failure \union Url \union Texts \union {Blank} \union Documents
  /\ Blank \notin Texts
  /\ {Missing, Broken} \intersect Documents = {}
  /\ InPlace \in BOOLEAN
  /\ {Limit, NotFoundWait, MaxUpsets} \subseteq Nat

VARIABLES
  row,       \* events
  site,      \* what the town's site answers for each file
  store,     \* the document store: attachments and extracted text, by content
  torn,      \* objects of it that hold part of their content
  cut,       \* history: objects whose write a kill or a failure cut short
  filed,     \* attachments that succeeded: by content, the record they hang off
  failed,    \* attachments that failed: by record and file
  pc, forced, queue, doc,  \* the command at work, its records to go and the document in hand
  resting,   \* history: cycles left of the backoff that a file's last failure set off, by link
  first,     \* history: the link under which the record's file first failed
  upsets     \* changes, forced runs, failures and kills so far

archive == <<store, torn, cut>>
failures == <<failed, resting, first>>
run == <<forced, queue, doc>>
extraction == <<row, site, archive, filed, failures, pc, run, upsets>>

ExtractionTypes ==
  /\ row \in [Events -> Row \union {None}]
  /\ site \in [Files -> Answers]
  /\ store \subseteq Documents \union Texts
  /\ torn \subseteq store /\ cut \subseteq store
  /\ filed \in [Documents -> Events \union {None}]
  /\ failed \in [Events -> [Files -> Failure \union {None}]]
  /\ resting \in [Events -> [Url -> Nat]]
  /\ first \in [Events -> [Files -> Url \union {None}]]
  /\ forced \in BOOLEAN
  /\ queue \subseteq Events
  /\ doc \in Documents \union {None}
  /\ upsets \in Nat

ExtractionInit ==
  /\ row = [e \in Events |-> None]
  /\ site \in [Files -> Documents \union {Missing}]
  /\ store = {} /\ torn = {} /\ cut = {}
  /\ filed = [d \in Documents |-> None]
  /\ failed = [e \in Events |-> [f \in Files |-> None]]
  /\ resting = [e \in Events |-> [u \in Url |-> 0]]
  /\ first = [e \in Events |-> [f \in Files |-> None]]
  /\ pc = "idle" /\ forced = FALSE /\ queue = {} /\ doc = None
  /\ upsets = 0

Upset == upsets < MaxUpsets /\ upsets' = upsets + 1

\* The town puts a document, or nothing readable, behind a link.
Publish(f, a) ==
  /\ site[f] # a
  /\ site' = [site EXCEPT ![f] = a]
  /\ Upset
  /\ UNCHANGED <<row, archive, filed, failures, pc, run>>

\* An ingest takes in a record, or a listing of it that changed: what the
\* listing says replaces what the row said; text and extracted_at stay.
Ingest(e, l) ==
  /\ pc = "idle"
  /\ \/ /\ row[e] = None
        /\ row' = [row EXCEPT ![e] =
                     [listing |-> l, exact |-> FALSE, text |-> None, extracted |-> FALSE]]
        /\ UNCHANGED upsets
     \/ /\ row[e] # None /\ row[e].listing # l
        /\ row' = [row EXCEPT ![e].listing = l, ![e].exact = FALSE]
        /\ Upset
  /\ UNCHANGED <<site, archive, filed, failures, pc, run>>

\* What a clear of scope records removes: rows and their attachments, never
\* what the store holds.
ForgetRecords ==
  /\ row' = [e \in Events |-> None]
  /\ filed' = [d \in Documents |-> None]
  /\ failed' = [e \in Events |-> [f \in Files |-> None]]
  /\ resting' = [e \in Events |-> [u \in Url |-> 0]]
  /\ first' = [e \in Events |-> [f \in Files |-> None]]

\* The file to ask for: the PDF, never its HTML view.
preferDocumentUrl(u) == u.file
FileOf(e) == preferDocumentUrl(row[e].listing.url)

\* A failure of this very link whose backoff has not run out by now.
BackingOff(e, elapsed) ==
  \E f \in Files :
    /\ failed[e][f] # None
    /\ failed[e][f].url = row[e].listing.url
    /\ failed[e][f].wait > elapsed

Later(wait, elapsed) == IF wait > elapsed THEN wait - elapsed ELSE 0

Pending(e, force, elapsed) ==
  row[e] # None /\ (force \/ (~row[e].extracted /\ ~BackingOff(e, elapsed)))

\* S is the newest of P, as many as the limit allows.
Newest(S, P, limit) ==
  /\ S \subseteq P
  /\ Cardinality(S) <= limit
  /\ S # P => Cardinality(S) = limit
  /\ \A e \in S, f \in P \ S : f < e

\* The record a run is at.
Current(e) == e \in queue /\ \A f \in queue : f <= e

\* selectCandidates, a cycle after the last run or within the cycle.
StartExtract(force, elapsed) ==
  /\ pc = "idle"
  /\ forced' = force
  /\ \E S \in SUBSET Events :
       /\ Newest(S, {e \in Events : Pending(e, force, elapsed)}, Limit)
       /\ queue' = S
  /\ failed' = [e \in Events |-> [f \in Files |->
                  IF failed[e][f] = None THEN None
                  ELSE [failed[e][f] EXCEPT !.wait = Later(@, elapsed)]]]
  /\ resting' = [e \in Events |-> [u \in Url |-> Later(resting[e][u], elapsed)]]
  /\ pc' = "extract"
  /\ UNCHANGED <<row, site, archive, filed, first, doc>>

\* The timer's run.
Scheduled == StartExtract(FALSE, 1) /\ UNCHANGED upsets

\* A run the operator starts in between, forced or not.
Started == Upset /\ \E force \in BOOLEAN : StartExtract(force, 0)

\* What rests once the record has failed: of the views of its file, this one.
LastFailed(e, wait) ==
  [u \in Url |-> IF u = row[e].listing.url THEN wait
                 ELSE IF u.file = FileOf(e) THEN 0 ELSE resting[e][u]]

\* Mutant: the failure row names the link that was opened.
FailPreferred(e, wait) ==
  /\ failed' = [failed EXCEPT ![e][FileOf(e)] =
                   [url |-> [file |-> FileOf(e), html |-> FALSE], wait |-> wait]]
  /\ resting' = [resting EXCEPT ![e] = LastFailed(e, wait)]
  /\ first' = [first EXCEPT ![e][FileOf(e)] = IF @ = None THEN row[e].listing.url ELSE @]
  /\ queue' = queue \ {e}
  /\ doc' = None /\ pc' = "extract"
  /\ UNCHANGED <<row, site, store, torn, filed, forced>>

\* The catch: the record stays pending, and the failure row, of which there is one
\* to a file, keeps the link as listed.  A row already there keeps the link it
\* has, also when the record has since been listed by the file's other view.
Fail(e, wait) ==
  /\ failed' = [failed EXCEPT ![e][FileOf(e)] =
                   IF @ = None THEN [url |-> row[e].listing.url, wait |-> wait]
                   ELSE [@ EXCEPT !.wait = wait]]
  /\ resting' = [resting EXCEPT ![e] = LastFailed(e, wait)]
  /\ first' = [first EXCEPT ![e][FileOf(e)] = IF @ = None THEN row[e].listing.url ELSE @]
  /\ queue' = queue \ {e}
  /\ doc' = None /\ pc' = "extract"
  /\ UNCHANGED <<row, site, store, torn, filed, forced>>

Download(e) ==
  /\ pc = "extract" /\ Current(e) /\ site[FileOf(e)] \in Documents
  /\ doc' = site[FileOf(e)]
  /\ pc' = "put"
  /\ UNCHANGED <<row, site, archive, filed, failures, forced, queue, upsets>>

\* Mutant: a 404 is tried again as soon as any other failure.
UnreadableAlike(e) ==
  /\ pc = "extract" /\ Current(e)
  /\ site[FileOf(e)] \in {Missing, Broken} /\ Fail(e, 1)
  /\ UNCHANGED <<cut, upsets>>

Unreadable(e) ==
  /\ pc = "extract" /\ Current(e)
  /\ \/ site[FileOf(e)] = Missing /\ Fail(e, NotFoundWait)
     \/ site[FileOf(e)] = Broken /\ Fail(e, 1)
  /\ UNCHANGED <<cut, upsets>>

\* The object being written, which is in the store and not whole.
Unfinished == IF pc = "write" THEN {doc} ELSE IF pc = "writeText" THEN {doc.text} ELSE {}

\* A request or a write to the store or to the database that fails this once.
\* What the store was writing stays as far as it got.
Fault(e) ==
  /\ pc \in {"extract", "put", "write", "text", "writeText", "attach", "update"} /\ Current(e)
  /\ Fail(e, 1)
  /\ cut' = cut \union Unfinished
  /\ Upset

\* applyExtraction: the bytes, their text, the attachment, then the record.
\* A local put opens the object and fills it in place; one that is there already
\* is taken for the content, whatever it holds.
Open(o, next) ==
  /\ InPlace /\ o \notin store
  /\ store' = store \union {o} /\ torn' = torn \union {o}
  /\ pc' = next
  /\ UNCHANGED <<row, site, cut, filed, failures, run, upsets>>

Close(next) ==
  /\ torn' = torn \ Unfinished
  /\ pc' = next
  /\ UNCHANGED <<row, site, store, cut, filed, failures, run, upsets>>

\* Nothing to write, or a backend that writes the object whole.
Have(O, next) ==
  /\ InPlace => O \subseteq store
  /\ store' = store \union O
  /\ pc' = next
  /\ UNCHANGED <<row, site, torn, cut, filed, failures, run, upsets>>

BeginPut == pc = "put" /\ Open(doc, "write")
FinishPut == pc = "write" /\ Close("text")
Put == pc = "put" /\ Have({doc}, "text")

\* A document without text has no text object.
BeginPutText == pc = "text" /\ doc.text # Blank /\ Open(doc.text, "writeText")

\* Mutant: the record is marked while its text is being written.
FinishPutTextLate ==
  /\ pc = "writeText" /\ pc' = "attach"
  /\ UNCHANGED <<row, site, archive, filed, failures, run, upsets>>

FinishPutText == pc = "writeText" /\ Close("attach")
PutText == pc = "text" /\ Have({doc.text} \ {Blank}, "attach")

Attach(e) ==
  /\ pc = "attach" /\ Current(e)
  /\ filed' = [filed EXCEPT ![doc] = e]
  /\ pc' = "update"
  /\ UNCHANGED <<row, site, archive, failures, run, upsets>>

Update(e) ==
  /\ pc = "update" /\ Current(e)
  /\ row' = [row EXCEPT ![e].text = doc.text,
                        ![e].exact = @ \/ doc.exact,
                        ![e].extracted = TRUE]
  /\ queue' = queue \ {e}
  /\ doc' = None /\ pc' = "extract"
  /\ UNCHANGED <<site, archive, filed, failures, forced, upsets>>

EndExtract ==
  /\ pc = "extract" /\ queue = {}
  /\ pc' = "idle" /\ forced' = FALSE
  /\ UNCHANGED <<row, site, archive, filed, failures, queue, doc, upsets>>

ExtractStep ==
  \/ \E e \in Events : Download(e) \/ Unreadable(e) \/ Attach(e) \/ Update(e)
  \/ BeginPut \/ FinishPut \/ Put \/ BeginPutText \/ FinishPutText \/ PutText \/ EndExtract

Surroundings ==
  \/ \E f \in Files, a \in Answers : Publish(f, a)
  \/ \E e \in Events : \E l \in Listings[e] : Ingest(e, l)

Extract ==
  \/ Scheduled \/ Started
  \/ ExtractStep
  \/ \E e \in Events : Fault(e)
=============================================================================
