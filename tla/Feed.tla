-------------------------------- MODULE Feed --------------------------------
(***************************************************************************)
(* One `ingest` process filling the feed: it visits the registry's sources *)
(* one after another, asks each publisher conditionally for its listing,   *)
(* archives the body, upserts every item the listing carries, and only     *)
(* then remembers the validator (ETag / Last-Modified) of the body.  The   *)
(* publisher edits its page at any moment, requests fail, the process is   *)
(* killed between any two writes, and an operator clears towns.            *)
(*                                                                         *)
(* Abstracted: the one validator stands for ETag and Last-Modified; a page *)
(* version never has the validator of another version; timestamps, counts, *)
(* and the descriptive columns of a row are left out.  The row's own copy  *)
(* of the precedence is Prec[owner]: the registry does not change here.    *)
(***************************************************************************)
EXTENDS Naturals, FiniteSets

CONSTANTS
  Towns, Sources, TownOf, Prec, Items, Contents, None,
  Tagged,      \* sources whose server sends a validator with a 200
  Unparseable, \* a 200 body the adapter refuses (a browser challenge, garbage)
  InPlace,     \* the store writes objects in place (local, the default), or whole (S3)
  MaxRetries,  \* config.maxRetries
  MaxVersion,  \* bound: versions each page goes through
  MaxFaults,   \* bound: failed requests, failed writes and crashes
  MaxClears    \* bound: `clear` commands

Record == [owner : Sources, content : Contents, revision : Nat]
Listing == [Items -> Contents \union {None}]
Page == Listing \union {Unparseable}
Keys == Towns \X Items
KeyOf(s, i) == <<TownOf[s], i>>

ASSUME FeedConstants ==
  /\ TownOf \in [Sources -> Towns]
  /\ Prec \in [Sources -> Nat]
  /\ Tagged \subseteq Sources
  /\ None \notin Contents
  /\ None \notin Sources
  /\ None \notin Record
  /\ Unparseable \notin Listing
  /\ InPlace \in BOOLEAN
  /\ {MaxRetries, MaxVersion, MaxFaults, MaxClears} \subseteq Nat

VARIABLES
  listing,    \* listing[s]: what publisher s lists now
  obstructed, \* sources whose server answers 200 with an unparseable page
  version,    \* version[s]: the validator of what s serves now, from 1
  validator,  \* sources.etag / last_modified; 0 is NULL
  lastError,  \* sources whose last_error is not NULL: the last visit failed
  stored,     \* objects in the document store: <<body, "whole" or "torn">>
  cut,        \* history: bodies whose object a kill left half written
  record,     \* events rows
  reported,   \* history: sources that have reported a key since it was cleared
  pc, todo, flags, visit,  \* the ingest process and the source it is visiting
  faults, clears

publisher == <<listing, obstructed, version>>
archive == <<stored, cut>>
sourceRow == <<validator, lastError>>
feed == <<record, reported>>
run == <<todo, flags>>
budget == <<faults, clears>>
vars == <<publisher, archive, sourceRow, feed, pc, run, visit, budget>>

Visit == [src : Sources \union {None}, cond : Nat, tries : Nat,
          body : Page \union {None}, tag : Nat, left : SUBSET Items,
          outcome : {"none", "parsed", "notModified", "failed"}]

NoVisit == [src |-> None, cond |-> 0, tries |-> 0, body |-> None, tag |-> 0,
            left |-> {}, outcome |-> "none"]

TypeOK ==
  /\ listing \in [Sources -> Listing]
  /\ obstructed \subseteq Sources
  /\ version \in [Sources -> Nat \ {0}]
  /\ validator \in [Sources -> Nat]
  /\ lastError \subseteq Sources
  /\ stored \subseteq Page \X {"whole", "torn"}
  /\ cut \subseteq Page
  /\ record \in [Keys -> Record \union {None}]
  /\ reported \in [Keys -> SUBSET Sources]
  /\ pc \in {"idle", "next", "fetch", "store", "write", "apply", "close"}
  /\ todo \subseteq Sources
  /\ flags \subseteq {"force", "dry"}
  /\ visit \in Visit
  /\ pc \notin {"idle", "next"} => visit.src \in Sources
  /\ faults \in Nat /\ clears \in Nat

Init ==
  /\ listing \in [Sources -> Listing]
  /\ obstructed = {}
  /\ version = [s \in Sources |-> 1]
  /\ validator = [s \in Sources |-> 0]
  /\ lastError = {}
  /\ stored = {} /\ cut = {}
  /\ record = [k \in Keys |-> None]
  /\ reported = [k \in Keys |-> {}]
  /\ pc = "idle" /\ todo = {} /\ flags = {} /\ visit = NoVisit
  /\ faults = 0 /\ clears = 0

-----------------------------------------------------------------------------
(* The publisher. *)

\* An item is added, amended or dropped.
Edit(s, i, c) ==
  /\ version[s] < MaxVersion
  /\ listing[s][i] # c
  /\ listing' = [listing EXCEPT ![s] = [@ EXCEPT ![i] = c]]
  /\ version' = [version EXCEPT ![s] = @ + 1]
  /\ UNCHANGED <<obstructed, archive, sourceRow, feed, pc, run, visit, budget>>

\* The site starts or stops answering with a page that is not the listing.
Obstruct(s) ==
  /\ version[s] < MaxVersion
  /\ obstructed' = IF s \in obstructed THEN obstructed \ {s} ELSE obstructed \union {s}
  /\ version' = [version EXCEPT ![s] = @ + 1]
  /\ UNCHANGED <<listing, archive, sourceRow, feed, pc, run, visit, budget>>

Served(s) == IF s \in obstructed THEN Unparseable ELSE listing[s]

-----------------------------------------------------------------------------
(* The run and its visits. *)

StartRun(S, fl) ==
  /\ pc = "idle"
  /\ pc' = "next"
  /\ todo' = S
  /\ flags' = fl
  /\ UNCHANGED <<publisher, archive, sourceRow, feed, visit, budget>>

\* The validators sent with the request are read here, before any await.
BeginVisit(s) ==
  /\ pc = "next"
  /\ s \in todo
  /\ pc' = "fetch"
  /\ todo' = todo \ {s}
  /\ visit' = [NoVisit EXCEPT !.src = s,
                              !.cond = IF "force" \in flags THEN 0 ELSE validator[s]]
  /\ UNCHANGED <<publisher, archive, sourceRow, feed, flags, budget>>

EndRun ==
  /\ pc = "next"
  /\ todo = {}
  /\ pc' = "idle"
  /\ flags' = {}
  /\ UNCHANGED <<publisher, archive, sourceRow, feed, todo, visit, budget>>

-----------------------------------------------------------------------------
(* fetchSource: conditional, retrying GET. *)

FetchEnds(next) ==
  /\ pc = "fetch"
  /\ pc' = next
  /\ UNCHANGED <<publisher, archive, sourceRow, feed, run, clears>>

\* The visit with the request's locals gone out of scope.
Fetched == [visit EXCEPT !.cond = 0, !.tries = 0]

AnswerNotModified ==
  /\ FetchEnds("close")
  /\ visit.cond # 0
  /\ visit.cond = version[visit.src]
  /\ visit' = [Fetched EXCEPT !.outcome = "notModified", !.tag = version[visit.src]]
  /\ UNCHANGED faults

AnswerBody ==
  /\ FetchEnds("store")
  /\ visit' = [Fetched EXCEPT !.body = Served(visit.src),
                              !.tag = IF visit.src \in Tagged THEN version[visit.src] ELSE 0]
  /\ UNCHANGED faults

\* A challenge header, or a status that is neither a success nor retryable.
AnswerRefused ==
  /\ FetchEnds("close")
  /\ faults < MaxFaults
  /\ faults' = faults + 1
  /\ visit' = [Fetched EXCEPT !.outcome = "failed"]

\* A retryable status, a timeout or a connection error.
AnswerRetryable ==
  /\ faults < MaxFaults
  /\ faults' = faults + 1
  /\ \/ /\ visit.tries < MaxRetries
        /\ FetchEnds("fetch")
        /\ visit' = [visit EXCEPT !.tries = @ + 1]
     \/ /\ visit.tries = MaxRetries
        /\ FetchEnds("close")
        /\ visit' = [Fetched EXCEPT !.outcome = "failed"]

-----------------------------------------------------------------------------
(* The body: archived, indexed, parsed, and applied item by item. *)

\* existsSync, or a HEAD request: an object is there, whatever it holds.
Has(b) == \E o \in stored : o[1] = b

\* Content-addressed: an object already at the key is taken to be the body.
Put(b) == IF Has(b) THEN stored ELSE stored \union {<<b, "whole">>}

\* The body is parsed as a whole before its first item is written.
Parse ==
  IF visit.body = Unparseable
  THEN /\ pc' = "close"
       /\ visit' = [visit EXCEPT !.outcome = "failed"]
  ELSE /\ pc' = "apply"
       /\ visit' = [visit EXCEPT !.left = {i \in Items : visit.body[i] # None},
                                 !.outcome = "parsed"]

\* writeFileSync on the object itself: from its opening to its last byte the key
\* exists and its bytes are not the body.
BeginPut ==
  /\ pc = "store"
  /\ InPlace /\ ~Has(visit.body)
  /\ stored' = stored \union {<<visit.body, "torn">>}
  /\ pc' = "write"
  /\ UNCHANGED <<publisher, cut, sourceRow, feed, run, visit, budget>>

FinishPut ==
  /\ pc = "write"
  /\ stored' = (stored \ {<<visit.body, "torn">>}) \union {<<visit.body, "whole">>}
  /\ Parse
  /\ UNCHANGED <<publisher, cut, sourceRow, feed, run, budget>>

\* Mutant: the body is parsed without having been archived.
StoreBodyUnarchived ==
  /\ pc = "store"
  /\ Parse
  /\ UNCHANGED <<publisher, archive, sourceRow, feed, run, budget>>

\* Nothing to write, or a backend that writes the object whole.
StoreBody ==
  /\ pc = "store"
  /\ InPlace => Has(visit.body)
  /\ stored' = Put(visit.body)
  /\ Parse
  /\ UNCHANGED <<publisher, cut, sourceRow, feed, run, budget>>

\* Mutants: precedence read the wrong way round; content_hash not compared.
DuplicateReversed(r, s) == r.owner # s /\ Prec[s] <= Prec[r.owner]
UnchangedNever(r, s, c) == FALSE

\* upsertEvent: the row of one item after source s reports content c.
Duplicate(r, s) == r.owner # s /\ Prec[s] >= Prec[r.owner]
Unchanged(r, s, c) == r.owner = s /\ r.content = c
Upserted(r, s, c) ==
  IF r = None THEN [owner |-> s, content |-> c, revision |-> 1]
  ELSE IF Duplicate(r, s) \/ Unchanged(r, s, c) THEN r
  ELSE [owner |-> s, content |-> c, revision |-> r.revision + 1]

\* A dry run parses and counts, and leaves the events alone.
ApplyItem(i) ==
  /\ pc = "apply"
  /\ i \in visit.left
  /\ visit' = [visit EXCEPT !.left = @ \ {i}]
  /\ IF "dry" \in flags THEN UNCHANGED feed
     ELSE LET s == visit.src
              k == KeyOf(s, i)
          IN /\ record' = [record EXCEPT ![k] = Upserted(@, s, visit.body[i])]
             /\ reported' = [reported EXCEPT ![k] = @ \union {s}]
  /\ UNCHANGED <<publisher, archive, sourceRow, pc, run, budget>>

\* A write throws half way (the database is locked): caught as a parse failure.
WriteFails ==
  /\ pc = "apply"
  /\ visit.left # {}
  /\ faults < MaxFaults
  /\ faults' = faults + 1
  /\ pc' = "close"
  /\ visit' = [visit EXCEPT !.left = {}, !.outcome = "failed"]
  /\ UNCHANGED <<publisher, archive, sourceRow, feed, run, clears>>

-----------------------------------------------------------------------------
(* The visit's bookkeeping. *)

\* Mutants: clearValidators not passed; the answer's validator kept on failure.
NextValidatorKept(old) == IF visit.outcome # "failed" /\ visit.tag # 0 THEN visit.tag ELSE old
NextValidatorEager(old) == IF visit.tag # 0 THEN visit.tag ELSE old

\* updateSourceFetchState's new validator: forgotten after a failure, kept
\* when the answer carried none.
NextValidator(old) ==
  IF visit.outcome = "failed" THEN 0
  ELSE IF visit.tag # 0 THEN visit.tag ELSE old

CloseVisit ==
  /\ pc = "close" \/ (pc = "apply" /\ visit.left = {})
  /\ pc' = "next"
  /\ validator' = [validator EXCEPT ![visit.src] = NextValidator(@)]
  /\ lastError' = IF visit.outcome = "failed" THEN lastError \union {visit.src}
                                             ELSE lastError \ {visit.src}
  /\ visit' = NoVisit
  /\ UNCHANGED <<publisher, archive, feed, run, budget>>

\* The process is killed, or a write outside the parse throws.  Nothing removes
\* the object it was writing.
Crash ==
  /\ pc # "idle"
  /\ faults < MaxFaults
  /\ faults' = faults + 1
  /\ pc' = "idle" /\ todo' = {} /\ flags' = {} /\ visit' = NoVisit
  /\ cut' = IF pc = "write" THEN cut \union {visit.body} ELSE cut
  /\ UNCHANGED <<publisher, stored, sourceRow, feed, clears>>

-----------------------------------------------------------------------------
(* clear --scope records, and what scope town does to these tables: the    *)
(* events and the conditional-request state go in one transaction.         *)

Wiped(f, t, v) == [k \in Keys |-> IF k[1] = t THEN v ELSE f[k]]

\* Mutant: the rows go and the validators stay.
ClearKeepingValidators(t) ==
  /\ clears < MaxClears
  /\ clears' = clears + 1
  /\ record' = Wiped(record, t, None)
  /\ reported' = Wiped(reported, t, {})
  /\ UNCHANGED <<publisher, sourceRow, archive, pc, run, visit, faults>>

Clear(t) ==
  /\ clears < MaxClears
  /\ clears' = clears + 1
  /\ record' = Wiped(record, t, None)
  /\ reported' = Wiped(reported, t, {})
  /\ validator' = [s \in Sources |-> IF TownOf[s] = t THEN 0 ELSE validator[s]]
  /\ lastError' = {s \in lastError : TownOf[s] # t}
  /\ UNCHANGED <<publisher, archive, pc, run, visit, faults>>

\* Operators run one command at a time.
ClearRecords(t) == pc = "idle" /\ Clear(t)

-----------------------------------------------------------------------------
Publish ==
  \/ \E s \in Sources, i \in Items, c \in Contents \union {None} : Edit(s, i, c)
  \/ \E s \in Sources : Obstruct(s)

Work ==
  \/ \E s \in Sources : BeginVisit(s)
  \/ AnswerNotModified
  \/ AnswerBody
  \/ BeginPut
  \/ FinishPut
  \/ StoreBody
  \/ \E i \in Items : ApplyItem(i)
  \/ CloseVisit
  \/ EndRun

Fail == AnswerRefused \/ AnswerRetryable \/ WriteFails \/ Crash

Operate ==
  \/ \E S \in SUBSET Sources \ {{}}, fl \in SUBSET {"force"} : StartRun(S, fl)
  \/ \E t \in Towns : ClearRecords(t)

Next == Publish \/ Work \/ Fail \/ Operate

Spec == Init /\ [][Next]_vars

\* A process that runs keeps running, and the scheduled full refresh keeps
\* coming round whatever else the operator starts in between.
Fairness ==
  /\ WF_vars(Work)
  /\ SF_vars(StartRun(Sources, {}))

FairSpec == Spec /\ Fairness

-----------------------------------------------------------------------------
\* The same with runs under --dry-run, which break a property the specification
\* above has.
DryRunSpec ==
  Init /\ [][Next \/ \E s \in Sources : StartRun({s}, {"dry"})]_vars
=============================================================================
