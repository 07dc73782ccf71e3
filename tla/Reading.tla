------------------------------ MODULE Reading ------------------------------
(***************************************************************************)
(* A reader at the archive: at the website, or at a screen of the phone    *)
(* that lists records or timelines a page at a time (Browse, Timelines,    *)
(* useResource).  The answers to the screen's questions may come late, out *)
(* of order, or not at all.                                                *)
(***************************************************************************)
EXTENDS Site

CONSTANTS
  DefaultTown,  \* the catalog's
  MaxFlying     \* bound: requests of the screen at once

VARIABLES
  tab,      \* the initial view of the screen, None while the app is not open
  query,    \* town, view, q, body, when and page of the screen
  attempt,  \* retries of useResource
  result,   \* its last result
  flying,   \* requests not settled
  walk,     \* history: items seen paging on from page 1, None once disturbed
  fresh     \* history: nothing was committed since the result was made

screen == <<tab, query, attempt, result, flying>>
elsewhere == <<site, calm>>
vars == <<archiveVars, screen, site, left, walk, fresh, calm>>

Views == {"transcripts", "meetings", "activity", "timelines"}
Items == Seq(Records) \union Seq(Matter)
Key == [query : Query, attempt : Nat]
Answer == [items : Items, total : Nat, next : {None} \union (Nat \ {0}), boards : SUBSET Boards]
Result == [key : Key, data : {None} \union Answer]
Ask == [key : Key, live : BOOLEAN, items : {None} \union Items, answer : {None} \union Answer, calm : BOOLEAN]

ASSUME ReadingConstants ==
  /\ DefaultTown \in Towns /\ MaxFlying \in Nat
  /\ None \notin Answer \union Nat \union Views \union Result

ReadingTypeOK ==
  /\ tab \in {None} \union Views
  /\ query \in Query
  /\ attempt \in Nat
  /\ result \in {None} \union Result
  /\ flying \in SUBSET Ask
  /\ walk = None \/ walk \in Items
  /\ fresh \in BOOLEAN

TypeOK == ArchiveTypeOK /\ SiteTypeOK /\ ReadingTypeOK

Opened(v, t) == [town |-> t, view |-> v, q |-> None, body |-> None, when |-> "all", page |-> 1]
Sent(q, a) == [key |-> [query |-> q, attempt |-> a], live |-> TRUE,
               items |-> None, answer |-> None, calm |-> TRUE]

Init ==
  /\ ArchiveInit /\ SiteInit
  /\ tab \in IF left.screen = 0 THEN {None} ELSE Views \ {"meetings"}
  /\ query = Opened(IF tab = None THEN "activity" ELSE tab, DefaultTown)
  /\ attempt = 0 /\ result = None
  /\ flying = IF tab = None THEN {} ELSE {Sent(query, 0)}
  /\ walk = None /\ fresh = FALSE

-----------------------------------------------------------------------------
(* The screen. *)

CurrentWhatever(k) == result  \* mutant: the key is not compared
CurrentOf(k) == IF result # None /\ result.key = k THEN result ELSE None
Current == CurrentOf([query |-> query, attempt |-> attempt])
Data == IF Current = None THEN None ELSE Current.data

\* A new path or attempt: the effect of the old one is cleaned up, its answer
\* no longer wanted, and the resource is asked for.  Nothing new, nothing asked.
Show(q, a) ==
  /\ Spend("screen") /\ Cardinality(flying) < MaxFlying
  /\ <<q, a>> # <<query, attempt>>
  /\ query' = q /\ attempt' = a
  /\ flying' = {[x EXCEPT !.live = FALSE] : x \in flying} \union {Sent(q, a)}
  /\ UNCHANGED <<archiveVars, tab, elsewhere, fresh>>

Anew == walk' = None

Search ==
  /\ \E w \in {None} \union Words : Show([query EXCEPT !.q = w, !.page = 1], attempt)
  /\ Anew /\ UNCHANGED result

SetView ==
  /\ tab \in {"transcripts", "meetings"}
  /\ \E v \in {"transcripts", "meetings"} :
       Show([query EXCEPT !.view = v, !.page = 1, !.body = None], attempt)
  /\ Anew /\ UNCHANGED result

\* The boards of the answer shown, "All boards", and the one chosen.
SetBody ==
  /\ tab # "timelines"
  /\ \E b \in {None, query.body} \union (IF Data = None THEN {} ELSE Data.boards) :
       Show([query EXCEPT !.body = b, !.page = 1], attempt)
  /\ Anew /\ UNCHANGED result

SetWhen ==
  /\ tab # "timelines"
  /\ \E w \in {"all", "past", "upcoming"} : Show([query EXCEPT !.when = w, !.page = 1], attempt)
  /\ Anew /\ UNCHANGED result

\* Keyed by the town: the screen is a new one.
SetTown ==
  /\ \E t \in Towns \ {query.town} : Show(Opened(tab, t), 0)
  /\ result' = None /\ Anew

NextPage ==
  /\ Data # None /\ Data.next # None
  /\ Show([query EXCEPT !.page = Data.next], attempt)
  /\ UNCHANGED <<result, walk>>

Previous ==
  /\ Data # None /\ query.page # 1
  /\ Show([query EXCEPT !.page = @ - 1], attempt)
  /\ Anew /\ UNCHANGED result

Retry ==
  /\ Show(query, attempt + 1)
  /\ Anew /\ UNCHANGED result

\* The promise settles: its answer is kept if the effect still stands.
Heedless(x) == TRUE  \* mutant: a late answer is kept too
Heard(x) == x.live
Settle(x, data) ==
  /\ flying' = flying \ {x}
  /\ result' = IF Heard(x) THEN [key |-> x.key, data |-> data] ELSE result
  /\ fresh' = IF Heard(x) THEN x.calm ELSE fresh
  /\ UNCHANGED <<archiveVars, tab, query, attempt, elsewhere, left>>

Receive(x) ==
  /\ x.answer # None
  /\ Settle(x, x.answer)
  /\ walk' = IF ~Heard(x) THEN walk
             ELSE IF ~x.calm THEN None
             ELSE IF query.page = 1 THEN x.answer.items
             ELSE IF walk = None THEN None ELSE walk \o x.answer.items

Fail(x) ==
  /\ Settle(x, None)
  /\ walk' = IF Heard(x) THEN None ELSE walk

-----------------------------------------------------------------------------
(* GET /events and GET /matters: the rows and the count with the facets    *)
(* are statements of their own (of timelines the count comes first).       *)

NextOrBlank(p, total) == IF p * PageSize <= total THEN p + 1 ELSE None  \* mutant
NextOf(p, total) == IF p * PageSize < total THEN p + 1 ELSE None

Becomes(x, y) == flying' = (flying \ {x}) \union {y}

List(x) ==
  LET f == x.key.query IN
  /\ x.items = None
  /\ \E s \in Orders(f) : Becomes(x, [x EXCEPT !.items = Slice(s, f.page)])
  /\ UNCHANGED <<archiveVars, tab, query, attempt, result, elsewhere, left, walk, fresh>>

Count(x) ==
  LET f == x.key.query
      total == Cardinality(Found(f))
  IN
  /\ x.items # None /\ x.answer = None
  /\ Becomes(x, [x EXCEPT !.answer =
       [items |-> x.items, total |-> total, next |-> NextOf(f.page, total), boards |-> BoardsOf(f)]])
  /\ UNCHANGED <<archiveVars, tab, query, attempt, result, elsewhere, left, walk, fresh>>

-----------------------------------------------------------------------------

\* A commit, or the clock, between the statements of whatever is under way.
Disturb ==
  /\ Disturbs /\ SiteDisturbed
  /\ walk' = None /\ fresh' = FALSE
  /\ flying' = {[x EXCEPT !.calm = FALSE] : x \in flying}
  /\ UNCHANGED <<tab, query, attempt, result, follows, page, left>>

Next ==
  \/ Disturb
  \/ Search \/ SetView \/ SetBody \/ SetWhen \/ SetTown \/ NextPage \/ Previous \/ Retry
  \/ \E x \in flying : List(x) \/ Count(x) \/ Receive(x) \/ Fail(x)
  \/ SiteNext /\ UNCHANGED <<screen, walk, fresh>>

Spec == Init /\ [][Next]_vars
=============================================================================
