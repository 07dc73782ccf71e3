------------------------------ MODULE Archive ------------------------------
(***************************************************************************)
(* The archive as its readers see it, and the processes that change it     *)
(* under them: ingest writes one record at a time, link rebuilds every     *)
(* matter of a town in one transaction, clear removes a town in one.       *)
(* SQLite gives a reader the last commit at each statement; nothing holds  *)
(* one state over the statements of a page.                                *)
(*                                                                         *)
(* Titles are numbers in alphabetical order, texts sets of words and of    *)
(* cues, instants numbers; a record is one of the versions the town may    *)
(* publish of it.                                                          *)
(***************************************************************************)
EXTENDS Linking

CONSTANTS
  Records, Boards, Channels,
  Versions,  \* Versions[r]: what the town may publish as record r
  Text,      \* Text[v]: what version v says
  Starts,    \* bound: what is there at first, linked
  MaxNow, MaxChanges  \* bounds: the clock; commits of the writers and ticks

VARIABLES
  archive,  \* archive[r]: version of record r in events, None if there is none
  links,    \* matter_events
  matters,  \* matters[m]: row of matters, as link wrote it, if there is one
  now,      \* the clock
  changes,  \* commits and ticks so far
  revised   \* history: records published since their town was last linked

archiveVars == <<archive, links, matters, now, changes, revised>>

Content == [town : Towns, body : Boards, channel : Channels, type : Types, at : Nat, title : Nat,
            words : SUBSET Words, cues : SUBSET Cues, says : Seq(Mention)]
Link == [matter : Matter, record : Records, stage : Stages]
MatterRow == [count : Nat, last : Nat, status : Stages, label : Subjects]

AnyArchive == {A \in [Records -> {None} \union UNION {Versions[r] : r \in Records}] :
  \A r \in Records : A[r] \in {None} \union Versions[r]}

ASSUME ArchiveConstants ==
  /\ IsFiniteSet(Records) /\ None \notin Towns
  /\ \A r \in Records : \A v \in Versions[r] : Text[v] \in Content /\ v # None
  /\ \A r \in Records : \A v, w \in Versions[r] : Text[v].town = Text[w].town  \* an id is of a town
  /\ Starts \subseteq AnyArchive
  /\ MaxNow \in Nat \ {0} /\ MaxChanges \in Nat

ArchiveTypeOK ==
  /\ archive \in AnyArchive
  /\ links \in SUBSET Link
  /\ DOMAIN matters \subseteq Matter
  /\ \A m \in DOMAIN matters : matters[m] \in MatterRow
  /\ revised \in SUBSET Records
  /\ now \in 0..MaxNow /\ changes \in 0..MaxChanges

-----------------------------------------------------------------------------
(* The writers. *)

Present == {r \in Records : archive[r] # None}

Row(r) == Text[archive[r]]
Of(T) == {r \in Present : Row(r).town \in T}

\* What link reads of these towns: the bid numbers first, then every record.
Known(T) == BidVocabulary({Row(r) : r \in Of(T)})

References(T) ==
  LET known == Known(T) IN
  UNION {{[matter |-> RefOf(Row(r), x.of), record |-> r, mention |-> x] :
            x \in LinkedIn(Row(r), known)} : r \in Of(T)}

LinkOf(ref) ==
  LET row == Row(ref.record) IN
  [matter |-> ref.matter, record |-> ref.record, stage |-> ReadStage(Scoped(row, ref.mention), row.type)]

Linked(R) == {LinkOf(ref) : ref \in R}

\* The row of one matter, from its references.
Written(mine) ==
  LET dates == {Row(ref.record).at : ref \in mine} IN
  [count |-> Cardinality({ref.record : ref \in mine}),
   last |-> CHOOSE d \in dates : \A e \in dates : e <= d,
   status |-> RollupStatus({[at |-> Row(ref.record).at, stage |-> LinkOf(ref).stage] : ref \in mine}),
   label |-> BestLabel({ref.mention.of : ref \in mine})]

Rebuilt(R) == [m \in {ref.matter : ref \in R} |-> Written({ref \in R : ref.matter = m})]

ArchiveInit ==
  /\ archive \in Starts
  /\ LET R == UNION {References({t}) : t \in Towns} IN links = Linked(R) /\ matters = Rebuilt(R)
  /\ now = 1 /\ changes = 0 /\ revised = {}

Change == changes < MaxChanges /\ changes' = changes + 1
Commit == Change /\ now' = now

\* upsertEvent: a record inserted or revised.
Publish ==
  /\ Commit
  /\ \E r \in Records : \E v \in Versions[r] \ {archive[r]} :
       archive' = [archive EXCEPT ![r] = v] /\ revised' = revised \union {r}
  /\ UNCHANGED <<links, matters>>

\* linkMatters: a town's matters are removed, their links with them, and
\* written again.
Relink ==
  /\ Commit
  /\ \E t \in Towns :
       LET R == References({t})
           new == Rebuilt(R)
           others == {m \in DOMAIN matters : m.town # t}
       IN
       /\ links' = {l \in links : l.matter.town # t} \union Linked(R)
       /\ matters' = [m \in others \union DOMAIN new |-> IF m.town = t THEN new[m] ELSE matters[m]]
       /\ revised' = revised \ Of({t})
  /\ UNCHANGED archive

\* clearJurisdiction, readers' view of it.
MattersKept(t) == matters  \* mutant: only the records go
MattersWithout(t) == [m \in {n \in DOMAIN matters : n.town # t} |-> matters[m]]

Clear ==
  /\ Commit
  /\ \E t \in Towns :
       /\ archive' = [r \in Records |-> IF r \in Of({t}) THEN None ELSE archive[r]]
       /\ links' = {l \in links : l.record \notin Of({t})}
       /\ matters' = MattersWithout(t)
       /\ revised' = revised \ Of({t})

Tick ==
  /\ Change
  /\ now < MaxNow /\ now' = now + 1
  /\ UNCHANGED <<archive, links, matters, revised>>

Disturbs == Publish \/ Relink \/ Clear \/ Tick

-----------------------------------------------------------------------------
(* The queries.  A filter left out is None. *)

Query == [town : Towns, view : {"transcripts", "meetings", "activity", "timelines"},
          q : {None} \union Words, body : {None} \union Boards,
          when : {"all", "past", "upcoming"}, page : Nat \ {0}]

\* buildWhere, for the three views over events.
InView(view, row) ==
  CASE view = "transcripts" -> row.type = "transcript"
    [] view = "meetings" -> row.type \in MeetingTypes
    [] view = "activity" -> row.channel # "admin"

Selects(f, r) ==
  LET row == Row(r) IN
  /\ archive[r] # None
  /\ row.town = f.town
  /\ InView(f.view, row)
  /\ f.body \in {None, row.body}
  /\ f.when = "upcoming" => row.at > now
  /\ f.when = "past" => row.at <= now
  /\ f.q \in {None} \union row.words

\* matterWhere: timelines, which a single record is not.
SelectsMatter(f, m) ==
  /\ m.town = f.town /\ matters[m].count >= 2
  /\ f.q \in {None} \union Spelt[matters[m].label].words

Found(f) ==
  IF f.view = "timelines" THEN {m \in DOMAIN matters : SelectsMatter(f, m)}
  ELSE {r \in Records : Selects(f, r)}

\* ORDER BY: what the clause says of two rows; SQL leaves equals open.
Newer(a, b) ==
  LET x == Row(a) y == Row(b) IN
  x.at > y.at \/ (x.at = y.at /\ x.title < y.title)

Sooner(a, b) ==
  LET x == Row(a) y == Row(b) IN
  x.at < y.at \/ (x.at = y.at /\ x.title < y.title)

Livelier(a, b) ==
  LET x == matters[a] y == matters[b] IN
  \/ x.last > y.last
  \/ x.last = y.last /\ x.count > y.count
  \/ x.last = y.last /\ x.count = y.count /\ Spelt[x.label].rank < Spelt[y.label].rank

Before(f, a, b) ==
  CASE f.view = "timelines" -> Livelier(a, b)
    [] f.view # "timelines" /\ f.when = "upcoming" -> Sooner(a, b)
    [] OTHER -> Newer(a, b)

Sorted(S, Ahead(_, _)) ==
  LET ahead == UNION {{<<a, b>> : b \in {c \in S : Ahead(a, c)}} : a \in S} IN
  {s \in [1..Cardinality(S) -> S] :
     \A i, j \in 1..Cardinality(S) : i < j => s[i] # s[j] /\ <<s[j], s[i]>> \notin ahead}

Orders(f) == Sorted(Found(f), LAMBDA a, b : Before(f, a, b))

\* facetCounts of the body column, under every filter but its own.
BoardsOf(f) ==
  IF f.view = "timelines" THEN {}
  ELSE {Row(r).body : r \in Found([f EXCEPT !.body = None])}

-----------------------------------------------------------------------------
(* personalFeed: a follow is a kind, what is followed, and a town, None for  *)
(* every.                                                                   *)

Follow == [kind : {"body", "channel", "search", "matter"},
           value : {None} \union Boards \union Channels \union Words,
           matter : {None} \union Matter,
           town : {None} \union Towns]

Matches(s, r) ==
  CASE s.kind = "body" -> Row(r).body = s.value
    [] s.kind = "channel" -> Row(r).channel = s.value
    [] s.kind = "search" -> s.value \in Row(r).words
    [] s.kind = "matter" -> \E l \in links : l.matter = s.matter /\ l.record = r

Anywhere(s, r) == Matches(s, r)  \* mutant: the town of a follow is ignored
Wants(s, r) == Matches(s, r) /\ s.town \in {None, Row(r).town}

AsksForAdmin(S) == \E s \in S : s.kind = "channel" /\ s.value = "admin"

Fed(S, among) ==
  {r \in Present \intersect among :
     /\ \E s \in S : Wants(s, r)
     /\ AsksForAdmin(S) \/ Row(r).channel # "admin"}
=============================================================================
