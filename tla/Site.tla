-------------------------------- MODULE Site --------------------------------
(***************************************************************************)
(* The pages of the website that are made in several reads of the archive, *)
(* or around an await: the lists, a matter's timeline, a record, For me,   *)
(* and the feeds other programs fetch.  One reader, one page at a time.    *)
(***************************************************************************)
EXTENDS Archive

CONSTANTS
  Interests,     \* follows the reader may have
  PageSize,      \* PAGE_SIZE
  UpcomingSize,  \* records to come on the general feed
  MattersSize,   \* timelines on their page
  FeedSize,      \* records of a feed and of For me
  Quotas         \* bounds: questions of the phone's screen, lists, other pages and follows

VARIABLES
  follows,  \* subscriptions of the reader
  page,     \* the page of the website being made, or made
  left,     \* what is left of the quota
  trail,    \* history: records seen going on from page 1, None once disturbed
  calm      \* history: nothing was committed since the page in the making began

site == <<follows, page, trail>>

Quota == [screen : Nat, lists : Nat, pages : Nat]
Part == Seq(Records)
ListQuery == {f \in Query : f.view # "timelines"}
ListPage == [kind : {"list"}, query : ListQuery, ahead : Part, rows : {None} \union Part,
             total : {None} \union Nat]
MattersPage == [kind : {"matters"}, total : {None} \union Nat, rows : SUBSET Matter,
                town : Towns, q : {None} \union Words, all : BOOLEAN]
MatterPage == [kind : {"matter"}, matter : Matter, row : MatterRow, rows : {None} \union SUBSET Link]
RecordPage == [kind : {"record"}, record : Records, chips : {None} \union SUBSET Link]
ForMe == [kind : {"for-me"}, of : SUBSET Interests, rows : {None} \union SUBSET Records,
          reasons : [Records -> SUBSET Interests]]
Feed == [kind : {"feed"}, town : Towns, matter : {None} \union Matter, rows : {None} \union SUBSET Records]

ASSUME SiteConstants ==
  /\ Interests \subseteq Follow
  /\ PageSize \in Nat \ {0} /\ UpcomingSize \in Nat \ {0}
  /\ MattersSize \in Nat \ {0} /\ FeedSize \in Nat \ {0}
  /\ Quotas \subseteq Quota

SiteTypeOK ==
  /\ follows \in SUBSET Interests
  /\ page = None \/ page \in ListPage \/ page \in MattersPage \/ page \in MatterPage
                 \/ page \in RecordPage \/ page \in ForMe \/ page \in Feed
  /\ left \in Quota
  /\ trail = None \/ trail \in Part
  /\ calm \in BOOLEAN

\* Follows of every town are of a time before follows had a town.
SiteInit ==
  /\ follows = {s \in Interests : s.town = None}
  /\ left \in Quotas
  /\ page = None /\ trail = None /\ calm = TRUE

Spend(what) == left[what] > 0 /\ left' = [left EXCEPT ![what] = @ - 1]

\* A page is asked for, and its first read done: p.
Begin(p) ==
  /\ page' = p /\ calm' = TRUE
  /\ UNCHANGED <<archiveVars, follows>>

\* Its next read, of a page of this kind.
On(kind) == page # None /\ page.kind = kind
Goes(p) == page' = p /\ UNCHANGED <<archiveVars, follows, left, calm>>

Least(a, b) == IF a < b THEN a ELSE b
First(s, n) == SubSeq(s, 1, Least(n, Len(s)))
Among(s) == {s[i] : i \in 1..Len(s)}

Slice(s, p) == SubSeq(s, (p - 1) * PageSize + 1, Least(p * PageSize, Len(s)))

-----------------------------------------------------------------------------
(* GET /activity and GET /meetings. *)

\* The general feed reads what is to come and what is past apart.
Half(f, when) == [f EXCEPT !.when = when]
ShowsUpcoming(f) == f.view = "activity" /\ f.when # "past" /\ f.page = 1

AheadOf(f) ==
  IF ShowsUpcoming(f) THEN {First(s, UpcomingSize) : s \in Orders(Half(f, "upcoming"))} ELSE {<<>>}

Visit(f) ==
  \E s \in AheadOf(f) :
    Begin([kind |-> "list", query |-> f, ahead |-> s, rows |-> None, total |-> None])

\* A form, a link or a shared address: whatever the filters, from page 1.
OpenList ==
  /\ Spend("lists")
  /\ \E f \in [town : Towns, view : {"transcripts", "meetings", "activity"}, q : {None} \union Words,
               body : {None} \union Boards, when : {"all", "past", "upcoming"}, page : {1}] : Visit(f)
  /\ trail' = <<>>

Rows(f) ==
  CASE f.view # "activity" -> {Slice(s, f.page) : s \in Orders(f)}
    [] f.view = "activity" /\ f.when = "upcoming" -> {<<>>}
    [] OTHER -> {Slice(s, f.page) : s \in Orders(Half(f, "past"))}

ReadRows ==
  /\ On("list") /\ page.rows = None
  /\ \E s \in Rows(page.query) : Goes([page EXCEPT !.rows = s])
  /\ UNCHANGED trail

ReadTotal ==
  /\ On("list") /\ page.rows # None /\ page.total = None
  /\ Goes([page EXCEPT !.total = Cardinality(Found(page.query))])
  /\ trail' = IF trail = None THEN None ELSE trail \o page.ahead \o page.rows

Made == On("list") /\ page.total # None

\* The general feed offers older records while a page is full, the meetings by
\* their count.
OlderIfOver == IF page.query.view = "activity" THEN Len(page.rows) > PageSize  \* mutant
               ELSE page.query.page * PageSize < page.total
Older == IF page.query.view = "activity" THEN Len(page.rows) >= PageSize
         ELSE page.query.page * PageSize < page.total

GoOlder ==
  /\ Made /\ Older /\ Spend("lists")
  /\ Visit([page.query EXCEPT !.page = @ + 1])
  /\ UNCHANGED trail

GoNewer ==
  /\ Made /\ page.query.page > 1 /\ Spend("lists")
  /\ Visit([page.query EXCEPT !.page = @ - 1])
  /\ trail' = None

-----------------------------------------------------------------------------
(* GET /matters, GET /matter/:id and GET /event/:id.  A matter's row, or a  *)
(* record, is read, the reader is resolved, and the rest is read.           *)

ListedMatters(t, q, all) ==
  {m \in DOMAIN matters :
     /\ m.town = t /\ q \in {None} \union Spelt[matters[m].label].words
     /\ all \/ matters[m].count >= 2}

Documented(a, b) ==
  LET x == matters[a] y == matters[b] IN
  \/ x.count > y.count
  \/ x.count = y.count /\ x.last > y.last
  \/ x.count = y.count /\ x.last = y.last /\ Spelt[x.label].rank < Spelt[y.label].rank

OpenMatters ==
  /\ Spend("pages")
  /\ \E t \in Towns, q \in {None} \union Words, all \in BOOLEAN :
       \E s \in Sorted(ListedMatters(t, q, all), Livelier) \union Sorted(ListedMatters(t, q, all), Documented) :
         Begin([kind |-> "matters", town |-> t, q |-> q, all |-> all, total |-> None,
                rows |-> Among(First(s, MattersSize))])
  /\ trail' = None

CountMatters ==
  /\ On("matters") /\ page.total = None
  /\ Goes([page EXCEPT !.total = Cardinality(ListedMatters(page.town, page.q, page.all))])
  /\ UNCHANGED trail

OpenMatter ==
  /\ Spend("pages")
  /\ \E m \in DOMAIN matters : Begin([kind |-> "matter", matter |-> m, row |-> matters[m], rows |-> None])
  /\ trail' = None

\* The timeline joins the records as they are now.
Timeline(m) == {l \in links : l.matter = m}

FinishMatter ==
  /\ On("matter") /\ page.rows = None
  /\ Goes([page EXCEPT !.rows = Timeline(page.matter)])
  /\ UNCHANGED trail

OpenRecord ==
  /\ Spend("pages")
  /\ \E r \in Present : Begin([kind |-> "record", record |-> r, chips |-> None])
  /\ trail' = None

MattersForEvent(r) == {l \in links : l.record = r /\ l.matter \in DOMAIN matters}

FinishRecord ==
  /\ On("record") /\ page.chips = None
  /\ Goes([page EXCEPT !.chips = MattersForEvent(page.record)])
  /\ UNCHANGED trail

-----------------------------------------------------------------------------
(* Follows, For me and the feeds. *)

\* A form may follow what is not there; it always names a town.
EditFollows ==
  /\ Spend("pages")
  /\ \/ \E s \in {x \in Interests : x.town # None} : follows' = follows \union {s}
     \/ \E s \in follows : follows' = follows \ {s}
  /\ UNCHANGED <<archiveVars, page, trail, calm>>

\* The interest a page of /interests is about: a board that has records, a
\* matter of the town; a topic or a search is always one.
Choice(s) ==
  /\ s.town # None
  /\ s.kind = "body" => \E r \in Present : Row(r).town = s.town /\ Row(r).body = s.value
  /\ s.kind = "matter" => s.matter \in DOMAIN matters

\* GET /for-me, GET /my and the reader's own feed: the follows are awaited.
\* GET /interests: one choice, saved or not.
OpenForMe ==
  /\ Spend("pages")
  /\ \E S \in {follows} \union {{s} : s \in {x \in Interests : Choice(x)}} :
       Begin([kind |-> "for-me", of |-> S, rows |-> None, reasons |-> [r \in Records |-> {}]])
  /\ trail' = None

FinishForMe ==
  /\ On("for-me") /\ page.rows = None
  /\ \E s \in Sorted(Fed(page.of, Records), Newer) :
       LET front == Among(First(s, FeedSize)) IN
       Goes([page EXCEPT
         !.rows = front,
         !.reasons = [r \in Records |-> {i \in page.of : r \in Fed({i}, front)}]])
  /\ UNCHANGED trail

\* GET /feeds/all.atom: of a matter if there is one of that name, and else of
\* the town.
Scope(t, m) == {r \in Present :
  /\ Row(r).channel # "admin"
  /\ Row(r).town = IF m = None THEN t ELSE m.town
  /\ m # None => \E l \in links : l.matter = m /\ l.record = r}

FetchFeed ==
  /\ Spend("pages")
  /\ \E t \in Towns, m \in {s.matter : s \in Interests} :
       Begin([kind |-> "feed", town |-> t, rows |-> None,
              matter |-> IF m \in DOMAIN matters THEN m ELSE None])
  /\ trail' = None

FinishFeed ==
  /\ On("feed") /\ page.rows = None
  /\ \E s \in Sorted(Scope(page.town, page.matter), Newer) :
       Goes([page EXCEPT !.rows = Among(First(s, FeedSize))])
  /\ UNCHANGED trail

\* What a commit, or the clock, does to the histories.
SiteDisturbed == trail' = None /\ calm' = FALSE

SiteNext ==
  \/ OpenList \/ ReadRows \/ ReadTotal \/ GoOlder \/ GoNewer
  \/ OpenMatters \/ CountMatters \/ OpenMatter \/ FinishMatter \/ OpenRecord \/ FinishRecord
  \/ EditFollows \/ OpenForMe \/ FinishForMe \/ FetchFeed \/ FinishFeed
=============================================================================
