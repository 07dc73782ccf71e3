---------------------------- MODULE ReadingProps ----------------------------
(* What a reader may rely on in the pages shown. *)
EXTENDS Reading

\* The list, its count and its boards are those of the filters and the page on
\* the screen, however late and in whatever order the answers come, unless a
\* commit fell since they were read (state.tsx useResource).
ShownIsFound ==
  Data # None /\ fresh =>
    /\ \A i \in 1..Len(Data.items) : Data.items[i] \in Found(query)
    /\ Data.total = Cardinality(Found(query)) /\ Data.boards = BoardsOf(query)
    /\ \E s \in Orders(query) : Data.items = Slice(s, query.page)

\* A screen that shows "Loading" is waiting for a request of its own: no late
\* answer leaves it loading for ever (state.tsx useResource).
LoadingIsAsking ==
  tab # None /\ Current = None => \E x \in flying : x.live

\* Whoever pages on to the end sees every record counted exactly once, and no
\* blank page, if nothing was committed meanwhile and no two records are equal
\* in the order (repo.ts queryEvents and countEvents, reader.ts nextPage).
Unequal == \A a, b \in Found(query) : a = b \/ Before(query, a, b) \/ Before(query, b, a)

WalkIsComplete ==
  Data # None /\ walk # None /\ Unequal =>
    /\ query.page > 1 => Data.items # <<>>
    /\ \A i, j \in 1..Len(walk) : i < j => walk[i] # walk[j]
    /\ Data.next = None =>
         /\ {walk[i] : i \in 1..Len(walk)} = Found(query)
         /\ Len(walk) = Data.total

\* Who follows "Older" from the first page of a list to the last sees every
\* record counted exactly once; of the general feed, all but what is to come
\* after the first UpcomingSize (server.ts /activity, repo.ts queryEvents).
\* And a page of timelines leaves none out but for its size.
Separate(S) == \A a, b \in S : a = b \/ Newer(a, b) \/ Newer(b, a)

BrowseIsComplete ==
  /\ Made /\ trail # None /\ Separate(Found(page.query)) =>
       /\ \A i, j \in 1..Len(trail) : i < j => trail[i] # trail[j]
       /\ Among(trail) \subseteq Found(page.query)
       /\ ~Older =>
            \A r \in Found(page.query) \ Among(trail) :
              /\ page.query.view = "activity" /\ Row(r).at > now
              /\ Cardinality({q \in Among(trail) : Sooner(q, r)}) >= UpcomingSize
  /\ On("matters") /\ page.total # None /\ calm =>
       Cardinality(page.rows) = Least(page.total, MattersSize)

\* What the pages say of a matter agrees, unless a commit fell between their
\* reads: it counts the records it lists; its status is that of the newest of
\* them that says more than a mention, if none was published anew since link
\* last ran; a record points at timelines that are there; and the feed of a
\* matter is what following it alone would bring
\* (server.ts, link.ts linkMatters, stages.ts rollupStatus).
Definite(L) == {l \in L : l.stage # "mentioned"}

PagesAgree ==
  calm =>
    /\ On("matter") /\ page.rows # None =>
         LET shown == page.rows
             dated == {l.record : l \in shown} \intersect revised = {}
         IN
         /\ page.row.count = Cardinality({l.record : l \in shown})
         /\ dated /\ Definite(shown) = {} => page.row.status = "mentioned"
         /\ dated /\ Definite(shown) # {} =>
              \E l \in Definite(shown) :
                /\ l.stage = page.row.status
                /\ \A k \in Definite(shown) : Row(k.record).at <= Row(l.record).at
    /\ On("record") /\ page.chips # None =>
         \A l \in links : l.record = page.record => l \in page.chips
    /\ On("feed") /\ page.rows # None /\ page.matter # None =>
         \E s \in Sorted(Fed({[kind |-> "matter", value |-> None, matter |-> page.matter, town |-> page.matter.town]}, Records), Newer) :
           page.rows = Among(First(s, FeedSize))

\* For me is the union of the follows: what any follow alone would show is
\* there, or FeedSize records at least as new are; and what is there some follow
\* asks for, in that follow's town (repo.ts personalFeed).
ForMeIsUnion ==
  On("for-me") /\ page.rows # None /\ calm =>
    /\ \A s \in page.of : \A r \in Fed({s}, Records) \ page.rows :
         Cardinality(page.rows) = FeedSize /\ \A n \in page.rows : ~Newer(r, n)
    /\ \A r \in page.rows : \E s \in page.of :
         s.town \in {None, Row(r).town} /\ Matches(s, r)

\* docs/awareness-mvp.md:15 of For me: "with explicit match reasons".
ReasonsExplicit ==
  On("for-me") /\ page.rows # None =>
    \A r \in page.rows : page.reasons[r] # {}
=============================================================================
