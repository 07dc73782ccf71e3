------------------------- MODULE ReaderAccessProofs -------------------------
(***************************************************************************)
(* For any readers, sessions, requests and quotas, over either backend:    *)
(* the accounts implement the promise about a reader's list; a device that *)
(* was signed out stays so; nobody loses a session without a cause; the    *)
(* phone holds the newest token, and greets the reader it belongs to.      *)
(***************************************************************************)
EXTENDS ReaderAccessProps, TLAPS

Active == {"arrived", "fresh", "known"}
TokenOrNone == Token \union {None}
FollowOrNone == Follows \union {None}
ReaderOrNone == Readers \union {None}
CsrfOrNone == Csrf \union {None}

\* A form's field vouches for the reader the form greets.
Vouches(c, r) ==
  /\ r # None /\ c # None
  /\ Hosted => c[1] = r
  /\ ~Hosted => c[1] \in Sessions /\ owner[c[1]] = r

\* What a request under way says is what its session and its form say.
Sound(x) ==
  LET q == req[x] IN
  /\ q.tok # None => owner[q.tok.s] # None
  /\ q.hand # None /\ q.hand # Cleared => owner[q.hand.s] # None
  /\ q.who # None => q.tok # None /\ owner[q.tok.s] = q.who
  /\ q.op = "enter" /\ q.phase = "arrived" => q.seen # None
  /\ q.op \in Edits => q.what # None
  /\ x \in WebRequests /\ q.op \in Edits /\ q.phase \in Active => Vouches(q.csrf, q.seen)
  /\ q.op = "read" /\ q.phase = "answered" /\ q.code = "ok" => Vouches(q.csrf, q.seen)
  /\ x \in PhoneRequests /\ q.op \in Edits /\ q.phase \in Active =>
       q.tok # None /\ owner[q.tok.s] = q.seen
  /\ x \in PhoneRequests => q.hand # Cleared
  /\ ~Hosted /\ q.hand # None /\ q.hand # Cleared => q.op = "enter"

\* What the devices hold was given to them.
Devices ==
  /\ jar # None => owner[jar.s] # None
  /\ stored # None => owner[stored.s] # None
  /\ tab # None => Vouches(tab.csrf, tab.seen)

\* A call that says what it is for.
Asking ==
  {c \in Call : (c.op = "enter" => c.reader # None) /\ (c.op \in Edits => c.what # None)}

\* One call of the phone at a time, none but a sign-in without a token.
Serial ==
  /\ queue \in Seq(Asking)
  /\ \A x \in flying : calls[x] \in Asking
  /\ \A x, y \in flying : x = y
  /\ \A x \in flying : calls[x].op # "enter" => stored # None

IInv == TypeOK /\ (\A x \in Requests : Sound(x)) /\ Devices /\ Serial

-----------------------------------------------------------------------------
\* The markers are apart.
LEMMA Constants ==
  /\ MaxGen \in Nat /\ MaxGen >= 1
  /\ WebRequests \intersect PhoneRequests = {}
  /\ None \notin Readers /\ None \notin Token /\ None \notin Follows /\ None \notin Csrf /\ None \notin Form
  /\ Cleared \notin Readers /\ Cleared \notin Token /\ None # Cleared
  /\ Quotas \subseteq Quota
BY AccessConstants DEF AccessConstants

\* A request keeps its type when some fields are written.
LEMMA RequestFields ==
  ASSUME NEW q \in Request
  PROVE  /\ q.phase \in {"idle", "arrived", "fresh", "known", "answered", "lost"}
         /\ q.op \in Ops /\ q.what \in Follows \union {None} /\ q.tok \in TokenOrNone
         /\ q.csrf \in Csrf \union {None} /\ q.seen \in Readers \union {None}
         /\ q.who \in Readers \union {None} /\ q.hand \in Token \union {None, Cleared}
         /\ q.code \in {"ok", "denied", "failed"}
BY DEF Request, TokenOrNone

\* The answer of a request is a request.
LEMMA AnswerType ==
  ASSUME NEW x \in Requests, req[x] \in Request,
         NEW code \in {"ok", "denied", "failed"}, NEW hand \in Token \union {None, Cleared}
  PROVE  /\ Answer(x, code, hand) \in Request
         /\ Answer(x, code, hand).phase = "answered" /\ Answer(x, code, hand).code = code
         /\ Answer(x, code, hand).hand = hand /\ Answer(x, code, hand).op = req[x].op
         /\ Answer(x, code, hand).tok = req[x].tok /\ Answer(x, code, hand).who = req[x].who
         /\ Answer(x, code, hand).csrf = req[x].csrf /\ Answer(x, code, hand).seen = req[x].seen
         /\ Answer(x, code, hand).what = req[x].what
<1> DEFINE q == req[x]
           q1 == [q EXCEPT !.phase = "answered"]
           q2 == [q1 EXCEPT !.code = code]
           q3 == [q2 EXCEPT !.hand = hand]
<1>1. q \in Request /\ Answer(x, code, hand) = q3
  BY DEF Answer
<1> HIDE DEF q3
<1>2. q2 \in Request => /\ q3 \in Request /\ q3.hand = hand /\ q3.phase = q2.phase /\ q3.code = q2.code
                       /\ q3.op = q2.op /\ q3.tok = q2.tok /\ q3.who = q2.who /\ q3.csrf = q2.csrf
                       /\ q3.seen = q2.seen /\ q3.what = q2.what
  <2> USE DEF q3
  <2> HIDE DEF q2
  <2> QED BY DEF Request
<1> HIDE DEF q2
<1>3. q1 \in Request => /\ q2 \in Request /\ q2.hand = q1.hand /\ q2.phase = q1.phase /\ q2.code = code
                       /\ q2.op = q1.op /\ q2.tok = q1.tok /\ q2.who = q1.who /\ q2.csrf = q1.csrf
                       /\ q2.seen = q1.seen /\ q2.what = q1.what
  <2> USE DEF q2
  <2> HIDE DEF q1
  <2> QED BY DEF Request
<1> HIDE DEF q1
<1>4. q \in Request => /\ q1 \in Request /\ q1.phase = "answered"
                      /\ q1.op = q.op /\ q1.tok = q.tok /\ q1.who = q.who /\ q1.csrf = q.csrf
                      /\ q1.seen = q.seen /\ q1.what = q.what
  <2> USE DEF q1
  <2> HIDE DEF q
  <2> QED BY DEF Request
<1> QED
  BY <1>1, <1>2, <1>3, <1>4 DEF q

\* The reader of the session presented.
LEMMA KnownType ==
  ASSUME NEW x \in Requests, req[x] \in Request, NEW r \in Readers \union {None}
  PROVE  /\ Known(x, r) \in Request
         /\ Known(x, r).phase = "known" /\ Known(x, r).who = r
         /\ Known(x, r).hand = IF r = None THEN None ELSE req[x].hand
         /\ Known(x, r).op = req[x].op /\ Known(x, r).tok = req[x].tok
         /\ Known(x, r).csrf = req[x].csrf /\ Known(x, r).seen = req[x].seen
         /\ Known(x, r).what = req[x].what
BY DEF Known, Request

\* Nothing is under way.
LEMMA IdleType ==
  /\ Idle \in Request
  /\ Idle.phase = "idle" /\ Idle.op = "read" /\ Idle.tok = None /\ Idle.csrf = None
  /\ Idle.seen = None /\ Idle.who = None /\ Idle.hand = None /\ Idle.code = "ok"
BY DEF Idle, Request, Ops

\* The calls the phone makes of its own accord.
LEMMA StartType ==
  /\ Start \in Call /\ Start.op = "start" /\ Resession \in Call /\ Resession.op = "session"
BY DEF Start, Resession, Call

\* The program starts with nobody signed in.
LEMMA InitHolds == Init => IInv
<1> SUFFICES ASSUME Init PROVE IInv
  OBVIOUS
<1>1. StoreTypeOK
  BY Constants DEF Init, StoreInit, StoreTypeOK
<1>2. AccessTypeOK
  <2>1. secret \in Nat /\ jar \in Token \union {None} /\ tab \in Form \union {None}
        /\ stored \in Token \union {None} /\ shown \in Readers \union {None}
        /\ queue \in Seq(Call) /\ flying \in SUBSET PhoneRequests /\ excused \in SUBSET Sessions
    BY DEF Init
  <2>2. failed \in BOOLEAN
    BY DEF Init
  <2>3. req \in [Requests -> Request] /\ calls \in [PhoneRequests -> Call]
    BY IdleType, StartType DEF Init
  <2>4. left \in Quota
    BY Constants DEF Init
  <2> QED
    BY <2>1, <2>2, <2>3, <2>4 DEF AccessTypeOK
<1>3. \A x \in Requests : Sound(x)
  <2> TAKE x \in Requests
  <2>1. req[x] = Idle
    BY DEF Init
  <2> QED
    BY <2>1, IdleType, Constants DEF Sound, Edits, Active
<1>4. Devices /\ Serial
  BY DEF Init, Devices, Serial
<1> QED
  BY <1>1, <1>2, <1>3, <1>4 DEF IInv, TypeOK

-----------------------------------------------------------------------------
\* A session keeps its reader.
Grows ==
  /\ backend' = backend
  /\ \A s \in Sessions : owner[s] # None => owner'[s] = owner[s]

\* A request the step does not touch stays sound.
LEMMA SoundFrame ==
  ASSUME TypeOK, Grows, NEW x \in Requests, Sound(x), req'[x] = req[x]
  PROVE  Sound(x)'
<1>1. req[x] \in Request
  BY DEF TypeOK, AccessTypeOK
<1>2. /\ req[x].tok # None => req[x].tok.s \in Sessions
      /\ req[x].hand # None /\ req[x].hand # Cleared => req[x].hand.s \in Sessions
  BY <1>1, RequestFields DEF Token, TokenOrNone
<1>3. \A c, r : Vouches(c, r) => Vouches(c, r)'
  BY DEF Vouches, Grows, Hosted
<1> QED
  BY <1>1, <1>2, <1>3 DEF Sound, Grows, Hosted

\* So do the devices.
LEMMA DevicesFrame ==
  ASSUME TypeOK, Grows, Devices, UNCHANGED <<jar, tab, stored>>
  PROVE  Devices'
<1>1. /\ jar # None => jar.s \in Sessions
      /\ stored # None => stored.s \in Sessions
  BY DEF TypeOK, AccessTypeOK, Token
<1>2. \A c, r : Vouches(c, r) => Vouches(c, r)'
  BY DEF Vouches, Grows, Hosted
<1> QED
  BY <1>1, <1>2 DEF Devices, Grows

\* A step that writes one request.
LEMMA OneRequest ==
  ASSUME IInv, NEW x \in Requests, NEW q \in Request, Set(x, q), Grows,
         UNCHANGED <<jar, tab, stored>>, Serial', StoreTypeOK',
         secret' \in Nat, shown' \in Readers \union {None}, queue' \in Seq(Call),
         flying' \in SUBSET PhoneRequests, calls' \in [PhoneRequests -> Call],
         excused' \in SUBSET Sessions, failed' \in BOOLEAN, left' \in Quota,
         req' = [req EXCEPT ![x] = q] => Sound(x)'
  PROVE  IInv'
<1>1. req' = [req EXCEPT ![x] = q] /\ req \in [Requests -> Request]
  BY DEF Set, IInv, TypeOK, AccessTypeOK
<1>2. req' \in [Requests -> Request] /\ \A y \in Requests : y # x => req'[y] = req[y]
  BY <1>1
<1>3. AccessTypeOK'
  BY <1>2 DEF IInv, TypeOK, AccessTypeOK
<1>4. \A y \in Requests : Sound(y)'
  BY <1>1, <1>2, SoundFrame DEF IInv
<1>5. Devices'
  BY DevicesFrame DEF IInv
<1> QED
  BY <1>3, <1>4, <1>5 DEF IInv, TypeOK

-----------------------------------------------------------------------------
\* A request written is what was written.
LEMMA Written ==
  ASSUME TypeOK, NEW x \in Requests, NEW q, Set(x, q)
  PROVE  req'[x] = q
BY DEF Set, TypeOK, AccessTypeOK

\* A step of the server for one request.
LEMMA ServerStep ==
  ASSUME IInv, NEW x \in Requests, NEW q \in Request, Set(x, q), Grows,
         UNCHANGED <<browser, phone, secret>>, StoreTypeOK',
         excused' \in SUBSET Sessions, failed' \in BOOLEAN, left' \in Quota, Sound(x)'
  PROVE  IInv'
<1>1. Serial' /\ UNCHANGED <<jar, tab, stored, shown, queue, flying, calls>>
  BY DEF browser, phone, IInv, Serial
<1>2. secret' \in Nat /\ shown' \in Readers \union {None} /\ queue' \in Seq(Call)
      /\ flying' \in SUBSET PhoneRequests /\ calls' \in [PhoneRequests -> Call]
  BY <1>1 DEF IInv, TypeOK, AccessTypeOK
<1> QED
  BY <1>1, <1>2, OneRequest

\* The store is left alone.
LEMMA StoreKept ==
  ASSUME TypeOK, UNCHANGED store
  PROVE  StoreTypeOK' /\ Grows
BY DEF TypeOK, StoreTypeOK, store, Grows

\* A session is ended.
LEMMA EndSessionKeeps ==
  ASSUME TypeOK, NEW s, EndSession(s)
  PROVE  StoreTypeOK' /\ Grows
BY DEF EndSession, TypeOK, StoreTypeOK, Grows

\* A list is edited.
LEMMA SubscribeKeeps ==
  ASSUME TypeOK, NEW r \in Readers, NEW op \in Edits, NEW f \in Follows, Subscribe(r, op, f)
  PROVE  StoreTypeOK' /\ Grows
<1>1. \A l \in SUBSET Follows : Applied(l, op, f) \in SUBSET Follows
  BY DEF Applied, Edits
<1>2. lists' \in [Readers -> SUBSET Follows]
  BY <1>1 DEF Subscribe, TypeOK, StoreTypeOK
<1> QED
  BY <1>2 DEF Subscribe, TypeOK, StoreTypeOK, Grows, sessionState

\* A pair is exchanged.
LEMMA ExchangeKeeps ==
  ASSUME TypeOK, Hosted, NEW t \in Token, Exchange(t)
  PROVE  StoreTypeOK' /\ Grows /\ gen'[t.s] \in 1..MaxGen
<1>1. t.s \in Sessions /\ t.g \in 1..MaxGen
  BY DEF Token
<1>2. backend' = backend /\ owner' = owner /\ live' = live /\ lists' = lists
  BY DEF Exchange
<1>3. CASE t.g = gen[t.s]
  <2>1. gen' = [gen EXCEPT ![t.s] = @ + 1] /\ window' = [window EXCEPT ![t.s] = TRUE]
        /\ stale' = [stale EXCEPT ![t.s] = FALSE] /\ gen[t.s] < MaxGen
    BY <1>3 DEF Exchange
  <2>2. gen[t.s] + 1 \in 1..MaxGen
    BY <1>1, <2>1, Constants DEF TypeOK, StoreTypeOK
  <2>3. gen' \in [Sessions -> 1..MaxGen]
    BY <2>1, <2>2 DEF TypeOK, StoreTypeOK
  <2>4. window' \in [Sessions -> BOOLEAN]
    BY <2>1 DEF TypeOK, StoreTypeOK
  <2>5. stale' \in [Sessions -> BOOLEAN]
    BY <2>1 DEF TypeOK, StoreTypeOK
  <2> QED
    BY <1>1, <1>2, <2>3, <2>4, <2>5 DEF TypeOK, StoreTypeOK, Grows
<1>4. CASE t.g # gen[t.s]
  BY <1>1, <1>2, <1>4 DEF Exchange, TypeOK, StoreTypeOK, Grows
<1> QED
  BY <1>3, <1>4

\* The sessions a request may leave its holder without.
LEMMA SessionsOfType ==
  ASSUME TypeOK, NEW x \in Requests
  PROVE  SessionsOf(x) \subseteq Sessions
<1>1. req[x].tok \in TokenOrNone /\ req[x].hand \in Token \union {None, Cleared}
  BY RequestFields DEF TypeOK, AccessTypeOK
<1> QED
  BY <1>1 DEF SessionsOf, Token, TokenOrNone

\* What a fault costs.
LEMMA FaultType ==
  ASSUME TypeOK, Fault
  PROVE  left' \in Quota /\ failed' \in BOOLEAN
<1>1. left' \in Quota
  BY DEF Fault, TypeOK, AccessTypeOK, Quota
<1>2. failed' \in BOOLEAN
  BY DEF Fault
<1> QED
  BY <1>1, <1>2

\* A request that goes on with no session but the one it came with.
LEMMA PhaseType ==
  ASSUME NEW q \in Request, NEW p \in {"idle", "arrived", "fresh", "known", "answered", "lost"}
  PROVE  /\ [q EXCEPT !.phase = p] \in Request /\ [q EXCEPT !.phase = p].phase = p
         /\ [q EXCEPT !.phase = p].op = q.op /\ [q EXCEPT !.phase = p].what = q.what
         /\ [q EXCEPT !.phase = p].tok = q.tok /\ [q EXCEPT !.phase = p].csrf = q.csrf
         /\ [q EXCEPT !.phase = p].seen = q.seen /\ [q EXCEPT !.phase = p].who = q.who
         /\ [q EXCEPT !.phase = p].hand = q.hand /\ [q EXCEPT !.phase = p].code = q.code
BY DEF Request

\* A request that goes on with a new pair.
LEMMA FreshType ==
  ASSUME NEW q \in Request, NEW n \in Token
  PROVE  /\ [q EXCEPT !.phase = "fresh", !.tok = n, !.hand = n] \in Request
         /\ [q EXCEPT !.phase = "fresh", !.tok = n, !.hand = n].phase = "fresh"
         /\ [q EXCEPT !.phase = "fresh", !.tok = n, !.hand = n].tok = n
         /\ [q EXCEPT !.phase = "fresh", !.tok = n, !.hand = n].hand = n
         /\ [q EXCEPT !.phase = "fresh", !.tok = n, !.hand = n].op = q.op
         /\ [q EXCEPT !.phase = "fresh", !.tok = n, !.hand = n].what = q.what
         /\ [q EXCEPT !.phase = "fresh", !.tok = n, !.hand = n].csrf = q.csrf
         /\ [q EXCEPT !.phase = "fresh", !.tok = n, !.hand = n].seen = q.seen
         /\ [q EXCEPT !.phase = "fresh", !.tok = n, !.hand = n].who = q.who
BY DEF Request

-----------------------------------------------------------------------------
\* resolve, while it asks for a new pair.
LEMMA RefreshHolds ==
  ASSUME IInv, NEW x \in Requests, Refresh(x)
  PROVE  IInv'
<1> DEFINE q == req[x]
           t == req[x].tok
           next == [s |-> t.s, g |-> gen'[t.s]]
<1>1. q \in Request /\ TypeOK /\ Sound(x)
  BY DEF IInv, TypeOK, AccessTypeOK
<1>2. Hosted /\ q.phase = "arrived" /\ q.op # "enter" /\ t \in Token /\ t.s \in Sessions
      /\ UNCHANGED <<secret, browser, phone>>
  BY <1>1, RequestFields DEF Refresh, Token, TokenOrNone
<1>3. \/ Exchange(t) /\ Set(x, [q EXCEPT !.phase = "fresh", !.tok = next, !.hand = next])
         /\ UNCHANGED <<excused, budget>>
      \/ /\ Exchange(t) \/ UNCHANGED store \/ RefuseExchange(t)
         /\ Set(x, [q EXCEPT !.phase = "known"])
         /\ (Fault /\ Excuse({t.s})) \/ UNCHANGED <<excused, budget>>
  BY DEF Refresh
<1>4. owner[t.s] # None
  BY <1>1, <1>2, Constants DEF Sound
<1>5. excused' \in SUBSET Sessions /\ failed' \in BOOLEAN /\ left' \in Quota
  <2>1. CASE UNCHANGED <<excused, budget>>
    BY <2>1, <1>1 DEF budget, TypeOK, AccessTypeOK
  <2>2. CASE Fault /\ Excuse({t.s})
    BY <2>2, <1>1, <1>2, FaultType DEF Excuse, TypeOK, AccessTypeOK
  <2> QED
    BY <1>3, <2>1, <2>2
<1>6. ASSUME Exchange(t), Set(x, [q EXCEPT !.phase = "fresh", !.tok = next, !.hand = next])
      PROVE  IInv'
  <2>1. StoreTypeOK' /\ Grows /\ gen'[t.s] \in 1..MaxGen /\ owner' = owner
    BY <1>1, <1>2, <1>6, ExchangeKeeps DEF Exchange
  <2>2. next \in Token /\ next.s = t.s
    BY <1>2, <2>1 DEF Token
  <2> DEFINE n == [q EXCEPT !.phase = "fresh", !.tok = next, !.hand = next]
  <2>3. /\ n \in Request /\ n.phase = "fresh" /\ n.tok = next /\ n.hand = next /\ n.op = q.op
        /\ n.csrf = q.csrf /\ n.seen = q.seen /\ n.who = q.who /\ n.what = q.what
    BY <1>1, <2>2, FreshType
  <2>4. req'[x] = n
    BY <1>1, <1>6, Written
  <2> HIDE DEF n
  <2>5. \A c, r : Vouches(c, r) => Vouches(c, r)'
    BY <2>1 DEF Vouches, Grows, Hosted
  <2>6. Sound(x)'
    BY <1>1, <1>2, <1>4, <2>1, <2>2, <2>3, <2>4, <2>5, Constants DEF Sound, Active, Grows, Hosted
  <2> USE DEF n
  <2> QED
    BY <1>2, <1>5, <1>6, <2>1, <2>3, <2>6, ServerStep
<1>7. ASSUME Exchange(t) \/ UNCHANGED store \/ RefuseExchange(t),
             Set(x, [q EXCEPT !.phase = "known"])
      PROVE  IInv'
  <2>1. StoreTypeOK' /\ Grows /\ owner' = owner
    <3>1. CASE Exchange(t)
      BY <3>1, <1>1, <1>2, ExchangeKeeps DEF Exchange
    <3>2. CASE UNCHANGED store
      BY <3>2, <1>1, StoreKept DEF store
    <3>3. CASE RefuseExchange(t)
      BY <3>3, <1>1 DEF RefuseExchange, TypeOK, StoreTypeOK, Grows
    <3> QED
      BY <1>7, <3>1, <3>2, <3>3
  <2> DEFINE n == [q EXCEPT !.phase = "known"]
  <2>2. /\ n \in Request /\ n.phase = "known" /\ n.tok = t /\ n.hand = q.hand /\ n.op = q.op
        /\ n.csrf = q.csrf /\ n.seen = q.seen /\ n.who = q.who /\ n.what = q.what
    BY <1>1, PhaseType
  <2>3. req'[x] = n
    BY <1>1, <1>7, Written
  <2> HIDE DEF n
  <2>4. \A c, r : Vouches(c, r) => Vouches(c, r)'
    BY <2>1 DEF Vouches, Grows, Hosted
  <2>5. Sound(x)'
    BY <1>1, <1>2, <2>1, <2>2, <2>3, <2>4, Constants DEF Sound, Active, Grows, Hosted
  <2> USE DEF n
  <2> QED
    BY <1>2, <1>5, <1>7, <2>1, <2>2, <2>5, ServerStep
<1> QED
  BY <1>3, <1>6, <1>7

\* The rest of resolve.
LEMMA IdentifyHolds ==
  ASSUME IInv, NEW x \in Requests, Identify(x)
  PROVE  IInv'
<1> DEFINE q == req[x]
           t == req[x].tok
<1>1. q \in Request /\ TypeOK /\ Sound(x)
  BY DEF IInv, TypeOK, AccessTypeOK
<1>2. q.op # "enter" /\ q.phase \in {"arrived", "fresh"} /\ UNCHANGED <<secret, browser, phone>>
      /\ t \in TokenOrNone
  BY <1>1, RequestFields DEF Identify
<1>3. PICK r \in Readers \union {None} :
        /\ Set(x, Known(x, r))
        /\ r # None => t # None /\ r = owner[t.s]
        /\ ~Hosted /\ r # None => ~stale[t.s]
        /\ UNCHANGED store \/ (t # None /\ EndSession(t.s))
        /\ UNCHANGED <<excused, budget>> \/ (t # None /\ Fault /\ Excuse({t.s}))
  <2>1. t # None => t.s \in Sessions /\ owner[t.s] \in Readers \union {None}
    BY <1>1, <1>2 DEF Token, TokenOrNone, TypeOK, StoreTypeOK
  <2>2. CASE t = None
    BY <2>2 DEF Identify
  <2>3. CASE t # None /\ Hosted
    BY <2>1, <2>3 DEF Identify
  <2>4. CASE t # None /\ ~Hosted
    <3>1. CASE t.s \in live /\ ~stale[t.s]
      BY <2>1, <2>4, <3>1 DEF Identify
    <3>2. CASE ~(t.s \in live /\ ~stale[t.s])
      BY <2>1, <2>4, <3>2 DEF Identify
    <3> QED
      BY <3>1, <3>2
  <2> QED
    BY <2>2, <2>3, <2>4
<1>4. excused' \in SUBSET Sessions /\ failed' \in BOOLEAN /\ left' \in Quota
  <2>1. CASE UNCHANGED <<excused, budget>>
    BY <2>1, <1>1 DEF budget, TypeOK, AccessTypeOK
  <2>2. CASE t # None /\ Fault /\ Excuse({t.s})
    BY <2>2, <1>1, <1>2, FaultType DEF Excuse, TypeOK, AccessTypeOK, TokenOrNone, Token
  <2> QED
    BY <1>3, <2>1, <2>2
<1>5. StoreTypeOK' /\ Grows /\ owner' = owner /\ stale' = stale
  BY <1>1, <1>3, StoreKept, EndSessionKeeps DEF store, EndSession
<1>6. /\ Known(x, r) \in Request
      /\ Known(x, r).phase = "known" /\ Known(x, r).who = r
      /\ Known(x, r).hand = IF r = None THEN None ELSE q.hand
      /\ Known(x, r).op = q.op /\ Known(x, r).tok = t
      /\ Known(x, r).csrf = q.csrf /\ Known(x, r).seen = q.seen /\ Known(x, r).what = q.what
  BY <1>1, KnownType
<1>7. req'[x] = Known(x, r)
  BY <1>1, <1>3, Written
<1>8. \A c, w : Vouches(c, w) => Vouches(c, w)'
  BY <1>5 DEF Vouches, Grows, Hosted
<1>9. Sound(x)'
  BY <1>1, <1>2, <1>3, <1>5, <1>6, <1>7, <1>8, Constants DEF Sound, Active, Grows, Hosted
<1> QED
  BY <1>2, <1>3, <1>4, <1>5, <1>6, <1>9, ServerStep

\* A session begins, or does not.
LEMMA EnterHolds ==
  ASSUME IInv, NEW x \in Requests, Enter(x)
  PROVE  IInv'
<1> DEFINE q == req[x]
           f == CHOOSE z \in Sessions : owner[z] = None
           hand == [s |-> f, g |-> 1]
<1>1. q \in Request /\ TypeOK /\ Sound(x)
  BY DEF IInv, TypeOK, AccessTypeOK
<1>2. /\ q.op = "enter" /\ q.seen \in Readers
      /\ UNCHANGED <<secret, browser, phone, excused>>
  BY <1>1, RequestFields DEF Enter, Sound
<1>3. \/ /\ \E z \in Sessions : owner[z] = None
         /\ StartSession(q.seen, f) /\ Set(x, Answer(x, "ok", hand)) /\ UNCHANGED budget
      \/ Set(x, Answer(x, "denied", None)) /\ UNCHANGED <<store, budget>>
      \/ Fault /\ Set(x, Answer(x, "failed", None)) /\ UNCHANGED store
  BY DEF Enter
<1>4. excused' \in SUBSET Sessions /\ failed' \in BOOLEAN /\ left' \in Quota
  BY <1>1, <1>2, <1>3, FaultType DEF budget, TypeOK, AccessTypeOK
<1>5. ASSUME \E z \in Sessions : owner[z] = None,
             StartSession(q.seen, f), Set(x, Answer(x, "ok", hand))
      PROVE  IInv'
  <2>1. f \in Sessions /\ owner[f] = None
    BY <1>5
  <2>2. hand \in Token /\ hand.s = f
    BY <2>1, Constants DEF Token
  <2> HIDE DEF f, hand
  <2>3. /\ Answer(x, "ok", hand) \in Request /\ Answer(x, "ok", hand).phase = "answered"
        /\ Answer(x, "ok", hand).hand = hand /\ Answer(x, "ok", hand).op = q.op
        /\ Answer(x, "ok", hand).tok = q.tok /\ Answer(x, "ok", hand).who = q.who
    BY <1>1, <2>2, AnswerType
  <2>4. StoreTypeOK' /\ Grows /\ owner' = [owner EXCEPT ![f] = q.seen] /\ stale' = stale
    BY <1>1, <1>2, <1>5, <2>1 DEF StartSession, TypeOK, StoreTypeOK, Grows
  <2>5. owner'[f] # None
    BY <1>1, <1>2, <2>1, <2>4, Constants DEF TypeOK, StoreTypeOK
  <2>6. req'[x] = Answer(x, "ok", hand)
    BY <1>1, <1>5, Written
  <2>7. q.tok # None => q.tok.s \in Sessions
    BY <1>1, RequestFields DEF TokenOrNone, Token
  <2>8. Sound(x)'
    BY <1>1, <1>2, <2>2, <2>3, <2>4, <2>5, <2>6, <2>7, Constants DEF Sound, Active, Edits, Grows, Hosted
  <2> QED
    BY <1>2, <1>4, <1>5, <2>3, <2>4, <2>8, ServerStep
<1>6. ASSUME NEW code \in {"denied", "failed"}, Set(x, Answer(x, code, None)), UNCHANGED store
      PROVE  IInv'
  <2>1. /\ Answer(x, code, None) \in Request /\ Answer(x, code, None).phase = "answered"
        /\ Answer(x, code, None).hand = None /\ Answer(x, code, None).op = q.op
        /\ Answer(x, code, None).tok = q.tok /\ Answer(x, code, None).who = q.who
    BY <1>1, AnswerType
  <2>2. StoreTypeOK' /\ Grows
    BY <1>1, <1>6, StoreKept
  <2>3. req'[x] = Answer(x, code, None)
    BY <1>1, <1>6, Written
  <2>4. Sound(x)'
    BY <1>1, <1>2, <1>6, <2>1, <2>3, Constants DEF Sound, Active, Edits, Hosted, store
  <2> QED
    BY <1>2, <1>4, <1>6, <2>1, <2>2, <2>4, ServerStep
<1> QED
  BY <1>3, <1>5, <1>6

\* A page for a reader vouches for that reader.
LEMMA CsrfVouches ==
  ASSUME TypeOK, NEW r \in Readers, NEW t \in Token, owner[t.s] = r
  PROVE  CsrfOf(r, t) \in Csrf /\ Vouches(CsrfOf(r, t), r)
<1>1. t.s \in Sessions /\ secret \in Nat
  BY DEF Token, TypeOK, AccessTypeOK
<1>2. CsrfOf(r, t) \in Csrf
  BY <1>1 DEF CsrfOf, Csrf
<1>3. CsrfOf(r, t) # None
  BY <1>2, Constants
<1>4. Hosted => CsrfOf(r, t)[1] = r
  BY DEF CsrfOf
<1>5. ~Hosted => CsrfOf(r, t)[1] = t.s
  BY DEF CsrfOf
<1> QED
  BY <1>1, <1>2, <1>3, <1>4, <1>5, Constants DEF Vouches

\* A page, or who is signed in.
LEMMA ReadHolds ==
  ASSUME IInv, NEW x \in Requests, Read(x)
  PROVE  IInv'
<1> DEFINE q == req[x]
<1>1. q \in Request /\ TypeOK /\ Sound(x)
  BY DEF IInv, TypeOK, AccessTypeOK
<1>2. /\ q.op = "read" /\ q.phase = "known" /\ q.hand \in Token \union {None, Cleared}
      /\ UNCHANGED <<store, secret, browser, phone, excused, budget>>
  BY <1>1, RequestFields DEF Read
<1>3. StoreTypeOK' /\ Grows
  BY <1>1, <1>2, StoreKept
<1>4. excused' \in SUBSET Sessions /\ failed' \in BOOLEAN /\ left' \in Quota
  BY <1>1, <1>2 DEF budget, TypeOK, AccessTypeOK
<1>5. CASE q.who = None
  <2> DEFINE n == Answer(x, "denied", q.hand)
  <2>1. Set(x, n)
    BY <1>5 DEF Read
  <2>2. /\ n \in Request /\ n.phase = "answered" /\ n.hand = q.hand /\ n.op = q.op /\ n.code = "denied"
        /\ n.tok = q.tok /\ n.who = q.who
    BY <1>1, <1>2, AnswerType
  <2>3. req'[x] = n
    BY <1>1, <2>1, Written
  <2> HIDE DEF n
  <2>4. Sound(x)'
    BY <1>1, <1>2, <2>2, <2>3, Constants DEF Sound, Active, Edits, Hosted, store
  <2> QED
    BY <1>2, <1>3, <1>4, <2>1, <2>2, <2>4, ServerStep
<1>6. CASE q.who # None
  <2>1. q.who \in Readers /\ q.tok \in Token /\ owner[q.tok.s] = q.who
    BY <1>1, <1>6, RequestFields DEF Sound, TokenOrNone
  <2>2. PICK r \in Readers : r = q.who
    BY <2>1
  <2>3. PICK c \in Csrf : c = CsrfOf(q.who, q.tok) /\ Vouches(c, r)
    BY <1>1, <2>1, <2>2, CsrfVouches
  <2>4. PICK a \in Request : /\ a = Answer(x, "ok", q.hand)
                            /\ a.phase = "answered" /\ a.hand = q.hand /\ a.op = q.op
                            /\ a.tok = q.tok /\ a.who = q.who
    BY <1>1, <1>2, AnswerType
  <2> DEFINE n == [a EXCEPT !.csrf = c, !.seen = r]
  <2>5. Set(x, n)
    BY <1>6, <2>2, <2>3, <2>4 DEF Read
  <2>6. req'[x] = n
    BY <1>1, <2>5, Written
  <2>7. /\ n \in Request /\ n.csrf = c /\ n.seen = r
        /\ n.phase = a.phase /\ n.op = a.op /\ n.tok = a.tok /\ n.who = a.who /\ n.hand = a.hand
    BY DEF Request
  <2> HIDE DEF n
  <2>8. Vouches(req[x].csrf, req[x].seen)'
    BY <1>2, <2>3, <2>6, <2>7 DEF Vouches, Hosted, store
  <2>9. Sound(x)'
    BY <1>1, <1>2, <2>4, <2>6, <2>7, <2>8, Constants DEF Sound, Active, Edits, Hosted, store
  <2> QED
    BY <1>2, <1>3, <1>4, <2>5, <2>7, <2>9, ServerStep
<1> QED
  BY <1>5, <1>6

\* A request of an edit or a sign-out is answered.
LEMMA AnsweredHolds ==
  ASSUME IInv, NEW x \in Requests, NEW code \in {"ok", "denied", "failed"},
         NEW hand \in Token \union {None, Cleared},
         req[x].phase = "known", req[x].op \in Edits \union {"leave"},
         hand = req[x].hand \/ (x \in WebRequests /\ hand = Cleared),
         Set(x, Answer(x, code, hand)), StoreTypeOK', Grows, owner' = owner,
         UNCHANGED <<secret, browser, phone>>,
         excused' \in SUBSET Sessions, failed' \in BOOLEAN, left' \in Quota
  PROVE  IInv'
<1> DEFINE q == req[x]
           n == Answer(x, code, hand)
<1>1. q \in Request /\ TypeOK /\ Sound(x)
  BY DEF IInv, TypeOK, AccessTypeOK
<1>2. /\ n \in Request /\ n.phase = "answered" /\ n.hand = hand /\ n.op = q.op /\ n.code = code
      /\ n.tok = q.tok /\ n.who = q.who /\ n.what = q.what
  BY <1>1, AnswerType
<1>3. req'[x] = n
  BY <1>1, Written
<1> HIDE DEF n
<1>4. Sound(x)'
  BY <1>1, <1>2, <1>3, Constants DEF Sound, Active, Edits, Hosted, Grows
<1> USE DEF n
<1> QED
  BY <1>2, <1>4, ServerStep

\* The row read again is left as it is, or removed because it expired.
LEMMA RereadEnds ==
  ASSUME NEW x, Reread(x)
  PROVE  \/ UNCHANGED store
         \/ /\ ~Hosted /\ req[x].who # None /\ stale[req[x].tok.s]
            /\ EndSession(req[x].tok.s)
BY DEF Reread

\* Following and unfollowing.
LEMMA EditHolds ==
  ASSUME IInv, NEW x \in Requests, Edit(x)
  PROVE  IInv'
<1> DEFINE q == req[x]
<1>1. q \in Request /\ TypeOK /\ Sound(x)
  BY DEF IInv, TypeOK, AccessTypeOK
<1>2. /\ q.op \in Edits /\ q.phase = "known" /\ q.hand \in Token \union {None, Cleared}
      /\ q.what \in Follows \union {None}
      /\ UNCHANGED <<secret, browser, phone, excused>>
  BY <1>1, RequestFields DEF Edit
<1>3. PICK code \in {"ok", "denied", "failed"} :
        /\ Set(x, Answer(x, code, q.hand))
        /\ UNCHANGED store \/ EndSession(q.tok.s) \/ (q.who # None /\ Subscribe(q.who, q.op, q.what))
        /\ UNCHANGED budget \/ Fault
  <2>1. CASE Allowed(x)
    BY <2>1 DEF Edit, Allowed
  <2>2. CASE ~Allowed(x)
    <3>1. Set(x, Answer(x, "denied", q.hand)) /\ Reread(x) /\ UNCHANGED budget
      BY <2>2 DEF Edit
    <3> QED
      BY <3>1, RereadEnds
  <2> QED
    BY <2>1, <2>2
<1>4. excused' \in SUBSET Sessions /\ failed' \in BOOLEAN /\ left' \in Quota
  BY <1>1, <1>2, <1>3, FaultType DEF budget, TypeOK, AccessTypeOK
<1>5. StoreTypeOK' /\ Grows /\ owner' = owner
  <2>1. CASE UNCHANGED store
    BY <2>1, <1>1, StoreKept DEF store
  <2>2. CASE q.who # None /\ Subscribe(q.who, q.op, q.what)
    <3>1. q.who \in Readers /\ q.what \in Follows
      BY <2>2, <1>1, <1>2, RequestFields DEF Sound
    <3> QED
      BY <2>2, <3>1, <1>1, <1>2, SubscribeKeeps DEF Subscribe, sessionState
  <2>3. CASE EndSession(q.tok.s)
    BY <2>3, <1>1, EndSessionKeeps DEF EndSession
  <2> QED
    BY <1>3, <2>1, <2>2, <2>3
<1> QED
  BY <1>2, <1>3, <1>4, <1>5, AnsweredHolds

\* Signing out.
LEMMA LeaveHolds ==
  ASSUME IInv, NEW x \in Requests, Leave(x)
  PROVE  IInv'
<1> DEFINE q == req[x]
           hand == IF x \in WebRequests THEN Cleared ELSE q.hand
<1>1. q \in Request /\ TypeOK /\ Sound(x)
  BY DEF IInv, TypeOK, AccessTypeOK
<1>2. /\ q.op = "leave" /\ q.phase = "known" /\ hand \in Token \union {None, Cleared}
      /\ hand = q.hand \/ (x \in WebRequests /\ hand = Cleared)
      /\ UNCHANGED <<secret, browser, phone>>
  BY <1>1, RequestFields DEF Leave
<1>3. PICK code \in {"ok", "denied"} :
        /\ Set(x, Answer(x, code, hand))
        /\ UNCHANGED store \/ EndSession(q.tok.s)
        /\ UNCHANGED budget \/ Fault
        /\ UNCHANGED excused \/ (q.who # None /\ Excuse({q.tok.s}))
  <2>1. CASE Allowed(x)
    BY <2>1 DEF Leave, Allowed
  <2>2. CASE ~Allowed(x)
    <3>1. Set(x, Answer(x, "denied", hand)) /\ Reread(x) /\ UNCHANGED <<excused, budget>>
      BY <2>2 DEF Leave
    <3> QED
      BY <3>1, RereadEnds
  <2> QED
    BY <2>1, <2>2
<1>4. excused' \in SUBSET Sessions
  BY <1>1, <1>3, RequestFields DEF Excuse, Sound, TypeOK, AccessTypeOK, Token, TokenOrNone
<1>5. failed' \in BOOLEAN /\ left' \in Quota
  BY <1>1, <1>3, FaultType DEF budget, TypeOK, AccessTypeOK
<1>6. StoreTypeOK' /\ Grows /\ owner' = owner
  BY <1>1, <1>3, StoreKept, EndSessionKeeps DEF store, EndSession
<1> QED
  BY <1>2, <1>3, <1>4, <1>5, <1>6, AnsweredHolds

\* The server goes on.
LEMMA ServeHolds ==
  ASSUME IInv, NEW x \in Requests, Serve(x)
  PROVE  IInv'
BY RefreshHolds, IdentifyHolds, EnterHolds, ReadHolds, EditHolds, LeaveHolds DEF Serve

-----------------------------------------------------------------------------
\* A request that is no more, or never answered, is sound.
LEMMA SoundDropped ==
  ASSUME NEW x \in Requests, Grows, req'[x] = Idle
  PROVE  Sound(x)'
BY IdleType, Constants DEF Sound, Edits, Active

LEMMA SoundLost ==
  ASSUME TypeOK, NEW x \in Requests, Sound(x), Grows, req'[x] = [req[x] EXCEPT !.phase = "lost"]
  PROVE  Sound(x)'
<1>1. req[x] \in Request
  BY DEF TypeOK, AccessTypeOK
<1> DEFINE n == [req[x] EXCEPT !.phase = "lost"]
<1>2. /\ n.phase = "lost" /\ n.tok = req[x].tok /\ n.hand = req[x].hand /\ n.op = req[x].op
      /\ n.who = req[x].who /\ n.what = req[x].what
  BY <1>1, PhaseType
<1>3. /\ req[x].tok # None => req[x].tok.s \in Sessions
      /\ req[x].hand # None /\ req[x].hand # Cleared => req[x].hand.s \in Sessions
  BY <1>1, RequestFields DEF Token, TokenOrNone
<1>4. req'[x] = n
  OBVIOUS
<1> HIDE DEF n
<1> QED
  BY <1>2, <1>3, <1>4, Constants DEF Sound, Active, Edits, Grows, Hosted

\* A deploy.
LEMMA RestartHolds ==
  ASSUME IInv, Restart
  PROVE  IInv'
<1>1. TypeOK /\ UNCHANGED <<store, browser, phone, failed>>
  BY DEF IInv, Restart
<1>2. StoreTypeOK' /\ Grows
  BY <1>1, StoreKept
<1>3. \A x \in Requests :
        \/ req'[x] = Idle
        \/ req'[x] = [req[x] EXCEPT !.phase = "lost"]
  BY DEF Restart
<1>4. \A x \in Requests : Sound(x)'
  BY <1>1, <1>2, <1>3, SoundDropped, SoundLost DEF IInv
<1>5. \A x \in Requests : [req[x] EXCEPT !.phase = "lost"] \in Request
  BY <1>1, PhaseType DEF TypeOK, AccessTypeOK
<1>6. req' \in [Requests -> Request]
  BY <1>5, IdleType DEF Restart
<1>7. excused' \in SUBSET Sessions
  BY <1>1, SessionsOfType DEF Restart, Excuse, TypeOK, AccessTypeOK
<1>8. left' \in Quota /\ secret' \in Nat
  BY <1>1 DEF Restart, TypeOK, AccessTypeOK, Quota
<1>9. AccessTypeOK'
  BY <1>1, <1>6, <1>7, <1>8 DEF browser, phone, TypeOK, AccessTypeOK
<1>10. Devices' /\ Serial'
  BY <1>1, <1>2, DevicesFrame DEF IInv, browser, phone, Serial
<1> QED
  BY <1>2, <1>4, <1>9, <1>10 DEF IInv, TypeOK

\* A session ages, or its window closes.
LEMMA TimeHolds ==
  ASSUME IInv, NEW s \in Sessions, Age(s) \/ Close(s)
  PROVE  IInv'
<1>1. TypeOK /\ UNCHANGED <<secret, req, browser, phone, budget>>
  BY DEF IInv, Age, Close
<1>2. StoreTypeOK'
  <2>1. CASE Expire(s)
    BY <1>1, <2>1 DEF Expire, TypeOK, StoreTypeOK
  <2>2. CASE CloseWindow(s)
    BY <1>1, <2>2 DEF CloseWindow, TypeOK, StoreTypeOK
  <2> QED
    BY <2>1, <2>2 DEF Age, Close
<1>3. Grows
  <2>1. CASE Age(s)
    <3>1. backend' = backend /\ owner' = owner
      BY <2>1 DEF Age, Expire
    <3> QED
      BY <3>1 DEF Grows
  <2>2. CASE Close(s)
    BY <2>2 DEF Close, CloseWindow, Grows
  <2> QED
    BY <2>1, <2>2
<1>4. excused' \in SUBSET Sessions
  BY <1>1 DEF Age, Close, Excuse, TypeOK, AccessTypeOK
<1>5. AccessTypeOK'
  BY <1>1, <1>4 DEF browser, phone, budget, TypeOK, AccessTypeOK
<1>6. \A x \in Requests : Sound(x)'
  BY <1>1, <1>3, SoundFrame DEF IInv
<1>7. Devices' /\ Serial'
  BY <1>1, <1>3, DevicesFrame DEF IInv, browser, phone, Serial
<1> QED
  BY <1>2, <1>5, <1>6, <1>7 DEF IInv, TypeOK

-----------------------------------------------------------------------------
\* What the devices send: the fields written are those written, the others kept.
LEMMA EnterFields ==
  ASSUME NEW q \in Request, NEW r \in Readers
  PROVE  /\ [q EXCEPT !.phase = "arrived", !.op = "enter", !.seen = r] \in Request
         /\ [q EXCEPT !.phase = "arrived", !.op = "enter", !.seen = r].phase = "arrived"
         /\ [q EXCEPT !.phase = "arrived", !.op = "enter", !.seen = r].op = "enter"
         /\ [q EXCEPT !.phase = "arrived", !.op = "enter", !.seen = r].seen = r
         /\ [q EXCEPT !.phase = "arrived", !.op = "enter", !.seen = r].tok = q.tok
         /\ [q EXCEPT !.phase = "arrived", !.op = "enter", !.seen = r].hand = q.hand
         /\ [q EXCEPT !.phase = "arrived", !.op = "enter", !.seen = r].who = q.who
BY DEF Request, Ops, Edits, TokenOrNone

LEMMA ReadFields ==
  ASSUME NEW q \in Request, NEW t \in TokenOrNone
  PROVE  /\ [q EXCEPT !.phase = "arrived", !.tok = t] \in Request
         /\ [q EXCEPT !.phase = "arrived", !.tok = t].phase = "arrived"
         /\ [q EXCEPT !.phase = "arrived", !.tok = t].op = q.op
         /\ [q EXCEPT !.phase = "arrived", !.tok = t].tok = t
         /\ [q EXCEPT !.phase = "arrived", !.tok = t].hand = q.hand
         /\ [q EXCEPT !.phase = "arrived", !.tok = t].who = q.who
BY DEF Request, Ops, Edits, TokenOrNone

Asks(q, op, f) == [q EXCEPT !.phase = "arrived", !.op = op, !.what = f]
Holds(q, t, c, r) == [q EXCEPT !.tok = t, !.csrf = c, !.seen = r]
Calls(q, t, r) == [q EXCEPT !.tok = t, !.seen = r]

LEMMA AskFields ==
  ASSUME NEW q \in Request, NEW op \in Ops, NEW f \in FollowOrNone
  PROVE  /\ Asks(q, op, f) \in Request
         /\ Asks(q, op, f).phase = "arrived"
         /\ Asks(q, op, f).op = op
         /\ Asks(q, op, f).what = f
         /\ Asks(q, op, f).hand = q.hand
         /\ Asks(q, op, f).who = q.who
         /\ Asks(q, op, f).code = q.code
BY DEF Asks, Request, TokenOrNone, FollowOrNone, CsrfOrNone, ReaderOrNone

LEMMA HolderFields ==
  ASSUME NEW q \in Request, NEW t \in TokenOrNone, NEW c \in CsrfOrNone, NEW r \in ReaderOrNone
  PROVE  /\ Holds(q, t, c, r) \in Request
         /\ Holds(q, t, c, r).phase = q.phase
         /\ Holds(q, t, c, r).op = q.op
         /\ Holds(q, t, c, r).what = q.what
         /\ Holds(q, t, c, r).tok = t
         /\ Holds(q, t, c, r).csrf = c
         /\ Holds(q, t, c, r).seen = r
         /\ Holds(q, t, c, r).hand = q.hand
         /\ Holds(q, t, c, r).who = q.who
BY DEF Holds, Request, TokenOrNone, FollowOrNone, CsrfOrNone, ReaderOrNone

LEMMA CallerFields ==
  ASSUME NEW q \in Request, NEW t \in TokenOrNone, NEW r \in ReaderOrNone
  PROVE  /\ Calls(q, t, r) \in Request
         /\ Calls(q, t, r).phase = q.phase
         /\ Calls(q, t, r).op = q.op
         /\ Calls(q, t, r).what = q.what
         /\ Calls(q, t, r).tok = t
         /\ Calls(q, t, r).seen = r
         /\ Calls(q, t, r).hand = q.hand
         /\ Calls(q, t, r).who = q.who
         /\ Calls(q, t, r).code = q.code
BY DEF Calls, Request, TokenOrNone, FollowOrNone, CsrfOrNone, ReaderOrNone

LEMMA EnterSent ==
  ASSUME NEW r \in Readers
  PROVE  \E n \in Request :
           /\ n = [Idle EXCEPT !.phase = "arrived", !.op = "enter", !.seen = r]
           /\ n.phase = "arrived" /\ n.op = "enter" /\ n.seen = r
           /\ n.tok = None /\ n.hand = None /\ n.who = None
<1>1. PICK n : n = [Idle EXCEPT !.phase = "arrived", !.op = "enter", !.seen = r]
  OBVIOUS
<1>2. /\ n \in Request /\ n.phase = "arrived" /\ n.op = "enter" /\ n.seen = r
      /\ n.tok = Idle.tok /\ n.hand = Idle.hand /\ n.who = Idle.who
  BY <1>1, EnterFields, IdleType, Zenon
<1> QED
  BY <1>1, <1>2, IdleType, Zenon

LEMMA ReadSent ==
  ASSUME NEW t \in TokenOrNone
  PROVE  \E n \in Request :
           /\ n = [Idle EXCEPT !.phase = "arrived", !.tok = t]
           /\ n.phase = "arrived" /\ n.op = "read"
           /\ n.tok = t /\ n.hand = None /\ n.who = None
<1>1. PICK n : n = [Idle EXCEPT !.phase = "arrived", !.tok = t]
  OBVIOUS
<1>2. /\ n \in Request /\ n.phase = "arrived" /\ n.op = Idle.op
      /\ n.tok = t /\ n.hand = Idle.hand /\ n.who = Idle.who
  BY <1>1, ReadFields, IdleType, Zenon
<1> QED
  BY <1>1, <1>2, IdleType, Zenon

LEMMA FormSent ==
  ASSUME NEW op \in Ops, NEW f \in FollowOrNone, NEW t \in TokenOrNone,
         NEW c \in CsrfOrNone, NEW r \in ReaderOrNone
  PROVE  LET n == Holds(Asks(Idle, op, f), t, c, r)
         IN  /\ n \in Request /\ n.phase = "arrived" /\ n.op = op /\ n.what = f
             /\ n.tok = t /\ n.csrf = c /\ n.seen = r /\ n.hand = None /\ n.who = None
BY AskFields, HolderFields, IdleType

LEMMA CallSent ==
  ASSUME NEW op \in Ops, NEW f \in FollowOrNone, NEW t \in TokenOrNone, NEW r \in ReaderOrNone
  PROVE  LET n == Calls(Asks(Idle, op, f), t, r)
         IN  /\ n \in Request /\ n.phase = "arrived" /\ n.op = op /\ n.what = f
             /\ n.tok = t /\ n.seen = r /\ n.hand = None /\ n.who = None /\ n.code = "ok"
BY AskFields, CallerFields, IdleType

\* A request of the web is not the phone's.
LEMMA WebIsWeb ==
  ASSUME NEW x \in WebRequests
  PROVE  x \in Requests /\ x \notin PhoneRequests
BY Constants DEF Requests

\* What leaves the browser says what the browser holds.
SentByWeb(n) ==
  /\ n.phase = "arrived" /\ n.hand = None /\ n.who = None
  /\ n.tok # None => n.tok = jar
  /\ n.op = "enter" => n.seen # None /\ n.tok = None
  /\ n.op \in Edits => tab # None /\ n.what # None /\ n.csrf = tab.csrf /\ n.seen = tab.seen

LEMMA WebSent ==
  ASSUME IInv, NEW x \in WebRequests, WebSend(x)
  PROVE  \E n \in Request : Set(x, n) /\ SentByWeb(n)
<1>1. jar \in TokenOrNone /\ tab \in Form \union {None}
  BY DEF IInv, TypeOK, AccessTypeOK, TokenOrNone
<1>2. ASSUME NEW r \in Readers, Set(x, [Idle EXCEPT !.phase = "arrived", !.op = "enter", !.seen = r])
      PROVE  \E n \in Request : Set(x, n) /\ SentByWeb(n)
  <2>1. PICK n \in Request :
           /\ n = [Idle EXCEPT !.phase = "arrived", !.op = "enter", !.seen = r]
           /\ n.phase = "arrived" /\ n.op = "enter" /\ n.seen = r
           /\ n.tok = None /\ n.hand = None /\ n.who = None
    BY EnterSent, Zenon
  <2>2. Set(x, n)
    BY <1>2, <2>1, Zenon
  <2> QED
    BY <2>1, <2>2, Constants DEF Edits, SentByWeb
<1>3. ASSUME Set(x, [Idle EXCEPT !.phase = "arrived", !.tok = jar])
      PROVE  \E n \in Request : Set(x, n) /\ SentByWeb(n)
  <2>1. PICK t \in TokenOrNone : t = jar
    BY <1>1
  <2>2. PICK n \in Request :
           /\ n = [Idle EXCEPT !.phase = "arrived", !.tok = t]
           /\ n.phase = "arrived" /\ n.op = "read"
           /\ n.tok = t /\ n.hand = None /\ n.who = None
    BY ReadSent, Zenon
  <2>3. Set(x, n)
    BY <1>3, <2>1, <2>2, Zenon
  <2> QED
    BY <2>1, <2>2, <2>3 DEF Edits, SentByWeb
<1>4. ASSUME tab # None, NEW op \in Edits \union {"leave"}, NEW f \in Follows,
             Set(x, [Idle EXCEPT !.phase = "arrived", !.op = op, !.what = f,
                                 !.tok = jar, !.csrf = tab.csrf, !.seen = tab.seen])
      PROVE  \E n \in Request : Set(x, n) /\ SentByWeb(n)
  <2>1. PICK t \in TokenOrNone, c \in Csrf, r \in Readers : t = jar /\ c = tab.csrf /\ r = tab.seen
    BY <1>1, <1>4 DEF Form
  <2>2. op \in Ops /\ f \in FollowOrNone /\ c \in CsrfOrNone /\ r \in ReaderOrNone
    BY <2>1 DEF Ops, FollowOrNone, CsrfOrNone, ReaderOrNone
  <2>3. PICK n : n = Holds(Asks(Idle, op, f), t, c, r)
    OBVIOUS
  <2>4. /\ n \in Request /\ n.phase = "arrived" /\ n.op = op /\ n.what = f
        /\ n.tok = t /\ n.csrf = c /\ n.seen = r /\ n.hand = None /\ n.who = None
    BY <2>1, <2>2, <2>3, FormSent
  <2>5. Set(x, n)
    BY <1>4, <2>1, <2>3, Zenon DEF Holds, Asks
  <2> QED
    BY <1>4, <2>1, <2>4, <2>5, Constants DEF Edits, SentByWeb
<1> QED
  BY <1>2, <1>3, <1>4 DEF WebSend

\* A request leaves the browser.
LEMMA WebSendHolds ==
  ASSUME IInv, NEW x \in WebRequests, WebSend(x)
  PROVE  IInv'
<1>1. /\ TypeOK /\ x \in Requests /\ x \notin PhoneRequests
      /\ UNCHANGED <<store, secret, browser, phone, excused, failed>>
  BY WebIsWeb DEF IInv, WebSend
<1>2. StoreTypeOK' /\ Grows
  BY <1>1, StoreKept
<1>3. excused' \in SUBSET Sessions /\ failed' \in BOOLEAN
  BY <1>1 DEF TypeOK, AccessTypeOK
<1>4. left' \in Quota
  <2>1. left.web > 0 /\ left' = [left EXCEPT !.web = @ - 1]
    BY DEF WebSend
  <2> QED
    BY <1>1, <2>1 DEF TypeOK, AccessTypeOK, Quota
<1>5. PICK n \in Request : Set(x, n) /\ SentByWeb(n)
  BY WebSent
<1>6. req'[x] = n
  BY <1>1, <1>5, Written
<1>7. Devices /\ UNCHANGED <<owner, backend>>
  BY <1>1 DEF IInv, store
<1>8. n.op \in Edits => Vouches(n.csrf, n.seen)
  BY <1>5, <1>7 DEF Devices, SentByWeb
<1>9. n.op \in Edits => Vouches(req[x].csrf, req[x].seen)'
  BY <1>6, <1>7, <1>8 DEF Vouches, Hosted
<1>10. Sound(x)'
  BY <1>1, <1>5, <1>6, <1>7, <1>9, Constants DEF Sound, SentByWeb, Active, Devices, Hosted
<1> QED
  BY <1>1, <1>2, <1>3, <1>4, <1>5, <1>10, ServerStep

\* A request that is free again says nothing.
LEMMA IdleSound ==
  ASSUME NEW x \in Requests, req'[x] = Idle
  PROVE  Sound(x)'
BY IdleType, Constants DEF Sound, Edits, Active

\* An answer's cookie, and the form of the page.
LEMMA WebReceiveHolds ==
  ASSUME IInv, NEW x \in WebRequests, WebReceive(x)
  PROVE  IInv'
<1>1. /\ TypeOK /\ Devices /\ Sound(x) /\ x \in Requests /\ req[x] \in Request
      /\ UNCHANGED <<store, secret, phone, excused, budget>> /\ Set(x, Idle)
  BY WebIsWeb DEF IInv, WebReceive, TypeOK, AccessTypeOK
<1>2. StoreTypeOK' /\ Grows
  BY <1>1, StoreKept
<1>3. req' \in [Requests -> Request] /\ \A y \in Requests : y # x => req'[y] = req[y]
  BY <1>1, IdleType DEF Set, TypeOK, AccessTypeOK
<1>4. req'[x] = Idle
  BY <1>1, Written
<1>5. \A y \in Requests : Sound(y)'
  BY <1>1, <1>2, <1>3, <1>4, SoundFrame, IdleSound DEF IInv
<1>6. req[x].hand \in Token \union {None, Cleared} /\ req[x].csrf \in Csrf \union {None}
      /\ req[x].seen \in Readers \union {None} /\ jar \in Token \union {None}
      /\ tab \in Form \union {None}
  BY <1>1, RequestFields DEF TypeOK, AccessTypeOK
<1>7. jar' \in Token \union {None} /\ (jar' # None => owner[jar'.s] # None)
  BY <1>1, <1>6 DEF WebReceive, Devices, Sound
<1>8. tab' \in Form \union {None} /\ (tab' # None => Vouches(tab'.csrf, tab'.seen))
  <2>1. CASE tab' = tab
    BY <1>1, <1>6, <2>1 DEF Devices
  <2>2. CASE req[x].op = "read" /\ req[x].code = "ok"
             /\ tab' = [csrf |-> req[x].csrf, seen |-> req[x].seen]
    <3>1. Vouches(req[x].csrf, req[x].seen)
      BY <1>1, <2>2 DEF WebReceive, Sound
    <3>2. req[x].csrf \in Csrf /\ req[x].seen \in Readers
      BY <1>6, <3>1 DEF Vouches
    <3> QED
      BY <2>2, <3>1, <3>2 DEF Form
  <2> QED
    BY <2>1, <2>2 DEF WebReceive
<1>9. UNCHANGED <<owner, backend, stored, shown, queue, flying, calls, failed, left>>
  BY <1>1 DEF store, phone, budget
<1>10. Devices'
  <2>1. tab' # None => Vouches(tab.csrf, tab.seen)'
    BY <1>8, <1>9 DEF Vouches, Hosted
  <2> QED
    BY <1>1, <1>7, <1>9, <2>1 DEF Devices
<1>11. Serial'
  BY <1>9 DEF IInv, Serial
<1>12. AccessTypeOK'
  BY <1>1, <1>3, <1>7, <1>8, <1>9 DEF TypeOK, AccessTypeOK
<1> QED
  BY <1>2, <1>5, <1>10, <1>11, <1>12 DEF IInv, TypeOK

\* An answer that does not arrive.
LEMMA WebLoseHolds ==
  ASSUME IInv, NEW x \in WebRequests, WebLose(x)
  PROVE  IInv'
<1>1. /\ TypeOK /\ x \in Requests /\ Set(x, Idle) /\ Fault
      /\ UNCHANGED <<store, secret, browser, phone>>
  BY WebIsWeb DEF IInv, WebLose
<1>2. StoreTypeOK' /\ Grows
  BY <1>1, StoreKept
<1>3. excused' \in SUBSET Sessions
  BY <1>1, SessionsOfType DEF WebLose, Excuse, TypeOK, AccessTypeOK
<1>4. failed' \in BOOLEAN /\ left' \in Quota
  BY <1>1, FaultType
<1>5. Sound(x)'
  BY <1>1, Written, IdleSound
<1> QED
  BY <1>1, <1>2, <1>3, <1>4, <1>5, IdleType, ServerStep

-----------------------------------------------------------------------------
\* What a settled call leaves in the queue and on the screen.
LEMMA SettleType ==
  ASSUME TypeOK, NEW c \in Call, NEW ok, NEW r \in Readers \union {None}, NEW rest \in Seq(Asking),
         Settle(c, ok, r, rest)
  PROVE  queue' \in Seq(Asking) /\ shown' \in Readers \union {None}
<1>1. Resession \in Asking
  BY StartType DEF Asking, Edits
<1>2. Append(rest, Resession) \in Seq(Asking)
  BY <1>1
<1>3. queue' \in Seq(Asking)
  BY <1>2 DEF Settle
<1>4. shown' \in Readers \union {None}
  BY DEF Settle, TypeOK, AccessTypeOK
<1> QED
  BY <1>3, <1>4

\* A step of the phone: what it holds keeps its type and its soundness, and the
\* requests that are written are sound.
LEMMA PhoneStep ==
  ASSUME IInv, UNCHANGED <<store, secret, browser>>,
         req' \in [Requests -> Request],
         \A y \in Requests : req'[y] = req[y] \/ Sound(y)',
         stored' \in Token \union {None}, stored' # None => owner[stored'.s] # None,
         shown' \in Readers \union {None}, queue' \in Seq(Asking),
         flying' \in SUBSET PhoneRequests, calls' \in [PhoneRequests -> Call],
         excused' \in SUBSET Sessions, failed' \in BOOLEAN, left' \in Quota,
         \A y \in flying' : calls'[y] \in Asking,
         \A y, z \in flying' : y = z,
         \A y \in flying' : calls'[y].op # "enter" => stored' # None
  PROVE  IInv'
<1>1. TypeOK /\ Devices /\ StoreTypeOK' /\ Grows
  BY StoreKept DEF IInv
<1>2. UNCHANGED <<owner, backend, jar, tab>>
  BY DEF store, browser
<1>3. \A y \in Requests : Sound(y)'
  BY <1>1, SoundFrame DEF IInv
<1>4. Devices'
  BY <1>1, <1>2 DEF Devices, Vouches, Hosted
<1>5. queue' \in Seq(Call)
  BY DEF Asking
<1>6. AccessTypeOK'
  BY <1>1, <1>2, <1>5 DEF TypeOK, AccessTypeOK
<1>7. Serial'
  BY DEF Serial
<1> QED
  BY <1>1, <1>3, <1>4, <1>6, <1>7 DEF IInv, TypeOK

\* A button.
LEMMA PhoneAskHolds ==
  ASSUME IInv, PhoneAsk
  PROVE  IInv'
<1>1. /\ TypeOK /\ Serial /\ Devices
      /\ UNCHANGED <<store, secret, req, browser, stored, shown, flying, calls, excused, failed>>
  BY DEF IInv, PhoneAsk
<1>2. left' \in Quota
  <2>1. left.phone > 0 /\ left' = [left EXCEPT !.phone = @ - 1]
    BY DEF PhoneAsk
  <2> QED
    BY <1>1, <2>1 DEF TypeOK, AccessTypeOK, Quota
<1>3. PICK c \in Call : c \in Asking /\ queue' = Append(queue, c)
  BY Constants DEF PhoneAsk, Asking, Edits
<1>4. queue' \in Seq(Asking)
  BY <1>1, <1>3 DEF Serial
<1> QED
  BY <1>1, <1>2, <1>4, PhoneStep DEF TypeOK, AccessTypeOK, Devices, Serial

\* The answer to a call.
LEMMA PhoneReceiveHolds ==
  ASSUME IInv, NEW x \in PhoneRequests, PhoneReceive(x)
  PROVE  IInv'
<1>1. /\ TypeOK /\ Serial /\ Devices /\ Sound(x) /\ x \in Requests /\ x \in flying
      /\ Set(x, Idle) /\ flying' = flying \ {x}
      /\ UNCHANGED <<store, secret, browser, calls, excused, budget>>
  BY DEF IInv, PhoneReceive, Requests
<1>2. req[x] \in Request /\ calls[x] \in Call /\ stored \in Token \union {None}
  BY <1>1 DEF TypeOK, AccessTypeOK
<1>3. req[x].hand \in Token \union {None} /\ req[x].who \in Readers \union {None}
  BY <1>1, <1>2, RequestFields DEF Sound
<1>4. stored' \in Token \union {None} /\ (stored' # None => owner[stored'.s] # None)
  BY <1>1, <1>2, <1>3 DEF PhoneReceive, TokenOf, Sound, Devices
<1>5. queue' \in Seq(Asking) /\ shown' \in Readers \union {None}
  <2>1. PICK ok : Settle(calls[x], ok, req[x].who, queue)
    BY DEF PhoneReceive
  <2>2. PICK c \in Call, r \in Readers \union {None}, rest \in Seq(Asking) :
          c = calls[x] /\ r = req[x].who /\ rest = queue
    BY <1>1, <1>2, <1>3 DEF Serial
  <2>3. Settle(c, ok, r, rest)
    BY <2>1, <2>2
  <2> QED
    BY <1>1, <2>3, SettleType
<1>6. flying' = {}
  BY <1>1 DEF Serial
<1>7. req' \in [Requests -> Request] /\ \A y \in Requests : req'[y] = req[y] \/ y = x
  BY <1>1, IdleType DEF Set, TypeOK, AccessTypeOK
<1>8. Sound(x)'
  BY <1>1, Written, IdleSound
<1>9. /\ calls' \in [PhoneRequests -> Call] /\ excused' \in SUBSET Sessions
      /\ failed' \in BOOLEAN /\ left' \in Quota
  BY <1>1 DEF budget, TypeOK, AccessTypeOK
<1> QED
  BY <1>1, <1>4, <1>5, <1>6, <1>7, <1>8, <1>9, PhoneStep

\* A call given up: the server may be at work on it still.
LEMMA AbandonKeeps ==
  ASSUME IInv, NEW x \in PhoneRequests, x \in flying, Abandon(x)
  PROVE  /\ queue' \in Seq(Asking) /\ shown' \in Readers \union {None}
         /\ flying' = {} /\ excused' \in SUBSET Sessions /\ calls' \in [PhoneRequests -> Call]
         /\ stored' \in Token \union {None} /\ (stored' # None => owner[stored'.s] # None)
         /\ UNCHANGED <<store, secret, browser>>
<1>1. /\ TypeOK /\ Serial /\ Devices /\ x \in Requests
      /\ UNCHANGED <<store, secret, browser, stored, calls>>
  BY DEF IInv, Abandon, Requests
<1>2. flying' = {}
  BY <1>1 DEF Abandon, Serial
<1>3. queue' \in Seq(Asking) /\ shown' \in Readers \union {None}
  <2>1. PICK c \in Call, r \in Readers \union {None}, rest \in Seq(Asking) :
          c = calls[x] /\ r = None /\ rest = queue
    BY <1>1 DEF Serial, TypeOK, AccessTypeOK
  <2>2. Settle(c, "failed", r, rest)
    BY <2>1 DEF Abandon
  <2> QED
    BY <1>1, <2>2, SettleType
<1>4. excused' \in SUBSET Sessions
  BY <1>1, SessionsOfType DEF Abandon, Excuse, TypeOK, AccessTypeOK
<1> QED
  BY <1>1, <1>2, <1>3, <1>4 DEF TypeOK, AccessTypeOK, Devices

LEMMA PhoneTimeoutHolds ==
  ASSUME IInv, NEW x \in PhoneRequests, PhoneTimeout(x)
  PROVE  IInv'
<1>1. TypeOK /\ x \in flying /\ Abandon(x) /\ Fault /\ req' = req
  BY DEF IInv, PhoneTimeout
<1>2. failed' \in BOOLEAN /\ left' \in Quota
  BY <1>1, FaultType
<1>3. req' \in [Requests -> Request]
  BY <1>1 DEF TypeOK, AccessTypeOK
<1> QED
  BY <1>1, <1>2, <1>3, AbandonKeeps, PhoneStep

LEMMA PhoneUnansweredHolds ==
  ASSUME IInv, NEW x \in PhoneRequests, PhoneUnanswered(x)
  PROVE  IInv'
<1>1. TypeOK /\ x \in Requests /\ x \in flying /\ Abandon(x) /\ Set(x, Idle) /\ left' = left
  BY DEF IInv, PhoneUnanswered, Requests
<1>2. failed' \in BOOLEAN
  BY DEF PhoneUnanswered
<1>3. left' \in Quota
  BY <1>1 DEF TypeOK, AccessTypeOK
<1>4. req' \in [Requests -> Request] /\ \A y \in Requests : req'[y] = req[y] \/ y = x
  BY <1>1, IdleType DEF Set, TypeOK, AccessTypeOK
<1>5. Sound(x)'
  BY <1>1, Written, IdleSound
<1> QED
  BY <1>1, <1>2, <1>3, <1>4, <1>5, AbandonKeeps, PhoneStep

\* An answer nobody waits for.
LEMMA DiscardHolds ==
  ASSUME IInv, NEW x \in PhoneRequests, Discard(x)
  PROVE  IInv'
<1>1. TypeOK /\ x \in Requests /\ Set(x, Idle) /\ UNCHANGED <<store, secret, browser, phone, budget>>
  BY DEF IInv, Discard, Requests
<1>2. StoreTypeOK' /\ Grows
  BY <1>1, StoreKept
<1>3. excused' \in SUBSET Sessions
  BY <1>1, SessionsOfType DEF Discard, Excuse, TypeOK, AccessTypeOK
<1>4. failed' \in BOOLEAN /\ left' \in Quota
  BY <1>1 DEF budget, TypeOK, AccessTypeOK
<1>5. Sound(x)'
  BY <1>1, Written, IdleSound
<1> QED
  BY <1>1, <1>2, <1>3, <1>4, <1>5, IdleType, ServerStep

\* The app is opened again.
LEMMA PhoneReopenHolds ==
  ASSUME IInv, PhoneReopen
  PROVE  IInv'
<1>1. /\ TypeOK /\ Serial /\ Devices /\ queue' = <<Start>> /\ flying' = {} /\ shown' = None
      /\ UNCHANGED <<store, secret, req, browser, stored, calls, failed>>
  BY DEF IInv, PhoneReopen
<1>2. left' \in Quota
  <2>1. left.restarts > 0 /\ left' = [left EXCEPT !.restarts = @ - 1]
    BY DEF PhoneReopen
  <2> QED
    BY <1>1, <2>1 DEF TypeOK, AccessTypeOK, Quota
<1>3. queue' \in Seq(Asking)
  BY <1>1, StartType DEF Asking, Edits
<1>4. excused' \in SUBSET Sessions
  <2>1. excused \in SUBSET Sessions /\ flying \subseteq Requests
    BY <1>1 DEF TypeOK, AccessTypeOK, Requests
  <2>2. \A y \in flying : SessionsOf(y) \subseteq Sessions
    BY <1>1, <2>1, SessionsOfType
  <2>3. (UNION {SessionsOf(y) : y \in flying}) \subseteq Sessions
    BY <2>2
  <2> QED
    BY <2>1, <2>3 DEF PhoneReopen, Excuse
<1> QED
  BY <1>1, <1>2, <1>3, <1>4, PhoneStep DEF TypeOK, AccessTypeOK, Devices

\* What leaves the phone for a call: the token stored, but for a sign-in.
LEMMA CallTaken ==
  ASSUME IInv, NEW x \in PhoneRequests, PhoneStart(x), NEW c \in Asking, c = Head(queue),
         ~(c.op # "enter" /\ stored = None)
  PROVE  \E n \in Request :
           /\ Set(x, n) /\ n.phase = "arrived" /\ n.what = c.what /\ n.hand = None /\ n.who = None
           /\ n.op = IF c.op \in {"start", "session"} THEN "read" ELSE c.op
           /\ n.tok = IF c.op = "enter" THEN None ELSE stored
           /\ n.seen = IF c.op = "enter" THEN c.reader ELSE owner[stored.s]
           /\ n.code = "ok"
           /\ queue' = Tail(queue) /\ flying' = flying \union {x}
           /\ calls' = [calls EXCEPT ![x] = c] /\ shown' = shown
<1> DEFINE op == IF c.op \in {"start", "session"} THEN "read" ELSE c.op
           t == IF c.op = "enter" THEN None ELSE stored
           r == IF c.op = "enter" THEN c.reader ELSE owner[stored.s]
<1>1. stored \in TokenOrNone /\ owner \in [Sessions -> Readers \union {None}] /\ c \in Call
  BY DEF IInv, TypeOK, AccessTypeOK, StoreTypeOK, TokenOrNone, Asking
<1>2. PICK o \in Ops, f \in FollowOrNone, u \in TokenOrNone, a \in ReaderOrNone :
        o = op /\ f = c.what /\ u = t /\ a = r
  <2>1. op \in Ops /\ c.what \in FollowOrNone
    BY <1>1 DEF Call, FollowOrNone, Ops
  <2>2. t \in TokenOrNone
    BY <1>1 DEF TokenOrNone
  <2>3. r \in ReaderOrNone
    BY <1>1 DEF Call, ReaderOrNone, TokenOrNone, Token
  <2> QED
    BY <2>1, <2>2, <2>3
<1>3. PICK n : n = Calls(Asks(Idle, o, f), u, a)
  OBVIOUS
<1>4. /\ n \in Request /\ n.phase = "arrived" /\ n.op = o /\ n.what = f
      /\ n.tok = u /\ n.seen = a /\ n.hand = None /\ n.who = None /\ n.code = "ok"
  BY <1>2, <1>3, CallSent
<1>5. /\ queue' = Tail(queue) /\ flying' = flying \union {x}
      /\ calls' = [calls EXCEPT ![x] = c] /\ shown' = shown
      /\ Set(x, [Idle EXCEPT !.phase = "arrived", !.op = op, !.what = c.what, !.tok = t, !.seen = r])
  BY Zenon DEF PhoneStart
<1>6. Set(x, n)
  BY <1>2, <1>3, <1>5, Zenon DEF Calls, Asks
<1> QED
  BY <1>2, <1>4, <1>5, <1>6

\* The next call of the queue.
LEMMA PhoneStartHolds ==
  ASSUME IInv, NEW x \in PhoneRequests, PhoneStart(x)
  PROVE  IInv'
<1>1. /\ TypeOK /\ Serial /\ Devices /\ x \in Requests /\ x \notin WebRequests
      /\ flying = {} /\ queue # <<>>
      /\ UNCHANGED <<store, secret, browser, stored, excused, budget>>
  BY Constants DEF IInv, PhoneStart, Requests, Turn
<1>2. PICK c \in Asking : c = Head(queue)
  BY <1>1 DEF Serial
<1>3. Tail(queue) \in Seq(Asking)
  BY <1>1 DEF Serial
<1>4. stored \in TokenOrNone /\ owner \in [Sessions -> Readers \union {None}]
      /\ shown \in Readers \union {None} /\ c \in Call
  BY <1>1 DEF TypeOK, AccessTypeOK, StoreTypeOK, TokenOrNone, Asking
<1>5. /\ stored' \in Token \union {None} /\ (stored' # None => owner[stored'.s] # None)
      /\ excused' \in SUBSET Sessions /\ failed' \in BOOLEAN /\ left' \in Quota
  BY <1>1 DEF TypeOK, AccessTypeOK, Devices, budget
<1>6. CASE c.op # "enter" /\ stored = None
  <2>1. PICK ok : Settle(c, ok, None, Tail(queue))
    BY <1>2, <1>6 DEF PhoneStart
  <2>2. UNCHANGED <<req, flying, calls>>
    BY <1>2, <1>6 DEF PhoneStart
  <2>3. PICK r \in Readers \union {None}, rest \in Seq(Asking) : r = None /\ rest = Tail(queue)
    BY <1>3
  <2>4. Settle(c, ok, r, rest)
    BY <2>1, <2>3
  <2>5. queue' \in Seq(Asking) /\ shown' \in Readers \union {None}
    BY <1>1, <1>4, <2>4, SettleType
  <2>6. req' \in [Requests -> Request] /\ calls' \in [PhoneRequests -> Call] /\ flying' = {}
    BY <1>1, <2>2 DEF TypeOK, AccessTypeOK
  <2> QED
    BY <1>1, <1>5, <2>2, <2>5, <2>6, PhoneStep
<1>7. CASE ~(c.op # "enter" /\ stored = None)
  <2>1. PICK n \in Request :
          /\ Set(x, n) /\ n.phase = "arrived" /\ n.what = c.what /\ n.hand = None /\ n.who = None
          /\ n.op = IF c.op \in {"start", "session"} THEN "read" ELSE c.op
          /\ n.tok = IF c.op = "enter" THEN None ELSE stored
          /\ n.seen = IF c.op = "enter" THEN c.reader ELSE owner[stored.s]
          /\ queue' = Tail(queue) /\ flying' = flying \union {x}
          /\ calls' = [calls EXCEPT ![x] = c] /\ shown' = shown
    BY <1>2, <1>7, CallTaken
  <2>6. req' \in [Requests -> Request] /\ \A y \in Requests : req'[y] = req[y] \/ y = x
    BY <1>1, <2>1 DEF Set, TypeOK, AccessTypeOK
  <2>7. req'[x] = n
    BY <1>1, <2>1, Written
  <2>8. UNCHANGED <<owner, backend>>
    BY <1>1 DEF store
  <2>9. /\ n.tok # None => owner[n.tok.s] # None
        /\ n.op = "enter" => n.seen # None
        /\ n.op \in Edits => n.what # None /\ n.tok # None /\ owner[n.tok.s] = n.seen
    BY <1>1, <1>2, <1>7, <2>1 DEF Devices, Asking, Edits
  <2>10. Sound(x)'
    BY <1>1, <2>1, <2>7, <2>8, <2>9, Constants DEF Sound, Active, Hosted
  <2>11. /\ flying' = {x} /\ calls' \in [PhoneRequests -> Call] /\ calls'[x] = c
         /\ (c.op # "enter" => stored' # None)
    BY <1>1, <1>4, <1>7, <2>1 DEF TypeOK, AccessTypeOK
  <2>12. queue' \in Seq(Asking) /\ shown' \in Readers \union {None}
    BY <1>3, <1>4, <2>1
  <2> QED
    BY <1>1, <1>2, <1>5, <2>6, <2>10, <2>11, <2>12, PhoneStep
<1> QED
  BY <1>6, <1>7

\* Every step keeps the invariant.
LEMMA StepHolds == IInv /\ [Next]_vars => IInv'
<1> SUFFICES ASSUME IInv, [Next]_vars PROVE IInv'
  OBVIOUS
<1>1. ASSUME NEW x \in Requests, Serve(x) PROVE IInv'
  BY <1>1, ServeHolds
<1>2. ASSUME NEW x \in WebRequests, WebSend(x) \/ WebReceive(x) \/ WebLose(x) PROVE IInv'
  BY <1>2, WebSendHolds, WebReceiveHolds, WebLoseHolds
<1>3. ASSUME NEW x \in PhoneRequests, PhoneStart(x) \/ PhoneSettle(x) \/ PhoneTimeout(x) PROVE IInv'
  BY <1>3, PhoneStartHolds, PhoneReceiveHolds, PhoneUnansweredHolds, DiscardHolds, PhoneTimeoutHolds
     DEF PhoneSettle
<1>4. ASSUME NEW s \in Sessions, Age(s) \/ Close(s) PROVE IInv'
  BY <1>4, TimeHolds
<1>5. CASE PhoneAsk
  BY <1>5, PhoneAskHolds
<1>6. CASE PhoneReopen
  BY <1>6, PhoneReopenHolds
<1>7. CASE Restart
  BY <1>7, RestartHolds
<1>8. CASE UNCHANGED vars
  BY <1>8 DEF vars, store, browser, phone, budget, IInv, TypeOK, StoreTypeOK, AccessTypeOK, Sound,
     Vouches, Hosted, Devices, Serial
<1> QED
  BY <1>1, <1>2, <1>3, <1>4, <1>5, <1>6, <1>7, <1>8 DEF Next

\* The invariant, of every behaviour.
THEOREM InvariantHolds == Spec => []IInv
<1>1. Init => IInv
  BY InitHolds
<1>2. IInv /\ [Next]_vars => IInv'
  BY StepHolds
<1> QED
  BY <1>1, <1>2, PTL DEF Spec

\* Every variable keeps its type.
THEOREM TypeCorrect == Spec => []TypeOK
<1>1. IInv => TypeOK
  BY DEF IInv
<1> QED
  BY <1>1, InvariantHolds, PTL

-----------------------------------------------------------------------------
\* The phone's storage is written when an answer is received, and by nothing else.
LEMMA StoredWritten ==
  ASSUME [Next]_vars, stored' # stored
  PROVE  \E x \in PhoneRequests : PhoneReceive(x)
<1> USE DEF phone
<1>1. ~ \E x \in Requests : Serve(x)
  BY DEF Serve, Refresh, Identify, Enter, Read, Edit, Leave
<1>2. ~ \E x \in WebRequests : WebSend(x) \/ WebReceive(x) \/ WebLose(x)
  BY DEF WebSend, WebReceive, WebLose
<1>3. ~ \E x \in PhoneRequests : PhoneStart(x) \/ PhoneUnanswered(x) \/ Discard(x) \/ PhoneTimeout(x)
  BY DEF PhoneStart, PhoneUnanswered, Discard, PhoneTimeout, Abandon
<1>4. ~ \E s \in Sessions : Age(s) \/ Close(s)
  BY DEF Age, Close
<1>5. ~PhoneAsk /\ ~PhoneReopen /\ ~Restart /\ ~UNCHANGED vars
  BY DEF PhoneAsk, PhoneReopen, Restart, vars
<1> QED
  BY <1>1, <1>2, <1>3, <1>4, <1>5 DEF Next, PhoneSettle

\* So is the cookie.
LEMMA JarWritten ==
  ASSUME [Next]_vars, jar' # jar
  PROVE  \E x \in WebRequests : WebReceive(x)
<1> USE DEF browser
<1>1. ~ \E x \in Requests : Serve(x)
  BY DEF Serve, Refresh, Identify, Enter, Read, Edit, Leave
<1>2. ~ \E x \in WebRequests : WebSend(x) \/ WebLose(x)
  BY DEF WebSend, WebLose
<1>3. ~ \E x \in PhoneRequests : PhoneStart(x) \/ PhoneSettle(x) \/ PhoneTimeout(x)
  BY DEF PhoneStart, PhoneSettle, PhoneReceive, PhoneUnanswered, Discard, PhoneTimeout, Abandon
<1>4. ~ \E s \in Sessions : Age(s) \/ Close(s)
  BY DEF Age, Close
<1>5. ~PhoneAsk /\ ~PhoneReopen /\ ~Restart /\ ~UNCHANGED vars
  BY DEF PhoneAsk, PhoneReopen, Restart, vars
<1> QED
  BY <1>1, <1>2, <1>3, <1>4, <1>5 DEF Next

\* A device that holds no session gets one by signing in (over either backend on
\* the phone, over the local one in the browser), and in no other way.
THEOREM SignedOutForGood == Spec => SignedOutStays
<1> DEFINE Phone == stored = None /\ stored' # None => \E x \in flying \ flying' : calls[x].op = "enter"
           Web == ~Hosted /\ jar = None /\ jar' # None =>
                    \E x \in WebRequests : req[x].op = "enter" /\ req[x].phase # req'[x].phase
<1>1. IInv /\ [Next]_vars => Phone
  <2> SUFFICES ASSUME IInv, [Next]_vars, stored = None, stored' # None
               PROVE  \E x \in flying \ flying' : calls[x].op = "enter"
    OBVIOUS
  <2>1. PICK x \in PhoneRequests : PhoneReceive(x)
    BY StoredWritten
  <2>2. x \in flying /\ flying' = flying \ {x}
    BY <2>1 DEF PhoneReceive
  <2> QED
    BY <2>2 DEF IInv, Serial
<1>2. IInv /\ [Next]_vars => Web
  <2> SUFFICES ASSUME IInv, [Next]_vars, ~Hosted, jar = None, jar' # None
               PROVE  \E x \in WebRequests : req[x].op = "enter" /\ req[x].phase # req'[x].phase
    OBVIOUS
  <2>1. PICK x \in WebRequests : WebReceive(x)
    BY JarWritten
  <2>2. x \in Requests /\ TypeOK /\ Sound(x) /\ Set(x, Idle)
    BY <2>1 DEF IInv, WebReceive, Requests
  <2>3. req'[x].phase = "idle" /\ req[x].phase = "answered"
    BY <2>1, <2>2, Written, IdleType DEF WebReceive
  <2>4. req[x].hand # None /\ req[x].hand # Cleared
    BY <2>1 DEF WebReceive
  <2> QED
    BY <2>2, <2>3, <2>4 DEF Sound
<1>3. IInv /\ [Next]_vars => [ /\ Phone
                               /\ Web ]_vars
  BY <1>1, <1>2
<1> QED
  BY <1>3, InvariantHolds, PTL DEF Spec, SignedOutStays

-----------------------------------------------------------------------------
(* The accounts implement the promise about a reader's list. *)

\* A step that carries nothing out: sessions end and rows expire, none revives.
Wanes ==
  /\ backend' = backend /\ lists' = lists
  /\ ~Hosted => \A s \in Sessions : (s \in live' => s \in live \/ owner[s] = None)
                                 /\ (stale[s] => stale'[s])

\* A request that asks for no more than it did.
Fades(y) ==
  \/ req'[y] = req[y]
  \/ ~(req'[y].phase \in Active /\ req'[y].op \in Edits)
  \/ /\ req[y].phase \in Active
     /\ req'[y].op = req[y].op /\ req'[y].what = req[y].what
     /\ req'[y].csrf = req[y].csrf /\ req'[y].seen = req[y].seen

\* What a pending request asks for is an ask.
LEMMA AskedType ==
  ASSUME IInv, NEW x \in Requests
  PROVE  /\ Asked[x] \in Promise!Ask \union {None}
         /\ Asked[x] # None <=> Pending(x)
         /\ Pending(x) => /\ req[x].seen \in Readers /\ req[x].op \in Edits /\ req[x].what \in Follows
                          /\ Asked[x] = [reader |-> req[x].seen, op |-> req[x].op, what |-> req[x].what]
<1>1. TypeOK /\ Sound(x) /\ req[x] \in Request
  BY DEF IInv, TypeOK, AccessTypeOK
<1>2. req[x].seen \in Readers \union {None} /\ req[x].what \in Follows \union {None}
      /\ req[x].tok \in TokenOrNone
  BY <1>1, RequestFields
<1>3. owner \in [Sessions -> Readers \union {None}]
  BY <1>1 DEF TypeOK, StoreTypeOK
<1>4. ASSUME Pending(x)
      PROVE  req[x].seen \in Readers /\ req[x].op \in Edits /\ req[x].what \in Follows
  <2>1. req[x].op \in Edits /\ req[x].phase \in Active /\ req[x].what \in Follows
    BY <1>1, <1>2, <1>4 DEF Pending, Active, Sound
  <2>2. CASE x \in WebRequests
    BY <1>1, <1>2, <2>1, <2>2 DEF Sound, Vouches
  <2>3. CASE x \in PhoneRequests
    BY <1>1, <1>2, <1>3, <2>1, <2>3 DEF Sound, TokenOrNone, Token
  <2> QED
    BY <2>1, <2>2, <2>3 DEF Requests
<1>5. Pending(x) => [reader |-> req[x].seen, op |-> req[x].op, what |-> req[x].what]
                      \in [reader : Readers, op : Edits, what : Follows]
  BY <1>4
<1>6. None \notin [reader : Readers, op : Edits, what : Follows]
  BY AccessConstants DEF AccessConstants
<1>7. Asked[x] = IF Pending(x)
                 THEN [reader |-> req[x].seen, op |-> req[x].op, what |-> req[x].what] ELSE None
  BY DEF Asked
<1>8. Promise!Ask = [reader : Readers, op : Edits, what : Follows]
  BY DEF Promise!Ask, Edits
<1> HIDE DEF Asked
<1> QED
  BY <1>4, <1>5, <1>6, <1>7, <1>8

\* A session's form stays good or goes: a request that fades is pending only if it was.
LEMMA PendingFades ==
  ASSUME IInv, Wanes, NEW y \in Requests, Fades(y), Pending(y)'
  PROVE  /\ Pending(y) /\ req'[y].op = req[y].op /\ req'[y].what = req[y].what
         /\ req'[y].seen = req[y].seen
<1>1. req'[y].phase \in Active /\ req'[y].op \in Edits
  BY DEF Pending, Active
<1>2. /\ req[y].phase \in Active
      /\ req'[y].op = req[y].op /\ req'[y].what = req[y].what
      /\ req'[y].csrf = req[y].csrf /\ req'[y].seen = req[y].seen
  BY <1>1 DEF Fades
<1>3. Sound(y) /\ req[y].op \in Edits
  BY <1>1, <1>2 DEF IInv
<1>4. y \in WebRequests /\ ~Hosted => req[y].csrf[1] \in live /\ ~stale[req[y].csrf[1]]
  <2> SUFFICES ASSUME y \in WebRequests, ~Hosted
               PROVE  req[y].csrf[1] \in live /\ ~stale[req[y].csrf[1]]
    OBVIOUS
  <2>1. Vouches(req[y].csrf, req[y].seen)
    BY <1>2, <1>3 DEF Sound
  <2>2. req[y].csrf[1] \in Sessions /\ owner[req[y].csrf[1]] # None
    BY <2>1 DEF Vouches
  <2>3. req[y].csrf[1] \in live' /\ ~stale'[req[y].csrf[1]]
    BY <1>2 DEF Pending, Wanes, Hosted
  <2> QED
    BY <2>2, <2>3 DEF Wanes
<1> QED
  BY <1>2, <1>3, <1>4 DEF Pending, Active

\* Such a step is the promise's Forget.
LEMMA WaningForgets ==
  ASSUME IInv, IInv', Wanes, \A y \in Requests : Fades(y)
  PROVE  Promise!Forget
<1>1. \A y \in Requests : Asked'[y] \in {Asked[y], None}
  <2> TAKE y \in Requests
  <2>1. CASE Pending(y)'
    <3>1. /\ Pending(y) /\ req'[y].op = req[y].op /\ req'[y].what = req[y].what
          /\ req'[y].seen = req[y].seen
      BY <2>1, PendingFades
    <3> QED
      BY <2>1, <3>1 DEF Asked
  <2>2. CASE ~Pending(y)'
    BY <2>2 DEF Asked
  <2> QED
    BY <2>1, <2>2
<1>2. \A y \in Requests : Asked'[y] \in Promise!Ask \union {None}
  BY <1>1, AskedType
<1>3. Asked' = [y \in Requests |-> Asked'[y]]
  BY DEF Asked
<1>4. Asked' \in [Requests -> Promise!Ask \union {None}]
  BY <1>2, <1>3
<1> HIDE DEF Asked
<1> QED
  BY <1>1, <1>4 DEF Promise!Forget, Wanes

-----------------------------------------------------------------------------
\* Every request but one is left alone.
LEMMA OthersFade ==
  ASSUME TypeOK, NEW x \in Requests, NEW q, Set(x, q),
         \/ ~(q.phase \in Active /\ q.op \in Edits)
         \/ /\ req[x].phase \in Active
            /\ q.op = req[x].op /\ q.what = req[x].what
            /\ q.csrf = req[x].csrf /\ q.seen = req[x].seen
  PROVE  \A y \in Requests : Fades(y)
<1>1. req' = [req EXCEPT ![x] = q] /\ req \in [Requests -> Request]
  BY DEF Set, TypeOK, AccessTypeOK
<1>2. req'[x] = q /\ \A y \in Requests : y # x => req'[y] = req[y]
  BY <1>1
<1> QED
  BY <1>2 DEF Fades

LEMMA StoreWanes ==
  ASSUME UNCHANGED store
  PROVE  Wanes
BY DEF store, Wanes

LEMMA RefreshFades ==
  ASSUME IInv, NEW x \in Requests, Refresh(x)
  PROVE  Wanes /\ \A y \in Requests : Fades(y)
<1> DEFINE t == req[x].tok
<1>1. TypeOK /\ req[x] \in Request /\ Hosted /\ req[x].phase = "arrived" /\ t # None
  BY DEF IInv, TypeOK, AccessTypeOK, Refresh
<1>2. PICK a \in Token : a = t
  BY <1>1, RequestFields DEF TokenOrNone
<1>3. Exchange(a) \/ RefuseExchange(a) \/ UNCHANGED store
  BY <1>2, Zenon DEF Refresh
<1>4. Wanes
  BY <1>1, <1>3, StoreWanes DEF Exchange, RefuseExchange, Wanes, Hosted
<1>5. \/ Set(x, [req[x] EXCEPT !.phase = "known"])
      \/ LET n == [s |-> a.s, g |-> gen'[a.s]]
         IN Exchange(a) /\ Set(x, [req[x] EXCEPT !.phase = "fresh", !.tok = n, !.hand = n])
  BY <1>2, Zenon DEF Refresh
<1>6. CASE Set(x, [req[x] EXCEPT !.phase = "known"])
  <2>1. PICK q : q = [req[x] EXCEPT !.phase = "known"]
    OBVIOUS
  <2>2. q.op = req[x].op /\ q.what = req[x].what /\ q.csrf = req[x].csrf /\ q.seen = req[x].seen
    BY <1>1, <2>1, PhaseType, Zenon
  <2>3. Set(x, q)
    BY <1>6, <2>1
  <2> QED
    BY <1>1, <1>4, <2>2, <2>3, OthersFade DEF Active
<1>7. ASSUME NEW n, n = [s |-> a.s, g |-> gen'[a.s]], Exchange(a),
             Set(x, [req[x] EXCEPT !.phase = "fresh", !.tok = n, !.hand = n])
      PROVE  \A y \in Requests : Fades(y)
  <2>1. PICK q : q = [req[x] EXCEPT !.phase = "fresh", !.tok = n, !.hand = n]
    OBVIOUS
  <2>2. n \in Token
    BY <1>1, <1>7, ExchangeKeeps DEF Token
  <2>3. q.op = req[x].op /\ q.what = req[x].what /\ q.csrf = req[x].csrf /\ q.seen = req[x].seen
    BY <1>1, <2>1, <2>2, FreshType, Zenon
  <2>4. Set(x, q)
    BY <1>7, <2>1, Zenon
  <2> QED
    BY <1>1, <2>3, <2>4, OthersFade DEF Active
<1> QED
  BY <1>4, <1>5, <1>6, <1>7

LEMMA IdentifyFades ==
  ASSUME IInv, NEW x \in Requests, Identify(x)
  PROVE  Wanes /\ \A y \in Requests : Fades(y)
<1>1. TypeOK /\ req[x] \in Request /\ req[x].phase \in Active
  BY DEF IInv, TypeOK, AccessTypeOK, Identify, Active
<1>2. UNCHANGED store \/ \E s : EndSession(s)
  BY Zenon DEF Identify
<1>3. Wanes
  BY <1>2, StoreWanes DEF EndSession, Wanes
<1>4. PICK r \in Readers \union {None} : Set(x, Known(x, r))
  <2>1. req[x].tok # None => owner[req[x].tok.s] \in Readers \union {None}
    BY <1>1, RequestFields DEF TokenOrNone, Token, TypeOK, StoreTypeOK
  <2> QED
    BY <2>1 DEF Identify
<1>5. /\ Known(x, r).op = req[x].op /\ Known(x, r).what = req[x].what
      /\ Known(x, r).csrf = req[x].csrf /\ Known(x, r).seen = req[x].seen
  BY <1>1, KnownType
<1> QED
  BY <1>1, <1>3, <1>4, <1>5, OthersFade

\* An answer asks for nothing.
LEMMA AnswerFades ==
  ASSUME IInv, NEW x \in Requests, NEW q, Set(x, q), q.phase = "answered"
  PROVE  \A y \in Requests : Fades(y)
BY OthersFade DEF IInv, Active

LEMMA IdleFades ==
  ASSUME IInv, NEW x \in Requests, Set(x, Idle)
  PROVE  \A y \in Requests : Fades(y)
BY OthersFade, IdleType DEF IInv, Active

AsksOnly == \A y \in Requests : Asked[y] \in Promise!Ask \union {None}

\* What is asked is an ask, after the step as before it.
LEMMA AskedNow == IInv => AsksOnly
BY AskedType DEF AsksOnly

LEMMA AskedNext == IInv' => AsksOnly'
BY AskedNow, PTL

\* A step that writes nothing but a new request asks for it.
LEMMA Arrives ==
  ASSUME IInv, IInv', UNCHANGED store, NEW x \in Requests, req[x].phase = "idle",
         \A y \in Requests : y # x => req'[y] = req[y]
  PROVE  Promise!AskFor(x) \/ Promise!Forget
<1>2. \A y \in Requests : Asked'[y] \in Promise!Ask \union {None}
  BY AskedNext DEF AsksOnly
<1>3. \A y \in Requests : y # x => Asked'[y] = Asked[y]
  BY DEF Asked, Pending, store, Hosted
<1>4. Asked[x] = None
  BY DEF Asked, Pending
<1>5. Asked' = [Asked EXCEPT ![x] = Asked'[x]]
  BY <1>3 DEF Asked
<1>6. lists' = lists
  BY DEF store
<1>7. CASE Asked'[x] = None
  <2>1. Asked' = [y \in Requests |-> Asked'[y]]
    BY DEF Asked
  <2>2. \A y \in Requests : Asked'[y] \in {Asked[y], None}
    BY <1>3, <1>7
  <2> HIDE DEF Asked
  <2>3. Asked' \in [Requests -> Promise!Ask \union {None}]
    BY <1>2, <2>1
  <2> QED
    BY <1>6, <2>2, <2>3 DEF Promise!Forget
<1>8. CASE Asked'[x] # None
  BY <1>2, <1>4, <1>5, <1>6, <1>8 DEF Promise!AskFor
<1> QED
  BY <1>7, <1>8

\* Who may edit is who asked: the session presented, the form's field and the
\* reader it greets agree, and the request is still pending.
LEMMA AllowedAsked ==
  ASSUME IInv, NEW x \in Requests, req[x].phase = "known", req[x].op \in Edits, Allowed(x)
  PROVE  Pending(x) /\ req[x].who = req[x].seen
<1>1. /\ TypeOK /\ Sound(x) /\ req[x] \in Request /\ req[x].who # None /\ req[x].tok # None
      /\ owner[req[x].tok.s] = req[x].who
  BY DEF IInv, TypeOK, AccessTypeOK, Allowed, Sound
<1>2. PICK t \in Token : t = req[x].tok /\ t.s \in Sessions
  BY <1>1, RequestFields DEF TokenOrNone, Token
<1>3. CASE x \in PhoneRequests
  BY <1>1, <1>3, Constants DEF Sound, Active, Pending
<1>4. CASE x \in WebRequests
  <2>1. /\ req[x].csrf = CsrfOf(req[x].who, t) /\ (~Hosted => t.s \in live /\ ~stale[t.s])
    BY <1>2, <1>4 DEF Allowed, VerifyCsrf
  <2>2. Vouches(req[x].csrf, req[x].seen)
    BY <1>1, <1>4 DEF Sound, Active
  <2>3. CASE Hosted
    BY <2>1, <2>2, <2>3 DEF CsrfOf, Vouches, Pending
  <2>4. CASE ~Hosted
    BY <1>1, <1>2, <2>1, <2>2, <2>4 DEF CsrfOf, Vouches, Pending, Sound
  <2> QED
    BY <2>3, <2>4
<1> QED
  BY <1>3, <1>4 DEF Requests

\* An edit that is written carries out what was asked.
LEMMA EditCarries ==
  ASSUME IInv, NEW x \in Requests, req[x].phase = "known", req[x].op \in Edits, Allowed(x),
         Subscribe(req[x].who, req[x].op, req[x].what),
         NEW q, Set(x, q), q.phase = "answered"
  PROVE  Promise!CarryOut(x)
<1>1. Pending(x) /\ req[x].who = req[x].seen
  BY AllowedAsked
<1>2. /\ Asked[x] # None
      /\ Asked[x] = [reader |-> req[x].who, op |-> req[x].op, what |-> req[x].what]
  BY <1>1, AskedType
<1>3. /\ lists' = [lists EXCEPT ![req[x].who] = Applied(@, req[x].op, req[x].what)]
      /\ UNCHANGED <<backend, live, stale>>
  BY DEF Subscribe, sessionState
<1>4. req' = [req EXCEPT ![x] = q] /\ req \in [Requests -> Request]
  BY DEF Set, IInv, TypeOK, AccessTypeOK
<1>5. Asked' = [Asked EXCEPT ![x] = None]
  <2>1. Asked'[x] = None
    BY <1>4 DEF Asked, Pending
  <2>2. \A y \in Requests : y # x => Asked'[y] = Asked[y]
    BY <1>3, <1>4 DEF Asked, Pending, Hosted
  <2>3. Asked' = [y \in Requests |-> Asked'[y]] /\ Asked = [y \in Requests |-> Asked[y]]
    BY DEF Asked
  <2> HIDE DEF Asked
  <2> QED
    BY <2>1, <2>2, <2>3
<1> HIDE DEF Asked
<1> QED
  BY <1>2, <1>3, <1>5 DEF Promise!CarryOut

LEMMA EditPromised ==
  ASSUME IInv, IInv', NEW x \in Requests, Edit(x)
  PROVE  Promise!Next
<1>1. /\ TypeOK /\ Sound(x) /\ req[x] \in Request /\ req[x].phase = "known" /\ req[x].op \in Edits
  BY DEF IInv, TypeOK, AccessTypeOK, Edit
<1>2. PICK code \in {"ok", "denied", "failed"} :
        /\ Set(x, Answer(x, code, req[x].hand))
        /\ \/ UNCHANGED store
           \/ EndSession(req[x].tok.s)
           \/ Allowed(x) /\ Subscribe(req[x].who, req[x].op, req[x].what)
  <2>1. CASE Allowed(x)
    BY <2>1 DEF Edit
  <2>2. CASE ~Allowed(x)
    <3>1. Set(x, Answer(x, "denied", req[x].hand)) /\ Reread(x)
      BY <2>2 DEF Edit
    <3> QED
      BY <3>1, RereadEnds
  <2> QED
    BY <2>1, <2>2
<1>3. PICK q : q = Answer(x, code, req[x].hand)
  OBVIOUS
<1>4. q.phase = "answered" /\ Set(x, q)
  BY <1>1, <1>2, <1>3, AnswerType, RequestFields
<1>5. CASE UNCHANGED store
  BY <1>4, <1>5, StoreWanes, AnswerFades, WaningForgets DEF Promise!Next
<1>6. CASE Allowed(x) /\ Subscribe(req[x].who, req[x].op, req[x].what)
  BY <1>1, <1>4, <1>6, EditCarries DEF Promise!Next
<1>7. CASE EndSession(req[x].tok.s)
  <2>1. Wanes
    BY <1>7 DEF EndSession, Wanes
  <2> QED
    BY <1>4, <2>1, AnswerFades, WaningForgets DEF Promise!Next
<1> QED
  BY <1>2, <1>5, <1>6, <1>7

\* A page asks for nothing.
LEMMA ReadFades ==
  ASSUME IInv, NEW x \in Requests, Read(x)
  PROVE  \A y \in Requests : Fades(y)
<1>1. /\ TypeOK /\ Sound(x) /\ req[x] \in Request /\ req[x].op = "read"
      /\ req[x].hand \in Token \union {None, Cleared}
  BY RequestFields DEF IInv, TypeOK, AccessTypeOK, Read
<1>2. CASE req[x].who = None
  <2>1. Set(x, Answer(x, "denied", req[x].hand))
    BY <1>2 DEF Read
  <2>2. Answer(x, "denied", req[x].hand).phase = "answered"
    BY <1>1, AnswerType
  <2> QED
    BY <2>1, <2>2, AnswerFades
<1>3. CASE req[x].who # None
  <2>1. PICK c, r : c = CsrfOf(req[x].who, req[x].tok) /\ r = req[x].who
    OBVIOUS
  <2>2. PICK a \in Request : a = Answer(x, "ok", req[x].hand) /\ a.op = "read"
    BY <1>1, AnswerType
  <2>3. PICK q : q = [a EXCEPT !.csrf = c, !.seen = r]
    OBVIOUS
  <2>4. q.op = a.op
    BY <2>2, <2>3, Zenon DEF Request
  <2>5. Set(x, q)
    BY <1>3, <2>1, <2>2, <2>3, Zenon DEF Read
  <2> QED
    BY <1>1, <2>2, <2>4, <2>5, OthersFade DEF Edits
<1> QED
  BY <1>2, <1>3

\* The other work of the server carries nothing out.
LEMMA ServePromised ==
  ASSUME IInv, IInv', NEW x \in Requests, Serve(x)
  PROVE  Promise!Next
<1>1. TypeOK /\ req[x] \in Request
  BY DEF IInv, TypeOK, AccessTypeOK
<1>2. CASE Refresh(x) \/ Identify(x)
  BY <1>2, RefreshFades, IdentifyFades, WaningForgets DEF Promise!Next
<1>3. ASSUME NEW q, Set(x, q), q.phase = "answered", Wanes PROVE Promise!Next
  BY <1>3, AnswerFades, WaningForgets DEF Promise!Next
<1>4. CASE Enter(x)
  <2>1. PICK q : Set(x, q) /\ q.phase = "answered"
    <3>1. ASSUME NEW code \in {"ok", "denied", "failed"}, NEW hand \in Token \union {None, Cleared},
                 Set(x, Answer(x, code, hand))
          PROVE  \E q : Set(x, q) /\ q.phase = "answered"
      BY <1>1, <3>1, AnswerType
    <3>2. \A s \in Sessions : [s |-> s, g |-> 1] \in Token
      BY Constants DEF Token
    <3>3. (\E s \in Sessions : owner[s] = None) => (CHOOSE s \in Sessions : owner[s] = None) \in Sessions
      OBVIOUS
    <3> QED
      BY <1>4, <3>1, <3>2, <3>3, Zenon DEF Enter
  <2>2. Wanes
    <3>1. UNCHANGED store \/ \E r, s : StartSession(r, s)
      BY <1>4, Zenon DEF Enter
    <3>2. ASSUME NEW r, NEW s, StartSession(r, s) PROVE Wanes
      BY <3>2 DEF StartSession, Wanes
    <3> QED
      BY <3>1, <3>2, StoreWanes
  <2> QED
    BY <1>3, <2>1, <2>2
<1>5. CASE Read(x)
  <2>1. UNCHANGED store /\ req[x].op \notin Edits
    BY <1>5 DEF Read, Edits
  <2>2. \A y \in Requests : Fades(y)
    BY <1>5, ReadFades
  <2> QED
    BY <2>1, <2>2, StoreWanes, WaningForgets DEF Promise!Next
<1>6. CASE Edit(x)
  BY <1>6, EditPromised
<1>7. CASE Leave(x)
  <2>1. UNCHANGED store \/ \E s : EndSession(s)
    <3>1. Reread(x) \/ EndSession(req[x].tok.s) \/ UNCHANGED store
      BY <1>7, Zenon DEF Leave
    <3> QED
      BY <3>1, RereadEnds
  <2>2. Wanes
    BY <2>1, StoreWanes DEF EndSession, Wanes
  <2>3. PICK code \in {"ok", "denied"}, hand \in Token \union {None, Cleared} :
          Set(x, Answer(x, code, hand))
    <3>1. req[x].hand \in Token \union {None, Cleared}
      BY <1>1, RequestFields
    <3> QED
      BY <1>7, <3>1 DEF Leave
  <2>4. Answer(x, code, hand).phase = "answered"
    BY <1>1, AnswerType
  <2> QED
    BY <1>3, <2>2, <2>3, <2>4
<1> QED
  BY <1>2, <1>4, <1>5, <1>6, <1>7 DEF Serve

\* Nor does the browser, the phone, a restart or the clock.
LEMMA WebPromised ==
  ASSUME IInv, IInv', NEW x \in WebRequests, WebSend(x) \/ WebReceive(x) \/ WebLose(x)
  PROVE  Promise!Next
<1>1. x \in Requests /\ TypeOK
  BY DEF IInv, Requests
<1>2. CASE WebSend(x)
  <2>1. UNCHANGED store /\ req[x].phase = "idle"
    BY <1>2 DEF WebSend
  <2>2. PICK n : Set(x, n)
    BY <1>2, WebSent
  <2>3. \A y \in Requests : y # x => req'[y] = req[y]
    BY <1>1, <2>2 DEF Set, TypeOK, AccessTypeOK
  <2> QED
    BY <1>1, <2>1, <2>3, Arrives DEF Promise!Next
<1>3. CASE WebReceive(x) \/ WebLose(x)
  <2>1. UNCHANGED store /\ Set(x, Idle)
    BY <1>3 DEF WebReceive, WebLose
  <2> QED
    BY <1>1, <2>1, StoreWanes, IdleFades, WaningForgets DEF Promise!Next
<1> QED
  BY <1>2, <1>3

LEMMA PhonePromised ==
  ASSUME IInv, IInv', NEW x \in PhoneRequests, PhoneStart(x) \/ PhoneSettle(x) \/ PhoneTimeout(x)
  PROVE  Promise!Next
<1>1. x \in Requests /\ TypeOK
  BY DEF IInv, Requests
<1>2. CASE PhoneStart(x)
  <2>1. UNCHANGED store /\ req[x].phase = "idle"
    BY <1>2 DEF PhoneStart
  <2>2. \A y \in Requests : y # x => req'[y] = req[y]
    <3>1. req' = req \/ \E n : Set(x, n)
      BY <1>2, Zenon DEF PhoneStart
    <3> QED
      BY <1>1, <3>1 DEF Set, TypeOK, AccessTypeOK
  <2> QED
    BY <1>1, <2>1, <2>2, Arrives DEF Promise!Next
<1>3. CASE PhoneSettle(x)
  <2>1. UNCHANGED store /\ Set(x, Idle)
    BY <1>3 DEF PhoneSettle, PhoneReceive, PhoneUnanswered, Discard, Abandon
  <2> QED
    BY <1>1, <2>1, StoreWanes, IdleFades, WaningForgets DEF Promise!Next
<1>4. CASE PhoneTimeout(x)
  <2>1. UNCHANGED store /\ req' = req
    BY <1>4 DEF PhoneTimeout, Abandon
  <2>2. \A y \in Requests : Fades(y)
    BY <2>1 DEF Fades
  <2> QED
    BY <2>1, <2>2, StoreWanes, WaningForgets DEF Promise!Next
<1> QED
  BY <1>2, <1>3, <1>4

LEMMA RestPromised ==
  ASSUME IInv, IInv',
         \/ \E s \in Sessions : Age(s) \/ Close(s)
         \/ PhoneAsk \/ PhoneReopen \/ Restart
  PROVE  Promise!Next
<1>1. TypeOK
  BY DEF IInv
<1>2. ASSUME NEW s \in Sessions, Age(s) \/ Close(s) PROVE Promise!Next
  <2>1. Wanes
    <3>1. CASE Age(s)
      BY <1>1, <3>1 DEF Age, Expire, Wanes, TypeOK, StoreTypeOK
    <3>2. CASE Close(s)
      BY <3>2 DEF Close, CloseWindow, Wanes
    <3> QED
      BY <1>2, <3>1, <3>2
  <2>2. \A y \in Requests : Fades(y)
    BY <1>2 DEF Age, Close, Fades
  <2> QED
    BY <2>1, <2>2, WaningForgets DEF Promise!Next
<1>3. CASE PhoneAsk \/ PhoneReopen
  <2>1. UNCHANGED store /\ req' = req
    BY <1>3 DEF PhoneAsk, PhoneReopen
  <2>2. \A y \in Requests : Fades(y)
    BY <2>1 DEF Fades
  <2> QED
    BY <2>1, <2>2, StoreWanes, WaningForgets DEF Promise!Next
<1>4. CASE Restart
  <2>1. UNCHANGED store
    BY <1>4 DEF Restart
  <2>2. \A y \in Requests : req'[y] = Idle \/ req'[y] = [req[y] EXCEPT !.phase = "lost"]
    BY <1>4, Zenon DEF Restart
  <2>3. \A y \in Requests : Fades(y)
    <3> TAKE y \in Requests
    <3>1. req[y] \in Request
      BY <1>1 DEF TypeOK, AccessTypeOK
    <3>2. PICK q \in Request : q = req[y]
      BY <3>1
    <3>3. [q EXCEPT !.phase = "lost"].phase = "lost"
      BY PhaseType
    <3>4. req'[y] = Idle \/ req'[y] = [q EXCEPT !.phase = "lost"]
      BY <2>2, <3>2
    <3>5. req'[y].phase \in {"idle", "lost"}
      BY <3>3, <3>4, IdleType
    <3> QED
      BY <3>5 DEF Fades, Active
  <2> QED
    BY <2>1, <2>3, StoreWanes, WaningForgets DEF Promise!Next
<1> QED
  BY <1>2, <1>3, <1>4

\* The accounts implement ReaderLists: nobody's list changes but by what that
\* reader asked for, each request at most once, over either backend and whatever
\* overlaps, is late, is lost or restarts (verifyCsrf, guarded, resolve).
THEOREM ListsKept == Spec => ListPromise
<1>1. Init => Promise!Init
  BY IdleType DEF Init, StoreInit, Promise!Init, Asked, Pending, Edits
<1>2. IInv /\ IInv' /\ [Next]_vars => [Promise!Next]_(Promise!vars)
  <2> SUFFICES ASSUME IInv, IInv', [Next]_vars PROVE [Promise!Next]_(Promise!vars)
    OBVIOUS
  <2>1. CASE Next
    BY <2>1, ServePromised, WebPromised, PhonePromised, RestPromised DEF Next
  <2>2. CASE UNCHANGED vars
    BY <2>2 DEF vars, store, Promise!vars, Asked, Pending, Hosted
  <2> QED
    BY <2>1, <2>2
<1> QED
  BY <1>1, <1>2, InvariantHolds, PTL DEF Spec, ListPromise, Promise!Spec


-----------------------------------------------------------------------------
(* Why somebody is turned away.  A session whose holder has no excuse is    *)
(* still there, and whoever presents it presents a pair that is honoured.   *)

\* The pairs of a session: the newest does not age while the one before it is
\* honoured, and a session nobody was excused for goes on.
Paired(s) ==
  /\ owner[s] = None => gen[s] = 1 /\ ~stale[s] /\ ~window[s]
  /\ ~(stale[s] /\ window[s])
  /\ ~Hosted => gen[s] = 1 /\ ~window[s]
  /\ owner[s] # None /\ s \notin excused => s \in live /\ (~Hosted => ~stale[s])

\* A request of a session nobody was excused for.
Welcome(x) ==
  LET q == req[x]
      t == q.tok
  IN t # None /\ t.s \notin excused =>
       /\ q.phase = "arrived" => t.g = gen[t.s] \/ (window[t.s] /\ t.g = gen[t.s] - 1)
       /\ q.phase \in {"fresh", "known"} => t.g = gen[t.s] /\ ~stale[t.s]
       /\ q.phase = "known" => q.who # None
       /\ q.hand = t => window[t.s] /\ t.g = gen[t.s]
       /\ x \in PhoneRequests => x \in flying

\* What a request hands back: the session just begun, or the pair it now has.
Entered(x) == req[x].op = "enter" /\ req[x].hand # None
Handing(x) ==
  LET q == req[x] IN
  /\ q.op = "enter" => q.tok = None /\ q.hand # Cleared
  /\ q.op # "enter" => q.hand \in {None, Cleared, q.tok}
  /\ q.phase = "idle" => q.tok = None
  /\ q.phase \in {"idle", "arrived"} => q.hand = None
  /\ Entered(x) => q.code = "ok" /\ q.hand.g = 1

\* Who has a session: the browser or the phone, never both.
WebHas(s) ==
  (jar # None /\ jar.s = s) \/ \E x \in WebRequests : req[x].tok # None /\ req[x].tok.s = s
PhoneHas(s) ==
  (stored # None /\ stored.s = s) \/ \E x \in PhoneRequests : req[x].tok # None /\ req[x].tok.s = s
Apart(s) == ~(WebHas(s) /\ PhoneHas(s))

\* A session begun whose answer is still out is in that answer and nowhere else.
Alone(x) ==
  LET s == req[x].hand.s IN
  Entered(x) =>
    /\ gen[s] = 1 /\ ~window[s]
    /\ ~WebHas(s) /\ ~PhoneHas(s)
    /\ \A y \in Requests : Entered(y) /\ req[y].hand.s = s => y = x

\* A device holds the newest pair, or it is on its way there.
Brings(x, s) == req[x].tok = Newest(s) /\ req[x].hand \in {Newest(s), Cleared}
Held(t, X) ==
  t # None /\ t.s \notin excused =>
    \/ t.g = gen[t.s]
    \/ window[t.s] /\ t.g = gen[t.s] - 1 /\ \E x \in X : Brings(x, t.s)

CauseInv ==
  /\ \A s \in Sessions : Paired(s) /\ Apart(s)
  /\ \A x \in Requests : Welcome(x) /\ Handing(x) /\ Alone(x)
  /\ Held(jar, WebRequests)
  /\ Held(stored, flying)

\* What is held is a pair of some session.
LEMMA HeldTypes ==
  ASSUME TypeOK
  PROVE  /\ \A x \in Requests :
              /\ req[x] \in Request
              /\ req[x].tok # None => req[x].tok.s \in Sessions /\ req[x].tok.g \in 1..MaxGen /\ req[x].tok \in Token
              /\ req[x].hand # None /\ req[x].hand # Cleared =>
                   req[x].hand \in Token /\ req[x].hand.s \in Sessions /\ req[x].hand.g \in 1..MaxGen
         /\ jar # None => jar \in Token /\ jar.s \in Sessions /\ jar.g \in 1..MaxGen
         /\ stored # None => stored \in Token /\ stored.s \in Sessions /\ stored.g \in 1..MaxGen
         /\ \A s \in Sessions : gen[s] \in 1..MaxGen /\ stale[s] \in BOOLEAN /\ window[s] \in BOOLEAN
         /\ flying \subseteq PhoneRequests
<1>1. \A x \in Requests : req[x] \in Request
  BY DEF TypeOK, AccessTypeOK
<1>2. \A x \in Requests : req[x].tok \in TokenOrNone /\ req[x].hand \in Token \union {None, Cleared}
  BY <1>1, RequestFields
<1>3. \A t \in Token : t.s \in Sessions /\ t.g \in 1..MaxGen
  BY DEF Token
<1>4. jar \in Token \union {None} /\ stored \in Token \union {None} /\ flying \subseteq PhoneRequests
  BY DEF TypeOK, AccessTypeOK
<1>5. \A s \in Sessions : gen[s] \in 1..MaxGen /\ stale[s] \in BOOLEAN /\ window[s] \in BOOLEAN
  BY DEF TypeOK, StoreTypeOK
<1> QED
  BY <1>1, <1>2, <1>3, <1>4, <1>5 DEF TokenOrNone

\* Nothing is held at first.
LEMMA CauseInit == Init => CauseInv
<1> SUFFICES ASSUME Init PROVE CauseInv
  OBVIOUS
<1>1. \A x \in Requests : req[x] = Idle
  BY DEF Init
<1>2. Idle.tok = None /\ Idle.hand = None /\ Idle.phase = "idle" /\ Idle.op = "read"
  BY DEF Idle
<1>3. \A x \in Requests : Welcome(x) /\ Handing(x) /\ Alone(x)
  BY <1>1, <1>2 DEF Welcome, Handing, Alone, Entered
<1>4. jar = None /\ stored = None
  BY DEF Init
<1>5. \A s \in Sessions : ~WebHas(s) /\ ~PhoneHas(s)
  BY <1>1, <1>2, <1>4 DEF WebHas, PhoneHas, Requests
<1>6. \A s \in Sessions : Paired(s)
  BY Constants DEF Init, StoreInit, Paired
<1> QED
  BY <1>3, <1>4, <1>5, <1>6 DEF CauseInv, Apart, Held

-----------------------------------------------------------------------------
\* A step that leaves the pairs and the devices alone.
Calm ==
  /\ UNCHANGED <<backend, owner, gen, stale, window, jar, stored>>
  /\ excused \subseteq excused'
  /\ \A s \in live : s \in live' \/ s \in excused'

\* What such a step may do to a request.
Steady(y) ==
  LET q == req[y]
      r == req'[y]
  IN
  /\ \/ r.tok = None
     \/ q.tok # None /\ r.tok.s = q.tok.s
     \/ y \in WebRequests /\ jar # None /\ r.tok.s = jar.s
     \/ y \in PhoneRequests /\ stored # None /\ r.tok.s = stored.s
  /\ q.tok # None /\ q.hand # None /\ q.tok.s \notin excused' =>
       /\ r.tok = q.tok /\ (r.hand = q.hand \/ (y \in WebRequests /\ r.hand = Cleared))
       /\ y \in flying => y \in flying'
  /\ Entered(y)' => Entered(y) /\ r.hand = q.hand

\* The requests of the browser and those of the phone.
LEMMA Sides ==
  /\ \A x \in WebRequests : x \in Requests /\ x \notin PhoneRequests
  /\ \A x \in PhoneRequests : x \in Requests /\ x \notin WebRequests
  /\ \A x \in Requests : x \in WebRequests \/ x \in PhoneRequests
BY Constants DEF Requests

\* A request left alone.
LEMMA Untouched ==
  ASSUME TypeOK, CauseInv, Calm, NEW y \in Requests, req'[y] = req[y],
         y \in flying => y \in flying' \/ req[y].tok = None \/ req[y].tok.s \in excused'
  PROVE  Steady(y) /\ Welcome(y)' /\ Handing(y)'
<1>1. Welcome(y) /\ Handing(y)
  BY DEF CauseInv
<1>2. Steady(y)
  BY DEF Steady, Entered
<1>3. Handing(y)'
  BY <1>1 DEF Handing, Entered
<1>4. Welcome(y)'
  BY <1>1 DEF Welcome, Calm
<1> QED
  BY <1>2, <1>3, <1>4

\* Such a step keeps the invariant, if it does so for the requests.
LEMMA CalmStep ==
  ASSUME IInv, IInv', CauseInv, Calm, \A y \in Requests : Steady(y) /\ Welcome(y)' /\ Handing(y)'
  PROVE  CauseInv'
<1>1. TypeOK /\ TypeOK'
  BY DEF IInv
<1>2. \A s \in Sessions : Paired(s)'
  BY DEF CauseInv, Calm, Paired, Hosted
<1>3. \A s : WebHas(s)' => WebHas(s)
  BY Sides DEF Calm, Steady, WebHas
<1>4. \A s : PhoneHas(s)' => PhoneHas(s)
  BY Sides DEF Calm, Steady, PhoneHas
<1>5. \A s \in Sessions : Apart(s)'
  BY <1>3, <1>4 DEF CauseInv, Apart
<1>6. \A y \in Requests : Alone(y)'
  <2> SUFFICES ASSUME NEW y \in Requests, Entered(y)' PROVE Alone(y)'
    BY DEF Alone
  <2>1. PICK s : s = req[y].hand.s
    OBVIOUS
  <2>2. Entered(y) /\ req'[y].hand = req[y].hand
    BY DEF Steady
  <2>3. gen[s] = 1 /\ ~window[s] /\ ~WebHas(s) /\ ~PhoneHas(s)
        /\ \A z \in Requests : Entered(z) /\ req[z].hand.s = s => z = y
    BY <2>1, <2>2 DEF CauseInv, Alone
  <2>4. \A z \in Requests : Entered(z)' => Entered(z) /\ req'[z].hand = req[z].hand
    BY DEF Steady
  <2>5. ~WebHas(s)' /\ ~PhoneHas(s)'
    BY <2>3, <1>3, <1>4
  <2>6. \A z \in Requests : Entered(z)' /\ req'[z].hand.s = s => z = y
    BY <2>3, <2>4
  <2>7. gen'[s] = 1 /\ ~window'[s] /\ s = req'[y].hand.s
    BY <2>1, <2>2, <2>3 DEF Calm
  <2> QED
    BY <2>5, <2>6, <2>7 DEF Alone, WebHas, PhoneHas
<1>7. ASSUME NEW t \in Token, t.s \notin excused', NEW x \in Requests, Brings(x, t.s)
      PROVE  Brings(x, t.s)' /\ (x \in flying => x \in flying')
  <2>1. Newest(t.s) # None /\ Newest(t.s).s = t.s /\ Newest(t.s)' = Newest(t.s)
    BY <1>1, HeldTypes, Constants DEF Newest, Calm, Token
  <2>2. req[x].tok = Newest(t.s) /\ req[x].hand # None
    BY <1>7, <2>1, Constants DEF Brings
  <2>3. req'[x].tok = req[x].tok /\ (req'[x].hand = req[x].hand \/ req'[x].hand = Cleared)
        /\ (x \in flying => x \in flying')
    BY <1>7, <2>1, <2>2 DEF Steady
  <2> QED
    BY <1>7, <2>1, <2>3 DEF Brings
<1>8. Held(jar, WebRequests)'
  <2>1. PICK t : t = jar
    OBVIOUS
  <2>2. Held(t, WebRequests) /\ jar' = t /\ gen' = gen /\ window' = window /\ excused \subseteq excused'
    BY <2>1 DEF CauseInv, Calm
  <2>3. t # None => t \in Token
    BY <2>1, <1>1, HeldTypes
  <2>4. t # None /\ t.s \notin excused' =>
          \/ t.g = gen[t.s]
          \/ window[t.s] /\ t.g = gen[t.s] - 1 /\ \E x \in WebRequests : Brings(x, t.s)'
    BY <1>7, <2>2, <2>3, Sides DEF Held
  <2>5. \A x : Brings(x, t.s)' <=> Brings(x, jar.s)'
    BY <2>2 DEF Brings, Newest
  <2> QED
    BY <2>2, <2>4, <2>5 DEF Held
<1>9. Held(stored, flying)'
  <2>1. PICK t : t = stored
    OBVIOUS
  <2>2. Held(t, flying) /\ stored' = t /\ gen' = gen /\ window' = window /\ excused \subseteq excused'
    BY <2>1 DEF CauseInv, Calm
  <2>3. (t # None => t \in Token) /\ flying \subseteq Requests
    BY <2>1, <1>1, HeldTypes, Sides
  <2>4. t # None /\ t.s \notin excused' =>
          \/ t.g = gen[t.s]
          \/ window[t.s] /\ t.g = gen[t.s] - 1 /\ \E x \in flying' : Brings(x, t.s)'
    BY <1>7, <2>2, <2>3 DEF Held
  <2>5. \A x : Brings(x, t.s)' <=> Brings(x, stored.s)'
    BY <2>2 DEF Brings, Newest
  <2> QED
    BY <2>2, <2>4, <2>5 DEF Held
<1> QED
  BY <1>2, <1>5, <1>6, <1>8, <1>9 DEF CauseInv

\* A step for one request.
LEMMA CalmOne ==
  ASSUME IInv, IInv', CauseInv, Calm, NEW x \in Requests, NEW r, Set(x, r),
         \A y \in flying : y = x \/ y \in flying',
         Steady(x), Welcome(x)', Handing(x)'
  PROVE  CauseInv'
<1>1. TypeOK /\ \A y \in Requests : y # x => req'[y] = req[y]
  BY DEF IInv, TypeOK, AccessTypeOK, Set
<1>2. \A y \in Requests : y # x => Steady(y) /\ Welcome(y)' /\ Handing(y)'
  BY <1>1, Untouched
<1> QED
  BY <1>2, CalmStep

\* The server goes on with a request: it knows the reader, or it answers.
LEMMA Onward ==
  ASSUME IInv, IInv', CauseInv, Calm, flying' = flying, NEW x \in Requests, NEW r, Set(x, r),
         r.op = req[x].op, r.tok = req[x].tok, r.phase \in {"known", "answered"},
         r.phase = "known" /\ r.tok # None /\ r.tok.s \notin excused' =>
           r.tok.g = gen[r.tok.s] /\ ~stale[r.tok.s] /\ r.who # None,
         \/ r.hand = req[x].hand
         \/ r.hand = None /\ (r.tok = None \/ r.tok.s \in excused')
         \/ r.hand = Cleared /\ x \in WebRequests,
         r.op = "enter" => r.hand = None
  PROVE  CauseInv'
<1>1. TypeOK /\ req'[x] = r
  BY Written DEF IInv
<1>2. Welcome(x) /\ Handing(x)
  BY DEF CauseInv
<1>3. Steady(x)
  <2>1. ~Entered(x)'
    BY <1>1 DEF Entered
  <2>2. req'[x].tok = req[x].tok
    BY <1>1
  <2>3. req[x].tok # None /\ req[x].hand # None /\ req[x].tok.s \notin excused' =>
          r.hand = req[x].hand \/ (x \in WebRequests /\ r.hand = Cleared)
    OBVIOUS
  <2> QED
    BY <1>1, <2>1, <2>2, <2>3 DEF Steady
<1>4. Handing(x)'
  <2>1. ~Entered(x)'
    BY <1>1 DEF Entered
  <2>2. (r.op = "enter" => r.tok = None) /\ (r.op # "enter" => r.hand \in {None, Cleared, r.tok})
    BY <1>2 DEF Handing
  <2> QED
    BY <1>1, <2>1, <2>2, Constants DEF Handing
<1>5. Welcome(x)'
  <2> SUFFICES ASSUME r.tok # None, r.tok.s \notin excused' PROVE Welcome(x)'
    BY <1>1 DEF Welcome
  <2>1. r.tok.s \notin excused /\ req[x].tok # None /\ req[x].tok = r.tok
    BY DEF Calm
  <2>2. r.hand = r.tok => req[x].hand = r.tok
    BY <1>1, HeldTypes, Constants, <2>1
  <2>3. (x \in PhoneRequests => x \in flying) /\ (r.hand = r.tok => window[r.tok.s] /\ r.tok.g = gen[r.tok.s])
    BY <1>2, <2>1, <2>2 DEF Welcome
  <2> QED
    BY <1>1, <2>3 DEF Welcome, Calm
<1>6. \A y \in flying : y \in flying'
  OBVIOUS
<1> QED
  BY <1>3, <1>4, <1>5, <1>6, CalmOne

\* A page, an edit, a sign-out: what is handed back stays, or is cleared.
LEMMA AnsweredKeeps ==
  ASSUME IInv, IInv', CauseInv, Calm, UNCHANGED phone, NEW x \in Requests, req[x].phase = "known",
         req[x].op # "enter", NEW r, Set(x, r), r.phase = "answered", r.op = req[x].op, r.tok = req[x].tok,
         r.hand = req[x].hand \/ (r.hand = Cleared /\ x \in WebRequests)
  PROVE  CauseInv'
BY Onward DEF phone

\* What a server's step leaves alone.
LEMMA StoreCalm ==
  ASSUME UNCHANGED <<browser, phone>>, excused \subseteq excused',
         \/ UNCHANGED store
         \/ UNCHANGED <<backend, sessionState>>
         \/ \E s \in excused' : EndSession(s) \/ (\E t : t.s = s /\ RefuseExchange(t))
  PROVE  Calm /\ flying' = flying
BY DEF Calm, browser, phone, store, sessionState, EndSession, RefuseExchange

\* A page, an edit, a sign-out: nobody is turned away by it.
LEMMA ReadCauses ==
  ASSUME IInv, CauseInv, NEW x \in Requests, Read(x)
  PROVE  CauseInv'
<1> DEFINE q == req[x]
           r == IF q.who = None THEN Answer(x, "denied", q.hand)
                ELSE [Answer(x, "ok", q.hand) EXCEPT !.csrf = CsrfOf(q.who, q.tok), !.seen = q.who]
<1>1. IInv' /\ TypeOK /\ req[x] \in Request
  BY ReadHolds DEF IInv, TypeOK, AccessTypeOK
<1>2. q.phase = "known" /\ q.op = "read" /\ Set(x, r)
      /\ UNCHANGED <<store, browser, phone, excused>>
  BY DEF Read
<1>3. Calm
  BY <1>2, StoreCalm
<1>4. q.hand \in Token \union {None, Cleared}
  BY <1>1, RequestFields
<1>5. r.phase = "answered" /\ r.op = q.op /\ r.tok = q.tok /\ r.hand = q.hand
  BY <1>1, <1>4 DEF Answer, Request
<1> HIDE DEF r
<1> QED
  BY <1>1, <1>2, <1>3, <1>5, AnsweredKeeps

\* Nor is anybody by a row read again: one that expired is excused.
LEMMA RereadExcused ==
  ASSUME IInv, CauseInv, NEW x \in Requests, Reread(x)
  PROVE  UNCHANGED store \/ \E s \in excused : EndSession(s)
<1>1. TypeOK /\ Sound(x) /\ req[x] \in Request
  BY DEF IInv, TypeOK, AccessTypeOK
<1> SUFFICES ASSUME ~Hosted, req[x].who # None, stale[req[x].tok.s], EndSession(req[x].tok.s)
             PROVE  \E s \in excused : EndSession(s)
  BY RereadEnds
<1>2. PICK t \in Token : t = req[x].tok /\ t.s \in Sessions
  BY <1>1, RequestFields DEF Sound, TokenOrNone, Token
<1>3. owner[t.s] # None /\ Paired(t.s)
  BY <1>1, <1>2, Constants DEF Sound, CauseInv
<1> QED
  BY <1>2, <1>3 DEF Paired

LEMMA EditCauses ==
  ASSUME IInv, CauseInv, NEW x \in Requests, Edit(x)
  PROVE  CauseInv'
<1> DEFINE q == req[x]
<1>1. IInv' /\ TypeOK /\ req[x] \in Request
  BY EditHolds DEF IInv, TypeOK, AccessTypeOK
<1>2. PICK code \in {"ok", "denied", "failed"} : Set(x, Answer(x, code, q.hand))
  BY DEF Edit
<1>3. q.phase = "known" /\ q.op \in Edits /\ UNCHANGED <<browser, phone, excused>>
      /\ (Reread(x) \/ UNCHANGED store \/ UNCHANGED <<backend, sessionState>>)
  BY DEF Edit, Subscribe
<1>4. Calm
  <2>1. excused' = excused
    BY <1>3
  <2>2. UNCHANGED store \/ UNCHANGED <<backend, sessionState>> \/ \E s \in excused' : EndSession(s)
    BY <1>3, <2>1, RereadExcused
  <2> QED
    BY <1>3, <2>1, <2>2, StoreCalm
<1>5. q.hand \in Token \union {None, Cleared}
  BY <1>1, RequestFields
<1>6. /\ Answer(x, code, q.hand).phase = "answered" /\ Answer(x, code, q.hand).op = q.op
      /\ Answer(x, code, q.hand).tok = q.tok /\ Answer(x, code, q.hand).hand = q.hand
  BY <1>1, <1>5, AnswerType
<1>7. q.op # "enter"
  BY <1>3 DEF Edits
<1> QED
  BY <1>1, <1>2, <1>3, <1>4, <1>6, <1>7, AnsweredKeeps

LEMMA LeaveCauses ==
  ASSUME IInv, CauseInv, NEW x \in Requests, Leave(x)
  PROVE  CauseInv'
<1> DEFINE q == req[x]
           hand == IF x \in WebRequests THEN Cleared ELSE q.hand
<1>1. IInv' /\ TypeOK /\ req[x] \in Request
  BY LeaveHolds DEF IInv, TypeOK, AccessTypeOK
<1>2. PICK code \in {"ok", "denied", "failed"} : Set(x, Answer(x, code, hand))
  BY DEF Leave
<1>3. q.phase = "known" /\ q.op = "leave" /\ UNCHANGED <<browser, phone>>
  BY DEF Leave
<1>4. /\ excused \subseteq excused'
      /\ UNCHANGED store \/ (\E s \in excused' : EndSession(s))
  <2>1. CASE Allowed(x)
    BY <2>1 DEF Leave, Excuse
  <2>2. CASE ~Allowed(x)
    <3>1. Reread(x) /\ excused' = excused
      BY <2>2 DEF Leave
    <3> QED
      BY <3>1, RereadExcused
  <2> QED
    BY <2>1, <2>2
<1>5. Calm
  BY <1>3, <1>4, StoreCalm
<1>6. q.hand \in Token \union {None, Cleared}
  BY <1>1, RequestFields
<1>7. /\ Answer(x, code, hand).phase = "answered" /\ Answer(x, code, hand).op = q.op
      /\ Answer(x, code, hand).tok = q.tok /\ Answer(x, code, hand).hand = hand
  BY <1>1, <1>6, AnswerType
<1> QED
  BY <1>1, <1>2, <1>3, <1>5, <1>7, AnsweredKeeps

\* The reader is found: a session nobody was excused for is honoured.
LEMMA IdentifyCauses ==
  ASSUME IInv, CauseInv, NEW x \in Requests, Identify(x)
  PROVE  CauseInv'
<1> DEFINE q == req[x]
           t == req[x].tok
<1>1. IInv' /\ TypeOK /\ q \in Request /\ Sound(x) /\ Welcome(x)
  BY IdentifyHolds DEF IInv, CauseInv, TypeOK, AccessTypeOK
<1>2. q.op # "enter" /\ UNCHANGED <<browser, phone>>
      /\ (q.phase = "fresh" \/ (q.phase = "arrived" /\ ~(Hosted /\ t # None /\ Old(t))))
  BY DEF Identify
<1>3. t # None => t.s \in Sessions /\ t.g \in 1..MaxGen /\ gen[t.s] \in 1..MaxGen /\ owner[t.s] # None
                  /\ Paired(t.s)
  BY <1>1, HeldTypes DEF Sound, CauseInv
<1>4. t # None /\ t.s \notin excused =>
        t.g = gen[t.s] /\ ~stale[t.s] /\ t.s \in live /\ Honours(t) /\ ~MayRefuse(t)
  BY <1>1, <1>2, <1>3 DEF Welcome, Paired, Honours, MayRefuse, Old
<1>5. PICK r :
        /\ Set(x, Known(x, r))
        /\ t # None /\ t.s \notin excused' => r # None
        /\ excused \subseteq excused'
        /\ UNCHANGED store \/ (\E s \in excused' : EndSession(s))
  <2>1. CASE t = None
    BY <2>1 DEF Identify
  <2>2. CASE t # None /\ Hosted
    <3>1. \/ Honours(t) /\ Set(x, Known(x, owner[t.s])) /\ UNCHANGED <<excused, budget>>
          \/ MayRefuse(t) /\ Set(x, Known(x, None)) /\ UNCHANGED <<excused, budget>>
          \/ Fault /\ Set(x, Known(x, None)) /\ Excuse({t.s})
      BY <2>2 DEF Identify
    <3>2. UNCHANGED store
      BY <2>2 DEF Identify
    <3>3. CASE Set(x, Known(x, owner[t.s])) /\ UNCHANGED <<excused, budget>>
      BY <1>3, <2>2, <3>2, <3>3
    <3>4. CASE MayRefuse(t) /\ Set(x, Known(x, None)) /\ UNCHANGED <<excused, budget>>
      BY <1>4, <2>2, <3>2, <3>4
    <3>5. CASE Set(x, Known(x, None)) /\ Excuse({t.s})
      BY <3>2, <3>5 DEF Excuse
    <3> QED
      BY <3>1, <3>3, <3>4, <3>5
  <2>3. CASE t # None /\ ~Hosted
    <3>1. /\ IF stale[t.s] THEN EndSession(t.s) ELSE UNCHANGED store
          /\ Set(x, Known(x, IF t.s \in live /\ ~stale[t.s] THEN owner[t.s] ELSE None))
          /\ excused' = excused
      BY <2>3 DEF Identify
    <3>2. CASE t.s \in excused
      BY <3>1, <3>2
    <3>3. CASE t.s \notin excused
      BY <1>3, <1>4, <2>3, <3>1, <3>3
    <3> QED
      BY <3>2, <3>3
  <2> QED
    BY <2>1, <2>2, <2>3
<1>6. Calm /\ flying' = flying
  BY <1>2, <1>5, StoreCalm
<1>7. r \in Readers \union {None} => /\ Known(x, r).phase = "known" /\ Known(x, r).op = q.op
     /\ Known(x, r).tok = t /\ Known(x, r).who = r
     /\ Known(x, r).hand = IF r = None THEN None ELSE q.hand
  BY <1>1, KnownType
<1>8. /\ Known(x, r).phase = "known" /\ Known(x, r).op = q.op
      /\ Known(x, r).tok = t /\ Known(x, r).who = r
      /\ Known(x, r).hand = IF r = None THEN None ELSE q.hand
  BY <1>1 DEF Known, Request
<1>9. t # None /\ t.s \notin excused' => t.g = gen[t.s] /\ ~stale[t.s] /\ r # None
  BY <1>4, <1>5
<1> QED
  BY <1>1, <1>2, <1>5, <1>6, <1>8, <1>9, Onward

\* A pair that was the newest is exchanged.
LEMMA RenewalCauses ==
  ASSUME IInv, IInv', CauseInv, NEW x \in Requests, NEW r, Set(x, r), Hosted, UNCHANGED <<browser, phone>>,
         req[x].phase = "arrived", req[x].op # "enter", req[x].tok # None,
         req[x].tok.g = gen[req[x].tok.s], stale[req[x].tok.s], Exchange(req[x].tok),
         excused \subseteq excused', r.op = req[x].op,
         \/ /\ r.phase = "fresh" /\ r.hand = r.tok
            /\ r.tok = [s |-> req[x].tok.s, g |-> gen'[req[x].tok.s]]
         \/ r.phase = "known" /\ r.tok = req[x].tok /\ r.hand = req[x].hand /\ req[x].tok.s \in excused'
  PROVE  CauseInv'
<1>1. PICK s : s = req[x].tok.s
  OBVIOUS
<1>2. TypeOK /\ TypeOK' /\ req'[x] = r /\ \A y \in Requests : y # x => req'[y] = req[y]
  BY Written DEF IInv, TypeOK, AccessTypeOK, Set
<1>3. s \in Sessions /\ owner[s] # None /\ Paired(s) /\ Apart(s) /\ ~window[s]
  BY <1>1, <1>2, HeldTypes DEF IInv, CauseInv, Sound, Paired
<1>4. /\ gen' = [gen EXCEPT ![s] = @ + 1] /\ window' = [window EXCEPT ![s] = TRUE]
      /\ stale' = [stale EXCEPT ![s] = FALSE]
      /\ backend' = backend /\ owner' = owner /\ live' = live
      /\ jar' = jar /\ stored' = stored /\ flying' = flying
  BY <1>1 DEF Exchange, browser, phone
<1>5. /\ gen'[s] = gen[s] + 1 /\ window'[s] /\ ~stale'[s]
      /\ \A u \in Sessions : u # s => gen'[u] = gen[u] /\ window'[u] = window[u] /\ stale'[u] = stale[u]
  BY <1>2, <1>3, <1>4 DEF TypeOK, StoreTypeOK
<1>6. \A u \in Sessions : Paired(u)'
  BY <1>3, <1>4, <1>5 DEF CauseInv, Paired, Hosted
<1>7. /\ req'[x].tok # None /\ req'[x].tok.s = s
      /\ Newest(s)' = [s |-> s, g |-> gen'[s]]
  <2>1. gen'[s] \in 1..MaxGen
    BY <1>2, <1>3 DEF TypeOK, StoreTypeOK
  <2>2. [s |-> s, g |-> gen'[s]] \in Token
    BY <1>3, <2>1 DEF Token
  <2> QED
    BY <1>1, <1>2, <2>2, Constants DEF Newest
<1>8. \A u : (WebHas(u)' => WebHas(u)) /\ (PhoneHas(u)' => PhoneHas(u))
  BY <1>1, <1>2, <1>4, <1>7, Sides DEF WebHas, PhoneHas
<1>9. \A u \in Sessions : Apart(u)'
  BY <1>8 DEF CauseInv, Apart
<1>10. /\ x \in WebRequests => WebHas(s) /\ ~PhoneHas(s)
       /\ x \in PhoneRequests => PhoneHas(s) /\ ~WebHas(s)
  BY <1>1, <1>3 DEF WebHas, PhoneHas, Apart
<1>11. ASSUME NEW y \in Requests PROVE Handing(y)' /\ Alone(y)' /\ Welcome(y)'
  <2>1. Handing(y) /\ Alone(y) /\ Welcome(y) /\ Handing(x) /\ Welcome(x)
    BY DEF CauseInv
  <2>2. CASE y = x
    <3>1. ~Entered(x)' /\ Alone(x)'
      BY <1>2 DEF Entered, Alone
    <3>2. Handing(x)'
      BY <1>2, <2>1, <3>1 DEF Handing
    <3>3. Welcome(x)'
      <4>1. CASE s \in excused'
        BY <1>7, <4>1 DEF Welcome
      <4>2. CASE s \notin excused'
        <5>1. r.phase = "fresh" /\ r.tok = Newest(s)' /\ r.tok.g = gen'[s] /\ r.tok.s = s
          BY <1>1, <1>7, <1>2, <4>2 DEF Newest
        <5>2. x \in PhoneRequests => x \in flying
          BY <1>1, <2>1, <4>2 DEF Welcome
        <5> QED
          BY <1>2, <1>4, <1>5, <5>1, <5>2 DEF Welcome
      <4> QED
        BY <4>1, <4>2
    <3> QED
      BY <2>2, <3>1, <3>2, <3>3
  <2>3. CASE y # x
    <3>1. req'[y] = req[y]
      BY <1>2, <2>3
    <3>2. Handing(y)'
      BY <2>1, <3>1 DEF Handing, Entered
    <3>3. Alone(y)'
      <4> SUFFICES ASSUME Entered(y)' PROVE Alone(y)'
        BY DEF Alone
      <4>1. PICK u : u = req[y].hand.s
        OBVIOUS
      <4>2. Entered(y) /\ req[y].hand # Cleared
        BY <2>1, <3>1 DEF Entered, Handing
      <4>3. u \in Sessions /\ gen[u] = 1 /\ ~window[u] /\ ~WebHas(u) /\ ~PhoneHas(u)
            /\ \A z \in Requests : Entered(z) /\ req[z].hand.s = u => z = y
        BY <1>2, <2>1, <4>1, <4>2, HeldTypes DEF Alone, Entered
      <4>4. u # s
        BY <4>3, <1>10, Sides
      <4>5. ~WebHas(u)' /\ ~PhoneHas(u)' /\ gen'[u] = 1 /\ ~window'[u]
        BY <1>5, <1>8, <4>3, <4>4
      <4>6. \A z \in Requests : Entered(z)' => Entered(z) /\ req'[z].hand = req[z].hand
        BY <1>2 DEF Entered
      <4>7. u = req'[y].hand.s
        BY <3>1, <4>1
      <4> QED
        BY <4>3, <4>5, <4>6, <4>7 DEF Alone, WebHas, PhoneHas
    <3>4. Welcome(y)'
      <4> SUFFICES ASSUME req[y].tok # None, req[y].tok.s \notin excused' PROVE Welcome(y)'
        BY <3>1 DEF Welcome
      <4>1. PICK t : t = req[y].tok
        OBVIOUS
      <4>2. t.s \in Sessions /\ t.g \in 1..MaxGen /\ t.s \notin excused /\ gen[t.s] \in 1..MaxGen
        BY <1>2, <4>1, HeldTypes
      <4>3. /\ req[y].phase = "arrived" => t.g = gen[t.s] \/ (window[t.s] /\ t.g = gen[t.s] - 1)
            /\ req[y].phase \in {"fresh", "known"} => t.g = gen[t.s] /\ ~stale[t.s]
            /\ req[y].phase = "known" => req[y].who # None
            /\ req[y].hand = t => window[t.s] /\ t.g = gen[t.s]
            /\ y \in PhoneRequests => y \in flying
        BY <2>1, <4>1, <4>2 DEF Welcome
      <4>4. CASE t.s # s
        BY <1>4, <1>5, <3>1, <4>1, <4>2, <4>3, <4>4 DEF Welcome
      <4>5. CASE t.s = s
        <5>1. req[y].phase \notin {"fresh", "known"} /\ req[y].hand # t
              /\ (req[y].phase = "arrived" => t.g = gen'[s] - 1)
          BY <1>1, <1>3, <1>5, <4>2, <4>3, <4>5
        <5> QED
          BY <1>4, <1>5, <3>1, <4>1, <4>3, <4>5, <5>1 DEF Welcome
      <4> QED
        BY <4>4, <4>5
    <3> QED
      BY <3>2, <3>3, <3>4
  <2> QED
    BY <2>2, <2>3
<1>12. s \notin excused' => Brings(x, s)' /\ (x \in PhoneRequests => x \in flying)
  BY <1>1, <1>2, <1>7 DEF Brings, CauseInv, Welcome, Newest
<1>13. ASSUME NEW t \in Token, t.s # s, NEW z \in Requests, Brings(z, t.s)
       PROVE  Brings(z, t.s)'
  <2>1. Newest(t.s)' = Newest(t.s) /\ Newest(t.s).s = t.s
    BY <1>5, <1>13 DEF Newest, Token
  <2>2. z # x
    BY <1>1, <1>13, <2>1 DEF Brings
  <2> QED
    BY <1>2, <1>13, <2>1, <2>2 DEF Brings
<1>14. ASSUME NEW t \in Token, NEW X, X \subseteq Requests, Held(t, X),
              t.s = s /\ s \notin excused' => x \in X, t.s \notin excused'
       PROVE  t.g = gen'[t.s] \/ (window'[t.s] /\ t.g = gen'[t.s] - 1 /\ \E z \in X : Brings(z, t.s)')
  <2>1. t.s \in Sessions /\ t.s \notin excused /\ t # None /\ gen[t.s] \in 1..MaxGen /\ t.g \in 1..MaxGen
    BY <1>2, <1>14, HeldTypes, Constants DEF Token
  <2>2. t.g = gen[t.s] \/ (window[t.s] /\ t.g = gen[t.s] - 1 /\ \E z \in X : Brings(z, t.s))
    BY <1>14, <2>1 DEF Held
  <2>3. CASE t.s = s
    BY <1>3, <1>5, <1>12, <1>14, <2>1, <2>2, <2>3
  <2>4. CASE t.s # s
    BY <1>5, <1>13, <1>14, <2>1, <2>2, <2>4
  <2> QED
    BY <2>3, <2>4
<1>15. Held(jar, WebRequests)'
  <2>1. PICK t : t = jar
    OBVIOUS
  <2>2. t # None => t \in Token /\ WebHas(t.s)
    BY <1>2, <2>1, HeldTypes DEF WebHas
  <2>3. t # None /\ t.s \notin excused' =>
          t.g = gen'[t.s] \/ (window'[t.s] /\ t.g = gen'[t.s] - 1 /\ \E z \in WebRequests : Brings(z, t.s)')
    BY <1>10, <1>14, <2>1, <2>2, Sides DEF CauseInv
  <2>4. \A z : Brings(z, t.s)' <=> Brings(z, jar.s)'
    BY <1>4, <2>1 DEF Brings, Newest
  <2> QED
    BY <1>4, <2>1, <2>3, <2>4 DEF Held
<1>16. Held(stored, flying)'
  <2>1. PICK t : t = stored
    OBVIOUS
  <2>2. t # None => t \in Token /\ PhoneHas(t.s)
    BY <1>2, <2>1, HeldTypes DEF PhoneHas
  <2>3. flying \subseteq Requests
    BY <1>2, HeldTypes, Sides
  <2>4. t # None /\ t.s \notin excused' =>
          t.g = gen'[t.s] \/ (window'[t.s] /\ t.g = gen'[t.s] - 1 /\ \E z \in flying : Brings(z, t.s)')
    BY <1>10, <1>12, <1>14, <2>1, <2>2, <2>3, Sides DEF CauseInv
  <2>5. \A z : Brings(z, t.s)' <=> Brings(z, stored.s)'
    BY <1>4, <2>1 DEF Brings, Newest
  <2> QED
    BY <1>4, <2>1, <2>4, <2>5 DEF Held
<1> QED
  BY <1>6, <1>9, <1>11, <1>15, <1>16 DEF CauseInv

\* resolve, while it asks for a new pair: nobody without an excuse is refused one.
LEMMA RefreshCauses ==
  ASSUME IInv, CauseInv, NEW x \in Requests, Refresh(x)
  PROVE  CauseInv'
<1> DEFINE q == req[x]
           t == req[x].tok
           known == [q EXCEPT !.phase = "known"]
           next == [s |-> t.s, g |-> gen'[t.s]]
           fresh == [q EXCEPT !.phase = "fresh", !.tok = next, !.hand = next]
<1>1. IInv' /\ TypeOK /\ TypeOK' /\ q \in Request /\ Sound(x) /\ Welcome(x) /\ Handing(x)
  BY RefreshHolds DEF IInv, CauseInv, TypeOK, AccessTypeOK
<1>2. Hosted /\ q.phase = "arrived" /\ q.op # "enter" /\ t # None /\ Old(t)
      /\ UNCHANGED <<browser, phone>> /\ flying' = flying
  BY DEF Refresh, phone
<1>3. t \in Token /\ t.s \in Sessions /\ t.g \in 1..MaxGen /\ gen[t.s] \in 1..MaxGen /\ gen'[t.s] \in 1..MaxGen
      /\ owner[t.s] # None /\ Paired(t.s)
  BY <1>1, <1>2, HeldTypes DEF Sound, CauseInv, TypeOK, StoreTypeOK
<1>4. /\ known.phase = "known" /\ known.tok = t /\ known.hand = q.hand /\ known.op = q.op
      /\ fresh.phase = "fresh" /\ fresh.tok = next /\ fresh.hand = next /\ fresh.op = q.op
  <2>1. next \in Token
    BY <1>3 DEF Token
  <2> HIDE DEF next
  <2>2. /\ fresh.phase = "fresh" /\ fresh.tok = next /\ fresh.hand = next /\ fresh.op = q.op
    BY <1>1, <2>1, FreshType
  <2>3. known.phase = "known" /\ known.tok = t /\ known.hand = q.hand /\ known.op = q.op
    BY <1>1, PhaseType
  <2> QED
    BY <2>2, <2>3
<1>5. excused \subseteq excused'
  BY DEF Refresh, Excuse
<1>6. \/ Exchangeable(t) /\ Exchange(t) /\ Set(x, fresh) /\ UNCHANGED <<excused, budget>>
      \/ Exchangeable(t) /\ Exchange(t) /\ Set(x, known) /\ Excuse({t.s})
      \/ ~Exchangeable(t) /\ RefuseExchange(t) /\ Set(x, known)
      \/ Set(x, known) /\ Excuse({t.s}) /\ UNCHANGED store
  BY DEF Refresh
<1> HIDE DEF known, fresh
<1>7. CASE Exchange(t) /\ t.g = gen[t.s] /\ (Set(x, fresh) \/ (Set(x, known) /\ Excuse({t.s})))
  <2>1. stale[t.s]
    BY <1>2, <1>3, <1>7 DEF Old
  <2>2. CASE Set(x, fresh)
    BY <1>1, <1>2, <1>4, <1>5, <1>7, <2>1, <2>2, RenewalCauses
  <2>3. CASE Set(x, known) /\ Excuse({t.s})
    <3>1. t.s \in excused'
      BY <2>3 DEF Excuse
    <3> QED
      BY <1>1, <1>2, <1>4, <1>5, <1>7, <2>1, <2>3, <3>1, RenewalCauses
  <2> QED
    BY <1>7, <2>2, <2>3
<1>8. CASE Exchangeable(t) /\ Exchange(t) /\ t.g # gen[t.s] /\ Set(x, fresh)
  <2>1. window[t.s] /\ ~stale[t.s]
    BY <1>3, <1>8 DEF Exchangeable, Paired
  <2>2. UNCHANGED <<backend, owner, live, gen, stale, window>>
    BY <1>8 DEF Exchange
  <2>3. Calm
    BY <1>2, <1>5, <2>2 DEF Calm, browser, phone
  <2>4. req'[x] = fresh /\ q.hand = None
    BY <1>1, <1>2, <1>8, Written DEF Handing
  <2>5. ~Entered(x)'
    BY <1>2, <1>4, <2>4 DEF Entered
  <2>6. Steady(x)
    BY <1>2, <1>4, <2>4, <2>5 DEF Steady
  <2>7. Handing(x)'
    BY <1>2, <1>4, <2>4, <2>5 DEF Handing
  <2>8. next.s = t.s /\ next.g = gen[t.s]
    BY <2>2
  <2>9. Welcome(x)'
    <3> SUFFICES ASSUME t.s \notin excused' PROVE Welcome(x)'
      BY <1>4, <2>4, <2>8 DEF Welcome
    <3>1. x \in PhoneRequests => x \in flying
      BY <1>1, <1>2, <1>5 DEF Welcome
    <3> QED
      BY <1>2, <1>4, <2>1, <2>2, <2>4, <2>8, <3>1 DEF Welcome
  <2> QED
    BY <1>1, <1>2, <1>8, <2>3, <2>6, <2>7, <2>9, CalmOne
<1>9. ASSUME Set(x, known),
             \/ Exchange(t) /\ t.g # gen[t.s] /\ Excuse({t.s})
             \/ ~Exchangeable(t) /\ RefuseExchange(t)
             \/ Excuse({t.s}) /\ UNCHANGED store
      PROVE  CauseInv'
  <2>1. t.s \in excused'
    <3>1. ~Exchangeable(t) => t.s \in excused
      BY <1>1, <1>2, <1>3 DEF Welcome, Paired, Exchangeable
    <3> QED
      BY <1>5, <1>9, <3>1 DEF Excuse
  <2>2. Calm
    <3>1. CASE Exchange(t) /\ t.g # gen[t.s]
      <4>1. UNCHANGED <<backend, owner, live, gen, stale, window>>
        BY <3>1 DEF Exchange
      <4> QED
        BY <1>2, <1>5, <4>1 DEF Calm, browser, phone
    <3>2. CASE RefuseExchange(t) \/ UNCHANGED store
      BY <1>2, <1>5, <2>1, <3>2, StoreCalm
    <3> QED
      BY <1>9, <3>1, <3>2
  <2> QED
    BY <1>1, <1>2, <1>4, <1>9, <2>1, <2>2, Onward
<1>10. CASE Exchangeable(t) /\ Exchange(t) /\ Set(x, fresh)
  BY <1>7, <1>8, <1>10
<1>11. CASE Exchange(t) /\ Set(x, known) /\ Excuse({t.s})
  BY <1>7, <1>9, <1>11
<1>12. CASE ~Exchangeable(t) /\ RefuseExchange(t) /\ Set(x, known)
  BY <1>9, <1>12
<1>13. CASE Set(x, known) /\ Excuse({t.s}) /\ UNCHANGED store
  BY <1>9, <1>13
<1> QED
  BY <1>6, <1>10, <1>11, <1>12, <1>13

\* Somebody signs in: the session is new, and only the answer has it.
LEMMA EnterCauses ==
  ASSUME IInv, CauseInv, NEW x \in Requests, Enter(x)
  PROVE  CauseInv'
<1> DEFINE q == req[x]
           s == CHOOSE z \in Sessions : owner[z] = None
           hand == [s |-> s, g |-> 1]
           begun == Answer(x, "ok", hand)
<1>1. IInv' /\ TypeOK /\ TypeOK' /\ q \in Request /\ Welcome(x) /\ Handing(x)
  BY EnterHolds DEF IInv, CauseInv, TypeOK, AccessTypeOK
<1>2. q.phase = "arrived" /\ q.op = "enter" /\ q.tok = None /\ q.hand = None
      /\ UNCHANGED <<browser, phone, excused>> /\ flying' = flying /\ jar' = jar /\ stored' = stored
  BY <1>1 DEF Enter, Handing, browser, phone
<1>3. CASE \E code \in {"denied", "failed"} : Set(x, Answer(x, code, None)) /\ UNCHANGED store
  <2>1. PICK code \in {"denied", "failed"} : Set(x, Answer(x, code, None)) /\ UNCHANGED store
    BY <1>3
  <2>2. /\ Answer(x, code, None).phase = "answered" /\ Answer(x, code, None).op = q.op
        /\ Answer(x, code, None).tok = q.tok /\ Answer(x, code, None).hand = None
    BY <1>1, AnswerType
  <2>3. Calm
    BY <1>2, <2>1, StoreCalm
  <2> QED
    BY <1>1, <1>2, <2>1, <2>2, <2>3, Onward
<1>4. CASE (\E z \in Sessions : owner[z] = None) /\ StartSession(q.seen, s) /\ Set(x, begun)
  <2>1. s \in Sessions /\ owner[s] = None
    BY <1>4
  <2>2. PICK u : u = s
    OBVIOUS
  <2> HIDE DEF s
  <2>3. hand \in Token
    BY <2>1, Constants DEF Token
  <2>4. /\ begun.phase = "answered" /\ begun.op = "enter" /\ begun.tok = None
        /\ begun.hand = hand /\ begun.code = "ok"
    BY <1>1, <1>2, <2>3, AnswerType
  <2>5. req'[x] = begun /\ \A y \in Requests : y # x => req'[y] = req[y]
    BY <1>1, <1>4, Written DEF TypeOK, AccessTypeOK, Set
  <2>6. /\ UNCHANGED <<backend, gen, stale, window>> /\ live' = live \union {u}
        /\ owner' = [owner EXCEPT ![u] = q.seen]
    BY <1>4, <2>2 DEF StartSession
  <2>7. u \in Sessions /\ Paired(u) /\ gen[u] = 1 /\ ~stale[u] /\ ~window[u]
    BY <2>1, <2>2 DEF CauseInv, Paired
  <2>8. \A z \in Sessions : Paired(z)'
    <3> TAKE z \in Sessions
    <3>1. CASE z = u
      BY <2>6, <2>7, <3>1 DEF Paired
    <3>2. CASE z # u
      <4>1. owner'[z] = owner[z] /\ Paired(z)
        BY <1>1, <2>6, <3>2 DEF TypeOK, StoreTypeOK, CauseInv
      <4> QED
        BY <1>2, <2>6, <4>1 DEF Paired, Hosted
    <3> QED
      BY <3>1, <3>2
  <2>9. \A z : (WebHas(z)' => WebHas(z)) /\ (PhoneHas(z)' => PhoneHas(z))
    BY <1>2, <2>4, <2>5, Sides DEF WebHas, PhoneHas
  <2>10. \A z \in Sessions : Apart(z)'
    BY <2>9 DEF CauseInv, Apart
  <2>11. ~WebHas(u) /\ ~PhoneHas(u) /\ \A y \in Requests : Entered(y) => req[y].hand.s # u
    <3>1. \A y \in Requests : (req[y].tok # None => req[y].tok.s # u)
                           /\ (req[y].hand # None /\ req[y].hand # Cleared => req[y].hand.s # u)
      BY <2>1, <2>2 DEF IInv, Sound
    <3>2. (jar # None => jar.s # u) /\ (stored # None => stored.s # u)
      BY <2>1, <2>2 DEF IInv, Devices
    <3>3. \A y \in Requests : Entered(y) => req[y].hand # Cleared
      BY DEF CauseInv, Handing, Entered
    <3> QED
      BY <3>1, <3>2, <3>3, Sides DEF WebHas, PhoneHas, Entered
  <2>12. hand.s = u /\ hand.g = 1 /\ hand # None /\ hand # Cleared
    BY <2>2, <2>3, Constants
  <2> HIDE DEF hand, begun
  <2>13. ASSUME NEW y \in Requests PROVE Welcome(y)' /\ Handing(y)' /\ Alone(y)'
    <3>1. Welcome(y) /\ Handing(y) /\ Alone(y)
      BY DEF CauseInv
    <3>2. CASE y = x
      <4>1. \A z \in Requests : Entered(z)' /\ req'[z].hand.s = u => z = x
        BY <2>5, <2>11 DEF Entered
      <4>2. ~WebHas(u)' /\ ~PhoneHas(u)'
        BY <2>9, <2>11
      <4>3. Alone(x)'
        BY <2>4, <2>5, <2>6, <2>7, <2>12, <4>1, <4>2 DEF Alone, WebHas, PhoneHas
      <4>4. Handing(x)'
        BY <2>4, <2>5, <2>12 DEF Handing
      <4>5. Welcome(x)'
        BY <2>4, <2>5 DEF Welcome
      <4> QED
        BY <3>2, <4>3, <4>4, <4>5
    <3>3. CASE y # x
      <4>1. req'[y] = req[y]
        BY <2>5, <3>3
      <4>2. Welcome(y)' /\ Handing(y)'
        BY <1>2, <2>6, <3>1, <4>1 DEF Welcome, Handing, Entered
      <4>3. Alone(y)'
        <5> SUFFICES ASSUME Entered(y)' PROVE Alone(y)'
          BY DEF Alone
        <5>1. PICK w : w = req[y].hand.s
          OBVIOUS
        <5>2. Entered(y) /\ gen[w] = 1 /\ ~window[w] /\ ~WebHas(w) /\ ~PhoneHas(w) /\ w # u
              /\ \A z \in Requests : Entered(z) /\ req[z].hand.s = w => z = y
          BY <2>11, <3>1, <4>1, <5>1 DEF Alone, Entered
        <5>3. ~WebHas(w)' /\ ~PhoneHas(w)' /\ gen'[w] = 1 /\ ~window'[w] /\ w = req'[y].hand.s
          BY <2>6, <2>9, <4>1, <5>1, <5>2
        <5>4. \A z \in Requests : Entered(z)' /\ req'[z].hand.s = w => z = y
          BY <2>4, <2>5, <2>12, <5>2 DEF Entered
        <5> QED
          BY <5>3, <5>4 DEF Alone, WebHas, PhoneHas
      <4> QED
        BY <4>2, <4>3
    <3> QED
      BY <3>2, <3>3
  <2>14. \A z \in Requests : req[z].tok # None => z # x
    BY <1>2
  <2>15. ASSUME NEW t \in Token, NEW z \in Requests, Brings(z, t.s)
         PROVE  Brings(z, t.s)'
    <3>1. Newest(t.s)' = Newest(t.s) /\ Newest(t.s) # None
      BY <1>1, <2>6, HeldTypes, Constants DEF Newest, Token
    <3>2. req'[z] = req[z]
      BY <2>5, <2>14, <2>15, <3>1 DEF Brings
    <3> QED
      BY <2>15, <3>1, <3>2 DEF Brings
  <2>16. Held(jar, WebRequests)'
    <3>1. PICK t : t = jar
      OBVIOUS
    <3>2. (t # None => t \in Token) /\ jar' = t /\ Held(t, WebRequests)
      BY <1>1, <1>2, <3>1, HeldTypes DEF CauseInv
    <3>3. t # None /\ t.s \notin excused =>
            t.g = gen[t.s] \/ (window[t.s] /\ t.g = gen[t.s] - 1 /\ \E z \in WebRequests : Brings(z, t.s)')
      BY <2>15, <3>2, Sides DEF Held
    <3>4. \A z : Brings(z, t.s)' <=> Brings(z, jar.s)'
      BY <3>2 DEF Brings, Newest
    <3> QED
      BY <1>2, <2>6, <3>2, <3>3, <3>4 DEF Held
  <2>17. Held(stored, flying)'
    <3>1. PICK t : t = stored
      OBVIOUS
    <3>2. (t # None => t \in Token) /\ stored' = t /\ Held(t, flying) /\ flying \subseteq Requests
      BY <1>1, <1>2, <3>1, HeldTypes, Sides DEF CauseInv
    <3>3. t # None /\ t.s \notin excused =>
            t.g = gen[t.s] \/ (window[t.s] /\ t.g = gen[t.s] - 1 /\ \E z \in flying : Brings(z, t.s)')
      BY <2>15, <3>2 DEF Held
    <3>4. \A z : Brings(z, t.s)' <=> Brings(z, stored.s)'
      BY <3>2 DEF Brings, Newest
    <3> QED
      BY <1>2, <2>6, <3>2, <3>3, <3>4 DEF Held
  <2> QED
    BY <2>8, <2>10, <2>13, <2>16, <2>17 DEF CauseInv
<1>5. \/ (\E z \in Sessions : owner[z] = None) /\ StartSession(q.seen, s) /\ Set(x, begun)
      \/ \E code \in {"denied", "failed"} : Set(x, Answer(x, code, None)) /\ UNCHANGED store
  BY DEF Enter
<1> QED
  BY <1>3, <1>4, <1>5

\* The server goes on.
LEMMA ServeCauses ==
  ASSUME IInv, CauseInv, NEW x \in Requests, Serve(x)
  PROVE  CauseInv'
BY RefreshCauses, IdentifyCauses, EnterCauses, ReadCauses, EditCauses, LeaveCauses DEF Serve

-----------------------------------------------------------------------------
\* A request that is free again: what it handed back arrived, or is excused.
LEMMA Dropped ==
  ASSUME TypeOK, NEW x \in Requests, req'[x] = Idle,
         req[x].tok # None /\ req[x].hand # None => req[x].tok.s \in excused'
  PROVE  Steady(x) /\ Welcome(x)' /\ Handing(x)'
BY IdleType DEF Steady, Welcome, Handing, Entered

\* The sessions of a request are those it presents and hands back.
LEMMA Excused ==
  ASSUME NEW x \in Requests, req[x].tok # None, req[x].tok # Cleared
  PROVE  req[x].tok.s \in SessionsOf(x)
BY DEF SessionsOf

\* A session ages, or its window closes.
LEMMA TimeCauses ==
  ASSUME IInv, CauseInv, NEW s \in Sessions, Age(s) \/ Close(s)
  PROVE  CauseInv'
<1>1. /\ TypeOK /\ UNCHANGED <<req, jar, stored, flying, gen, owner, live, backend>>
      /\ excused \subseteq excused'
  BY DEF IInv, Age, Close, Expire, CloseWindow, browser, phone, Excuse
<1>2. /\ \A u \in Sessions : u # s => stale'[u] = stale[u] /\ window'[u] = window[u]
      /\ \/ Age(s) /\ (Hosted => ~Midway(s)) /\ stale'[s] /\ ~window[s] /\ ~window'[s] /\ owner[s] # None
            /\ (~Hosted => s \in excused')
         \/ Close(s) /\ stale'[s] = stale[s] /\ ~window'[s] /\ (Out(s) => s \in excused')
  <2>1. CASE Age(s)
    <3>1. /\ stale' = [stale EXCEPT ![s] = TRUE] /\ window' = window /\ ~window[s] /\ owner[s] # None
          /\ (Hosted => ~Midway(s)) /\ excused' = excused \union (IF Hosted THEN {} ELSE {s})
      BY <2>1 DEF Age, Expire, Excuse
    <3>2. stale'[s] /\ \A u \in Sessions : u # s => stale'[u] = stale[u]
      BY <1>1, <3>1 DEF TypeOK, StoreTypeOK
    <3> QED
      BY <2>1, <3>1, <3>2
  <2>2. CASE Close(s)
    <3>1. /\ window' = [window EXCEPT ![s] = FALSE] /\ stale' = stale
          /\ excused' = excused \union (IF Out(s) THEN {s} ELSE {})
      BY <2>2 DEF Close, CloseWindow, Excuse
    <3>2. ~window'[s] /\ \A u \in Sessions : u # s => window'[u] = window[u]
      BY <1>1, <3>1 DEF TypeOK, StoreTypeOK
    <3> QED
      BY <2>2, <3>1, <3>2
  <2> QED
    BY <2>1, <2>2
<1>3. \A u \in Sessions : Paired(u)'
  <2> TAKE u \in Sessions
  <2>1. Paired(u) /\ Paired(s)
    BY DEF CauseInv
  <2>2. CASE u # s
    BY <1>1, <1>2, <2>1, <2>2 DEF Paired, Hosted
  <2>3. CASE u = s
    BY <1>1, <1>2, <2>1, <2>3 DEF Paired, Hosted
  <2> QED
    BY <2>2, <2>3
<1>4. \A u \in Sessions : Apart(u)'
  BY <1>1 DEF CauseInv, Apart, WebHas, PhoneHas
<1>5. ASSUME NEW x \in Requests, req[x].tok # None
      PROVE  req[x].tok.s \in Sessions /\ (req[x].tok.s = s => Out(s))
  <2>1. req[x].tok \in Token /\ req[x].tok.s \in Sessions /\ req[x].tok # Cleared
    BY <1>1, <1>5, HeldTypes, Constants
  <2> QED
    BY <1>5, <2>1, Excused DEF Out
<1>6. ASSUME NEW x \in Requests
      PROVE  Welcome(x)' /\ Handing(x)' /\ Alone(x)'
  <2>1. Welcome(x) /\ Handing(x) /\ Alone(x)
    BY DEF CauseInv
  <2>2. Handing(x)'
    BY <1>1, <2>1 DEF Handing, Entered
  <2>3. Alone(x)'
    <3> SUFFICES ASSUME Entered(x)' PROVE Alone(x)'
      BY DEF Alone
    <3>1. Entered(x) /\ req[x].hand.s \in Sessions
      BY <1>1, <2>1, HeldTypes DEF Entered, Handing
    <3>2. window'[req[x].hand.s] => window[req[x].hand.s]
      BY <1>2, <3>1
    <3> QED
      BY <1>1, <2>1, <3>1, <3>2 DEF Alone, Entered, WebHas, PhoneHas
  <2>4. Welcome(x)'
    <3> SUFFICES ASSUME req[x].tok # None, req[x].tok.s \notin excused' PROVE Welcome(x)'
      BY <1>1 DEF Welcome
    <3>1. PICK t : t = req[x].tok
      OBVIOUS
    <3>2. t.s \in Sessions /\ (t.s = s => Out(s)) /\ t.s \notin excused
      BY <1>1, <1>5, <3>1
    <3>3. /\ req[x].phase = "arrived" => t.g = gen[t.s] \/ (window[t.s] /\ t.g = gen[t.s] - 1)
          /\ req[x].phase \in {"fresh", "known"} => t.g = gen[t.s] /\ ~stale[t.s]
          /\ req[x].phase = "known" => req[x].who # None
          /\ req[x].hand = t => window[t.s] /\ t.g = gen[t.s]
          /\ x \in PhoneRequests => x \in flying
      BY <2>1, <3>1, <3>2 DEF Welcome
    <3>4. CASE t.s # s
      BY <1>1, <1>2, <3>1, <3>2, <3>3, <3>4 DEF Welcome
    <3>5. CASE t.s = s
      <4>1. Age(s) /\ Hosted /\ ~Midway(s) /\ ~window[s] /\ ~window'[s]
        BY <1>2, <3>1, <3>2, <3>5
      <4>2. req[x].phase \notin {"fresh", "known"}
        BY <3>1, <3>5, <4>1 DEF Midway
      <4> QED
        BY <1>1, <3>1, <3>3, <3>5, <4>1, <4>2 DEF Welcome
    <3> QED
      BY <3>4, <3>5
  <2> QED
    BY <2>2, <2>3, <2>4
<1>7. ASSUME NEW t, t # None => t \in Token, NEW X \in SUBSET Requests, Held(t, X)
      PROVE  t # None /\ t.s \notin excused' =>
               t.g = gen[t.s] \/ (window'[t.s] /\ t.g = gen[t.s] - 1 /\ \E x \in X : Brings(x, t.s))
  <2> SUFFICES ASSUME t # None, t.s \notin excused', t.g # gen[t.s]
               PROVE  window'[t.s] /\ t.g = gen[t.s] - 1 /\ \E x \in X : Brings(x, t.s)
    OBVIOUS
  <2>1. window[t.s] /\ t.g = gen[t.s] - 1 /\ \E x \in X : Brings(x, t.s)
    BY <1>1, <1>7 DEF Held
  <2>2. t.s \in Sessions /\ Newest(t.s).s = t.s /\ Newest(t.s) # None
    BY <1>1, <1>7, HeldTypes, Constants DEF Token, Newest
  <2>3. t.s = s => Out(s)
    BY <1>5, <2>1, <2>2 DEF Brings
  <2>4. window'[t.s]
    BY <1>2, <2>1, <2>2, <2>3
  <2> QED
    BY <2>1, <2>4
<1>8. (jar # None => jar \in Token) /\ (stored # None => stored \in Token) /\ flying \in SUBSET Requests
      /\ WebRequests \in SUBSET Requests
  BY <1>1, HeldTypes, Sides
<1>9. Held(jar, WebRequests)'
  BY <1>1, <1>7, <1>8 DEF Held, CauseInv, Brings, Newest
<1>10. Held(stored, flying)'
  BY <1>1, <1>7, <1>8 DEF Held, CauseInv, Brings, Newest
<1> QED
  BY <1>3, <1>4, <1>6, <1>9, <1>10 DEF CauseInv

-----------------------------------------------------------------------------
\* A request leaves the browser.
LEMMA WebSendCauses ==
  ASSUME IInv, CauseInv, NEW x \in WebRequests, WebSend(x)
  PROVE  CauseInv'
<1>1. /\ IInv' /\ TypeOK /\ x \in Requests /\ x \notin PhoneRequests /\ Handing(x)
      /\ req[x].phase = "idle" /\ UNCHANGED <<store, browser, phone, excused>>
  BY WebSendHolds, WebIsWeb DEF IInv, CauseInv, WebSend
<1>2. Calm /\ flying' = flying
  BY <1>1, StoreCalm
<1>3. PICK n \in Request : Set(x, n) /\ SentByWeb(n)
  BY WebSent
<1>4. req'[x] = n /\ req[x].tok = None
  BY <1>1, <1>3, Written DEF Handing
<1>5. Steady(x)
  BY <1>1, <1>3, <1>4 DEF Steady, SentByWeb, Entered
<1>6. Handing(x)'
  BY <1>3, <1>4, Constants DEF SentByWeb, Handing, Entered
<1>7. Welcome(x)'
  <2> SUFFICES ASSUME n.tok # None, n.tok.s \notin excused' PROVE Welcome(x)'
    BY <1>4 DEF Welcome
  <2>1. n.tok = jar /\ jar # None /\ jar.s \notin excused /\ n.phase = "arrived" /\ n.hand = None
    BY <1>1, <1>3 DEF SentByWeb
  <2>2. jar.g = gen[jar.s] \/ (window[jar.s] /\ jar.g = gen[jar.s] - 1)
    BY <2>1 DEF CauseInv, Held
  <2> QED
    BY <1>1, <1>2, <1>4, <2>1, <2>2 DEF Welcome, Calm
<1> QED
  BY <1>1, <1>2, <1>3, <1>5, <1>6, <1>7, CalmOne

\* An answer that does not arrive.
LEMMA WebLoseCauses ==
  ASSUME IInv, CauseInv, NEW x \in WebRequests, WebLose(x)
  PROVE  CauseInv'
<1>1. /\ IInv' /\ TypeOK /\ x \in Requests /\ Set(x, Idle) /\ excused \subseteq excused'
      /\ SessionsOf(x) \subseteq excused' /\ UNCHANGED <<store, browser, phone>>
  BY WebLoseHolds, WebIsWeb DEF IInv, WebLose, Excuse
<1>2. Calm /\ flying' = flying
  BY <1>1, StoreCalm
<1>3. Steady(x) /\ Welcome(x)' /\ Handing(x)'
  BY <1>1, Written, Dropped, Excused, HeldTypes, Constants
<1> QED
  BY <1>1, <1>2, <1>3, CalmOne

\* What an answer hands back is the newest pair of its session, and the other
\* device does not have that session.
LEMMA HandedBack ==
  ASSUME IInv, CauseInv, NEW x \in Requests, req[x].hand # None, req[x].hand # Cleared
  PROVE  LET h == req[x].hand IN
         /\ h \in Token /\ h.s \in Sessions
         /\ h.s \notin excused => h.g = gen[h.s]
         /\ x \in WebRequests => ~PhoneHas(h.s)
         /\ x \in PhoneRequests => ~WebHas(h.s)
         /\ \A y \in Requests : Entered(y) /\ req[y].hand.s = h.s => y = x
         /\ \/ req[x].op = "enter"
            \/ h = req[x].tok /\ (x \in WebRequests => WebHas(h.s)) /\ (x \in PhoneRequests => PhoneHas(h.s))
<1> DEFINE h == req[x].hand
<1>1. TypeOK /\ Welcome(x) /\ Handing(x) /\ Alone(x) /\ h \in Token /\ h.s \in Sessions /\ Apart(h.s)
  BY HeldTypes DEF IInv, CauseInv
<1>2. CASE req[x].op = "enter"
  <2>1. Entered(x)
    BY <1>2 DEF Entered
  <2>2. h.g = 1 /\ gen[h.s] = 1 /\ ~WebHas(h.s) /\ ~PhoneHas(h.s)
        /\ \A y \in Requests : Entered(y) /\ req[y].hand.s = h.s => y = x
    BY <1>1, <2>1 DEF Handing, Alone
  <2> QED
    BY <1>1, <1>2, <2>2
<1>3. CASE req[x].op # "enter"
  <2>1. h = req[x].tok /\ req[x].tok # None
    BY <1>1, <1>3 DEF Handing
  <2>2. h.s \notin excused => h.g = gen[h.s]
    BY <1>1, <2>1 DEF Welcome
  <2>3. (x \in WebRequests => WebHas(h.s)) /\ (x \in PhoneRequests => PhoneHas(h.s))
    BY <2>1 DEF WebHas, PhoneHas
  <2>4. \A y \in Requests : ~(Entered(y) /\ req[y].hand.s = h.s)
    <3> TAKE y \in Requests
    <3>1. Alone(y)
      BY DEF CauseInv
    <3>2. WebHas(h.s) \/ PhoneHas(h.s)
      BY <2>3, Sides
    <3> QED
      BY <3>1, <3>2 DEF Alone
  <2> QED
    BY <1>1, <2>1, <2>2, <2>3, <2>4 DEF Apart
<1> QED
  BY <1>2, <1>3

\* An answer's cookie.
LEMMA WebReceiveCauses ==
  ASSUME IInv, CauseInv, NEW x \in WebRequests, WebReceive(x)
  PROVE  CauseInv'
<1> DEFINE h == req[x].hand
<1>1. /\ IInv' /\ TypeOK /\ x \in Requests /\ x \notin PhoneRequests /\ Set(x, Idle)
      /\ UNCHANGED <<store, secret, phone, excused, budget>>
      /\ jar' = IF h = None THEN jar ELSE IF h = Cleared THEN None ELSE h
  BY WebReceiveHolds, WebIsWeb DEF IInv, WebReceive
<1>2. /\ UNCHANGED <<backend, owner, live, gen, stale, window, stored, flying, excused>>
      /\ req'[x] = Idle /\ \A y \in Requests : y # x => req'[y] = req[y]
  BY <1>1, Written DEF store, phone, Set, TypeOK, AccessTypeOK
<1>3. CASE h = None
  <2>1. Calm
    BY <1>1, <1>2, <1>3 DEF Calm
  <2> QED
    BY <1>1, <1>2, <1>3, <2>1, Dropped, CalmOne
<1>4. CASE h # None
  <2>1. jar' # None => /\ jar' = h /\ h # Cleared
    BY <1>1, <1>4
  <2>2. \A u : PhoneHas(u)' => PhoneHas(u)
    BY <1>2, Sides DEF PhoneHas
  <2>3. \A u : WebHas(u)' => WebHas(u) \/ (jar' # None /\ u = h.s)
    BY <1>2, <2>1, IdleType, Sides DEF WebHas
  <2>4. jar' # None => /\ h \in Token /\ ~PhoneHas(h.s) /\ (h.s \notin excused => h.g = gen[h.s])
                       /\ \A y \in Requests : Entered(y) /\ req[y].hand.s = h.s => y = x
    BY <1>1, <1>4, <2>1, HandedBack
  <2>5. \A u \in Sessions : Apart(u)'
    BY <2>2, <2>3, <2>4 DEF CauseInv, Apart
  <2>6. \A u \in Sessions : Paired(u)'
    BY <1>2 DEF CauseInv, Paired, Hosted
  <2>7. ASSUME NEW y \in Requests PROVE Welcome(y)' /\ Handing(y)' /\ Alone(y)'
    <3>1. Welcome(y) /\ Handing(y) /\ Alone(y)
      BY DEF CauseInv
    <3>2. CASE y = x
      BY <1>2, <3>2, IdleType DEF Welcome, Handing, Alone, Entered
    <3>3. CASE y # x
      <4>1. req'[y] = req[y]
        BY <1>2, <3>3
      <4>2. Welcome(y)' /\ Handing(y)'
        BY <1>2, <3>1, <4>1 DEF Welcome, Handing, Entered
      <4>3. Alone(y)'
        <5> SUFFICES ASSUME Entered(y)' PROVE Alone(y)'
          BY DEF Alone
        <5>1. PICK w : w = req[y].hand.s
          OBVIOUS
        <5>2. Entered(y) /\ gen[w] = 1 /\ ~window[w] /\ ~WebHas(w) /\ ~PhoneHas(w)
              /\ \A z \in Requests : Entered(z) /\ req[z].hand.s = w => z = y
          BY <3>1, <4>1, <5>1 DEF Alone, Entered
        <5>3. jar' # None => w # h.s
          BY <2>4, <3>3, <5>1, <5>2
        <5>4. ~WebHas(w)' /\ ~PhoneHas(w)' /\ gen'[w] = 1 /\ ~window'[w] /\ w = req'[y].hand.s
          BY <1>2, <2>2, <2>3, <4>1, <5>1, <5>2, <5>3
        <5>5. \A z \in Requests : Entered(z)' /\ req'[z].hand.s = w => z = y
          BY <1>2, <5>2, IdleType DEF Entered
        <5> QED
          BY <5>4, <5>5 DEF Alone, WebHas, PhoneHas
      <4> QED
        BY <4>2, <4>3
    <3> QED
      BY <3>2, <3>3
  <2>8. Held(jar, WebRequests)'
    BY <1>2, <2>1, <2>4 DEF Held
  <2>9. Held(stored, flying)'
    <3>1. x \notin flying
      BY <1>1, HeldTypes
    <3>2. \A z \in flying : req'[z] = req[z]
      BY <1>1, <1>2, <3>1, HeldTypes, Sides
    <3> QED
      BY <1>2, <3>2 DEF CauseInv, Held, Brings, Newest
  <2> QED
    BY <2>5, <2>6, <2>7, <2>8, <2>9 DEF CauseInv
<1> QED
  BY <1>3, <1>4

\* The answer to a call of the phone.
LEMMA PhoneReceiveCauses ==
  ASSUME IInv, CauseInv, NEW x \in PhoneRequests, PhoneReceive(x)
  PROVE  CauseInv'
<1> DEFINE h == req[x].hand
<1>1. /\ IInv' /\ TypeOK /\ x \in Requests /\ x \notin WebRequests /\ Set(x, Idle) /\ x \in flying
      /\ UNCHANGED <<store, secret, browser, excused>> /\ h # Cleared
      /\ flying' = flying \ {x} /\ flying = {x}
      /\ stored' = None \/ stored' = (IF h = None THEN stored ELSE h)
  BY PhoneReceiveHolds, Sides DEF IInv, Sound, Serial, PhoneReceive, TokenOf
<1>2. /\ UNCHANGED <<backend, owner, live, gen, stale, window, jar, excused>>
      /\ req'[x] = Idle /\ flying' = {} /\ \A y \in Requests : y # x => req'[y] = req[y]
  BY <1>1, Written DEF store, browser, Set, TypeOK, AccessTypeOK
<1>3. CASE h = None /\ stored' = stored
  <2>1. Calm
    BY <1>1, <1>2, <1>3 DEF Calm
  <2> QED
    BY <1>1, <1>2, <1>3, <2>1, Dropped, CalmOne
<1>4. CASE stored' = None \/ (stored' = h /\ h # None)
  <2>1. stored' # None => stored' = h
    BY <1>4
  <2>2. \A u : WebHas(u)' => WebHas(u)
    BY <1>1, <1>2, Sides DEF WebHas
  <2>3. \A u : PhoneHas(u)' => PhoneHas(u) \/ (stored' # None /\ u = h.s)
    BY <1>2, <2>1, IdleType, Sides DEF PhoneHas
  <2>4. stored' # None => /\ h \in Token /\ ~WebHas(h.s) /\ (h.s \notin excused => h.g = gen[h.s])
                          /\ \A y \in Requests : Entered(y) /\ req[y].hand.s = h.s => y = x
    BY <1>1, <2>1, HandedBack
  <2>5. \A u \in Sessions : Apart(u)'
    BY <2>2, <2>3, <2>4 DEF CauseInv, Apart
  <2>6. \A u \in Sessions : Paired(u)'
    BY <1>2 DEF CauseInv, Paired, Hosted
  <2>7. ASSUME NEW y \in Requests PROVE Welcome(y)' /\ Handing(y)' /\ Alone(y)'
    <3>1. Welcome(y) /\ Handing(y) /\ Alone(y)
      BY DEF CauseInv
    <3>2. CASE y = x
      BY <1>2, <3>2, IdleType DEF Welcome, Handing, Alone, Entered
    <3>3. CASE y # x
      <4>1. req'[y] = req[y] /\ (y \in flying => y \in flying')
        BY <1>1, <1>2, <3>3
      <4>2. Welcome(y)' /\ Handing(y)'
        BY <1>2, <3>1, <4>1 DEF Welcome, Handing, Entered
      <4>3. Alone(y)'
        <5> SUFFICES ASSUME Entered(y)' PROVE Alone(y)'
          BY DEF Alone
        <5>1. PICK w : w = req[y].hand.s
          OBVIOUS
        <5>2. Entered(y) /\ gen[w] = 1 /\ ~window[w] /\ ~WebHas(w) /\ ~PhoneHas(w)
              /\ \A z \in Requests : Entered(z) /\ req[z].hand.s = w => z = y
          BY <3>1, <4>1, <5>1 DEF Alone, Entered
        <5>3. stored' # None => w # h.s
          BY <2>4, <3>3, <5>1, <5>2
        <5>4. ~WebHas(w)' /\ ~PhoneHas(w)' /\ gen'[w] = 1 /\ ~window'[w] /\ w = req'[y].hand.s
          BY <1>2, <2>2, <2>3, <4>1, <5>1, <5>2, <5>3
        <5>5. \A z \in Requests : Entered(z)' /\ req'[z].hand.s = w => z = y
          BY <1>2, <5>2, IdleType DEF Entered
        <5> QED
          BY <5>4, <5>5 DEF Alone, WebHas, PhoneHas
      <4> QED
        BY <4>2, <4>3
    <3> QED
      BY <3>2, <3>3
  <2>8. Held(jar, WebRequests)'
    <3>1. \A z \in WebRequests : req'[z] = req[z]
      BY <1>1, <1>2, Sides
    <3> QED
      BY <1>2, <3>1 DEF CauseInv, Held, Brings, Newest
  <2>9. Held(stored, flying)'
    BY <1>2, <2>1, <2>4 DEF Held
  <2> QED
    BY <2>5, <2>6, <2>7, <2>8, <2>9 DEF CauseInv
<1> QED
  BY <1>1, <1>3, <1>4

\* A call given up.
LEMMA AbandonCauses ==
  ASSUME IInv, IInv', CauseInv, NEW x \in PhoneRequests, x \in flying, Abandon(x), req' = req \/ Set(x, Idle)
  PROVE  CauseInv'
<1>1. /\ TypeOK /\ x \in Requests /\ UNCHANGED <<store, secret, browser, stored, calls>>
      /\ flying' = flying \ {x} /\ excused \subseteq excused' /\ SessionsOf(x) \subseteq excused'
  BY Sides DEF IInv, Abandon, Excuse
<1>2. Calm
  BY <1>1 DEF Calm, store, browser
<1>3. req[x].tok # None => req[x].tok.s \in excused'
  BY <1>1, Excused, HeldTypes, Constants
<1>4. CASE req' = req
  <2>1. \A y \in Requests : y \in flying => y \in flying' \/ req[y].tok = None \/ req[y].tok.s \in excused'
    BY <1>1, <1>3
  <2> QED
    BY <1>1, <1>2, <1>4, <2>1, Untouched, CalmStep
<1>5. CASE Set(x, Idle)
  BY <1>1, <1>2, <1>3, <1>5, Written, Dropped, CalmOne
<1> QED
  BY <1>4, <1>5

\* The abort, the answer that will not come, and the answer nobody waits for.
LEMMA GivenUpCauses ==
  ASSUME IInv, CauseInv, NEW x \in PhoneRequests, PhoneTimeout(x) \/ PhoneUnanswered(x) \/ Discard(x)
  PROVE  CauseInv'
<1>1. CASE PhoneTimeout(x)
  BY <1>1, PhoneTimeoutHolds, AbandonCauses DEF PhoneTimeout
<1>2. CASE PhoneUnanswered(x)
  BY <1>2, PhoneUnansweredHolds, AbandonCauses DEF PhoneUnanswered
<1>3. CASE Discard(x)
  <2>1. /\ IInv' /\ TypeOK /\ x \in Requests /\ Set(x, Idle) /\ excused \subseteq excused'
        /\ SessionsOf(x) \subseteq excused' /\ UNCHANGED <<store, browser, phone>>
    BY <1>3, DiscardHolds, Sides DEF IInv, Discard, Excuse
  <2>2. Calm /\ flying' = flying
    BY <2>1, StoreCalm
  <2>3. Steady(x) /\ Welcome(x)' /\ Handing(x)'
    BY <2>1, Written, Dropped, Excused, HeldTypes, Constants
  <2> QED
    BY <2>1, <2>2, <2>3, CalmOne
<1> QED
  BY <1>1, <1>2, <1>3

\* The next call of the queue presents the token stored.
LEMMA PhoneStartCauses ==
  ASSUME IInv, CauseInv, NEW x \in PhoneRequests, PhoneStart(x)
  PROVE  CauseInv'
<1>1. /\ IInv' /\ TypeOK /\ x \in Requests /\ x \notin WebRequests /\ flying = {} /\ queue # <<>>
      /\ req[x].phase = "idle" /\ Handing(x) /\ queue \in Seq(Asking)
      /\ UNCHANGED <<store, secret, browser, stored, excused, budget>>
  BY PhoneStartHolds, Sides DEF IInv, CauseInv, Serial, PhoneStart, Turn
<1>2. Calm
  BY <1>1 DEF Calm, store, browser
<1>3. PICK c \in Asking : c = Head(queue)
  BY <1>1
<1>4. CASE c.op # "enter" /\ stored = None
  <2>1. req' = req
    BY <1>3, <1>4 DEF PhoneStart
  <2> QED
    BY <1>1, <1>2, <2>1, Untouched, CalmStep
<1>5. CASE ~(c.op # "enter" /\ stored = None)
  <2>1. PICK n \in Request :
          /\ Set(x, n) /\ n.phase = "arrived" /\ n.hand = None
          /\ n.op = IF c.op \in {"start", "session"} THEN "read" ELSE c.op
          /\ n.tok = IF c.op = "enter" THEN None ELSE stored
          /\ flying' = flying \union {x}
    BY <1>3, <1>5, CallTaken
  <2>2. req'[x] = n /\ req[x].tok = None /\ (n.op = "enter" <=> c.op = "enter")
    BY <1>1, <2>1, Written DEF Handing
  <2>3. Steady(x)
    BY <2>1, <2>2 DEF Steady, Entered
  <2>4. Handing(x)'
    BY <2>1, <2>2, Constants DEF Handing, Entered
  <2>5. Welcome(x)'
    <3> SUFFICES ASSUME n.tok # None, n.tok.s \notin excused' PROVE Welcome(x)'
      BY <2>2 DEF Welcome
    <3>1. n.tok = stored /\ stored # None /\ stored.s \notin excused
      BY <1>1, <2>1
    <3>2. stored.g = gen[stored.s]
      BY <1>1, <3>1 DEF CauseInv, Held
    <3> QED
      BY <1>1, <1>2, <2>1, <2>2, <3>1, <3>2 DEF Welcome, Calm
  <2> QED
    BY <1>1, <1>2, <2>1, <2>3, <2>4, <2>5, CalmOne
<1> QED
  BY <1>4, <1>5

\* The app is opened again, and a deploy: whoever was waiting is excused.
LEMMA ReopenCauses ==
  ASSUME IInv, CauseInv, PhoneReopen
  PROVE  CauseInv'
<1>1. /\ IInv' /\ TypeOK /\ UNCHANGED <<store, secret, req, browser, stored>>
      /\ excused \subseteq excused' /\ \A y \in flying : SessionsOf(y) \subseteq excused'
  BY PhoneReopenHolds DEF IInv, PhoneReopen, Excuse
<1>2. Calm
  BY <1>1 DEF Calm, store, browser
<1>3. \A y \in Requests : y \in flying => req[y].tok = None \/ req[y].tok.s \in excused'
  BY <1>1, Excused, HeldTypes, Constants
<1> QED
  BY <1>1, <1>2, <1>3, Untouched, CalmStep

LEMMA RestartCauses ==
  ASSUME IInv, CauseInv, Restart
  PROVE  CauseInv'
<1>1. /\ IInv' /\ TypeOK /\ UNCHANGED <<store, browser, phone, failed>>
      /\ excused \subseteq excused' /\ \A y \in Requests : SessionsOf(y) \subseteq excused'
      /\ \A y \in Requests : req'[y] = Idle \/ req'[y] = [req[y] EXCEPT !.phase = "lost"]
  BY RestartHolds DEF IInv, Restart, Excuse
<1>2. Calm /\ flying' = flying
  BY <1>1, StoreCalm
<1>3. \A y \in Requests : req[y].tok # None => req[y].tok.s \in excused'
  BY <1>1, Excused, HeldTypes, Constants
<1>4. ASSUME NEW y \in Requests PROVE Steady(y) /\ Welcome(y)' /\ Handing(y)'
  <2>1. CASE req'[y] = Idle
    BY <1>1, <1>3, <2>1, Dropped
  <2>2. CASE req'[y] = [req[y] EXCEPT !.phase = "lost"]
    <3>1. /\ req'[y].phase = "lost" /\ req'[y].tok = req[y].tok /\ req'[y].hand = req[y].hand
          /\ req'[y].op = req[y].op /\ req'[y].code = req[y].code
      BY <1>1, <2>2, HeldTypes, PhaseType
    <3>2. Handing(y)
      BY DEF CauseInv
    <3> QED
      BY <1>2, <1>3, <3>1, <3>2 DEF Steady, Welcome, Handing, Entered
  <2> QED
    BY <1>1, <2>1, <2>2
<1> QED
  BY <1>1, <1>2, <1>4, CalmStep

\* Every step keeps the causes.
LEMMA StepCauses == IInv /\ CauseInv /\ [Next]_vars => CauseInv'
<1> SUFFICES ASSUME IInv, CauseInv, [Next]_vars PROVE CauseInv'
  OBVIOUS
<1>1. ASSUME NEW x \in Requests, Serve(x) PROVE CauseInv'
  BY <1>1, ServeCauses
<1>2. ASSUME NEW x \in WebRequests, WebSend(x) \/ WebReceive(x) \/ WebLose(x) PROVE CauseInv'
  BY <1>2, WebSendCauses, WebReceiveCauses, WebLoseCauses
<1>3. ASSUME NEW x \in PhoneRequests, PhoneStart(x) \/ PhoneSettle(x) \/ PhoneTimeout(x) PROVE CauseInv'
  BY <1>3, PhoneStartCauses, PhoneReceiveCauses, GivenUpCauses DEF PhoneSettle
<1>4. ASSUME NEW s \in Sessions, Age(s) \/ Close(s) PROVE CauseInv'
  BY <1>4, TimeCauses
<1>5. CASE PhoneReopen
  BY <1>5, ReopenCauses
<1>6. CASE Restart
  BY <1>6, RestartCauses
<1>7. CASE PhoneAsk \/ UNCHANGED vars
  <2>1. UNCHANGED <<backend, owner, live, gen, stale, window, jar, stored, flying, req, excused>>
    BY <1>7 DEF PhoneAsk, vars, store, browser, phone
  <2>2. Calm
    BY <2>1 DEF Calm
  <2>3. IInv' /\ TypeOK
    BY StepHolds DEF IInv
  <2> QED
    BY <2>1, <2>2, <2>3, Untouched, CalmStep
<1> QED
  BY <1>1, <1>2, <1>3, <1>4, <1>5, <1>6, <1>7 DEF Next

\* What the causes rest on, in every behaviour.
THEOREM CausesHold == Spec => []CauseInv
<1>1. Init => CauseInv
  BY CauseInit
<1>2. IInv /\ CauseInv /\ [Next]_vars => CauseInv'
  BY StepCauses
<1> QED
  BY <1>1, <1>2, InvariantHolds, PTL DEF Spec

\* Nobody who presents a session is told to sign in without one of the causes:
\* a sign-out, a failure, an answer lost, or one slower than the reuse window.
THEOREM NobodyTurnedAway == Spec => []TurnedAwayWithCause
<1>1. CauseInv => TurnedAwayWithCause
  BY DEF CauseInv, Welcome, TurnedAwayWithCause
<1> QED
  BY <1>1, CausesHold, PTL

\* Between calls the phone holds the newest pair of its session, whatever the
\* browser and the server did meanwhile.
THEOREM NewestHeld == Spec => []PhoneHoldsNewest
<1>1. CauseInv => PhoneHoldsNewest
  BY DEF CauseInv, Held, PhoneHoldsNewest
<1> QED
  BY <1>1, CausesHold, PTL


-----------------------------------------------------------------------------
(* The reader the phone greets.                                             *)

\* A request of the phone does what its call is for, with the token stored.
Carries(x) ==
  LET c == calls[x]
      q == req[x]
  IN
  /\ q.phase # "idle"
  /\ q.op = IF c.op \in {"start", "session"} THEN "read" ELSE c.op
  /\ c.op # "enter" => stored # None /\ q.tok # None /\ q.tok.s = stored.s
  /\ c.op = "start" => shown = None
  /\ q.code = "failed" => failed

\* The app's first question comes first, and finds nobody greeted.
Starting(i) == queue[i].op = "start" => i = 1 /\ flying = {} /\ shown = None

\* Whoever is greeted will be asked about again, or has his token stored.
Awaited ==
  \/ \E i \in 1..Len(queue) : queue[i].op = "session"
  \/ \E x \in flying : calls[x].op = "session"
Greeted ==
  ~failed /\ shown # None => Awaited \/ (stored # None /\ owner[stored.s] = shown)

GreetInv ==
  /\ \A x \in flying : Carries(x)
  /\ \A i \in 1..Len(queue) : Starting(i)
  /\ Greeted

\* Nobody is greeted at first.
LEMMA GreetInit == Init => GreetInv
BY DEF Init, GreetInv, Greeted

\* A step that is not the phone's.
LEMMA PhoneAside ==
  ASSUME IInv, GreetInv, UNCHANGED phone, failed => failed',
         \A s \in Sessions : owner[s] # None => owner'[s] = owner[s],
         \A x \in flying :
           /\ req'[x].phase # "idle" /\ req'[x].op = req[x].op
           /\ req[x].tok # None => req'[x].tok # None /\ req'[x].tok.s = req[x].tok.s
           /\ req'[x].code = "failed" => req[x].code = "failed" \/ failed'
  PROVE  GreetInv'
<1>1. TypeOK /\ Devices /\ UNCHANGED <<stored, shown, queue, flying, calls>>
  BY DEF IInv, phone
<1>2. stored # None => owner[stored.s] # None /\ stored.s \in Sessions
  BY <1>1, HeldTypes DEF Devices
<1>3. \A x \in flying' : Carries(x)'
  BY <1>1 DEF GreetInv, Carries
<1>4. \A i \in 1..Len(queue') : Starting(i)'
  BY <1>1 DEF GreetInv, Starting
<1>5. Greeted'
  BY <1>1, <1>2 DEF GreetInv, Greeted, Awaited
<1> QED
  BY <1>3, <1>4, <1>5 DEF GreetInv

\* What the server does to a request.
LEMMA Served ==
  ASSUME IInv, NEW x \in Requests, Serve(x)
  PROVE  /\ UNCHANGED phone /\ (failed => failed')
         /\ \A s \in Sessions : owner[s] # None => owner'[s] = owner[s]
         /\ \A y \in Requests : y # x => req'[y] = req[y]
         /\ req'[x].phase # "idle" /\ req'[x].op = req[x].op
         /\ req[x].tok # None => req'[x].tok # None /\ req'[x].tok.s = req[x].tok.s
         /\ req'[x].code = "failed" => req[x].code = "failed" \/ failed'
<1> DEFINE q == req[x]
           t == req[x].tok
<1>1. TypeOK /\ TypeOK' /\ q \in Request /\ q.hand \in Token \union {None, Cleared}
  BY ServeHolds, RequestFields DEF IInv, TypeOK, AccessTypeOK
<1>2. UNCHANGED phone /\ (failed => failed')
  BY DEF Serve, Refresh, Identify, Enter, Read, Edit, Leave, Fault, budget
<1>3. ASSUME NEW code \in {"ok", "denied", "failed"}, NEW hand \in Token \union {None, Cleared},
             Set(x, Answer(x, code, hand)), code = "failed" => failed'
      PROVE  /\ \A y \in Requests : y # x => req'[y] = req[y]
             /\ req'[x].phase # "idle" /\ req'[x].op = q.op /\ req'[x].tok = t
             /\ req'[x].code = "failed" => failed'
  <2>1. req'[x] = Answer(x, code, hand) /\ \A y \in Requests : y # x => req'[y] = req[y]
    BY <1>1, <1>3, Written DEF Set, TypeOK, AccessTypeOK
  <2> QED
    BY <1>1, <1>3, <2>1, AnswerType
<1>4. CASE Refresh(x)
  <2> DEFINE next == [s |-> t.s, g |-> gen'[t.s]]
  <2>1. t \in Token /\ t # None /\ owner' = owner
    BY <1>1, <1>4, HeldTypes DEF Refresh, Exchange, RefuseExchange, store
  <2>2. next \in Token /\ next # None /\ next.s = t.s
    BY <1>1, <2>1, Constants DEF Token, TypeOK, StoreTypeOK
  <2>3. Set(x, [q EXCEPT !.phase = "known"]) \/ Set(x, [q EXCEPT !.phase = "fresh", !.tok = next, !.hand = next])
    BY <1>4 DEF Refresh
  <2>4. CASE Set(x, [q EXCEPT !.phase = "known"])
    <3>1. req'[x] = [q EXCEPT !.phase = "known"] /\ \A y \in Requests : y # x => req'[y] = req[y]
      BY <1>1, <2>4 DEF Set, TypeOK, AccessTypeOK
    <3> QED
      BY <1>1, <1>2, <2>1, <3>1, PhaseType
  <2>5. CASE Set(x, [q EXCEPT !.phase = "fresh", !.tok = next, !.hand = next])
    <3> DEFINE fresh == [q EXCEPT !.phase = "fresh", !.tok = next, !.hand = next]
    <3>1. req'[x] = fresh /\ \A y \in Requests : y # x => req'[y] = req[y]
      BY <1>1, <2>5 DEF Set, TypeOK, AccessTypeOK
    <3> HIDE DEF next
    <3>2. fresh.phase = "fresh" /\ fresh.op = q.op /\ fresh.tok = next /\ fresh.code = q.code
      BY <1>1, <2>2 DEF Request
    <3> HIDE DEF fresh
    <3> QED
      BY <1>2, <2>1, <2>2, <3>1, <3>2
  <2> QED
    BY <2>3, <2>4, <2>5
<1>5. CASE Identify(x)
  <2>1. PICK r : Set(x, Known(x, r))
    <3>1. CASE t = None
      BY <1>5, <3>1 DEF Identify
    <3>2. CASE t # None /\ Hosted
      BY <1>5, <3>2 DEF Identify
    <3>3. CASE t # None /\ ~Hosted
      BY <1>5, <3>3 DEF Identify
    <3> QED
      BY <3>1, <3>2, <3>3
  <2>2. owner' = owner
    BY <1>5 DEF Identify, EndSession, store
  <2>3. req'[x] = Known(x, r) /\ \A y \in Requests : y # x => req'[y] = req[y]
    BY <1>1, <2>1, Written DEF Set, TypeOK, AccessTypeOK
  <2>4. Known(x, r).phase = "known" /\ Known(x, r).op = q.op /\ Known(x, r).tok = t /\ Known(x, r).code = q.code
    BY <1>1 DEF Known, Request
  <2> QED
    BY <1>2, <2>2, <2>3, <2>4
<1>6. CASE Enter(x)
  <2>1. \A s \in Sessions : owner[s] # None => owner'[s] = owner[s]
    BY <1>1, <1>6 DEF Enter, StartSession, store, TypeOK, StoreTypeOK
  <2>2. [s |-> CHOOSE s \in Sessions : owner[s] = None, g |-> 1] \in Token \/ ~ \E s \in Sessions : owner[s] = None
    BY Constants DEF Token
  <2>3. \E code \in {"ok", "denied", "failed"}, hand \in Token \union {None, Cleared} :
          Set(x, Answer(x, code, hand)) /\ (code = "failed" => failed')
    BY <1>6, <2>2 DEF Enter, Fault
  <2> QED
    BY <1>2, <1>3, <2>1, <2>3
<1>7. CASE Read(x)
  <2>1. owner' = owner
    BY <1>7 DEF Read, store
  <2>2. CASE q.who = None
    BY <1>1, <1>2, <1>3, <1>7, <2>1, <2>2 DEF Read
  <2>3. CASE q.who # None
    <3> DEFINE a == Answer(x, "ok", q.hand)
               r == [a EXCEPT !.csrf = CsrfOf(q.who, q.tok), !.seen = q.who]
    <3>1. req'[x] = r /\ \A y \in Requests : y # x => req'[y] = req[y]
      BY <1>1, <1>7, <2>3, Written DEF Read, Set, TypeOK, AccessTypeOK
    <3>2. a \in Request /\ a.phase = "answered" /\ a.op = q.op /\ a.tok = t /\ a.code = "ok"
      BY <1>1, AnswerType
    <3> HIDE DEF a
    <3>3. r.phase = "answered" /\ r.op = q.op /\ r.tok = t /\ r.code = "ok"
      BY <3>2 DEF Request
    <3> HIDE DEF r
    <3> QED
      BY <1>2, <2>1, <3>1, <3>3
  <2> QED
    BY <2>2, <2>3
<1>8. CASE Edit(x)
  <2>1. owner' = owner
    BY <1>8 DEF Edit, Reread, EndSession, Subscribe, sessionState, store
  <2>2. \E code \in {"ok", "denied", "failed"} :
          Set(x, Answer(x, code, q.hand)) /\ (code = "failed" => failed')
    BY <1>8 DEF Edit, Fault
  <2> QED
    BY <1>1, <1>2, <1>3, <2>1, <2>2
<1>9. CASE Leave(x)
  <2>1. owner' = owner
    BY <1>9 DEF Leave, Reread, EndSession, store
  <2>2. \E code \in {"ok", "denied"}, hand \in Token \union {None, Cleared} : Set(x, Answer(x, code, hand))
    BY <1>1, <1>9 DEF Leave
  <2> QED
    BY <1>1, <1>2, <1>3, <2>1, <2>2
<1> QED
  BY <1>4, <1>5, <1>6, <1>7, <1>8, <1>9 DEF Serve

\* The server goes on.
LEMMA ServeGreets ==
  ASSUME IInv, GreetInv, NEW x \in Requests, Serve(x)
  PROVE  GreetInv'
<1>1. flying \subseteq Requests
  BY HeldTypes, Sides DEF IInv
<1>2. \A y \in flying : Carries(y)
  BY DEF GreetInv
<1> QED
  BY <1>1, <1>2, Served, PhoneAside DEF Carries

\* Time, the browser, a deploy, and an answer nobody waits for.
LEMMA AsideGreets ==
  ASSUME IInv, GreetInv,
         \/ \E s \in Sessions : Age(s) \/ Close(s)
         \/ \E x \in WebRequests : WebSend(x) \/ WebReceive(x) \/ WebLose(x)
         \/ \E x \in PhoneRequests : Discard(x)
         \/ Restart
  PROVE  GreetInv'
<1>1. /\ UNCHANGED phone /\ owner' = owner /\ (failed => failed')
  <2>1. CASE \E s \in Sessions : Age(s) \/ Close(s)
    BY <2>1 DEF Age, Close, Expire, CloseWindow, budget
  <2>2. CASE \E x \in WebRequests : WebSend(x) \/ WebReceive(x) \/ WebLose(x)
    <3>1. UNCHANGED <<phone, store>>
      BY <2>2 DEF WebSend, WebReceive, WebLose
    <3>2. failed' = failed \/ failed' = TRUE
      BY <2>2 DEF WebSend, WebReceive, WebLose, Fault, budget
    <3> QED
      BY <3>1, <3>2 DEF store
  <2>3. CASE \E x \in PhoneRequests : Discard(x)
    BY <2>3 DEF Discard, store, budget
  <2>4. CASE Restart
    BY <2>4 DEF Restart, store
  <2> QED
    BY <2>1, <2>2, <2>3, <2>4
<1>2. /\ TypeOK /\ flying \subseteq PhoneRequests
      /\ \A y \in flying : Carries(y) /\ req[y] \in Request /\ y \notin WebRequests /\ y \in Requests
  BY HeldTypes, Sides DEF IInv, GreetInv
<1>3. CASE Restart
  <2>1. \A y \in flying : req'[y] = [req[y] EXCEPT !.phase = "lost"]
    BY <1>2, <1>3 DEF Restart, Carries
  <2>2. \A y \in flying : /\ req'[y].phase = "lost" /\ req'[y].op = req[y].op
                          /\ req'[y].tok = req[y].tok /\ req'[y].code = req[y].code
    <3> TAKE y \in flying
    <3> DEFINE q == req[y]
    <3>1. q \in Request /\ req'[y] = [q EXCEPT !.phase = "lost"]
      BY <1>2, <2>1
    <3> HIDE DEF q
    <3>2. /\ req'[y].phase = "lost" /\ req'[y].op = q.op /\ req'[y].tok = q.tok /\ req'[y].code = q.code
      BY <3>1, PhaseType
    <3> QED
      BY <3>2 DEF q
  <2> QED
    BY <1>1, <2>2, PhoneAside
<1>4. CASE ~Restart
  <2>1. \A y \in flying : req'[y] = req[y]
    BY <1>2, <1>4 DEF Age, Close, WebSend, WebReceive, WebLose, Discard, Set, TypeOK, AccessTypeOK
  <2> QED
    BY <1>1, <1>2, <2>1, PhoneAside DEF Carries
<1> QED
  BY <1>3, <1>4

\* What a settled call leaves in the queue.
LEMMA Settled ==
  ASSUME NEW c, NEW ok, NEW r, NEW rest \in Seq(Asking), Settle(c, ok, r, rest)
  PROVE  /\ \A i \in 1..Len(queue') : queue'[i].op = "start" => i \in 1..Len(rest) /\ rest[i].op = "start"
         /\ \A i \in 1..Len(rest) : i \in 1..Len(queue') /\ queue'[i] = rest[i]
         /\ c.op \in {"enter", "leave"} /\ ok = "ok" => \E i \in 1..Len(queue') : queue'[i].op = "session"
<1>1. Resession.op = "session"
  BY StartType
<1>2. queue' = rest \/ queue' = Append(rest, Resession)
  BY DEF Settle
<1>3. c.op \in {"enter", "leave"} /\ ok = "ok" => queue' = Append(rest, Resession)
  BY DEF Settle
<1>4. /\ Len(Append(rest, Resession)) = Len(rest) + 1 /\ Len(rest) \in Nat
      /\ \A i \in 1..Len(rest) : Append(rest, Resession)[i] = rest[i]
      /\ Append(rest, Resession)[Len(rest) + 1] = Resession
  OBVIOUS
<1> HIDE DEF Resession
<1> QED
  BY <1>1, <1>2, <1>3, <1>4

\* A button.
LEMMA AskGreets ==
  ASSUME IInv, GreetInv, PhoneAsk
  PROVE  GreetInv'
<1>1. PICK c : queue' = Append(queue, c) /\ c.op # "start"
  BY DEF PhoneAsk
<1>2. queue \in Seq(Asking) /\ UNCHANGED <<store, req, stored, shown, flying, calls, failed>>
  BY DEF PhoneAsk, IInv, Serial
<1>3. /\ Len(queue') = Len(queue) + 1 /\ Len(queue) \in Nat
      /\ \A i \in 1..Len(queue) : queue'[i] = queue[i]
      /\ queue'[Len(queue) + 1] = c
  BY <1>1, <1>2
<1>4. \A i \in 1..Len(queue') : Starting(i)'
  BY <1>1, <1>2, <1>3 DEF GreetInv, Starting
<1>5. Greeted'
  BY <1>2, <1>3 DEF GreetInv, Greeted, Awaited, store
<1>6. \A x \in flying' : Carries(x)'
  BY <1>2 DEF GreetInv, Carries
<1> QED
  BY <1>4, <1>5, <1>6 DEF GreetInv

\* The app is opened again.
LEMMA ReopenGreets ==
  ASSUME PhoneReopen
  PROVE  GreetInv'
<1>1. queue' = <<Start>> /\ flying' = {} /\ shown' = None
  BY DEF PhoneReopen
<1>2. \A i \in 1..Len(queue') : Starting(i)'
  BY <1>1 DEF Starting
<1> QED
  BY <1>1, <1>2 DEF GreetInv, Greeted

\* A call given up: something has failed.
LEMMA GivenUpGreets ==
  ASSUME IInv, GreetInv, NEW x \in PhoneRequests, PhoneTimeout(x) \/ PhoneUnanswered(x)
  PROVE  GreetInv'
<1>1. /\ x \in flying /\ flying = {x} /\ flying' = {} /\ failed' /\ shown' = shown
      /\ Settle(calls[x], "failed", None, queue) /\ queue \in Seq(Asking)
  BY DEF PhoneTimeout, PhoneUnanswered, Abandon, Fault, IInv, Serial, Settle
<1>2. \A i \in 1..Len(queue) : queue[i].op # "start"
  BY <1>1 DEF GreetInv, Starting
<1>3. \A i \in 1..Len(queue') : Starting(i)'
  BY <1>1, <1>2, Settled DEF Starting
<1> QED
  BY <1>1, <1>3 DEF GreetInv, Greeted

\* An answer to a call.
LEMMA ReceiveGreets ==
  ASSUME IInv, CauseInv, GreetInv, NEW x \in PhoneRequests, PhoneReceive(x)
  PROVE  GreetInv'
<1> DEFINE q == req[x]
           c == calls[x]
           gone == c.op = "leave" /\ q.code # "failed"
           ok == IF gone THEN "ok" ELSE q.code
<1>1. /\ x \in flying /\ flying = {x} /\ flying' = {} /\ failed' = failed /\ owner' = owner
      /\ Settle(c, ok, q.who, queue) /\ queue \in Seq(Asking)
      /\ stored' = IF gone THEN None ELSE IF q.hand = None THEN stored ELSE q.hand
  BY DEF PhoneReceive, IInv, Serial, budget, store, TokenOf
<1>2. TypeOK /\ x \in Requests /\ q \in Request /\ q.code \in {"ok", "denied", "failed"}
  BY HeldTypes, RequestFields, Sides DEF IInv
<1>3. Carries(x) /\ Sound(x) /\ Handing(x) /\ Greeted
  BY <1>1, <1>2 DEF GreetInv, CauseInv, IInv
<1>4. \A i \in 1..Len(queue) : queue[i].op # "start"
  BY <1>1 DEF GreetInv, Starting
<1>5. \A i \in 1..Len(queue') : Starting(i)'
  BY <1>1, <1>4, Settled DEF Starting
<1>6. Greeted'
  <2> SUFFICES ASSUME ~failed, shown' # None,
                      ~ \E i \in 1..Len(queue') : queue'[i].op = "session"
               PROVE  stored' # None /\ owner[stored'.s] = shown'
    BY <1>1 DEF Greeted, Awaited
  <2>1. q.code # "failed"
    BY <1>3 DEF Carries
  <2>2. ~(c.op \in {"enter", "leave"} /\ ok = "ok")
    BY <1>1, Settled
  <2>3. c.op # "leave" /\ ~gone /\ ok = q.code
    BY <2>1, <2>2
  <2>4. CASE c.op = "enter"
    <3>1. q.op = "enter" /\ q.code # "ok"
      BY <1>3, <2>2, <2>3, <2>4 DEF Carries
    <3>2. q.hand = None
      BY <1>3, <3>1 DEF Handing, Entered
    <3>3. stored' = stored /\ shown' = shown
      BY <1>1, <2>3, <2>4, <3>2 DEF Settle
    <3>4. ~Awaited
      BY <1>1, <2>4, Settled DEF Awaited
    <3> QED
      BY <1>3, <3>3, <3>4 DEF Greeted
  <2>5. CASE c.op # "enter"
    <3>1. q.op # "enter" /\ stored # None /\ q.tok # None /\ q.tok.s = stored.s
      BY <1>3, <2>5 DEF Carries
    <3>2. stored' # None /\ stored'.s = stored.s
      BY <1>1, <1>2, <1>3, <2>3, <3>1 DEF Handing, Sound
    <3>3. CASE c.op \in {"start", "session"}
      <4>1. shown' = q.who /\ q.who # None
        BY <1>1, <1>2, <1>3, <2>1, <2>3, <3>3 DEF Settle, Carries
      <4> QED
        BY <1>3, <3>1, <3>2, <4>1 DEF Sound
    <3>4. CASE c.op \notin {"start", "session"}
      <4>1. shown' = shown
        BY <1>1, <3>4 DEF Settle
      <4>2. ~Awaited
        BY <1>1, <3>4, Settled DEF Awaited
      <4> QED
        BY <1>3, <3>2, <4>1, <4>2 DEF Greeted
    <3> QED
      BY <3>3, <3>4
  <2> QED
    BY <2>4, <2>5
<1> QED
  BY <1>1, <1>5, <1>6 DEF GreetInv

\* The next call of the queue.
LEMMA StartGreets ==
  ASSUME IInv, GreetInv, NEW x \in PhoneRequests, PhoneStart(x)
  PROVE  GreetInv'
<1>1. /\ TypeOK /\ x \in Requests /\ flying = {} /\ queue # <<>> /\ queue \in Seq(Asking) /\ Greeted
      /\ UNCHANGED <<store, secret, browser, stored, excused, budget>>
  <2>1. /\ flying = {} /\ queue # <<>>
        /\ UNCHANGED <<store, secret, browser, stored, excused, budget>>
    BY DEF PhoneStart, Turn
  <2>2. TypeOK /\ x \in Requests /\ queue \in Seq(Asking) /\ Greeted
    BY Sides DEF IInv, Serial, GreetInv
  <2> QED
    BY <2>1, <2>2
<1>2. PICK c \in Asking : c = Head(queue)
  BY <1>1
<1>3. PICK rest \in Seq(Asking) : rest = Tail(queue)
  <2>1. Tail(queue) \in Seq(Asking)
    BY <1>1
  <2> QED
    BY <2>1
<1>4. /\ Len(queue) \in Nat /\ Len(queue) > 0 /\ Len(rest) = Len(queue) - 1 /\ c = queue[1]
      /\ \A i \in 1..Len(rest) : rest[i] = queue[i + 1]
  BY <1>1, <1>2, <1>3
<1>5. \A i \in 1..Len(rest) : rest[i].op # "start"
  BY <1>4 DEF GreetInv, Starting
<1>6. c.op = "start" => shown = None
  BY <1>4 DEF GreetInv, Starting
<1>7. \A i \in 1..Len(queue) : queue[i].op = "session" =>
        c.op = "session" \/ \E j \in 1..Len(rest) : rest[j].op = "session"
  <2> TAKE i \in 1..Len(queue)
  <2>1. CASE i = 1
    BY <1>4, <2>1
  <2>2. CASE i # 1
    <3>1. i - 1 \in 1..Len(rest) /\ rest[i - 1] = queue[i]
      BY <1>4, <2>2
    <3> QED
      BY <3>1
  <2> QED
    BY <2>1, <2>2
<1>8. owner' = owner /\ failed' = failed /\ stored' = stored
  BY <1>1 DEF store, budget
<1>9. CASE c.op # "enter" /\ stored = None
  <2>1. PICK ok : Settle(c, ok, None, rest) /\ ok = IF c.op = "leave" THEN "ok" ELSE "denied"
    BY <1>2, <1>3, <1>9 DEF PhoneStart
  <2>2. flying' = {}
    BY <1>1, <1>2, <1>9 DEF PhoneStart
  <2>3. \A i \in 1..Len(queue') : Starting(i)'
    BY <1>5, <2>1, Settled DEF Starting
  <2>4. Greeted'
    <3> SUFFICES ASSUME ~failed, shown' # None,
                        ~ \E i \in 1..Len(queue') : queue'[i].op = "session"
                 PROVE  FALSE
      BY <1>8 DEF Greeted, Awaited
    <3>1. c.op # "leave" /\ ok = "denied"
      BY <2>1, Settled
    <3>2. c.op # "session" /\ shown' = shown
      BY <2>1, <3>1 DEF Settle
    <3>3. \A j \in 1..Len(rest) : rest[j].op # "session"
      BY <2>1, Settled
    <3>4. ~Awaited
      BY <1>1, <1>7, <3>2, <3>3 DEF Awaited
    <3> QED
      BY <1>1, <1>9, <3>2, <3>4 DEF Greeted
  <2> QED
    BY <2>2, <2>3, <2>4 DEF GreetInv
<1>10. CASE ~(c.op # "enter" /\ stored = None)
  <2>1. PICK n \in Request :
          /\ Set(x, n) /\ n.phase = "arrived"
          /\ n.op = IF c.op \in {"start", "session"} THEN "read" ELSE c.op
          /\ n.tok = IF c.op = "enter" THEN None ELSE stored
          /\ n.code = "ok"
          /\ queue' = rest /\ flying' = flying \union {x}
          /\ calls' = [calls EXCEPT ![x] = c] /\ shown' = shown
    BY <1>2, <1>3, <1>10, CallTaken
  <2>2. req'[x] = n /\ calls'[x] = c /\ flying' = {x}
    BY <1>1, <2>1, Written DEF TypeOK, AccessTypeOK
  <2>3. Carries(x)'
    BY <1>6, <1>8, <1>10, <2>1, <2>2 DEF Carries
  <2>4. \A i \in 1..Len(queue') : Starting(i)'
    BY <1>5, <2>1 DEF Starting
  <2>5. Greeted'
    <3>1. Awaited => Awaited'
      BY <1>1, <1>7, <2>1, <2>2 DEF Awaited
    <3> QED
      BY <1>1, <1>8, <2>1, <3>1 DEF Greeted
  <2> QED
    BY <2>2, <2>3, <2>4, <2>5 DEF GreetInv
<1> QED
  BY <1>9, <1>10

\* Every step keeps what the greeting rests on.
LEMMA StepGreets == IInv /\ CauseInv /\ GreetInv /\ [Next]_vars => GreetInv'
<1> SUFFICES ASSUME IInv, CauseInv, GreetInv, [Next]_vars PROVE GreetInv'
  OBVIOUS
<1>1. ASSUME NEW x \in Requests, Serve(x) PROVE GreetInv'
  BY <1>1, ServeGreets
<1>2. CASE \/ \E s \in Sessions : Age(s) \/ Close(s)
           \/ \E x \in WebRequests : WebSend(x) \/ WebReceive(x) \/ WebLose(x)
           \/ \E x \in PhoneRequests : Discard(x)
           \/ Restart
  BY <1>2, AsideGreets
<1>3. ASSUME NEW x \in PhoneRequests, PhoneStart(x) \/ PhoneReceive(x) \/ PhoneUnanswered(x) \/ PhoneTimeout(x)
      PROVE  GreetInv'
  BY <1>3, StartGreets, ReceiveGreets, GivenUpGreets
<1>4. CASE PhoneAsk \/ PhoneReopen
  BY <1>4, AskGreets, ReopenGreets
<1>5. CASE UNCHANGED vars
  BY <1>5 DEF vars, store, phone, budget, GreetInv, Carries, Starting, Greeted, Awaited
<1> QED
  BY <1>1, <1>2, <1>3, <1>4, <1>5 DEF Next, PhoneSettle

\* So it holds in every behaviour.
THEOREM GreetingHolds == Spec => []GreetInv
<1>1. Init => GreetInv
  BY GreetInit
<1>2. IInv /\ CauseInv /\ GreetInv /\ [Next]_vars => GreetInv'
  BY StepGreets
<1> QED
  BY <1>1, <1>2, InvariantHolds, CausesHold, PTL DEF Spec

\* At rest, and if nothing failed, the phone greets the reader whose token it holds.
THEOREM GreetedIsStored == Spec => []ShownReaderIsStored
<1>1. GreetInv => ShownReaderIsStored
  BY DEF GreetInv, Greeted, Awaited, ShownReaderIsStored
<1> QED
  BY <1>1, GreetingHolds, PTL
=============================================================================
