---------------------------- MODULE ReaderAccess ----------------------------
(***************************************************************************)
(* A browser and a phone using their reader's account through one server.  *)
(* The browser has one cookie, a tab left open with a form on it, and      *)
(* requests that overlap; the phone runs its calls one at a time and keeps *)
(* its token in storage.  A request is handled in the steps between its    *)
(* awaits: the refresh, the reader's row, and the work.                    *)
(***************************************************************************)
EXTENDS AccountStore, Sequences

CONSTANTS
  Cleared,  \* clearedCookie
  WebRequests, PhoneRequests,  \* requests that may be under way
  Quotas  \* bounds: requests from the web, calls asked of the phone, faults, restarts

Requests == WebRequests \union PhoneRequests
Edits == {"follow", "unfollow", "everywhere"}
Ops == Edits \union {"read", "enter", "leave"}

VARIABLES
  secret,   \* the CSRF key of this process; a restart makes a new one
  req,      \* req[x]: a request under way
  jar,      \* the browser's session cookie
  tab,      \* a form left open: its csrf field, and the reader it greets
  stored,   \* the phone's TokenStorage
  shown,    \* session of AppState: the reader the phone greets
  queue,    \* calls waiting behind `tail`
  flying,   \* calls of the phone awaiting their answer
  calls,    \* calls[x]: the call that request x carries
  excused,  \* history: sessions whose holder may find himself signed out
  failed,   \* history: something has failed
  left      \* what is left of the quota

browser == <<jar, tab>>
phone == <<stored, shown, queue, flying, calls>>
budget == <<failed, left>>
vars == <<store, secret, req, browser, phone, excused, budget>>

\* The csrf field: of the session (sqlite), or an HMAC of the reader (supabase).
Csrf == (Sessions \X {0}) \union (Readers \X Nat)
Quota == [web : Nat, phone : Nat, faults : Nat, restarts : Nat]
Form == [csrf : Csrf, seen : Readers]

ASSUME AccessConstants ==
  /\ IsFiniteSet(Sessions) /\ MaxGen \in Nat \ {0}
  /\ WebRequests \intersect PhoneRequests = {}
  /\ \A v \in {None, Cleared} :
       /\ v \notin Readers /\ v \notin Token /\ v \notin Follows /\ v \notin Csrf /\ v \notin Form
       /\ v \notin [reader : Readers, op : Edits, what : Follows]
  /\ None # Cleared
  /\ Quotas \subseteq Quota

Call == [op : Ops \union {"start", "session"}, what : Follows \union {None}, reader : Readers \union {None}]

Request == [
  phase : {"idle", "arrived", "fresh", "known", "answered", "lost"},
  op : Ops, what : Follows \union {None},
  tok : Token \union {None},     \* the session presented
  csrf : Csrf \union {None},     \* the form's field, then the one on the page answered
  seen : Readers \union {None},  \* for whom: the reader the form greets, or whose password it is
  who : Readers \union {None},   \* the Identity resolved
  hand : Token \union {None, Cleared},  \* set-cookie, x-towncivic-session or the token of the answer
  code : {"ok", "denied", "failed"}]

Idle == [phase |-> "idle", op |-> "read", what |-> None, tok |-> None, csrf |-> None,
         seen |-> None, who |-> None, hand |-> None, code |-> "ok"]

AccessTypeOK ==
  /\ secret \in Nat
  /\ req \in [Requests -> Request]
  /\ jar \in Token \union {None}
  /\ tab \in Form \union {None}
  /\ stored \in Token \union {None}
  /\ shown \in Readers \union {None}
  /\ queue \in Seq(Call)
  /\ flying \in SUBSET PhoneRequests
  /\ calls \in [PhoneRequests -> Call]
  /\ excused \in SUBSET Sessions
  /\ failed \in BOOLEAN
  /\ left \in Quota

TypeOK == StoreTypeOK /\ AccessTypeOK

Start == [op |-> "start", what |-> None, reader |-> None]
Resession == [Start EXCEPT !.op = "session"]

Init ==
  /\ StoreInit
  /\ secret = 0
  /\ req = [x \in Requests |-> Idle]
  /\ jar = None /\ tab = None
  /\ stored = None /\ shown = None
  /\ queue = <<>> /\ flying = {}
  /\ calls = [x \in PhoneRequests |-> Start]
  /\ excused = {}
  /\ failed = FALSE
  /\ left \in Quotas

-----------------------------------------------------------------------------
(* The server. *)

Fault ==
  /\ left.faults > 0
  /\ left' = [left EXCEPT !.faults = @ - 1]
  /\ failed' = TRUE

SessionsOf(x) == {t.s : t \in {req[x].tok, req[x].hand} \ {None, Cleared}}
Excuse(S) == excused' = excused \union S

\* Whichever request is free stands for a new one.
Free(x, S) == x = CHOOSE y \in S : req[y].phase = "idle"

Set(x, r) == req' = [req EXCEPT ![x] = r]

\* resolve, up to its first await: an ageing pair is exchanged.
Refresh(x) ==
  LET t == req[x].tok
      Refused == Set(x, [req[x] EXCEPT !.phase = "known"])
  IN
  /\ Hosted /\ req[x].phase = "arrived" /\ req[x].op # "enter"
  /\ t # None /\ Old(t)
  /\ \/ /\ Exchangeable(t) /\ Exchange(t)
        /\ \/ LET next == [s |-> t.s, g |-> gen'[t.s]]
              IN Set(x, [req[x] EXCEPT !.phase = "fresh", !.tok = next, !.hand = next])
              /\ UNCHANGED <<excused, budget>>
           \/ Fault /\ Refused /\ Excuse({t.s})
     \/ /\ ~Exchangeable(t) /\ RefuseExchange(t) /\ Refused
        /\ UNCHANGED <<excused, budget>>
     \/ Fault /\ Refused /\ Excuse({t.s}) /\ UNCHANGED store
  /\ UNCHANGED <<secret, browser, phone>>

Forgotten(x, r) == [req[x] EXCEPT !.phase = "known", !.who = r, !.hand = None]  \* mutant: the new pair is kept back
\* The reader of the session presented, and the pair to hand back with them.
Known(x, r) == [req[x] EXCEPT !.phase = "known", !.who = r, !.hand = IF r = None THEN None ELSE @]

\* The rest of resolve: the reader's row under the token, or readSession.
Identify(x) ==
  LET t == req[x].tok IN
  /\ req[x].op # "enter"
  /\ \/ req[x].phase = "fresh"
     \/ req[x].phase = "arrived" /\ ~(Hosted /\ t # None /\ Old(t))
  /\ \/ t = None /\ Set(x, Known(x, None)) /\ UNCHANGED <<store, excused, budget>>
     \/ /\ Hosted /\ t # None
        /\ \/ Honours(t) /\ Set(x, Known(x, owner[t.s])) /\ UNCHANGED <<excused, budget>>
           \/ MayRefuse(t) /\ Set(x, Known(x, None)) /\ UNCHANGED <<excused, budget>>
           \/ Fault /\ Set(x, Known(x, None)) /\ Excuse({t.s})
        /\ UNCHANGED store
     \/ /\ ~Hosted /\ t # None
        /\ IF stale[t.s] THEN EndSession(t.s) ELSE UNCHANGED store
        /\ Set(x, Known(x, IF t.s \in live /\ ~stale[t.s] THEN owner[t.s] ELSE None))
        /\ UNCHANGED <<excused, budget>>
  /\ UNCHANGED <<secret, browser, phone>>

\* csrfToken of an Identity, and verifyCsrf: the local backend reads the row
\* again, after the form's body was awaited.
CsrfOf(r, t) == IF Hosted THEN <<r, secret>> ELSE <<t.s, 0>>
CsrfOnce(x) == req[x].csrf = CsrfOf(req[x].who, req[x].tok)  \* mutant: the row is not read again
VerifyCsrf(x) ==
  LET q == req[x] IN
  /\ q.csrf = CsrfOf(q.who, q.tok)
  /\ ~Hosted => q.tok.s \in live /\ ~stale[q.tok.s]

\* That reading removes a row it finds expired.
Reread(x) ==
  IF ~Hosted /\ x \in WebRequests /\ req[x].who # None /\ stale[req[x].tok.s]
  THEN EndSession(req[x].tok.s) ELSE UNCHANGED store

\* The form's field is for the browser; the reader API has no ambient cookie.
Allowed(x) == req[x].who # None /\ (x \in WebRequests => VerifyCsrf(x))

Answer(x, code, hand) == [req[x] EXCEPT !.phase = "answered", !.code = code, !.hand = hand]

\* POST /login and /signup, POST /api/v1/session: a session, a refusal (or a
\* letter to confirm), or accounts that cannot be reached.
Enter(x) ==
  /\ req[x].phase = "arrived" /\ req[x].op = "enter"
  /\ \/ /\ \E s \in Sessions : owner[s] = None
        /\ LET s == CHOOSE s \in Sessions : owner[s] = None
           IN StartSession(req[x].seen, s) /\ Set(x, Answer(x, "ok", [s |-> s, g |-> 1]))
        /\ UNCHANGED budget
     \/ Set(x, Answer(x, "denied", None)) /\ UNCHANGED <<store, budget>>
     \/ Hosted /\ Fault /\ Set(x, Answer(x, "failed", None)) /\ UNCHANGED store
  /\ UNCHANGED <<secret, browser, phone, excused>>

\* A page or GET /session: a page for a reader carries a form.
Read(x) ==
  LET q == req[x] IN
  /\ q.phase = "known" /\ q.op = "read"
  /\ Set(x, IF q.who = None THEN Answer(x, "denied", q.hand)
            ELSE [Answer(x, "ok", q.hand) EXCEPT !.csrf = CsrfOf(q.who, q.tok), !.seen = q.who])
  /\ UNCHANGED <<store, secret, browser, phone, excused, budget>>

\* guarded, /interests/follow, PUT and DELETE /following: PostgREST writes as
\* the bearer; what went wrong there is thrown, the headers being set already.
Edit(x) ==
  LET q == req[x]
      Written == Subscribe(q.who, q.op, q.what)
  IN
  /\ q.phase = "known" /\ q.op \in Edits
  /\ \/ /\ ~Allowed(x)
        /\ Set(x, Answer(x, "denied", q.hand))
        /\ Reread(x) /\ UNCHANGED budget
     \/ /\ Allowed(x)
        /\ \/ Written /\ Set(x, Answer(x, "ok", q.hand)) /\ UNCHANGED budget
           \/ Hosted /\ Fault /\ (Written \/ UNCHANGED store) /\ Set(x, Answer(x, "failed", q.hand))
  /\ UNCHANGED <<secret, browser, phone, excused>>

\* POST /logout clears the cookie whatever happened; DELETE /session answers
\* ok whether or not GoTrue was reached.
Leave(x) ==
  LET q == req[x]
      hand == IF x \in WebRequests THEN Cleared ELSE q.hand
  IN
  /\ q.phase = "known" /\ q.op = "leave"
  /\ \/ /\ ~Allowed(x)
        /\ Set(x, Answer(x, "denied", hand))
        /\ Reread(x) /\ UNCHANGED <<excused, budget>>
     \/ /\ Allowed(x)
        /\ Set(x, Answer(x, "ok", hand))
        /\ Excuse({q.tok.s})
        /\ \/ EndSession(q.tok.s) /\ UNCHANGED budget
           \/ Hosted /\ Fault /\ UNCHANGED store
  /\ UNCHANGED <<secret, browser, phone>>

\* A deploy: what was under way is never answered.
Restart ==
  /\ left.restarts > 0
  /\ left' = [left EXCEPT !.restarts = @ - 1]
  /\ secret' = secret + 1
  /\ Excuse(UNION {SessionsOf(x) : x \in Requests})
  /\ req' = [x \in Requests |->
       IF x \in WebRequests \/ req[x].phase = "idle" THEN Idle ELSE [req[x] EXCEPT !.phase = "lost"]]
  /\ UNCHANGED <<store, browser, phone, failed>>

-----------------------------------------------------------------------------
(* Time.  A hosted session ages between requests: the margin before an     *)
(* access token's end outlasts one.  A row of the local backend may expire *)
(* under a request, and a window may close on one still out.               *)

Out(s) == \E x \in Requests : s \in SessionsOf(x)

Midway(s) == \E x \in Requests :
  req[x].phase \in {"fresh", "known"} /\ req[x].tok # None /\ req[x].tok.s = s

Age(s) ==
  /\ Expire(s)
  /\ Hosted => ~Midway(s)
  /\ Excuse(IF Hosted THEN {} ELSE {s})
  /\ UNCHANGED <<secret, req, browser, phone, budget>>

Close(s) ==
  /\ CloseWindow(s)
  /\ Excuse(IF Out(s) THEN {s} ELSE {})
  /\ UNCHANGED <<secret, req, browser, phone, budget>>

-----------------------------------------------------------------------------
(* The browser. *)

WebSend(x) ==
  /\ left.web > 0 /\ req[x].phase = "idle" /\ Free(x, WebRequests)
  /\ left' = [left EXCEPT !.web = @ - 1]
  /\ \/ \E r \in Readers :
          Set(x, [Idle EXCEPT !.phase = "arrived", !.op = "enter", !.seen = r])
     \/ Set(x, [Idle EXCEPT !.phase = "arrived", !.tok = jar])
     \/ /\ tab # None
        /\ \E op \in Edits \union {"leave"}, f \in Follows :
             Set(x, [Idle EXCEPT !.phase = "arrived", !.op = op, !.what = f,
                                 !.tok = jar, !.csrf = tab.csrf, !.seen = tab.seen])
  /\ UNCHANGED <<store, secret, browser, phone, excused, failed>>

\* The answer's cookie replaces the jar's, whenever it arrives; a page for a
\* reader is opened in the tab, or elsewhere.
WebReceive(x) ==
  LET q == req[x] IN
  /\ q.phase = "answered"
  /\ jar' = IF q.hand = None THEN jar ELSE IF q.hand = Cleared THEN None ELSE q.hand
  /\ \/ q.op = "read" /\ q.code = "ok" /\ tab' = [csrf |-> q.csrf, seen |-> q.seen]
     \/ tab' = tab
  /\ Set(x, Idle)
  /\ UNCHANGED <<store, secret, phone, excused, budget>>

WebLose(x) ==
  /\ req[x].phase = "answered"
  /\ Fault /\ Excuse(SessionsOf(x)) /\ Set(x, Idle)
  /\ UNCHANGED <<store, secret, browser, phone>>

-----------------------------------------------------------------------------
(* The phone. *)

Busy == \E c \in {queue[i] : i \in 1..Len(queue)} \union {calls[x] : x \in flying} :
          c.op \in {"enter", "leave", "session"}

\* A button: sign in while nobody is greeted; sign out or follow while somebody is.
PhoneAsk ==
  /\ left.phone > 0
  /\ left' = [left EXCEPT !.phone = @ - 1]
  /\ \E c \in Call :
       /\ \/ c.op = "enter" /\ shown = None /\ ~Busy /\ c.reader # None /\ c.what = None
          \/ c.op = "leave" /\ shown # None /\ ~Busy /\ c.reader = None /\ c.what = None
          \/ c.op \in {"follow", "unfollow"} /\ shown # None /\ c.reader = None /\ c.what # None
       /\ queue' = Append(queue, c)
  /\ UNCHANGED <<store, secret, req, browser, stored, shown, flying, calls, excused, failed>>

\* What the screens do with a settled call: refreshSession follows a sign-in
\* or a sign-out that went through.
SettleDeaf(c, ok, reader, rest) ==  \* mutant: a 401 does not end the session shown
  /\ queue' = IF c.op \in {"enter", "leave"} /\ ok = "ok" THEN Append(rest, Resession) ELSE rest
  /\ shown' = IF c.op \in {"start", "session"} /\ ok = "ok" THEN reader ELSE shown
Settle(c, ok, reader, rest) ==
  /\ queue' = IF c.op \in {"enter", "leave"} /\ ok = "ok" THEN Append(rest, Resession) ELSE rest
  /\ shown' = CASE c.op \in {"start", "session"} /\ ok = "ok" -> reader
                [] c.op = "session" /\ ok = "denied" -> None
                [] OTHER -> shown

Overlap == TRUE  \* mutant: calls are not serialized
Turn == flying = {}

\* serial: the next call reads the token once the one before it has settled.
PhoneStart(x) ==
  /\ Turn /\ queue # <<>> /\ req[x].phase = "idle" /\ Free(x, PhoneRequests)
  /\ LET c == Head(queue) IN
     IF c.op # "enter" /\ stored = None
     THEN /\ Settle(c, IF c.op = "leave" THEN "ok" ELSE "denied", None, Tail(queue))
          /\ UNCHANGED <<req, flying, calls>>
     ELSE /\ queue' = Tail(queue)
          /\ flying' = flying \union {x} /\ calls' = [calls EXCEPT ![x] = c]
          /\ Set(x, [Idle EXCEPT
               !.phase = "arrived", !.op = IF c.op \in {"start", "session"} THEN "read" ELSE c.op,
               !.what = c.what, !.tok = IF c.op = "enter" THEN None ELSE stored,
               !.seen = IF c.op = "enter" THEN c.reader ELSE owner[stored.s]])
          /\ UNCHANGED shown
  /\ UNCHANGED <<store, secret, browser, stored, excused, budget>>

TokenIfOk(q) == IF q.code # "ok" \/ q.hand = None THEN stored ELSE q.hand  \* mutant
TokenOf(q) == IF q.hand = None THEN stored ELSE q.hand

\* A rotated pair is stored before anything else; a sign-out forgets it when
\* the server agreed or no longer knew it.
PhoneReceive(x) ==
  LET q == req[x]
      c == calls[x]
      gone == c.op = "leave" /\ q.code # "failed"
  IN
  /\ x \in flying /\ q.phase = "answered"
  /\ stored' = IF gone THEN None ELSE TokenOf(q)
  /\ Settle(c, IF gone THEN "ok" ELSE q.code, q.who, queue)
  /\ flying' = flying \ {x}
  /\ Set(x, Idle)
  /\ UNCHANGED <<store, secret, browser, calls, excused, budget>>

\* The abort after twenty seconds: the server may still be at work, its answer
\* reaches nobody.  An answer whose token the phone could not store fails its
\* call just so: storage.set throws and nothing of the answer is used.
Abandon(x) ==
  /\ Settle(calls[x], "failed", None, queue)
  /\ flying' = flying \ {x}
  /\ Excuse(SessionsOf(x))
  /\ UNCHANGED <<store, secret, browser, stored, calls>>

PhoneTimeout(x) ==
  /\ x \in flying /\ req[x].phase \notin {"idle", "lost"}
  /\ Fault /\ Abandon(x) /\ UNCHANGED req

NoTimer(x) == FALSE  \* mutant: no abort
PhoneUnanswered(x) ==
  /\ x \in flying /\ req[x].phase = "lost"
  /\ Abandon(x) /\ Set(x, Idle) /\ failed' = TRUE /\ UNCHANGED left

Discard(x) ==
  /\ x \notin flying /\ req[x].phase \in {"answered", "lost"}
  /\ Excuse(SessionsOf(x)) /\ Set(x, Idle)
  /\ UNCHANGED <<store, secret, browser, phone, budget>>

\* Force-closed and opened again: only the storage survives.
PhoneReopen ==
  /\ left.restarts > 0
  /\ left' = [left EXCEPT !.restarts = @ - 1]
  /\ queue' = <<Start>> /\ flying' = {} /\ shown' = None
  /\ Excuse(UNION {SessionsOf(x) : x \in flying})
  /\ UNCHANGED <<store, secret, req, browser, stored, calls, failed>>

-----------------------------------------------------------------------------

Serve(x) == Refresh(x) \/ Identify(x) \/ Enter(x) \/ Read(x) \/ Edit(x) \/ Leave(x)
PhoneSettle(x) == PhoneReceive(x) \/ PhoneUnanswered(x) \/ Discard(x)

Next ==
  \/ \E x \in Requests : Serve(x)
  \/ \E x \in WebRequests : WebSend(x) \/ WebReceive(x) \/ WebLose(x)
  \/ \E x \in PhoneRequests : PhoneStart(x) \/ PhoneSettle(x) \/ PhoneTimeout(x)
  \/ \E s \in Sessions : Age(s) \/ Close(s)
  \/ PhoneAsk \/ PhoneReopen \/ Restart

Spec == Init /\ [][Next]_vars

\* The server's event loop, the phone's promise queue and its timer go on.
FairSpec ==
  /\ Spec
  /\ \A x \in Requests : WF_vars(Serve(x))
  /\ \A x \in PhoneRequests : WF_vars(PhoneStart(x)) /\ WF_vars(PhoneSettle(x))
=============================================================================
