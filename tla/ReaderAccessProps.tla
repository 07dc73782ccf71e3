------------------------- MODULE ReaderAccessProps --------------------------
(* What a reader may count on, whatever overlaps, is late, or is lost. *)
EXTENDS ReaderAccess

-----------------------------------------------------------------------------
\* The edit a request asks for, while it may still be carried out: a form of
\* the local backend asks for nothing once its session is over.
Pending(x) ==
  LET q == req[x] IN
  /\ q.phase \in {"arrived", "fresh", "known"} /\ q.op \in Edits
  /\ x \in WebRequests /\ ~Hosted => q.csrf[1] \in live /\ ~stale[q.csrf[1]]

Asked == [x \in Requests |->
  IF Pending(x) THEN [reader |-> req[x].seen, op |-> req[x].op, what |-> req[x].what] ELSE None]

Promise == INSTANCE ReaderLists WITH asked <- Asked

\* A reader's list changes only by what that reader asked for, once per request:
\* a form left open by one reader never edits another's list (verifyCsrf).
ListPromise == Promise!Spec

\* Somebody who presents a session is told "please sign in" only after one of:
\* a sign-out, a failure of the accounts backend, an answer that never arrived,
\* an answer slower than the reuse window, or the end of a row of the local
\* backend (supabase.ts resolve, sqlite.ts readSession, server.ts currentUser).
TurnedAwayWithCause ==
  \A x \in Requests :
    req[x].phase = "known" /\ req[x].tok # None /\ req[x].who = None => req[x].tok.s \in excused

\* Between calls the phone holds the newest pair of its session, so its next
\* refresh is not a replay (client.ts, the serial queue).
PhoneHoldsNewest ==
  flying = {} /\ stored # None /\ stored.s \notin excused => stored.g = gen[stored.s]

\* Once the phone has forgotten its token, only a sign-in gives it another;
\* with the local backend the same holds of the browser's cookie.
SignedOutStays ==
  [][ /\ stored = None /\ stored' # None => \E x \in flying \ flying' : calls[x].op = "enter"
      /\ ~Hosted /\ jar = None /\ jar' # None =>
           \E x \in WebRequests : req[x].op = "enter" /\ req[x].phase # req'[x].phase
    ]_vars

\* At rest, and if nothing failed, the phone greets the reader whose token it
\* holds (state.tsx refreshSession and the session asked for at start).
ShownReaderIsStored ==
  ~failed /\ queue = <<>> /\ flying = {} /\ shown # None =>
    stored # None /\ owner[stored.s] = shown

\* Whatever fails, the phone's queue is worked off: no call waits for ever
\* behind one that was never answered (client.ts serial, request).
QueueDrains == (queue # <<>>) ~> (queue = <<>> /\ flying = {})
=============================================================================
