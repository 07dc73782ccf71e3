---------------------------- MODULE AccountStore ----------------------------
(***************************************************************************)
(* Readers, their sessions and what they follow, behind the AccountStore   *)
(* port.  One deployment has one backend.  "sqlite": a session is a row,   *)
(* its cookie the row's id.  "supabase": the cookie is a pair of tokens;   *)
(* the access token dies within the hour and the refresh token buys the    *)
(* next pair, the one before being honoured for a short reuse window.      *)
(* GoTrue and PostgREST are external: they are what this code relies on.   *)
(*                                                                         *)
(* A token is a session and the generation of its pair (always 1 for a     *)
(* row's id).  A follow is a pair <<town, value>>.                         *)
(***************************************************************************)
EXTENDS Integers, FiniteSets

CONSTANTS
  Readers, Sessions, Follows,
  None,
  MaxGen  \* bound: refreshes of a session

VARIABLES
  backend,  \* TOWNCIVIC_ACCOUNTS
  owner,    \* owner[s]: the reader session s was started for
  live,     \* rows of sessions; sessions GoTrue has not revoked
  gen,      \* gen[s]: the newest pair of s
  stale,    \* stale[s]: that pair's access token is within the margin of its end; the row has expired
  window,   \* window[s]: the pair before it is still honoured
  lists     \* lists[r]: subscriptions of r

store == <<backend, owner, live, gen, stale, window, lists>>
sessionState == <<owner, live, gen, stale, window>>

Token == [s : Sessions, g : 1..MaxGen]
Hosted == backend = "supabase"

StoreTypeOK ==
  /\ backend \in {"sqlite", "supabase"}
  /\ owner \in [Sessions -> Readers \union {None}]
  /\ live \in SUBSET Sessions
  /\ gen \in [Sessions -> 1..MaxGen]
  /\ stale \in [Sessions -> BOOLEAN]
  /\ window \in [Sessions -> BOOLEAN]
  /\ lists \in [Readers -> SUBSET Follows]

StoreInit ==
  /\ backend \in {"sqlite", "supabase"}
  /\ owner = [s \in Sessions |-> None]
  /\ live = {}
  /\ gen = [s \in Sessions |-> 1]
  /\ stale = [s \in Sessions |-> FALSE]
  /\ window = [s \in Sessions |-> FALSE]
  /\ lists = [r \in Readers |-> {}]

-----------------------------------------------------------------------------
(* What the port's methods do to the store. *)

Newest(s) == [s |-> s, g |-> gen[s]]

\* decodeEnvelope's expiry against the clock: this pair has to be refreshed.
Old(t) == t.g < gen[t.s] \/ stale[t.s]

StartSession(r, s) ==
  /\ owner[s] = None
  /\ owner' = [owner EXCEPT ![s] = r]
  /\ live' = live \union {s}
  /\ UNCHANGED <<backend, gen, stale, window, lists>>

\* POST /token?grant_type=refresh_token.  A spent token outside its window is
\* taken for a stolen one and ends the session.
Exchangeable(t) ==
  /\ t.s \in live
  /\ t.g = gen[t.s] \/ (window[t.s] /\ t.g = gen[t.s] - 1)

Exchange(t) ==
  /\ IF t.g = gen[t.s]
     THEN /\ gen[t.s] < MaxGen
          /\ gen' = [gen EXCEPT ![t.s] = @ + 1]
          /\ window' = [window EXCEPT ![t.s] = TRUE]
          /\ stale' = [stale EXCEPT ![t.s] = FALSE]
     ELSE UNCHANGED <<gen, window, stale>>
  /\ UNCHANGED <<backend, owner, live, lists>>

RefuseExchange(t) ==
  /\ live' = live \ {t.s}
  /\ UNCHANGED <<backend, owner, gen, stale, window, lists>>

\* The access token is a signed statement: PostgREST honours it until it ends,
\* and a session already revoked may or may not be noticed.
Honours(t) == ~Old(t)
MayRefuse(t) == Old(t) \/ t.s \notin live

\* logout?scope=local, and destroySession.
EndSession(s) ==
  /\ live' = live \ {s}
  /\ UNCHANGED <<backend, owner, gen, stale, window, lists>>

\* addSubscription and removeSubscription; without a town a follow is removed
\* in every town.
Applied(list, op, f) ==
  CASE op = "follow" -> list \union {f}
    [] op = "unfollow" -> list \ {f}
    [] op = "everywhere" -> {g \in list : g[2] # f[2]}

Subscribe(r, op, f) ==
  /\ lists' = [lists EXCEPT ![r] = Applied(@, op, f)]
  /\ UNCHANGED <<backend, sessionState>>

-----------------------------------------------------------------------------
(* Time. *)

\* The access token comes within its margin; the row passes expires_at.
Expire(s) ==
  /\ owner[s] # None /\ ~stale[s] /\ ~window[s]
  /\ Hosted => gen[s] < MaxGen
  /\ stale' = [stale EXCEPT ![s] = TRUE]
  /\ UNCHANGED <<backend, owner, live, gen, window, lists>>

CloseWindow(s) ==
  /\ window[s]
  /\ window' = [window EXCEPT ![s] = FALSE]
  /\ UNCHANGED <<backend, owner, live, gen, stale, lists>>
=============================================================================
