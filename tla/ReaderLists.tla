---------------------------- MODULE ReaderLists -----------------------------
(***************************************************************************)
(* What the accounts promise about a reader's list, whichever backend      *)
(* keeps it and however many devices edit it: it changes only by carrying  *)
(* out something that very reader asked for, each request at most once.    *)
(* A request may also come to nothing: refused, lost, or its session over. *)
(***************************************************************************)
CONSTANTS Readers, Follows, Requests, None, Applied(_, _, _)

VARIABLES lists, asked  \* asked[x]: what request x asks for, None once settled

vars == <<lists, asked>>

Ask == [reader : Readers, op : {"follow", "unfollow", "everywhere"}, what : Follows]

Init ==
  /\ lists = [r \in Readers |-> {}]
  /\ asked = [x \in Requests |-> None]

AskFor(x) ==
  /\ asked[x] = None
  /\ \E a \in Ask : asked' = [asked EXCEPT ![x] = a]
  /\ UNCHANGED lists

CarryOut(x) ==
  /\ asked[x] # None
  /\ lists' = [lists EXCEPT ![asked[x].reader] = Applied(@, asked[x].op, asked[x].what)]
  /\ asked' = [asked EXCEPT ![x] = None]

Forget ==
  /\ asked' \in [Requests -> Ask \union {None}]
  /\ \A x \in Requests : asked'[x] \in {asked[x], None}
  /\ UNCHANGED lists

Next == Forget \/ \E x \in Requests : AskFor(x) \/ CarryOut(x)

Spec == Init /\ [][Next]_vars
=============================================================================
