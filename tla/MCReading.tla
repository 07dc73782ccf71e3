----------------------------- MODULE MCReading -----------------------------
(* Reading for TLC: two towns, and records that share a board, a channel,  *)
(* a word, an address or a bid.                                            *)
EXTENDS ReadingProps, TLC

CONSTANTS r1, r2, r3

S(k, n, len, rank, w) == [kind |-> k, name |-> n, length |-> len, rank |-> rank, words |-> w]
Spelling == [short |-> S("address", "39 adams", 1, 2, {}), long |-> S("address", "39 adams", 2, 3, {"road"}),
             article |-> S("article", "14", 1, 1, {}), bid |-> S("bid", "sb26-9", 1, 4, {})]
Named == DOMAIN Spelling
Adams == [town |-> "milton", kind |-> "address", name |-> "39 adams", year |-> 0]

Says(s, bare, cues) == [of |-> s, bare |-> bare, cues |-> cues]

V(t, c, y, at, n, w, cues, says) ==
  [town |-> t, body |-> "planning", channel |-> c, type |-> y, at |-> at, title |-> n,
   words |-> w, cues |-> cues, says |-> says]

Reads == [
  video |-> V("milton", "meetings", "transcript", 1, 1, {"road"}, {"decided"}, <<Says("long", FALSE, None)>>),
  agenda |-> V("milton", "meetings", "agenda", 2, 1, {}, {"decided", "scheduled"},
               <<Says("short", FALSE, {"scheduled"}), Says("bid", TRUE, None)>>),
  hearing |-> V("milton", "meetings", "transcript", 1, 2, {"road"}, {}, <<>>),
  minutes |-> V("milton", "meetings", "minutes", 1, 2, {"road"}, {"filed", "decided"},
                <<Says("short", FALSE, {"filed"}), Says("long", FALSE, {"filed", "decided"}),
                  Says("article", FALSE, {}), Says("bid", FALSE, {})>>),
  other |-> V("hull", "admin", "agenda", 2, 3, {"road"}, {}, <<Says("article", FALSE, {}), Says("bid", TRUE, {})>>)]

Published == [r \in Records |->
  CASE r = r1 -> {"video", "agenda"} [] r = r2 -> {"hearing", "minutes"} [] r = r3 -> {"other"}]

\* Two of each kind, one of each, and one alone.
Begun == {[r \in Records |-> IF r = r1 THEN x[1] ELSE IF r = r2 THEN x[2] ELSE "other"] :
            x \in {<<"video", "hearing">>, <<"agenda", "minutes">>, <<"video", "minutes">>, <<None, "minutes">>}}

F(k, v, t) == [kind |-> k, value |-> v, matter |-> None, town |-> t]
Offered == {F("body", "planning", "hull"), F("body", "planning", None),
            F("channel", "admin", "milton"), [F("matter", None, "milton") EXCEPT !.matter = Adams]}
Q(s, l, p) == [screen |-> s, lists |-> l, pages |-> p]
Either == {Q(2, 0, 0), Q(0, 3, 0), Q(0, 0, 3)}
=============================================================================
