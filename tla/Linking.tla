------------------------------ MODULE Linking ------------------------------
(***************************************************************************)
(* What makes two records the same matter, and where a matter stands: the  *)
(* subjects of a record become references, a reference a matter of its     *)
(* town, and the words about it a stage.  Nothing here has state.          *)
(*                                                                         *)
(* A subject is a spelling of a name, normalized to that name; its words   *)
(* are what a search finds in it.  A mention is a subject in a record: the *)
(* cues are the stages whose pattern the sentences naming it match, None   *)
(* if no sentence names it.                                                *)
(***************************************************************************)
EXTENDS Integers, Sequences, FiniteSets, Functions

CONSTANTS
  Towns, Words,
  Subjects,  \* what extraction files, and bid numbers
  Spelt,     \* Spelt[s]: what a subject reads
  None,
  YearLength \* ticks of the clock in a year

Subject == [kind : {"address", "article", "bid", "neither"}, name : STRING,
            length : Nat, rank : Nat, words : SUBSET Words]

\* The order is the meaning.
Rules == <<"withdrawn", "decided", "continued", "scheduled", "filed">>
Cues == {Rules[i] : i \in 1..Len(Rules)}
Stages == Cues \union {"heard", "mentioned"}
Types == {"transcript", "agenda", "minutes", "bid", "other"}
MeetingTypes == {"transcript", "agenda", "minutes"}

\* bare: a bid number without the label that makes it one.
Mention == [of : Subjects, bare : BOOLEAN, cues : {None} \union SUBSET Cues]

Matter == [town : Towns, kind : {"address", "article", "bid"}, name : STRING, year : Nat]

ASSUME LinkingConstants ==
  /\ Spelt \in [Subjects -> Subject] /\ IsFiniteSet(Subjects)
  /\ YearLength \in Nat \ {0}

Year(at) == at \div YearLength

\* An article is one of its year; a bare number or a phrase is no matter.
RefOf(row, s) ==
  [town |-> row.town, kind |-> Spelt[s].kind, name |-> Spelt[s].name,
   year |-> IF Spelt[s].kind = "article" THEN Year(row.at) ELSE 0]

\* The numbers some record of the lot labels as bids.
BidVocabulary(rows) ==
  {Spelt[x.of].name : x \in {y \in UNION {Range(row.says) : row \in {w \in rows : w.type # "transcript"}} :
                        Spelt[y.of].kind = "bid" /\ ~y.bare}}

\* Speech is never linked, and a bare number only if it is known for a bid.
Referring(row, known) ==
  {i \in DOMAIN row.says :
     /\ row.type # "transcript" /\ Spelt[row.says[i].of].kind # "neither"
     /\ row.says[i].bare => Spelt[row.says[i].of].name \in known}

\* Of two spellings of one matter the last stands.
LinkedIn(row, known) ==
  LET found == Referring(row, known)
      matter(i) == RefOf(row, row.says[i].of)
  IN {row.says[i] : i \in {j \in found : \A k \in found : matter(k) = matter(j) => k <= j}}

\* One decided item on a crowded agenda does not decide the others.
Scoped(row, x) == IF x.cues = None THEN row.cues ELSE x.cues

Default(type) ==
  CASE type = "agenda" -> "scheduled" [] type = "minutes" -> "heard"
    [] type = "bid" -> "filed" [] OTHER -> "mentioned"

ReadStage(cues, type) ==
  IF cues = {} THEN Default(type)
  ELSE Rules[CHOOSE i \in 1..Len(Rules) : Rules[i] \in cues /\ \A j \in 1..(i - 1) : Rules[j] \notin cues]

\* S: dates and stages.  The newest that says more than that it was mentioned.
RollupStatus(S) ==
  LET definite == {x \in S : x.stage # "mentioned"} IN
  IF definite = {} THEN "mentioned"
  ELSE (CHOOSE x \in definite : \A y \in definite : y.at <= x.at).stage

BestLabel(S) == CHOOSE s \in S : \A t \in S : Spelt[t].length <= Spelt[s].length
=============================================================================
