--------------------------- MODULE RecordPromise ---------------------------
(***************************************************************************)
(* What the feed promises about one public record, with no fetching in it. *)
(* A record appears once; after that it only moves when the source that    *)
(* owns it amends it, or when a strictly more authoritative source of the  *)
(* same town takes it over.  A more authoritative source never loses a     *)
(* record to a weaker one, and a record goes away only when an operator    *)
(* clears the whole town.                                                  *)
(***************************************************************************)
EXTENDS Naturals

CONSTANTS
  Towns,      \* jurisdictions
  Sources,    \* the registry's sources
  TownOf,     \* TownOf[s]: the town a source publishes for
  Prec,       \* Prec[s]: precedence, the lower the more authoritative
  Items,      \* identities of published artifacts within a town
  Contents,   \* the reader-visible contents an artifact can have
  None        \* no record

VARIABLE record   \* record[<<t, i>>]: the row of item i of town t, or None

Keys == Towns \X Items
Record == [owner : Sources, content : Contents, revision : Nat]

Init == record = [k \in Keys |-> None]

Appear(k, s, c) ==
  /\ record[k] = None
  /\ record' = [record EXCEPT ![k] = [owner |-> s, content |-> c, revision |-> 1]]

Amend(k, s, c) ==
  /\ record[k] # None
  /\ record[k].owner = s
  /\ record[k].content # c
  /\ record' = [record EXCEPT ![k] = [owner |-> s, content |-> c,
                                      revision |-> record[k].revision + 1]]

TakeOver(k, s, c) ==
  /\ record[k] # None
  /\ Prec[s] < Prec[record[k].owner]
  /\ record' = [record EXCEPT ![k] = [owner |-> s, content |-> c,
                                      revision |-> record[k].revision + 1]]

Wipe(t) ==
  record' = [k \in Keys |-> IF k[1] = t THEN None ELSE record[k]]

Next ==
  \/ \E s \in Sources, i \in Items, c \in Contents :
       \/ Appear(<<TownOf[s], i>>, s, c)
       \/ Amend(<<TownOf[s], i>>, s, c)
       \/ TakeOver(<<TownOf[s], i>>, s, c)
  \/ \E t \in Towns : Wipe(t)

Spec == Init /\ [][Next]_record
=============================================================================
