----------------------------- MODULE TownsProps -----------------------------
(* What an archive of several towns keeps through upgrades and clears. *)
EXTENDS Towns

\* The rows of a town, however its sources are called.
RowsOf(t) ==
  {<<"record", r>> : r \in RecordsOf(t)} \union {<<"link", r>> : r \in linked \intersect RecordsOf(t)}
    \union {<<"fetch", u[2]>> : u \in fetches \intersect UsesOf(t)}
    \union {<<"import", u[2]>> : u \in imports \intersect UsesOf(t)}
    \union {<<"document", d>> : d \in {x \in Documents : owner[x] # None /\ Of[owner[x]] = t}}

\* Clearing one town takes no row of another, though they share documents: it
\* is whole or it did not happen (clear.ts: "throwing away Hull's bad first
\* ingest cannot mean throwing away Milton's nine years of archive too").
TownsApart ==
  [][\A a, b \in Towns : a # b /\ ~(RowsOf(a) \subseteq RowsOf(a)') => RowsOf(b) \subseteq RowsOf(b)']_vars

Upgrading == step \in 1..(Target + 1)

\* Whatever opening is cut short and begun again loses no row of any town, and
\* every follow stays one follow, never made wider than the town it was made in
\* (migrate.ts: "silently widening someone's subscriptions to every town is the
\* one outcome nobody asked for").
UpgradeKeepsAll ==
  [][Upgrading =>
       /\ \A t \in Towns : RowsOf(t) \subseteq RowsOf(t)'
       /\ Cardinality(follows') = Cardinality(follows) /\ follows' \subseteq follows \union {Default}]_vars

\* An open database has no row of before the upgrade, and every row has the
\* rows it points to, whatever was killed and cleared on the way here
\* (migrate.ts, the foreign keys of schema.sql).
OpenIsWhole ==
  step = Opened =>
    /\ shape = "new" /\ None \notin follows /\ Formerly \notin sources
    /\ \A r \in Records : records[r] # None => records[r] \in sources
    /\ \A d \in Documents : owner[d] # None => owner[d] \in sources
    /\ \A u \in fetches \union imports : u[1] \in sources /\ owner[u[2]] # None
    /\ \A r \in linked : records[r] # None
=============================================================================
