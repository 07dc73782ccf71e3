---------------------------- MODULE TownsProofs -----------------------------
(***************************************************************************)
(* For any towns, sources, records and documents, and any number of kills, *)
(* clears and builds: an open database is whole and upgraded, clearing one *)
(* town takes nothing of another, and an upgrade loses nothing.            *)
(***************************************************************************)
EXTENDS TownsProps, FiniteSetTheorems, TLAPS

\* Every row has the rows it points to.
Referring ==
  /\ \A r \in Records : records[r] # None => records[r] \in sources
  /\ \A d \in Documents : owner[d] # None => owner[d] \in sources
  /\ \A u \in fetches \union imports : u[1] \in sources /\ owner[u[2]] # None
  /\ \A r \in linked : records[r] # None
  /\ \A u \in imports : u[1] \notin {Formerly, Now}

\* What the version, or the step of the opening under way, says was done.
\* (A database of version 2 may meet an opening that is still at an earlier step.)
Done(n) == version >= n \/ step > n
Upgraded ==
  /\ shape = "old" => follows \subseteq {None}
  /\ shape = "new" => None \notin follows
  /\ Done(2) => shape = "new"
  /\ Done(3) => Formerly \notin sources
  /\ sweep # {} => step = Opened

IInv == TypeOK /\ Referring /\ Upgraded

-----------------------------------------------------------------------------
\* The markers are apart, and both ids of the renamed source are of one town.
LEMMA Constants ==
  /\ Default \in Towns /\ Of \in [Sources -> Towns]
  /\ Formerly \in Sources /\ Now \in Sources /\ Formerly # Now
  /\ Of[Formerly] = Default /\ Of[Now] = Default
  /\ None \notin Towns /\ None \notin Sources
  /\ MaxFaults \in Nat /\ MaxClears \in Nat /\ MaxBuilds \in Nat
BY TownsConstants DEF TownsConstants

\* The databases the program may be started on satisfy the invariant.
LEMMA InitHolds == Init => IInv
<1> SUFFICES ASSUME Init PROVE IInv
  OBVIOUS
<1>1. TypeOK
  <2>1. sources \subseteq Sources /\ records \in [Records -> Sources \union {None}]
        /\ owner \in [Documents -> Sources \union {None}]
    BY Constants DEF Init
  <2>2. fetches \subseteq Used
    BY <2>1 DEF Init, Used
  <2>3. version \in 0..Target /\ shape \in {"old", "new"} /\ follows \subseteq Towns \union {None}
    BY Constants DEF Init, Target
  <2> QED
    BY <2>1, <2>2, <2>3 DEF Init, TypeOK, Closed, Opened, Target
<1>2. Referring
  BY DEF Init, Referring
<1>3. Upgraded
  BY Constants DEF Init, Upgraded, Done, Closed, Opened, Target
<1> QED
  BY <1>1, <1>2, <1>3 DEF IInv

-----------------------------------------------------------------------------
\* What clearing the records of a town leaves.
LEMMA RecordsGoneIsWhole ==
  ASSUME IInv, NEW t \in Towns, RecordsGone(t)
  PROVE  /\ records' \in [Records -> Sources \union {None}]
         /\ \A r \in Records : records'[r] = IF r \in RecordsOf(t) THEN None ELSE records[r]
         /\ linked' \subseteq linked /\ imports' \subseteq imports /\ held' \subseteq held
         /\ \A r \in linked' : records'[r] # None
         /\ \A u \in imports' : Of[u[1]] # t
<1>1. \A r \in Records : (IF r \in RecordsOf(t) THEN None ELSE records[r]) \in Sources \union {None}
  BY DEF IInv, TypeOK
<1>2. records' \in [Records -> Sources \union {None}]
      /\ \A r \in Records : records'[r] = IF r \in RecordsOf(t) THEN None ELSE records[r]
  BY <1>1 DEF RecordsGone
<1>3. linked' = linked \ RecordsOf(t) /\ imports' = imports \ UsesOf(t) /\ held' \subseteq held
  BY DEF RecordsGone
<1>4. linked \subseteq Records /\ imports \subseteq Used
  BY DEF IInv, TypeOK
<1>5. \A r \in linked' : records'[r] # None
  BY <1>2, <1>3, <1>4 DEF IInv, Referring
<1>6. \A u \in imports' : Of[u[1]] # t
  BY <1>3, <1>4 DEF UsesOf
<1> QED
  BY <1>2, <1>3, <1>5, <1>6

\* Clearing a whole town that nothing of another town points to.
LEMMA ClearTownIsWhole ==
  ASSUME IInv, NEW t \in Towns, Deletable(t), ClearTown(t)
  PROVE  /\ towns' \subseteq Towns /\ sources' \subseteq sources
         /\ records' \in [Records -> Sources \union {None}]
         /\ owner' \in [Documents -> Sources \union {None}]
         /\ fetches' \subseteq fetches /\ imports' \subseteq imports /\ linked' \subseteq linked
         /\ held' \subseteq held /\ cached' \subseteq Towns
         /\ Referring'
<1>1. /\ records' \in [Records -> Sources \union {None}]
      /\ \A r \in Records : records'[r] = IF r \in RecordsOf(t) THEN None ELSE records[r]
      /\ linked' \subseteq linked /\ imports' \subseteq imports /\ held' \subseteq held
      /\ \A r \in linked' : records'[r] # None
      /\ \A u \in imports' : Of[u[1]] # t
  BY RecordsGoneIsWhole DEF ClearTown
<1>2. \A d \in Documents : (IF owner[d] \in SourcesOf(t) THEN None ELSE owner[d]) \in Sources \union {None}
  BY DEF IInv, TypeOK
<1>3. owner' \in [Documents -> Sources \union {None}]
      /\ \A d \in Documents : owner'[d] = IF owner[d] \in SourcesOf(t) THEN None ELSE owner[d]
  BY <1>2 DEF ClearTown
<1>4. fetches' = fetches \ UsesOf(t) /\ sources' = sources \ SourcesOf(t)
      /\ towns' = towns \ {t} /\ cached' = cached \ {t}
  BY DEF ClearTown
<1>5. sources \subseteq Sources /\ towns \subseteq Towns /\ cached \subseteq Towns
      /\ fetches \subseteq Used /\ imports \subseteq Used
  BY DEF IInv, TypeOK
<1>6. \A r \in Records : records'[r] # None => records'[r] \in sources'
  BY <1>1, <1>4 DEF IInv, Referring, RecordsOf, SourcesOf
<1>7. \A d \in Documents : owner'[d] # None => owner'[d] \in sources'
  BY <1>3, <1>4 DEF IInv, Referring
<1>8. \A u \in fetches' \union imports' : u[1] \in sources' /\ owner'[u[2]] # None
  <2> TAKE u \in fetches' \union imports'
  <2>1. u \in (fetches \union imports) \ UsesOf(t) /\ Of[u[1]] # t /\ u[2] \in Documents
    BY <1>1, <1>4, <1>5 DEF UsesOf, Used
  <2>2. u[1] \in sources /\ owner[u[2]] # None
    BY <2>1 DEF IInv, Referring
  <2>3. owner[u[2]] \notin SourcesOf(t)
    BY <2>1, <2>2 DEF Deletable, SourcesOf
  <2> QED
    BY <1>3, <1>4, <2>1, <2>2, <2>3 DEF SourcesOf
<1>9. \A u \in imports' : u[1] \notin {Formerly, Now}
  BY <1>1 DEF IInv, Referring
<1> QED
  BY <1>1, <1>3, <1>4, <1>5, <1>6, <1>7, <1>8, <1>9 DEF Referring

\* Moving the rows of the old id to the new one.
LEMMA RenameIsWhole ==
  ASSUME IInv, RenameSources
  PROVE  /\ sources' \subseteq Sources /\ Formerly \notin sources'
         /\ records' \in [Records -> Sources \union {None}]
         /\ owner' \in [Documents -> Sources \union {None}]
         /\ fetches' \subseteq Used /\ held' \subseteq Sources
         /\ Referring'
<1>1. /\ records' = [r \in Records |-> Renamed(records[r])]
      /\ owner' = [d \in Documents |-> Renamed(owner[d])]
      /\ fetches' = {<<Renamed(u[1]), u[2]>> : u \in fetches}
      /\ sources' = {Renamed(s) : s \in sources}
      /\ imports' = imports /\ linked' = linked
  BY DEF RenameSources
<1>2. /\ sources \subseteq Sources /\ fetches \subseteq Used /\ imports \subseteq Used
      /\ linked \subseteq Records /\ held \subseteq Sources
      /\ records \in [Records -> Sources \union {None}]
      /\ owner \in [Documents -> Sources \union {None}]
  BY DEF IInv, TypeOK
<1>3. \A s \in Sources : Renamed(s) \in Sources /\ Renamed(s) # Formerly
  BY Constants DEF Renamed
<1>4. Renamed(None) = None /\ \A s \in Sources : Renamed(s) # None
  BY Constants DEF Renamed
<1>5. sources' \subseteq Sources /\ Formerly \notin sources'
  BY <1>1, <1>2, <1>3
<1>6. records' \in [Records -> Sources \union {None}]
      /\ owner' \in [Documents -> Sources \union {None}]
  BY <1>1, <1>2, <1>3, <1>4
<1>7. fetches' \subseteq Used
  BY <1>1, <1>2, <1>3 DEF Used
<1>8. held' \subseteq Sources
  BY <1>2, <1>3 DEF RenameSources
<1>9. \A r \in Records : records'[r] # None => records'[r] \in sources'
  BY <1>1, <1>2, <1>4 DEF IInv, Referring
<1>10. \A d \in Documents : owner'[d] # None => owner'[d] \in sources'
  BY <1>1, <1>2, <1>4 DEF IInv, Referring
<1>11. \A u \in fetches' : u[1] \in sources' /\ owner'[u[2]] # None
  <2> TAKE u \in fetches'
  <2>1. PICK w \in fetches : u = <<Renamed(w[1]), w[2]>>
    BY <1>1
  <2>2. w[1] \in sources /\ owner[w[2]] # None /\ w[2] \in Documents
    BY <1>2 DEF IInv, Referring, Used
  <2> QED
    BY <1>1, <1>2, <1>4, <2>1, <2>2
<1>12. \A u \in imports' : u[1] \in sources' /\ owner'[u[2]] # None /\ u[1] \notin {Formerly, Now}
  <2> TAKE u \in imports'
  <2>1. u \in imports /\ u[1] \in sources /\ owner[u[2]] # None /\ u[2] \in Documents
        /\ u[1] \notin {Formerly, Now}
    BY <1>1, <1>2 DEF IInv, Referring, Used
  <2>2. Renamed(u[1]) = u[1]
    BY <2>1 DEF Renamed
  <2> QED
    BY <1>1, <1>2, <1>4, <2>1, <2>2
<1>13. \A r \in linked' : records'[r] # None
  BY <1>1, <1>2, <1>4 DEF IInv, Referring
<1> QED
  BY <1>5, <1>6, <1>7, <1>8, <1>9, <1>10, <1>11, <1>12, <1>13 DEF Referring

-----------------------------------------------------------------------------
\* Opening the database, whatever was done before it was last cut short.
LEMMA OpeningHolds ==
  ASSUME IInv, Opening
  PROVE  IInv'
<1> USE DEF IInv, Closed, Opened, Target
<1>1. CASE Open
  BY <1>1 DEF Open, TypeOK, Referring, Upgraded, Done, rows, schema, budget
<1>2. CASE Pass
  BY <1>2 DEF Pass, Pending, Skipped, TypeOK, Referring, Upgraded, Done, rows, schema, budget
<1>3. CASE AddSubscriptionJurisdiction
  <2>1. follows' \subseteq Towns \union {None} /\ None \notin follows'
    BY <1>3, Constants DEF AddSubscriptionJurisdiction, Pending, TypeOK, Upgraded
  <2>2. UNCHANGED <<rows, version, registry, sweep, budget>> /\ step = 2 /\ step' = 3
        /\ shape' = "new" /\ version < 2
    BY <1>3 DEF AddSubscriptionJurisdiction, Pending
  <2>3. TypeOK'
    BY <2>1, <2>2 DEF TypeOK, rows, budget
  <2>4. Referring'
    BY <2>2 DEF Referring, rows
  <2>5. Upgraded'
    BY <2>1, <2>2 DEF Upgraded, Done, TypeOK, rows
  <2> QED
    BY <2>3, <2>4, <2>5
<1>4. CASE RenameSources
  <2>1. /\ sources' \subseteq Sources /\ Formerly \notin sources'
        /\ records' \in [Records -> Sources \union {None}]
        /\ owner' \in [Documents -> Sources \union {None}]
        /\ fetches' \subseteq Used /\ held' \subseteq Sources
        /\ Referring'
    BY <1>4, RenameIsWhole
  <2>2. UNCHANGED <<towns, imports, linked, cached, schema, registry, sweep, budget>>
        /\ step = 3 /\ step' = 4 /\ version < 3
    BY <1>4 DEF RenameSources, Pending
  <2>3. TypeOK'
    BY <2>1, <2>2 DEF TypeOK, schema, budget
  <2>4. Upgraded'
    BY <2>1, <2>2 DEF Upgraded, Done, TypeOK, schema
  <2> QED
    BY <2>1, <2>3, <2>4
<1>5. CASE SetVersion
  BY <1>5 DEF SetVersion, TypeOK, Referring, Upgraded, Done, rows, budget
<1> QED
  BY <1>1, <1>2, <1>3, <1>4, <1>5 DEF Opening

\* The registry written into an open database.
LEMMA SyncHolds ==
  ASSUME IInv, NEW t \in Towns, SyncSources(t)
  PROVE  IInv'
BY Constants DEF SyncSources, IInv, TypeOK, Referring, Upgraded, Done, schema, budget

\* A body archived, or a transcript imported from one.
LEMMA FetchHolds ==
  ASSUME IInv, NEW s \in Sources, NEW d \in Documents, Fetch(s, d) \/ Import(s, d)
  PROVE  IInv'
<1> USE DEF IInv
<1>1. CASE Fetch(s, d)
  <2>1. /\ s \in sources
        /\ owner' \in [Documents -> Sources \union {None}]
        /\ \A x \in Documents : owner'[x] = IF x = d /\ owner[x] = None THEN s ELSE owner[x]
    BY <1>1 DEF Fetch, TypeOK
  <2>2. /\ fetches' = fetches \union {<<s, d>>} /\ held' = held \union {s}
        /\ UNCHANGED <<towns, sources, records, imports, linked, cached, schema, registry, step,
                       sweep, budget>>
    BY <1>1 DEF Fetch
  <2>3. TypeOK'
    BY <2>1, <2>2 DEF TypeOK, Used, schema, budget
  <2>4. \A x \in Documents : owner'[x] # None => owner'[x] \in sources'
    BY <2>1, <2>2 DEF Referring
  <2>5. \A u \in fetches' \union imports' : u[1] \in sources' /\ owner'[u[2]] # None
    BY <2>1, <2>2, Constants DEF Referring, TypeOK, Used
  <2>6. Referring'
    BY <2>2, <2>4, <2>5 DEF Referring
  <2>7. Upgraded'
    BY <2>2 DEF Upgraded, Done, schema
  <2> QED
    BY <2>3, <2>6, <2>7
<1>2. CASE Import(s, d)
  BY <1>2 DEF Import, TypeOK, Used, Referring, Upgraded, Done, schema, budget
<1> QED
  BY <1>1, <1>2

\* A record collected, linked and placed.
LEMMA CollectHolds ==
  ASSUME IInv, NEW s \in Sources, NEW r \in Records, Collect(s, r)
  PROVE  IInv'
<1> USE DEF IInv
<1>1. /\ s \in sources /\ linked' = linked \union {r} /\ cached' = cached \union {Of[s]}
      /\ UNCHANGED <<towns, sources, owner, fetches, imports, held, schema, registry, step,
                     sweep, budget>>
  BY DEF Collect
<1>2. /\ records' \in [Records -> Sources \union {None}]
      /\ \A x \in Records : records'[x] = IF x = r THEN s ELSE records[x]
  BY DEF Collect, TypeOK
<1>3. TypeOK'
  BY <1>1, <1>2, Constants DEF TypeOK, schema, budget
<1>4. Referring'
  BY <1>1, <1>2, Constants DEF Referring, TypeOK
<1>5. Upgraded'
  BY <1>1 DEF Upgraded, Done, schema
<1> QED
  BY <1>3, <1>4, <1>5

\* Clearing, alone or in a sweep.
LEMMA ClearingHolds ==
  ASSUME IInv, NEW t \in Towns, NEW scope \in {"derived", "records", "town"},
         Clear(t, scope) \/ ClearOrphans \/ SweepOrphan(t)
  PROVE  IInv'
<1> USE DEF IInv
<1>1. ASSUME ClearDerived(t), UNCHANGED <<schema, registry, step>>,
             step = Opened, sweep' \subseteq Towns, faults' \in Nat, clears' \in Nat, builds' \in Nat
      PROVE  IInv'
  BY <1>1 DEF ClearDerived, TypeOK, Referring, Upgraded, Done, schema
<1>2. ASSUME ClearRecords(t), UNCHANGED <<schema, registry, step>>,
             step = Opened, sweep' \subseteq Towns, faults' \in Nat, clears' \in Nat, builds' \in Nat
      PROVE  IInv'
  <2>1. RecordsGone(t) /\ UNCHANGED <<towns, sources, owner, fetches, cached>>
    BY <1>2 DEF ClearRecords
  <2>2. /\ records' \in [Records -> Sources \union {None}]
        /\ \A r \in Records : records'[r] = IF r \in RecordsOf(t) THEN None ELSE records[r]
        /\ linked' \subseteq linked /\ imports' \subseteq imports /\ held' \subseteq held
        /\ \A r \in linked' : records'[r] # None
    BY <2>1, RecordsGoneIsWhole
  <2>3. TypeOK'
    BY <1>2, <2>1, <2>2 DEF TypeOK, schema
  <2>4. Referring'
    BY <2>1, <2>2 DEF Referring
  <2>5. Upgraded'
    BY <1>2, <2>1 DEF Upgraded, Done, schema
  <2> QED
    BY <2>3, <2>4, <2>5
<1>3. ASSUME Deletable(t), ClearTown(t), UNCHANGED <<schema, registry, step>>,
             step = Opened, sweep' \subseteq Towns, faults' \in Nat, clears' \in Nat, builds' \in Nat
      PROVE  IInv'
  <2>1. /\ towns' \subseteq Towns /\ sources' \subseteq sources
        /\ records' \in [Records -> Sources \union {None}]
        /\ owner' \in [Documents -> Sources \union {None}]
        /\ fetches' \subseteq fetches /\ imports' \subseteq imports /\ linked' \subseteq linked
        /\ held' \subseteq held /\ cached' \subseteq Towns
        /\ Referring'
    BY <1>3, ClearTownIsWhole
  <2>2. TypeOK'
    BY <1>3, <2>1 DEF TypeOK, schema
  <2>3. Upgraded'
    BY <1>3, <2>1 DEF Upgraded, Done, schema
  <2> QED
    BY <2>1, <2>2, <2>3
<1>4. ASSUME UNCHANGED rows, UNCHANGED <<schema, registry, step>>,
             step = Opened, sweep' \subseteq Towns, faults' \in Nat, clears' \in Nat, builds' \in Nat
      PROVE  IInv'
  BY <1>4 DEF TypeOK, Referring, Upgraded, Done, rows, schema
<1>5. CASE Clear(t, scope)
  <2>1. UNCHANGED <<schema, registry, step>> /\ step = Opened /\ sweep' \subseteq Towns
        /\ faults' \in Nat /\ clears' \in Nat /\ builds' \in Nat
    BY <1>5 DEF Clear, Idle, TypeOK
  <2>2. \/ ClearDerived(t) \/ ClearRecords(t)
        \/ (Deletable(t) /\ ClearTown(t)) \/ UNCHANGED rows
    BY <1>5 DEF Clear
  <2> QED
    BY <1>1, <1>2, <1>3, <1>4, <2>1, <2>2
<1>6. CASE ClearOrphans
  <2>1. UNCHANGED rows /\ UNCHANGED <<schema, registry, step>> /\ step = Opened /\ sweep' \subseteq Towns
        /\ faults' \in Nat /\ clears' \in Nat /\ builds' \in Nat
    BY <1>6 DEF ClearOrphans, Idle, Orphans, TypeOK
  <2> QED
    BY <1>4, <2>1
<1>7. CASE SweepOrphan(t)
  <2>1. UNCHANGED <<schema, registry, step>> /\ step = Opened /\ sweep' \subseteq Towns
        /\ faults' \in Nat /\ clears' \in Nat /\ builds' \in Nat
    BY <1>7 DEF SweepOrphan, TypeOK, Upgraded, budget
  <2>2. (Deletable(t) /\ ClearTown(t)) \/ UNCHANGED rows
    BY <1>7 DEF SweepOrphan
  <2> QED
    BY <1>3, <1>4, <2>1, <2>2
<1> QED
  BY <1>5, <1>6, <1>7

\* No step leaves the invariant.
LEMMA StepHolds == IInv /\ [Next]_vars => IInv'
<1> SUFFICES ASSUME IInv, [Next]_vars PROVE IInv'
  OBVIOUS
<1>1. CASE Opening
  BY <1>1, OpeningHolds
<1>2. CASE Quit
  BY <1>2 DEF Quit, IInv, TypeOK, Referring, Upgraded, Done, Closed, Opened, Target, rows, schema
<1>3. ASSUME NEW S \in SUBSET Towns, Install(S) PROVE IInv'
  BY <1>3 DEF Install, IInv, TypeOK, Referring, Upgraded, Done, rows, schema
<1>4. CASE \/ \E t \in Towns : SyncSources(t)
           \/ \E s \in Sources, d \in Documents : Fetch(s, d) \/ Import(s, d)
           \/ \E s \in Sources, r \in Records : Collect(s, r)
  BY <1>4, SyncHolds, FetchHolds, CollectHolds
<1>5. CASE \/ ClearOrphans \/ \E t \in Towns : SweepOrphan(t)
           \/ \E t \in Towns, scope \in {"derived", "records", "town"} : Clear(t, scope)
  BY <1>5, ClearingHolds, Constants
<1>6. CASE UNCHANGED vars
  BY <1>6 DEF vars, IInv, TypeOK, Referring, Upgraded, Done, rows, schema, budget
<1> QED
  BY <1>1, <1>2, <1>3, <1>4, <1>5, <1>6 DEF Next

\* Whoever opens, collects, clears or is killed, the invariant stays.
THEOREM InvariantHolds == Spec => []IInv
BY InitHolds, StepHolds, PTL DEF Spec

\* Every variable keeps to its range.
THEOREM TypeCorrect == Spec => []TypeOK
<1>1. IInv => TypeOK
  BY DEF IInv
<1> QED
  BY <1>1, InvariantHolds, PTL

\* An open database is upgraded and whole, however often its opening was killed
\* and whatever was cleared.
THEOREM OpenWhole == Spec => []OpenIsWhole
<1>1. IInv => OpenIsWhole
  <2> SUFFICES ASSUME IInv, step = Opened PROVE OpenIsWhole
    BY DEF OpenIsWhole
  <2>1. Done(2) /\ Done(3)
    BY DEF Done, Opened, Target
  <2>2. shape = "new" /\ None \notin follows /\ Formerly \notin sources
    BY <2>1 DEF IInv, Upgraded
  <2> QED
    BY <2>2 DEF OpenIsWhole, IInv, Referring
<1> QED
  BY <1>1, InvariantHolds, PTL

-----------------------------------------------------------------------------
\* The rows of a town under the new id are those it had under the old.
LEMMA RenameKeepsRows ==
  ASSUME IInv, RenameSources, NEW t \in Towns
  PROVE  RowsOf(t) \subseteq RowsOf(t)'
<1>1. /\ records' = [r \in Records |-> Renamed(records[r])]
      /\ owner' = [d \in Documents |-> Renamed(owner[d])]
      /\ fetches' = {<<Renamed(u[1]), u[2]>> : u \in fetches}
      /\ imports' = imports /\ linked' = linked
  BY DEF RenameSources
<1>2. fetches \subseteq Used /\ records \in [Records -> Sources \union {None}]
      /\ owner \in [Documents -> Sources \union {None}]
  BY DEF IInv, TypeOK
<1>3. \A s \in Sources : Renamed(s) \in Sources /\ Of[Renamed(s)] = Of[s] /\ Renamed(s) # None
  BY Constants DEF Renamed
<1>4. RecordsOf(t) \subseteq RecordsOf(t)'
  BY <1>1, <1>2, <1>3 DEF RecordsOf
<1>5. \A d \in Documents : owner[d] # None /\ Of[owner[d]] = t => owner'[d] # None /\ Of[owner'[d]] = t
  BY <1>1, <1>2, <1>3
<1>6. \A u \in fetches \intersect UsesOf(t) : \E w \in fetches' \intersect UsesOf(t) : w[2] = u[2]
  <2> TAKE u \in fetches \intersect UsesOf(t)
  <2>1. u[1] \in Sources /\ u[2] \in Documents /\ Of[u[1]] = t
    BY <1>2 DEF UsesOf, Used
  <2>2. <<Renamed(u[1]), u[2]>> \in fetches' \intersect UsesOf(t)
    BY <1>1, <1>3, <2>1 DEF UsesOf, Used
  <2> QED
    BY <2>2
<1>7. UsesOf(t)' = UsesOf(t)
  BY DEF UsesOf
<1>8. {<<"fetch", u[2]>> : u \in fetches \intersect UsesOf(t)}
        \subseteq {<<"fetch", u[2]>> : u \in fetches' \intersect UsesOf(t)'}
  BY <1>6, <1>7
<1>9. {<<"document", d>> : d \in {x \in Documents : owner[x] # None /\ Of[owner[x]] = t}}
        \subseteq {<<"document", d>> : d \in {x \in Documents : owner'[x] # None /\ Of[owner'[x]] = t}}
  BY <1>5
<1>10. /\ {<<"record", r>> : r \in RecordsOf(t)} \subseteq {<<"record", r>> : r \in RecordsOf(t)'}
       /\ {<<"link", r>> : r \in linked \intersect RecordsOf(t)}
            \subseteq {<<"link", r>> : r \in linked' \intersect RecordsOf(t)'}
       /\ {<<"import", u[2]>> : u \in imports \intersect UsesOf(t)}
            \subseteq {<<"import", u[2]>> : u \in imports' \intersect UsesOf(t)'}
  BY <1>1, <1>4, <1>7
<1> QED
  BY <1>8, <1>9, <1>10 DEF RowsOf

\* What RowsOf sees of the database.
LEMMA RowsFrame ==
  ASSUME NEW t \in Towns,
         RecordsOf(t) \subseteq RecordsOf(t)',
         linked \intersect RecordsOf(t) \subseteq linked',
         fetches \intersect UsesOf(t) \subseteq fetches',
         imports \intersect UsesOf(t) \subseteq imports',
         \A d \in Documents : owner[d] # None /\ Of[owner[d]] = t => owner'[d] # None /\ Of[owner'[d]] = t
  PROVE  RowsOf(t) \subseteq RowsOf(t)'
<1>1. UsesOf(t)' = UsesOf(t)
  BY DEF UsesOf
<1> QED
  BY <1>1 DEF RowsOf

\* Opening steps keep the rows of every town, and each follow.
LEMMA OpeningKeeps ==
  ASSUME IInv, Opening
  PROVE  /\ \A t \in Towns : RowsOf(t) \subseteq RowsOf(t)'
         /\ Cardinality(follows') = Cardinality(follows)
         /\ follows' \subseteq follows \union {Default}
<1>1. CASE RenameSources
  BY <1>1, RenameKeepsRows DEF RenameSources, schema
<1>2. ASSUME UNCHANGED rows PROVE \A t \in Towns : RowsOf(t) \subseteq RowsOf(t)'
  BY <1>2 DEF rows, RowsOf, RecordsOf, UsesOf
<1>3. CASE AddSubscriptionJurisdiction
  <2>1. CASE shape = "old"
    <3>1. follows \subseteq {None} /\ follows' = {Default : t \in follows}
      BY <1>3, <2>1 DEF IInv, Upgraded, AddSubscriptionJurisdiction
    <3>2. ASSUME follows = {} PROVE Cardinality(follows') = Cardinality(follows)
      <4>1. follows' = {}
        BY <3>1, <3>2
      <4> QED
        BY <3>2, <4>1
    <3>3. ASSUME follows = {None} PROVE Cardinality(follows') = Cardinality(follows)
      <4>1. follows' = {Default}
        BY <3>1, <3>3
      <4>2. Cardinality({Default}) = 1 /\ Cardinality({None}) = 1
        BY FS_Singleton
      <4> QED
        BY <3>3, <4>1, <4>2
    <3>4. Cardinality(follows') = Cardinality(follows) /\ follows' \subseteq follows \union {Default}
      <4>1. follows = {} \/ follows = {None}
        BY <3>1
      <4>2. follows' \subseteq {Default}
        BY <3>1
      <4> QED
        BY <4>1, <4>2, <3>2, <3>3
    <3> QED
      BY <3>4, <1>2, <1>3 DEF AddSubscriptionJurisdiction
  <2>2. CASE shape # "old"
    BY <2>2, <1>2, <1>3 DEF AddSubscriptionJurisdiction
  <2> QED
    BY <2>1, <2>2
<1>4. CASE Open \/ Pass \/ SetVersion
  BY <1>2, <1>4 DEF Open, Pass, SetVersion, schema
<1> QED
  BY <1>1, <1>3, <1>4 DEF Opening

\* Until the database is open nothing else takes a step but the one that stops.
LEMMA UpgradingKeeps ==
  ASSUME IInv, [Next]_vars, Upgrading
  PROVE  /\ \A t \in Towns : RowsOf(t) \subseteq RowsOf(t)'
         /\ Cardinality(follows') = Cardinality(follows)
         /\ follows' \subseteq follows \union {Default}
<1>1. step # Opened /\ step # Closed /\ sweep = {}
  BY DEF Upgrading, Opened, Closed, Target, IInv, Upgraded
<1>2. Opening \/ Quit \/ UNCHANGED vars
  BY <1>1 DEF Next, Install, SyncSources, SweepOrphan, Fetch, Import, Collect, Clear, ClearOrphans, Idle
<1>3. ASSUME UNCHANGED rows, UNCHANGED schema
      PROVE  /\ \A t \in Towns : RowsOf(t) \subseteq RowsOf(t)'
             /\ Cardinality(follows') = Cardinality(follows)
             /\ follows' \subseteq follows \union {Default}
  BY <1>3 DEF rows, schema, RowsOf, RecordsOf, UsesOf
<1> QED
  BY <1>2, <1>3, OpeningKeeps DEF Quit, vars

\* An upgrade cut short and begun again loses no row and widens no follow.
THEOREM UpgradeKeeps == Spec => UpgradeKeepsAll
<1>1. IInv /\ [Next]_vars =>
        (Upgrading => /\ \A t \in Towns : RowsOf(t) \subseteq RowsOf(t)'
                      /\ Cardinality(follows') = Cardinality(follows)
                      /\ follows' \subseteq follows \union {Default})
  BY UpgradingKeeps
<1> QED
  BY <1>1, InvariantHolds, PTL DEF Spec, UpgradeKeepsAll

-----------------------------------------------------------------------------
\* Clearing a town, at any scope, keeps the rows of another.
LEMMA ClearingKeeps ==
  ASSUME IInv, NEW a \in Towns, NEW b \in Towns, a # b,
         ClearDerived(a) \/ ClearRecords(a) \/ (Deletable(a) /\ ClearTown(a)) \/ UNCHANGED rows
  PROVE  RowsOf(b) \subseteq RowsOf(b)'
<1>1. RecordsOf(a) \intersect RecordsOf(b) = {} /\ UsesOf(a) \intersect UsesOf(b) = {}
  BY DEF RecordsOf, UsesOf
<1>2. linked \subseteq Records
  BY DEF IInv, TypeOK
<1>3. CASE ClearDerived(a)
  <2>1. RecordsOf(b)' = RecordsOf(b)
    BY <1>3 DEF ClearDerived, RecordsOf
  <2> QED
    BY <1>1, <1>3, <2>1, RowsFrame DEF ClearDerived
<1>4. ASSUME RecordsGone(a)
      PROVE  /\ RecordsOf(b) \subseteq RecordsOf(b)'
             /\ linked \intersect RecordsOf(b) \subseteq linked'
             /\ imports \intersect UsesOf(b) \subseteq imports'
  <2>1. \A r \in Records : records'[r] = IF r \in RecordsOf(a) THEN None ELSE records[r]
    BY <1>4, RecordsGoneIsWhole
  <2>2. RecordsOf(b) \subseteq RecordsOf(b)'
    BY <2>1, <1>1 DEF RecordsOf
  <2> QED
    BY <2>2, <1>1, <1>4 DEF RecordsGone
<1>5. CASE ClearRecords(a)
  BY <1>4, <1>5, RowsFrame DEF ClearRecords
<1>6. CASE Deletable(a) /\ ClearTown(a)
  <2>1. fetches \intersect UsesOf(b) \subseteq fetches'
    BY <1>1, <1>6 DEF ClearTown
  <2>2. \A d \in Documents : owner'[d] = IF owner[d] \in SourcesOf(a) THEN None ELSE owner[d]
    BY <1>6 DEF ClearTown
  <2>3. \A d \in Documents : owner[d] # None /\ Of[owner[d]] = b => owner'[d] # None /\ Of[owner'[d]] = b
    BY <2>2 DEF SourcesOf
  <2> QED
    BY <1>4, <1>6, <2>1, <2>3, RowsFrame DEF ClearTown
<1>7. CASE UNCHANGED rows
  BY <1>7 DEF rows, RowsOf, RecordsOf, UsesOf
<1> QED
  BY <1>3, <1>5, <1>6, <1>7

\* Collecting keeps the rows of every town.
LEMMA CollectingKeeps ==
  ASSUME IInv, NEW t \in Towns,
         \/ \E x \in Towns : SyncSources(x)
         \/ \E s \in Sources, d \in Documents : Fetch(s, d) \/ Import(s, d)
         \/ \E s \in Sources, r \in Records : Collect(s, r)
  PROVE  RowsOf(t) \subseteq RowsOf(t)'
<1>1. ASSUME NEW x \in Towns, SyncSources(x) PROVE RowsOf(t) \subseteq RowsOf(t)'
  BY <1>1 DEF SyncSources, RowsOf, RecordsOf, UsesOf
<1>2. ASSUME NEW s \in Sources, NEW d \in Documents, Fetch(s, d) PROVE RowsOf(t) \subseteq RowsOf(t)'
  <2>1. \A x \in Documents : owner'[x] = IF x = d /\ owner[x] = None THEN s ELSE owner[x]
    BY <1>2 DEF Fetch, IInv, TypeOK
  <2>2. RecordsOf(t)' = RecordsOf(t)
    BY <1>2 DEF Fetch, RecordsOf
  <2> QED
    BY <1>2, <2>1, <2>2, RowsFrame DEF Fetch
<1>3. ASSUME NEW s \in Sources, NEW d \in Documents, Import(s, d) PROVE RowsOf(t) \subseteq RowsOf(t)'
  <2>1. RecordsOf(t)' = RecordsOf(t)
    BY <1>3 DEF Import, RecordsOf
  <2> QED
    BY <1>3, <2>1, RowsFrame DEF Import
<1>4. ASSUME NEW s \in Sources, NEW r \in Records, Collect(s, r) PROVE RowsOf(t) \subseteq RowsOf(t)'
  <2>1. \A x \in Records : records'[x] = IF x = r THEN s ELSE records[x]
    BY <1>4 DEF Collect, IInv, TypeOK
  <2>2. records[r] = None
    BY <1>4 DEF Collect
  <2>3. RecordsOf(t) \subseteq RecordsOf(t)'
    BY <2>1, <2>2 DEF RecordsOf
  <2> QED
    BY <1>4, <2>3, RowsFrame DEF Collect
<1> QED
  BY <1>1, <1>2, <1>3, <1>4

\* A step that takes rows of one town takes none of another.
LEMMA StepKeepsApart ==
  ASSUME IInv, [Next]_vars, NEW a \in Towns, NEW b \in Towns, a # b,
         ~(RowsOf(a) \subseteq RowsOf(a)')
  PROVE  RowsOf(b) \subseteq RowsOf(b)'
<1>1. CASE Opening
  BY <1>1, OpeningKeeps
<1>2. CASE Quit \/ (\E S \in SUBSET Towns : Install(S)) \/ ClearOrphans \/ UNCHANGED vars
  BY <1>2 DEF Quit, Install, ClearOrphans, vars, rows, RowsOf, RecordsOf, UsesOf
<1>3. CASE \/ \E x \in Towns : SyncSources(x)
           \/ \E s \in Sources, d \in Documents : Fetch(s, d) \/ Import(s, d)
           \/ \E s \in Sources, r \in Records : Collect(s, r)
  BY <1>3, CollectingKeeps
<1>4. ASSUME NEW t \in Towns, SweepOrphan(t) \/ \E scope \in {"derived", "records", "town"} : Clear(t, scope)
      PROVE  RowsOf(b) \subseteq RowsOf(b)'
  <2>1. ClearDerived(t) \/ ClearRecords(t) \/ (Deletable(t) /\ ClearTown(t)) \/ UNCHANGED rows
    BY <1>4 DEF SweepOrphan, Clear
  <2>2. t = a
    BY <2>1, ClearingKeeps
  <2> QED
    BY <2>1, <2>2, ClearingKeeps
<1> QED
  BY <1>1, <1>2, <1>3, <1>4 DEF Next

\* Clearing one town takes no row of another, though they share documents.
THEOREM TownsStayApart == Spec => TownsApart
<1>1. IInv /\ [Next]_vars =>
        \A a, b \in Towns : a # b /\ ~(RowsOf(a) \subseteq RowsOf(a)') => RowsOf(b) \subseteq RowsOf(b)'
  BY StepKeepsApart
<1> QED
  BY <1>1, InvariantHolds, PTL DEF Spec, TownsApart
=============================================================================
