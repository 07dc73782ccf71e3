------------------------------- MODULE Towns --------------------------------
(***************************************************************************)
(* One database for several towns: opening it under a newer program,       *)
(* writing the registry into it, collecting, and clearing one town of it.  *)
(*                                                                         *)
(* A row is what its foreign keys say: a record its source, a document the *)
(* source that met its bytes first, an entry of the fetch log (and a       *)
(* transcript import) its source and its document.  One source was renamed *)
(* when towns came; before, a reader followed a board of no town.          *)
(***************************************************************************)
EXTENDS Integers, FiniteSets

CONSTANTS
  Towns, Default,   \* towns of any build; config.defaultJurisdiction
  Sources, Of,      \* source ids of any build, and the town of each
  Formerly, Now,    \* the id before and after the rename (SOURCE_RENAMES)
  Records, Documents,
  None,             \* no source; no town
  MaxFaults, MaxClears, MaxBuilds  \* bounds

ASSUME TownsConstants ==
  /\ IsFiniteSet(Towns) /\ Default \in Towns /\ Of \in [Sources -> Towns]
  /\ {Formerly, Now} \subseteq Sources /\ Formerly # Now
  /\ Of[Formerly] = Default /\ Of[Now] = Default
  /\ None \notin Towns \union Sources
  /\ {MaxFaults, MaxClears, MaxBuilds} \subseteq Nat

Target == 4  \* SCHEMA_VERSION
Closed == 0
Opened == Target + 2
Used == Sources \X Documents

VARIABLES
  version, shape,    \* PRAGMA user_version; whether subscriptions have a town
  follows,           \* the towns in which a reader follows a board, None before there were any
  towns, sources,    \* jurisdictions; sources
  records, owner,    \* source of each event; of each document
  fetches, imports,  \* fetches; transcript_imports
  linked, cached,    \* events with a matter; towns with geocodes
  held,              \* sources with conditional headers
  registry,          \* towns the build knows
  step,              \* Closed, the migration an opening is at, or Opened
  sweep,             \* towns a `clear` still has to do
  faults, clears, builds

rows == <<towns, sources, records, owner, fetches, imports, linked, cached, held>>
schema == <<version, shape, follows>>
budget == <<faults, clears, builds>>
vars == <<rows, schema, registry, step, sweep, budget>>

TypeOK ==
  /\ version \in 0..Target /\ shape \in {"old", "new"}
  /\ follows \subseteq Towns \union {None}
  /\ towns \subseteq Towns /\ sources \subseteq Sources
  /\ records \in [Records -> Sources \union {None}]
  /\ owner \in [Documents -> Sources \union {None}]
  /\ fetches \subseteq Used /\ imports \subseteq Used
  /\ linked \subseteq Records /\ cached \subseteq Towns
  /\ held \subseteq Sources /\ registry \subseteq Towns
  /\ step \in Closed..Opened
  /\ sweep \subseteq Towns
  /\ faults \in Nat /\ clears \in Nat /\ builds \in Nat

SourcesOf(t) == {s \in sources : Of[s] = t}
RecordsOf(t) == {r \in Records : records[r] # None /\ Of[records[r]] = t}
UsesOf(t) == {u \in Used : Of[u[1]] = t}

\* A new file, or one an earlier program left, on which the old id may have
\* met the new.  Only a transcript source has imports, and neither is one.
Init ==
  /\ \/ /\ version = 0 /\ shape = "new" /\ follows = {} /\ sources = {}
        /\ records = [r \in Records |-> None] /\ owner = [d \in Documents |-> None]
        /\ fetches = {}
     \/ /\ version \in {0, 2} /\ shape = IF version = 0 THEN "old" ELSE "new"
        /\ sources \in SUBSET {Formerly, Now}
        /\ follows \in IF shape = "old" THEN {{}, {None}} ELSE {{}, {Default}}
        /\ records \in [Records -> sources \union {None}]
        /\ owner \in [Documents -> sources \union {None}]
        /\ fetches \in SUBSET {u \in sources \X Documents : owner[u[2]] # None}
  /\ towns = {} /\ imports = {} /\ linked = {} /\ cached = {} /\ held = sources
  /\ registry = Towns /\ step = Closed /\ sweep = {}
  /\ faults = 0 /\ clears = 0 /\ builds = 0

-----------------------------------------------------------------------------
(* Opening the database: each migration commits by itself, the version last. *)

\* Mutant: the version is written before the steps, and a kill skips them.
OpenMarking ==
  /\ step = Closed
  /\ step' = IF version >= Target THEN Opened ELSE 1
  /\ version' = Target
  /\ UNCHANGED <<rows, shape, follows, registry, sweep, budget>>

Open ==
  /\ step = Closed
  /\ step' = IF version >= Target THEN Opened ELSE 1
  /\ UNCHANGED <<rows, schema, registry, sweep, budget>>

Pending(n) == step = n /\ version < n
Skipped(n) == step = n /\ version >= n

\* Steps already counted by the version are not repeated; step 1 drops indexes,
\* step 4 is TownMap's.
Pass ==
  /\ \E n \in 1..Target : Skipped(n) \/ (Pending(n) /\ n \in {1, 4})
  /\ step' = step + 1
  /\ UNCHANGED <<rows, schema, registry, sweep, budget>>

\* addSubscriptionJurisdiction: the table is rebuilt unless it has the column.
AddSubscriptionJurisdiction ==
  /\ Pending(2)
  /\ shape' = "new"
  /\ follows' = IF shape = "old" THEN {Default : t \in follows} ELSE follows
  /\ step' = 3
  /\ UNCHANGED <<rows, version, registry, sweep, budget>>

Renamed(s) == IF s = Formerly THEN Now ELSE s

\* Mutant: the old row goes first, and its records and log go with it.
RenameDropping ==
  /\ Pending(3)
  /\ records' = [r \in Records |-> IF records[r] = Formerly THEN None ELSE records[r]]
  /\ owner' = [d \in Documents |-> Renamed(owner[d])]
  /\ fetches' = {u \in fetches : u[1] # Formerly}
  /\ sources' = {Renamed(s) : s \in sources}
  /\ held' = held \ {Formerly}
  /\ step' = 4
  /\ UNCHANGED <<towns, imports, linked, cached, schema, registry, sweep, budget>>

\* renameSources, in one transaction: the children move, then the old row goes
\* if there is a new one, and takes the new id if not.  Its imports do not move.
RenameSources ==
  /\ Pending(3)
  /\ records' = [r \in Records |-> Renamed(records[r])]
  /\ owner' = [d \in Documents |-> Renamed(owner[d])]
  /\ fetches' = {<<Renamed(u[1]), u[2]>> : u \in fetches}
  /\ sources' = {Renamed(s) : s \in sources}
  /\ held' = IF Now \in sources THEN held \ {Formerly} ELSE {Renamed(s) : s \in held}
  /\ step' = 4
  /\ UNCHANGED <<towns, imports, linked, cached, schema, registry, sweep, budget>>

SetVersion ==
  /\ step = Target + 1
  /\ version' = Target
  /\ step' = Opened
  /\ UNCHANGED <<rows, shape, follows, registry, sweep, budget>>

\* The program stops, or is stopped.
Quit ==
  /\ step # Closed
  /\ step # Opened \/ sweep # {} => faults < MaxFaults
  /\ faults' = IF step # Opened \/ sweep # {} THEN faults + 1 ELSE faults
  /\ step' = Closed /\ sweep' = {}
  /\ UNCHANGED <<rows, schema, registry, clears, builds>>

\* A build in which a town was dropped, or taken back.
Install(S) ==
  /\ step = Closed
  /\ builds < MaxBuilds
  /\ builds' = builds + 1
  /\ registry' = S
  /\ UNCHANGED <<rows, schema, step, sweep, faults, clears>>

Idle == step = Opened /\ sweep = {}

-----------------------------------------------------------------------------
(* Collecting. *)

\* syncSources: the town, then its sources; nothing is ever taken away here.
SyncSources(t) ==
  /\ Idle /\ t \in registry
  /\ towns' = towns \union {t}
  /\ sources' = sources \union {s \in Sources \ {Formerly} : Of[s] = t}
  /\ UNCHANGED <<records, owner, fetches, imports, linked, cached, held, schema, registry, step,
                 sweep, budget>>

\* upsertDocument and recordFetch: a document stays with the source that met
\* its bytes first, whichever source and town meets them again.
Fetch(s, d) ==
  /\ Idle /\ s \in sources /\ Of[s] \in registry
  /\ owner' = [owner EXCEPT ![d] = IF @ = None THEN s ELSE @]
  /\ fetches' = fetches \union {<<s, d>>}
  /\ held' = held \union {s}
  /\ UNCHANGED <<towns, sources, records, imports, linked, cached, schema, registry, step,
                 sweep, budget>>

\* A transcript imported from a page in the document index.
Import(s, d) ==
  /\ Idle /\ s \in sources \ {Formerly, Now} /\ Of[s] \in registry /\ owner[d] # None
  /\ imports' = imports \union {<<s, d>>}
  /\ UNCHANGED <<towns, sources, records, owner, fetches, linked, cached, held, schema, registry,
                 step, sweep, budget>>

\* upsertEvent and linkMatters, for a record nobody has; its id is of its town.
Collect(s, r) ==
  /\ Idle /\ s \in sources /\ Of[s] \in registry /\ records[r] = None
  /\ records' = [records EXCEPT ![r] = s]
  /\ linked' = linked \union {r} /\ cached' = cached \union {Of[s]}
  /\ UNCHANGED <<towns, sources, owner, fetches, imports, held, schema, registry, step, sweep,
                 budget>>

-----------------------------------------------------------------------------
(* Clearing one town: what is deleted deepest first in one transaction. *)

\* A document of the town that another town's log or import names: its deletion
\* violates a foreign key, and the whole transaction is rolled back.
Deletable(t) ==
  \A u \in (fetches \union imports) \ UsesOf(t) : owner[u[2]] = None \/ Of[owner[u[2]]] # t

ClearDerived(t) ==
  /\ linked' = linked \ RecordsOf(t)
  /\ UNCHANGED <<towns, sources, records, owner, fetches, imports, cached, held>>

\* Mutant: the imports of the town's documents go, whoever imported them.
RecordsGoneByDocument(t) ==
  /\ records' = [r \in Records |-> IF r \in RecordsOf(t) THEN None ELSE records[r]]
  /\ linked' = linked \ RecordsOf(t)
  /\ imports' = {u \in imports : owner[u[2]] \notin SourcesOf(t)}
  /\ held' = held \ SourcesOf(t)

\* Without the records the conditional headers go too.
RecordsGone(t) ==
  /\ records' = [r \in Records |-> IF r \in RecordsOf(t) THEN None ELSE records[r]]
  /\ linked' = linked \ RecordsOf(t)
  /\ imports' = imports \ UsesOf(t)
  /\ held' = held \ SourcesOf(t)

ClearRecords(t) == RecordsGone(t) /\ UNCHANGED <<towns, sources, owner, fetches, cached>>

ClearTown(t) ==
  /\ RecordsGone(t)
  /\ fetches' = fetches \ UsesOf(t)
  /\ owner' = [d \in Documents |-> IF owner[d] \in SourcesOf(t) THEN None ELSE owner[d]]
  /\ sources' = sources \ SourcesOf(t) /\ towns' = towns \ {t} /\ cached' = cached \ {t}

Clear(t, scope) ==
  /\ Idle /\ clears < MaxClears
  /\ clears' = clears + 1
  /\ \/ scope = "derived" /\ ClearDerived(t)
     \/ scope = "records" /\ ClearRecords(t)
     \/ scope = "town" /\ (IF Deletable(t) THEN ClearTown(t) ELSE UNCHANGED rows)
  /\ UNCHANGED <<schema, registry, step, sweep, faults, builds>>

\* orphanJurisdictions: towns with records or a row that the registry has dropped.
Orphans == {t \in Towns : t \in towns \/ RecordsOf(t) # {}} \ registry

ClearOrphans ==
  /\ Idle /\ clears < MaxClears /\ Orphans # {}
  /\ clears' = clears + 1
  /\ sweep' = Orphans
  /\ UNCHANGED <<rows, schema, registry, step, faults, builds>>

\* The most records first; the one that fails ends the command.
SweepOrphan(t) ==
  /\ t \in sweep
  /\ \A o \in sweep : Cardinality(RecordsOf(o)) <= Cardinality(RecordsOf(t))
  /\ IF Deletable(t) THEN ClearTown(t) /\ sweep' = sweep \ {t} ELSE UNCHANGED rows /\ sweep' = {}
  /\ UNCHANGED <<schema, registry, step, budget>>

-----------------------------------------------------------------------------
Opening == Open \/ Pass \/ AddSubscriptionJurisdiction \/ RenameSources \/ SetVersion

Next ==
  \/ Opening \/ Quit \/ \E S \in SUBSET Towns : Install(S)
  \/ \E t \in Towns : SyncSources(t) \/ SweepOrphan(t)
  \/ \E s \in Sources, d \in Documents : Fetch(s, d) \/ Import(s, d)
  \/ \E s \in Sources, r \in Records : Collect(s, r)
  \/ \E t \in Towns, scope \in {"derived", "records", "town"} : Clear(t, scope)
  \/ ClearOrphans

Spec == Init /\ [][Next]_vars
=============================================================================
