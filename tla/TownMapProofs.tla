---------------------------- MODULE TownMapProofs ---------------------------
(***************************************************************************)
(* For any records, addresses, limit and releases: a matter never loses    *)
(* its pin, and a plain run asks about an address once per resolver.       *)
(***************************************************************************)
EXTENDS TownMapProps, TLAPS

\* A pin on the map has a point in the cache behind it.
Backed ==
  schema = 4 =>
    \A a \in Addresses : place[a] \in Points =>
      Pointed(cache[a], "manual") \/ Pointed(cache[a], "census")

\* The run is under way on an open database, with one question at a time.
Running ==
  /\ pc # "idle" => schema = 4
  /\ pc \in {"cache", "place"} => asking \in queue /\ answer \in Where
  /\ resolver >= SchemaVersion

\* What was answered last is still in the cache, dated no earlier than it was.
\* (A legacy database has its answers in the places, all of them from before.)
Dated ==
  \A a \in Addresses : answered[a] # 0 =>
    IF schema = 4
    THEN \E p \in {"census", "none"} : cache[a][p] # None /\ cache[a][p].version >= answered[a]
    ELSE place[a] # None /\ answered[a] <= SchemaVersion

\* A plain run still has every reason to ask about what it has not asked about yet.
Wanting ==
  pc # "idle" /\ ~force =>
    \A a \in queue : pc # "place" \/ a # asking =>
      \A p \in Providers : cache[a][p] # None =>
        ~Pointed(cache[a], p) /\ p # "manual" /\ cache[a][p].version < resolver

IInv == TypeOK /\ Backed /\ Running /\ Dated /\ Wanting

-----------------------------------------------------------------------------
\* The markers are apart, and the bounds are numbers.
LEMMA Constants ==
  /\ None \notin Points /\ None # Nowhere /\ Nowhere \notin Points /\ None \notin Answer
  /\ Histories \subseteq {"fresh", "legacy"}
BY MapConstants DEF MapConstants, Where

\* The best answer is a place, and a point whenever an override or the census has one.
LEMMA BestType ==
  ASSUME NEW c \in [Providers -> Answer \union {None}]
  PROVE  /\ Best(c) \in Where \union {None}
         /\ Best(c) \in Points <=> Pointed(c, "manual") \/ Pointed(c, "census")
BY Constants DEF Best, Pointed, Where, Providers

\* The databases the program starts on satisfy the invariant.
LEMMA InitHolds == Init => IInv
<1> SUFFICES ASSUME Init PROVE IInv
  OBVIOUS
<1>1. TypeOK
  <2>1. NoAnswers \in [Addresses -> [Providers -> Answer \union {None}]]
    BY DEF NoAnswers
  <2>2. schema \in {3, 4} /\ mentions \in [Events -> SUBSET Matters]
        /\ links \in [Matters -> SUBSET Events] /\ place \in [Addresses -> Where \union {None}]
    BY DEF Init
  <2>3. answered \in [Addresses -> Nat]
    BY DEF Init
  <2> QED
    BY <2>1, <2>2, <2>3 DEF Init, TypeOK, SchemaVersion
<1>2. Backed /\ Dated
  <2>1. ASSUME schema = 4 PROVE \A a \in Addresses : place[a] = None /\ answered[a] = 0
    BY <2>1 DEF Init
  <2>2. \A a \in Addresses : answered[a] # 0 => place[a] # None /\ answered[a] = 1
    BY DEF Init
  <2> QED
    BY <2>1, <2>2, Constants DEF Backed, Dated, SchemaVersion
<1>3. Running /\ Wanting
  BY DEF Init, Running, Wanting, SchemaVersion
<1> QED
  BY <1>1, <1>2, <1>3 DEF IInv

-----------------------------------------------------------------------------
\* What the first statement of record does to the cache.
LEMMA CacheWritten ==
  ASSUME TypeOK, Running, WriteCache
  PROVE  \E q \in {"census", "none"} :
           /\ asking \in Addresses
           /\ q = "census" <=> answer \in Points
           /\ [point |-> answer, version |-> resolver] \in Answer
           /\ cache' = [cache EXCEPT ![asking][q] = [point |-> answer, version |-> resolver]]
<1>1. asking \in Addresses /\ answer \in Where
  BY DEF TypeOK, Running, WriteCache
<1>2. [point |-> answer, version |-> resolver] \in Answer
  BY <1>1 DEF TypeOK, Answer, Where
<1> QED
  BY <1>1, <1>2 DEF WriteCache

\* What the seeding of version 4 makes of the places.
LEMMA CacheSeeded ==
  ASSUME TypeOK, Migrate
  PROVE  /\ cache' \in [Addresses -> [Providers -> Answer \union {None}]]
         /\ \A a \in Addresses : place[a] \in Points => Pointed(cache'[a], "census")
         /\ \A a \in Addresses : place[a] # None =>
              \E p \in {"census", "none"} :
                cache'[a][p] # None /\ cache'[a][p].version = SchemaVersion
<1> DEFINE row(a) == [point |-> place[a], version |-> SchemaVersion]
           slot(a) == IF place[a] \in Points THEN "census" ELSE "none"
<1>1. \A a \in Addresses : place[a] # None => row(a) \in Answer
  BY DEF TypeOK, Answer, Where, SchemaVersion
<1>2. cache' = [a \in Addresses |-> [p \in Providers |->
                  IF place[a] # None /\ p = slot(a) THEN row(a) ELSE None]]
  BY DEF Migrate
<1>3. \A a \in Addresses : slot(a) \in {"census", "none"} /\ slot(a) \in Providers
  BY DEF Providers
<1>4. \A a \in Addresses : row(a).point = place[a] /\ row(a).version = SchemaVersion
  OBVIOUS
<1>5. cache' \in [Addresses -> [Providers -> Answer \union {None}]]
  <2> HIDE DEF row, slot
  <2> QED BY <1>1, <1>2
<1>6. ASSUME NEW a \in Addresses, place[a] # None
      PROVE  cache'[a][slot(a)] = row(a) /\ row(a) # None
  <2>1. row(a) # None
    BY <1>1, <1>6, Constants
  <2> HIDE DEF row, slot
  <2> QED BY <1>2, <1>3, <1>6, <2>1
<1>7. ASSUME NEW a \in Addresses, place[a] \in Points
      PROVE  Pointed(cache'[a], "census")
  <2>1. slot(a) = "census" /\ place[a] # None
    BY <1>7, Constants
  <2> QED
    BY <1>4, <1>6, <1>7, <2>1 DEF Pointed
<1>8. ASSUME NEW a \in Addresses, place[a] # None
      PROVE  \E p \in {"census", "none"} :
               cache'[a][p] # None /\ cache'[a][p].version = SchemaVersion
  <2>1. cache'[a][slot(a)] # None /\ cache'[a][slot(a)].version = SchemaVersion
    BY <1>4, <1>6, <1>8
  <2> HIDE DEF row, slot
  <2> QED BY <1>3, <2>1
<1> QED
  BY <1>5, <1>7, <1>8

-----------------------------------------------------------------------------
\* Every step keeps the types.
LEMMA StepTypes ==
  ASSUME TypeOK, Running, [Next]_vars
  PROVE  TypeOK'
<1> USE DEF TypeOK
<1>1. CASE Migrate
  BY <1>1, CacheSeeded DEF Migrate, derived, run, budget
<1>2. ASSUME NEW e \in Events, NEW S \in SUBSET Matters, Reread(e, S) PROVE TypeOK'
  BY <1>2 DEF Reread, derived, run
<1>3. ASSUME NEW a \in Addresses, NEW w \in Where, Override(a, w) PROVE TypeOK'
  <2>1. [point |-> w, version |-> SchemaVersion] \in Answer
    BY DEF Answer, SchemaVersion
  <2>2. cache' \in [Addresses -> [Providers -> Answer \union {None}]]
    BY <1>3, <2>1 DEF Override
  <2> QED
    BY <1>3, <2>2 DEF Override, derived, run
<1>4. CASE Release
  BY <1>4 DEF Release, derived, run, budget
<1>5. ASSUME NEW scope \in {"derived", "records", "town"}, Clear(scope) PROVE TypeOK'
  <2>1. NoAnswers \in [Addresses -> [Providers -> Answer \union {None}]]
    BY DEF NoAnswers
  <2>2. place' \in [Addresses -> Where \union {None}] /\ links' \in [Matters -> SUBSET Events]
    BY <1>5 DEF Clear
  <2>3. mentions' \in [Events -> SUBSET Matters]
    BY <1>5 DEF Clear
  <2>4. /\ cache' \in [Addresses -> [Providers -> Answer \union {None}]]
        /\ answered' \in [Addresses -> Nat]
    <3>1. CASE scope = "town"
      BY <1>5, <2>1, <3>1 DEF Clear
    <3>2. CASE scope # "town"
      BY <1>5, <3>2 DEF Clear
    <3> QED
      BY <3>1, <3>2
  <2> QED
    BY <1>5, <2>2, <2>3, <2>4 DEF Clear, run
<1>6. CASE Link
  <2>1. \A a \in Addresses : Best(cache[a]) \in Where \union {None}
    BY BestType
  <2>2. place' \in [Addresses -> Where \union {None}] /\ links' \in [Matters -> SUBSET Events]
    BY <1>6, <2>1 DEF Link
  <2> QED
    BY <1>6, <2>2 DEF Link, run, budget
<1>7. ASSUME NEW forced \in BOOLEAN, StartGeocode(forced) PROVE TypeOK'
  BY <1>7 DEF StartGeocode, Unasked, derived, budget
<1>8. ASSUME NEW a \in queue, Definite(a) \/ Transient(a) PROVE TypeOK'
  BY <1>8 DEF Definite, Transient, derived, budget
<1>9. CASE WriteCache
  <2>1. PICK q \in {"census", "none"} :
          /\ asking \in Addresses
          /\ [point |-> answer, version |-> resolver] \in Answer
          /\ cache' = [cache EXCEPT ![asking][q] = [point |-> answer, version |-> resolver]]
    BY <1>9, CacheWritten
  <2>2. cache' \in [Addresses -> [Providers -> Answer \union {None}]]
    BY <2>1 DEF Providers
  <2> QED
    BY <1>9, <2>1, <2>2 DEF WriteCache, derived, budget
<1>10. CASE WritePlace
  <2>1. asking \in Addresses => Best(cache[asking]) \in Where \union {None}
    BY BestType
  <2> QED
    BY <1>10, <2>1 DEF WritePlace, Running, budget
<1>11. CASE EndGeocode
  BY <1>11 DEF EndGeocode, derived, budget
<1>12. CASE Crash
  <2>1. /\ UNCHANGED <<schema, mentions, links, place, cache, answered, resolver, edits, clears>>
        /\ faults' = faults + 1 /\ pc' = "idle" /\ force' = FALSE
        /\ queue' = {} /\ asking' = None /\ answer' = None
    BY <1>12 DEF Crash, derived
  <2>2. force' \in BOOLEAN
    BY <2>1, Zenon
  <2>3. queue' \subseteq Addresses
    BY <2>1, Zenon
  <2>4. asking' \in Addresses \union {None} /\ answer' \in Where \union {None}
    BY <2>1, Zenon
  <2> QED
    BY <2>1, <2>2, <2>3, <2>4
<1>13. CASE UNCHANGED vars
  BY <1>13 DEF vars, derived, run, budget
<1>14. CASE Around
  BY <1>2, <1>3, <1>4, <1>5, <1>14 DEF Around
<1>15. CASE Geocode
  BY <1>8, <1>9, <1>10, <1>11, <1>15 DEF Geocode
<1>16. CASE \E forced \in BOOLEAN : StartGeocode(forced)
  BY <1>7, <1>16
<1> QED
  BY <1>1, <1>6, <1>12, <1>13, <1>14, <1>15, <1>16 DEF Next

\* A run is only under way on an open database.
LEMMA StepRunning ==
  ASSUME TypeOK, Running, [Next]_vars
  PROVE  Running'
<1> USE DEF Running
<1>1. CASE Migrate
  BY <1>1 DEF Migrate, run
<1>6. CASE Around \/ Link
  <2>1. pc = "idle" /\ UNCHANGED <<pc, schema>>
    BY <1>6 DEF Around, Link, Reread, Override, Release, Clear, Idle, run
  <2>2. resolver' \in {resolver, resolver + 1}
    BY <1>6 DEF Around, Link, Reread, Override, Release, Clear
  <2> QED
    BY <2>1, <2>2 DEF TypeOK, SchemaVersion
<1>2. ASSUME NEW forced \in BOOLEAN, StartGeocode(forced) PROVE Running'
  BY <1>2 DEF StartGeocode, Idle
<1>3. CASE Geocode
  BY <1>3 DEF Geocode, Definite, Transient, WriteCache, WritePlace, EndGeocode, TypeOK
<1>4. CASE Crash
  BY <1>4 DEF Crash
<1>5. CASE UNCHANGED vars
  BY <1>5 DEF vars, run
<1> QED
  BY <1>1, <1>2, <1>3, <1>4, <1>5, <1>6 DEF Next

\* A pin keeps its point in the cache: a miss is written beside it, not over it.
LEMMA StepBacked ==
  ASSUME TypeOK, Running, Backed, [Next]_vars
  PROVE  Backed'
<1> USE DEF Backed
<1>0. ASSUME UNCHANGED <<schema, place, cache>> PROVE Backed'
  BY <1>0
<1>1. CASE Migrate
  BY <1>1, CacheSeeded DEF Migrate, derived
<1>2. ASSUME NEW a \in Addresses, NEW w \in Where, Override(a, w) PROVE Backed'
  <2>1. cache[a]["manual"] = None /\ UNCHANGED <<schema, place>> /\ schema = 4
    BY <1>2 DEF Override, derived, Idle
  <2>2. \A b \in Addresses :
          cache'[b]["census"] = cache[b]["census"]
          /\ (b # a => cache'[b]["manual"] = cache[b]["manual"])
    BY <1>2 DEF Override, TypeOK, Providers
  <2> QED
    BY <2>1, <2>2 DEF Pointed
<1>3. ASSUME NEW scope \in {"derived", "records", "town"}, Clear(scope) PROVE Backed'
  BY <1>3, Constants DEF Clear
<1>4. CASE Link
  <2>1. \A a \in Addresses : place'[a] \in Points => Best(cache[a]) \in Points
    BY <1>4, Constants DEF Link
  <2>2. UNCHANGED <<schema, cache>>
    BY <1>4 DEF Link
  <2> QED
    BY <2>1, <2>2, BestType DEF TypeOK
<1>5. CASE WriteCache
  <2>1. PICK q \in {"census", "none"} :
          /\ asking \in Addresses
          /\ q = "census" <=> answer \in Points
          /\ [point |-> answer, version |-> resolver] \in Answer
          /\ cache' = [cache EXCEPT ![asking][q] = [point |-> answer, version |-> resolver]]
    BY <1>5, CacheWritten
  <2>2. \A b \in Addresses :
          /\ cache'[b]["manual"] = cache[b]["manual"]
          /\ Pointed(cache[b], "census") => Pointed(cache'[b], "census")
    BY <2>1, Constants DEF TypeOK, Providers, Pointed
  <2>3. UNCHANGED <<schema, place>>
    BY <1>5 DEF WriteCache, derived
  <2> QED
    BY <2>2, <2>3 DEF Pointed
<1>6. CASE WritePlace
  <2>1. /\ asking \in Addresses /\ UNCHANGED <<schema, cache>>
        /\ place' = [place EXCEPT ![asking] = Best(cache[asking])]
    BY <1>6 DEF WritePlace, Running, TypeOK
  <2> QED
    BY <2>1, BestType DEF TypeOK
<1>7. CASE \/ \E e \in Events, S \in SUBSET Matters : Reread(e, S)
           \/ Release \/ \E forced \in BOOLEAN : StartGeocode(forced)
           \/ EndGeocode \/ \E a \in queue : Definite(a) \/ Transient(a)
           \/ Crash \/ UNCHANGED vars
  BY <1>0, <1>7 DEF Reread, Release, StartGeocode, EndGeocode, Definite, Transient, Crash,
                    vars, derived
<1> QED
  BY <1>1, <1>2, <1>3, <1>4, <1>5, <1>6, <1>7 DEF Next, Around, Geocode

\* What was answered stays in the cache: another answer of the same kind is no older,
\* and only clearing the town forgets both.
LEMMA StepDated ==
  ASSUME TypeOK, Running, Dated, [Next]_vars
  PROVE  Dated'
<1> USE DEF Dated
<1>1. CASE WriteCache
  <2>1. PICK q \in {"census", "none"} :
          /\ asking \in Addresses
          /\ [point |-> answer, version |-> resolver] \in Answer
          /\ cache' = [cache EXCEPT ![asking][q] = [point |-> answer, version |-> resolver]]
    BY <1>1, CacheWritten
  <2>2. /\ cache'[asking][q] = [point |-> answer, version |-> resolver]
        /\ \A b \in Addresses : b # asking => cache'[b] = cache[b]
    BY <2>1 DEF TypeOK, Providers
  <2>3. cache'[asking][q] # None /\ cache'[asking][q].version = resolver
    BY <2>1, <2>2, Constants
  <2>4. /\ answered'[asking] = resolver /\ resolver \in Nat /\ schema = 4 /\ schema' = 4
        /\ \A b \in Addresses : b # asking => answered'[b] = answered[b]
    BY <1>1, <2>1 DEF WriteCache, TypeOK, Running
  <2>5. ASSUME NEW b \in Addresses, answered'[b] # 0
        PROVE  \E p \in {"census", "none"} :
                 cache'[b][p] # None /\ cache'[b][p].version >= answered'[b]
    <3>1. CASE b = asking
      BY <2>3, <2>4, <3>1
    <3>2. CASE b # asking
      BY <2>2, <2>4, <2>5, <3>2
    <3> QED
      BY <3>1, <3>2
  <2> QED
    BY <2>4, <2>5
<1>2. CASE Migrate
  <2>1. answered' = answered /\ schema = 3 /\ schema' = 4
    BY <1>2 DEF Migrate
  <2>2. answered \in [Addresses -> Nat]
    BY DEF TypeOK
  <2>3. ASSUME NEW a \in Addresses, answered[a] # 0
        PROVE  \E p \in {"census", "none"} :
                 cache'[a][p] # None /\ cache'[a][p].version >= answered[a]
    <3>1. place[a] # None /\ answered[a] <= SchemaVersion
      BY <2>1, <2>3
    <3>2. PICK p \in {"census", "none"} :
            cache'[a][p] # None /\ cache'[a][p].version = SchemaVersion
      BY <1>2, <3>1, CacheSeeded
    <3> QED
      BY <2>2, <3>1, <3>2 DEF SchemaVersion
  <2> QED
    BY <2>1, <2>3
<1>3. ASSUME NEW a \in Addresses, NEW w \in Where, Override(a, w) PROVE Dated'
  <2>1. UNCHANGED <<schema, answered>> /\ schema = 4
    BY <1>3 DEF Override, Idle
  <2>2. \A b \in Addresses, p \in {"census", "none"} : cache'[b][p] = cache[b][p]
    BY <1>3 DEF Override, TypeOK, Providers
  <2> QED
    BY <2>1, <2>2
<1>4. ASSUME NEW scope \in {"derived", "records", "town"}, Clear(scope) PROVE Dated'
  BY <1>4 DEF Clear, Idle
<1>5. CASE Link
  BY <1>5 DEF Link, Idle
<1>6. CASE WritePlace
  BY <1>6 DEF WritePlace, Running
<1>7. CASE \/ \E e \in Events, S \in SUBSET Matters : Reread(e, S)
           \/ Release \/ \E forced \in BOOLEAN : StartGeocode(forced)
           \/ EndGeocode \/ \E a \in queue : Definite(a) \/ Transient(a)
           \/ Crash \/ UNCHANGED vars
  <2>1. UNCHANGED <<schema, cache, answered, place>>
    BY <1>7 DEF Reread, Release, StartGeocode, EndGeocode, Definite, Transient, Crash,
                vars, derived
  <2> QED
    BY <2>1
<1> QED
  BY <1>1, <1>2, <1>3, <1>4, <1>5, <1>6, <1>7 DEF Next, Around, Geocode

\* Nobody else writes the cache during a run, so the addresses still to be asked about
\* are as they were when the run began.
LEMMA StepWanting ==
  ASSUME TypeOK, Running, Wanting, [Next]_vars
  PROVE  Wanting'
<1>1. ASSUME pc' = "idle" PROVE Wanting'
  BY <1>1 DEF Wanting
<1>2. CASE Migrate \/ Around \/ Link
  <2>1. pc' = pc
    BY <1>2 DEF Migrate, Around, Link, Reread, Override, Release, Clear, run
  <2>2. pc = "idle"
    BY <1>2 DEF Migrate, Around, Link, Reread, Override, Release, Clear, Idle, Running
  <2> QED
    BY <1>1, <2>1, <2>2
<1>3. ASSUME NEW forced \in BOOLEAN, StartGeocode(forced) PROVE Wanting'
  <2>1. /\ force' = forced /\ UNCHANGED <<cache, resolver>> /\ queue' \subseteq Unasked(forced)
    BY <1>3 DEF StartGeocode
  <2> QED
    BY <2>1 DEF Wanting, Unasked
<1>4. ASSUME NEW a \in queue, Definite(a) \/ Transient(a) PROVE Wanting'
  <2>1. /\ UNCHANGED <<cache, resolver, force>> /\ queue' \subseteq queue
        /\ pc = "ask" /\ pc' # "place"
    BY <1>4 DEF Definite, Transient
  <2> QED
    BY <2>1 DEF Wanting
<1>5. CASE WriteCache
  <2>1. asking \in Addresses /\ \A b \in Addresses : b # asking => cache'[b] = cache[b]
    BY <1>5 DEF WriteCache, TypeOK, Running
  <2>2. /\ UNCHANGED <<queue, resolver, force, asking>> /\ pc = "cache" /\ pc' = "place"
        /\ queue \subseteq Addresses
    BY <1>5 DEF WriteCache, TypeOK
  <2>3. ASSUME ~force, NEW b \in queue, b # asking, NEW p \in Providers, cache'[b][p] # None
        PROVE  ~Pointed(cache'[b], p) /\ p # "manual" /\ cache'[b][p].version < resolver
    <3>1. cache'[b] = cache[b]
      BY <2>1, <2>2, <2>3
    <3> QED
      BY <2>2, <2>3, <3>1 DEF Wanting
  <2> QED
    BY <2>2, <2>3 DEF Wanting
<1>6. CASE WritePlace
  BY <1>6 DEF WritePlace, Wanting
<1>7. CASE EndGeocode \/ Crash
  BY <1>1, <1>7 DEF EndGeocode, Crash
<1>8. CASE UNCHANGED vars
  BY <1>8 DEF vars, run, Wanting, Pointed
<1> QED
  BY <1>2, <1>3, <1>4, <1>5, <1>6, <1>7, <1>8 DEF Next, Geocode

-----------------------------------------------------------------------------
\* The invariant is inductive.
LEMMA Invariant == Spec => []IInv
<1>1. IInv /\ [Next]_vars => IInv'
  BY StepTypes, StepBacked, StepRunning, StepDated, StepWanting DEF IInv
<1> QED
  BY <1>1, InitHolds, PTL DEF Spec

\* Every variable keeps its type, whatever is linked, asked, overridden and cleared.
THEOREM MapTypes == Spec => []TypeOK
<1>1. IInv => TypeOK
  BY DEF IInv
<1> QED
  BY <1>1, Invariant, PTL

\* A matter on the map stays on the map as long as it is a matter: what the map shows
\* is the best answer known, and a later miss is kept beside it.
THEOREM PinsKept == Spec => PinsSurvive
<1> DEFINE Kept == \A a \in Addresses :
      place[a] \in Points /\ links[a] # {} /\ links'[a] # {} => place'[a] \in Points
<1>1. ASSUME IInv, [Next]_vars PROVE Kept
  <2>1. TypeOK /\ Backed /\ Running
    BY <1>1 DEF IInv
  <2>2. CASE Link
    <3>1. schema = 4 /\ place' = [a \in Addresses |->
            IF links'[a] = {} THEN None ELSE Best(cache[a])]
      BY <2>2 DEF Link, Idle
    <3>2. \A a \in Addresses : place[a] \in Points => Best(cache[a]) \in Points
      BY <2>1, <3>1, BestType DEF Backed, TypeOK
    <3> QED
      BY <3>1, <3>2
  <2>3. CASE WritePlace
    <3>1. /\ asking \in Addresses /\ schema = 4
          /\ place' = [place EXCEPT ![asking] = Best(cache[asking])]
      BY <2>1, <2>3 DEF WritePlace, Running, TypeOK
    <3>2. place[asking] \in Points => Best(cache[asking]) \in Points
      BY <2>1, <3>1, BestType DEF Backed, TypeOK
    <3> QED
      BY <2>1, <3>1, <3>2 DEF TypeOK
  <2>4. ASSUME NEW scope \in {"derived", "records", "town"}, Clear(scope) PROVE Kept
    BY <2>4 DEF Clear, Matters
  <2>5. CASE ~(Link \/ WritePlace \/ \E scope \in {"derived", "records", "town"} : Clear(scope))
    <3>1. place' = place
      BY <1>1, <2>5 DEF Next, Migrate, Around, Reread, Override, Release, StartGeocode, Geocode,
                        Definite, Transient, WriteCache, EndGeocode, Crash, vars, derived
    <3> QED
      BY <3>1
  <2> QED
    BY <2>2, <2>3, <2>4, <2>5
<1>2. IInv /\ [Next]_vars => [Kept]_vars
  BY <1>1
<1> QED
  BY <1>2, Invariant, PTL DEF Spec, PinsSurvive

\* A plain run asks about an address once per resolver and never once it is on the map:
\* the cache remembers what the matters forget.
THEOREM AskedOncePerResolver == Spec => AskedOnce
<1> DEFINE Once == \A a \in Addresses :
      pc = "ask" /\ pc' = "cache" /\ asking' = a /\ ~force =>
        answered[a] < resolver /\ \A p \in Providers : ~Pointed(cache[a], p)
<1>1. ASSUME IInv, [Next]_vars PROVE Once
  <2>1. TypeOK /\ Running /\ Dated /\ Wanting
    BY <1>1 DEF IInv
  <2> SUFFICES ASSUME NEW a \in Addresses, pc = "ask", pc' = "cache", asking' = a, ~force
               PROVE  answered[a] < resolver /\ \A p \in Providers : ~Pointed(cache[a], p)
    OBVIOUS
  <2>2. Definite(a)
    BY <1>1 DEF Next, Migrate, Around, Link, Reread, Override, Release, Clear, StartGeocode, Idle,
                Geocode, Definite, Transient, WriteCache, WritePlace, EndGeocode, Crash, vars, run
  <2>3. \A p \in Providers : cache[a][p] # None =>
          ~Pointed(cache[a], p) /\ cache[a][p].version < resolver
    BY <2>1, <2>2 DEF Definite, Wanting
  <2>4. schema = 4 /\ resolver >= 2
    BY <2>1, <2>2 DEF Definite, Running, SchemaVersion
  <2>5. answered[a] < resolver
    <3>1. CASE answered[a] = 0
      BY <2>1, <2>4, <3>1 DEF TypeOK
    <3>2. CASE answered[a] # 0
      <4>1. PICK p \in {"census", "none"} :
              cache[a][p] # None /\ cache[a][p].version >= answered[a]
        BY <2>1, <2>4, <3>2 DEF Dated
      <4>2. cache[a][p].version < resolver
        BY <2>3, <4>1 DEF Providers
      <4>3. cache[a][p].version \in Nat /\ answered[a] \in Nat /\ resolver \in Nat
        BY <2>1, <4>1 DEF TypeOK, Answer, Providers
      <4> QED
        BY <4>1, <4>2, <4>3
    <3> QED
      BY <3>1, <3>2
  <2> QED
    BY <2>3, <2>5 DEF Pointed
<1>2. IInv /\ [Next]_vars => [Once]_vars
  BY <1>1
<1> QED
  BY <1>2, Invariant, PTL DEF Spec, AskedOnce
=============================================================================
