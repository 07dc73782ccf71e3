------------------------------ MODULE TownMap -------------------------------
(***************************************************************************)
(* The matters of a town and where they are on its map.  linkMatters       *)
(* rebuilds every matter from the records; geocodeMatters asks a public    *)
(* geocoder about the addresses nobody has asked about yet, keeps the      *)
(* answer in a cache that outlives the rebuilds, and projects it onto the  *)
(* matter that asked; a rebuild projects the cache onto the new matters.   *)
(*                                                                         *)
(* A matter is its links: it exists while a record mentions it.  A record  *)
(* is what it mentions.  A place is the point shown, or Nowhere when the   *)
(* row says why there is none.  The commands of the pipeline run one at a  *)
(* time.                                                                   *)
(***************************************************************************)
EXTENDS Integers, FiniteSets

CONSTANTS
  Events,     \* records of the town
  Addresses,  \* matters that are a place
  Others,     \* matters that are not: articles, procurements
  Points,     \* where a geocoder may put an address
  Nowhere,    \* no match, or a match outside the town
  None,       \* no row
  Limit,      \* addresses to a run (--limit)
  Histories,  \* databases the program may be started on: "fresh", "legacy"
  MaxVersion, MaxFaults, MaxEdits, MaxClears  \* bounds

Matters == Addresses \union Others
Providers == {"census", "none", "manual"}
Where == Points \union {Nowhere}
Answer == [point : Where, version : Nat]

ASSUME MapConstants ==
  /\ IsFiniteSet(Addresses)
  /\ None \notin Where \union Answer /\ Nowhere \notin Points
  /\ {Limit, MaxVersion, MaxFaults, MaxEdits, MaxClears} \subseteq Nat
  /\ Histories \subseteq {"fresh", "legacy"}

VARIABLES
  schema,     \* PRAGMA user_version
  mentions,   \* mentions[e]: the matters record e touches
  links,      \* links[m]: matter_events of m; m is in matters while there are any
  place,      \* places
  cache,      \* geocodes: per address and provider
  answered,   \* history: the resolver that last had an answer recorded, 0 for none
  resolver,   \* GEOCODER_CACHE_VERSION of the program
  pc, force, queue, asking, answer,  \* the geocode run
  faults, edits, clears

derived == <<links, place>>
run == <<pc, force, queue, asking, answer>>
budget == <<faults, edits, clears>>
vars == <<schema, mentions, derived, cache, answered, resolver, run, budget>>

TypeOK ==
  /\ schema \in {3, 4}
  /\ mentions \in [Events -> SUBSET Matters]
  /\ links \in [Matters -> SUBSET Events]
  /\ place \in [Addresses -> Where \union {None}]
  /\ cache \in [Addresses -> [Providers -> Answer \union {None}]]
  /\ answered \in [Addresses -> Nat]
  /\ resolver \in Nat
  /\ pc \in {"idle", "ask", "cache", "place"}
  /\ force \in BOOLEAN
  /\ queue \subseteq Addresses
  /\ asking \in Addresses \union {None}
  /\ answer \in Where \union {None}
  /\ faults \in Nat /\ edits \in Nat /\ clears \in Nat

NoAnswers == [a \in Addresses |-> [p \in Providers |-> None]]

\* The default of cache_version in schema.sql.
SchemaVersion == 2

Pointed(c, p) == c[p] # None /\ c[p].point \in Points

-----------------------------------------------------------------------------
(* The best cached answer: an override with a point, then any point, then a *)
(* miss.  (Among misses versions and dates decide, and all are Nowhere.)    *)

Best(c) ==
  IF Pointed(c, "manual") THEN c["manual"].point
  ELSE IF Pointed(c, "census") THEN c["census"].point
  ELSE IF \A p \in Providers : c[p] = None THEN None
  ELSE Nowhere

\* A database from before the cache has places and nothing else.
Init ==
  /\ \E h \in Histories :
       IF h = "fresh"
       THEN /\ schema = 4
            /\ mentions = [e \in Events |-> {}]
            /\ links = [m \in Matters |-> {}]
            /\ place = [a \in Addresses |-> None]
       ELSE /\ schema = 3
            /\ mentions \in [Events -> SUBSET Matters]
            /\ links = [m \in Matters |-> {e \in Events : m \in mentions[e]}]
            /\ place \in [Addresses -> Where \union {None}]
            /\ \A a \in Addresses : place[a] # None => links[a] # {}
  /\ answered = [a \in Addresses |-> IF place[a] = None THEN 0 ELSE 1]
  /\ cache = NoAnswers
  /\ resolver = SchemaVersion
  /\ pc = "idle" /\ force = FALSE /\ queue = {} /\ asking = None /\ answer = None
  /\ faults = 0 /\ edits = 0 /\ clears = 0

\* Opening the database: version 4 seeds the cache from the places.
Migrate ==
  /\ schema = 3
  /\ schema' = 4
  /\ cache' = [a \in Addresses |-> [p \in Providers |->
       IF place[a] # None /\ p = (IF place[a] \in Points THEN "census" ELSE "none")
       THEN [point |-> place[a], version |-> SchemaVersion]
       ELSE None]]
  /\ UNCHANGED <<mentions, derived, answered, resolver, run, budget>>

Idle == schema = 4 /\ pc = "idle"

-----------------------------------------------------------------------------
(* What happens around the map. *)

\* ingest and extract leave record e with other subjects.
Reread(e, S) ==
  /\ Idle
  /\ edits < MaxEdits
  /\ S # mentions[e]
  /\ edits' = edits + 1
  /\ mentions' = [mentions EXCEPT ![e] = S]
  /\ UNCHANGED <<schema, derived, cache, answered, resolver, run, faults, clears>>

\* An operator records where an address is, or that it is nowhere, once and for all.
Override(a, w) ==
  /\ Idle
  /\ edits < MaxEdits
  /\ cache[a]["manual"] = None
  /\ edits' = edits + 1
  /\ cache' = [cache EXCEPT ![a]["manual"] = [point |-> w, version |-> SchemaVersion]]
  /\ UNCHANGED <<schema, mentions, derived, answered, resolver, run, faults, clears>>

\* A release with a better resolver.
Release ==
  /\ Idle
  /\ resolver < MaxVersion
  /\ resolver' = resolver + 1
  /\ UNCHANGED <<schema, mentions, derived, cache, answered, run, budget>>

\* Mutant: the rebuild leaves the map to the geocoder.
LinkOnly ==
  /\ Idle
  /\ links' = [m \in Matters |-> {e \in Events : m \in mentions[e]}]
  /\ place' = [a \in Addresses |-> None]
  /\ UNCHANGED <<schema, mentions, cache, answered, resolver, run, budget>>

\* One transaction: the matters go, and their links and places with them, and are
\* rebuilt; then the cache fills the map.
Link ==
  /\ Idle
  /\ links' = [m \in Matters |-> {e \in Events : m \in mentions[e]}]
  /\ place' = [a \in Addresses |-> IF links'[a] = {} THEN None ELSE Best(cache[a])]
  /\ UNCHANGED <<schema, mentions, cache, answered, resolver, run, budget>>

\* clear: every scope drops the matters with their places, records the records
\* too, and only town the cache.
Clear(scope) ==
  /\ Idle
  /\ clears < MaxClears
  /\ clears' = clears + 1
  /\ links' = [m \in Matters |-> {}]
  /\ place' = [a \in Addresses |-> None]
  /\ mentions' = IF scope = "derived" THEN mentions ELSE [e \in Events |-> {}]
  /\ IF scope = "town"
     THEN cache' = NoAnswers /\ answered' = [a \in Addresses |-> 0]
     ELSE UNCHANGED <<cache, answered>>
  /\ UNCHANGED <<schema, resolver, run, faults, edits>>

-----------------------------------------------------------------------------
(* A geocode run. *)

\* Mutant: an address without a place is asked about (as it was before the cache).
UnaskedByPlace(forced) ==
  {a \in Addresses : links[a] # {} /\ (forced \/ place[a] = None)}

\* The addresses a run may ask about: no point, no override, no miss of this resolver.
Unasked(forced) ==
  {a \in Addresses :
     /\ links[a] # {}
     /\ \/ forced
        \/ \A p \in Providers : cache[a][p] # None =>
             ~Pointed(cache[a], p) /\ p # "manual" /\ cache[a][p].version < resolver}

\* The busiest of them, up to the limit.  They are asked about in any order.
StartGeocode(forced) ==
  /\ Idle
  /\ \E S \in SUBSET Unasked(forced) :
       /\ Cardinality(S) <= Limit
       /\ S # Unasked(forced) => Cardinality(S) = Limit
       /\ \A a \in S, b \in Unasked(forced) \ S :
            Cardinality(links[a]) >= Cardinality(links[b])
       /\ queue' = S
  /\ pc' = "ask"
  /\ force' = forced
  /\ UNCHANGED <<schema, mentions, derived, cache, answered, resolver, asking, answer, budget>>

\* Every variant of the query came back: a point inside the town, or nothing there.
Definite(a) ==
  /\ pc = "ask"
  /\ a \in queue
  /\ answer' \in Where
  /\ asking' = a
  /\ pc' = "cache"
  /\ UNCHANGED <<schema, mentions, derived, cache, answered, resolver, force, queue, budget>>

\* An outage or an error of the provider is reported and not recorded.
Transient(a) ==
  /\ pc = "ask"
  /\ a \in queue
  /\ queue' = queue \ {a}
  /\ UNCHANGED <<schema, mentions, derived, cache, answered, resolver, pc, force, asking,
                 answer, budget>>

\* Mutant: one row per address, whatever the answer.
WriteCacheOver ==
  /\ pc = "cache"
  /\ cache' = [cache EXCEPT ![asking]["census"] = [point |-> answer, version |-> resolver]]
  /\ answered' = [answered EXCEPT ![asking] = resolver]
  /\ pc' = "place"
  /\ UNCHANGED <<schema, mentions, derived, resolver, force, queue, asking, answer, budget>>

\* record, first statement: a point and a miss have a row each.
WriteCache ==
  /\ pc = "cache"
  /\ cache' = [cache EXCEPT ![asking][IF answer \in Points THEN "census" ELSE "none"] =
                 [point |-> answer, version |-> resolver]]
  /\ answered' = [answered EXCEPT ![asking] = resolver]
  /\ pc' = "place"
  /\ UNCHANGED <<schema, mentions, derived, resolver, force, queue, asking, answer, budget>>

\* record, second statement: the best answer, not this one, goes on the map.
WritePlace ==
  /\ pc = "place"
  /\ place' = [place EXCEPT ![asking] = Best(cache[asking])]
  /\ queue' = queue \ {asking}
  /\ asking' = None /\ answer' = None
  /\ pc' = "ask"
  /\ UNCHANGED <<schema, mentions, links, cache, answered, resolver, force, budget>>

EndGeocode ==
  /\ pc = "ask"
  /\ queue = {}
  /\ pc' = "idle"
  /\ force' = FALSE
  /\ UNCHANGED <<schema, mentions, derived, cache, answered, resolver, queue, asking, answer,
                 budget>>

Crash ==
  /\ pc # "idle"
  /\ faults < MaxFaults
  /\ faults' = faults + 1
  /\ pc' = "idle" /\ force' = FALSE /\ queue' = {} /\ asking' = None /\ answer' = None
  /\ UNCHANGED <<schema, mentions, derived, cache, answered, resolver, edits, clears>>

-----------------------------------------------------------------------------
Around ==
  \/ \E e \in Events, S \in SUBSET Matters : Reread(e, S)
  \/ \E a \in Addresses, w \in Where : Override(a, w)
  \/ Release
  \/ \E scope \in {"derived", "records", "town"} : Clear(scope)

Geocode == WriteCache \/ WritePlace \/ EndGeocode \/ \E a \in queue : Definite(a) \/ Transient(a)

Next ==
  \/ Migrate \/ Around \/ Link
  \/ \E forced \in BOOLEAN : StartGeocode(forced)
  \/ Geocode \/ Crash

Spec == Init /\ [][Next]_vars

\* The database is opened and a run goes on; the scheduled refresh links and then
\* geocodes again and again; and the provider does not fail forever on an address.
Fairness ==
  /\ WF_vars(Migrate)
  /\ WF_vars(Geocode)
  /\ SF_vars(Link)
  /\ SF_vars(StartGeocode(FALSE))
  /\ \A a \in Addresses : SF_vars(Definite(a))

FairSpec == Spec /\ Fairness
=============================================================================
