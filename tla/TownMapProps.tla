---------------------------- MODULE TownMapProps ----------------------------
(***************************************************************************)
(* What the map of a town must satisfy.                                    *)
(***************************************************************************)
EXTENDS TownMap

\* A matter that is on the map stays on the map as long as it is a matter:
\* rebuilds, forced lookups that fail, overrides, releases, upgrades and kills
\* never take a pin away ("a known good point beats a later failed --force").
PinsSurvive ==
  [][\A a \in Addresses :
       place[a] \in Points /\ links[a] # {} /\ links'[a] # {} => place'[a] \in Points]_vars

\* Unless forced, a run asks about an address once per resolver, and never once a
\* point is known, however often the matters are cleared and rebuilt in between.
AskedOnce ==
  [][\A a \in Addresses :
       pc = "ask" /\ pc' = "cache" /\ asking' = a /\ ~force =>
         answered[a] < resolver /\ \A p \in Providers : ~Pointed(cache[a], p)]_vars

\* Once the town and its records stop changing, every matter there should be is
\* there, and every one with an address has the best known answer on the map.
MapCompletes ==
  <>[](/\ \A m \in Matters : links[m] = {e \in Events : m \in mentions[e]}
       /\ \A a \in Addresses : links[a] # {} =>
            place[a] # None /\ place[a] = Best(cache[a]))
=============================================================================
