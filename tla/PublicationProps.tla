-------------------------- MODULE PublicationProps --------------------------
(* What the published pair of keys and the served image may be. *)
EXTENDS Publication

\* What readers are served is, byte for byte, a whole database somebody set out
\* to publish: never one without its log, never half a body, never one run's
\* body under another's digest; unless a pull was cut short or found no digest
\* (refresh.yml: Status before publication; snapshot.ts pullSnapshot).
ServedIsWhole == ~unsure /\ image # Missing => image \in released \ {Damaged}

Required(c) == {x \in Marks(c) : x.did # "interpret" /\ x.did # Commands[Len(Commands)]}

\* A publication never takes back records of the required commands published
\* before it, unless the cache they were in was lost, an operator publishes by
\* hand, or a pull was cut short or unverified: no two workflows publish at once
\* (refresh.yml and interpret.yml, concurrency group database-publish).  What
\* Interpret and the last command published may go: a refresh starts from its own
\* cache, which Interpret never writes, and drops the readings made since.
RecordsStay ==
  [][Required(db) \ Required(db') \subseteq lost \/ unsure \/ at["laptop"] = "put"]_publicationVars

\* snapshot.ts:36 of a push that uploads nothing: "True when the store already
\* held these exact bytes", when nobody is in the middle of another push.
UnchangedIsTrue ==
  [][\A m \in Machines :
       /\ at[m] = "compare" /\ at'[m] = "idle" /\ faults' = faults
       /\ \A n \in Machines : at[n] # "sign"
       => db = body[m]]_publicationVars
=============================================================================
