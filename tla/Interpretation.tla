--------------------------- MODULE Interpretation ---------------------------
(***************************************************************************)
(* The pass that reads the prose: interpretDocuments gives the text of     *)
(* each record to an interpreter and replaces the readings it made of that *)
(* record before.  A text stands for its hash.  There is one interpreter;  *)
(* readings of two are kept apart by their provider column.                *)
(*                                                                         *)
(* Shares the records, and the rule that commands run one at a time, with  *)
(* Extraction.                                                             *)
(***************************************************************************)
EXTENDS Extraction

CONSTANTS
  Minutes,       \* records whose type is read by default: agendas are structured already
  Kinds,         \* kinds of finding; "summary" is kept for having found nothing
  ReadingLimit   \* documents to a run (suggestedLimit)

Reading == [event : Events, kind : Kinds \union {"summary"}, text : Texts, version : Nat]

ASSUME InterpretationConstants ==
  /\ Minutes \subseteq Events
  /\ ReadingLimit \in Nat
  /\ "summary" \notin Kinds
  /\ None \notin [text : Texts, version : Nat]

VARIABLES
  readings,  \* interpretations
  version,   \* promptVersion of the program
  found,     \* what the interpreter found and is yet to be inserted
  whole      \* history: the text and version of the last reading kept in full

interpretation == <<readings, version, found, whole>>
vars == <<extraction, interpretation>>

TypeOK ==
  /\ ExtractionTypes
  /\ pc \in {"idle", "extract", "put", "write", "text", "writeText", "attach", "update",
             "interpret", "replace", "insert"}
  /\ readings \subseteq Reading
  /\ version \in Nat
  /\ found \subseteq Kinds \union {"summary"}
  /\ whole \in [Events -> [text : Texts, version : Nat] \union {None}]

Init ==
  /\ ExtractionInit
  /\ readings = {} /\ version = 1 /\ found = {}
  /\ whole = [e \in Events |-> None]

\* coalesce(doc_text, summary).
Source(e) == IF row[e].text = None THEN row[e].listing.summary ELSE row[e].text

isCurrent(e) ==
  \E r \in readings : r.event = e /\ r.text = Source(e) /\ r.version = version

StartInterpret(force) ==
  /\ pc = "idle"
  /\ IF force THEN Upset ELSE UNCHANGED upsets
  /\ forced' = force
  /\ \E S \in SUBSET Events :
       /\ Newest(S, {e \in Minutes : row[e] # None /\ Source(e) # Blank}, ReadingLimit)
       /\ queue' = S
  /\ pc' = "interpret"
  /\ UNCHANGED <<row, site, archive, filed, failures, doc, interpretation>>

\* Mutant: any reading will do, of whatever text.
SkipSeen(e) ==
  /\ pc = "interpret" /\ Current(e)
  /\ ~forced /\ \E r \in readings : r.event = e
  /\ queue' = queue \ {e}
  /\ UNCHANGED <<row, site, archive, filed, failures, pc, forced, doc, upsets, interpretation>>

\* The limit was applied before this is asked: a record beyond it is not reached
\* because newer ones are current.
Skip(e) ==
  /\ pc = "interpret" /\ Current(e)
  /\ ~forced /\ isCurrent(e)
  /\ queue' = queue \ {e}
  /\ UNCHANGED <<row, site, archive, filed, failures, pc, forced, doc, upsets, interpretation>>

\* interpret answers with findings of distinct kinds, or with none.
Ask(e) ==
  /\ pc = "interpret" /\ Current(e)
  /\ forced \/ ~isCurrent(e)
  /\ \E K \in SUBSET Kinds : found' = IF K = {} THEN {"summary"} ELSE K
  /\ pc' = "replace"
  /\ UNCHANGED <<row, site, archive, filed, failures, run, upsets, readings, version, whole>>

\* Mutant: only readings of the same prompt are replaced.
ReplaceSameVersion(e) ==
  /\ pc = "replace" /\ Current(e)
  /\ readings' = {r \in readings : r.event # e \/ r.version # version}
  /\ whole' = [whole EXCEPT ![e] = None]
  /\ pc' = "insert"
  /\ UNCHANGED <<row, site, archive, filed, failures, run, upsets, version, found>>

Replace(e) ==
  /\ pc = "replace" /\ Current(e)
  /\ readings' = {r \in readings : r.event # e}
  /\ whole' = [whole EXCEPT ![e] = None]
  /\ pc' = "insert"
  /\ UNCHANGED <<row, site, archive, filed, failures, run, upsets, version, found>>

\* Mutant: finding nothing is not recorded.
InsertFound(e, k) ==
  /\ pc = "insert" /\ Current(e) /\ k \in found
  /\ readings' = readings \union
       {[event |-> e, kind |-> n, text |-> Source(e), version |-> version] : n \in {k} \ {"summary"}}
  /\ found' = found \ {k}
  /\ IF found = {k}
     THEN /\ whole' = [whole EXCEPT ![e] = [text |-> Source(e), version |-> version]]
          /\ queue' = queue \ {e} /\ pc' = "interpret"
     ELSE UNCHANGED <<whole, queue, pc>>
  /\ UNCHANGED <<row, site, archive, filed, failures, forced, doc, upsets, version>>

Insert(e, k) ==
  /\ pc = "insert" /\ Current(e) /\ k \in found
  /\ readings' = readings \union {[event |-> e, kind |-> k, text |-> Source(e), version |-> version]}
  /\ found' = found \ {k}
  /\ IF found = {k}
     THEN /\ whole' = [whole EXCEPT ![e] = [text |-> Source(e), version |-> version]]
          /\ queue' = queue \ {e} /\ pc' = "interpret"
     ELSE UNCHANGED <<whole, queue, pc>>
  /\ UNCHANGED <<row, site, archive, filed, failures, forced, doc, upsets, version>>

\* The interpreter, or a statement, throws: the run goes on with the next record.
InterpretFails(e) ==
  /\ pc \in {"interpret", "replace", "insert"} /\ Current(e)
  /\ pc = "interpret" => forced \/ ~isCurrent(e)
  /\ Upset
  /\ queue' = queue \ {e} /\ found' = {} /\ pc' = "interpret"
  /\ UNCHANGED <<row, site, archive, filed, failures, forced, doc, readings, version, whole>>

EndInterpret ==
  /\ pc = "interpret" /\ queue = {}
  /\ pc' = "idle" /\ forced' = FALSE
  /\ UNCHANGED <<row, site, archive, filed, failures, queue, doc, upsets, interpretation>>

InterpretStep ==
  \/ \E e \in Events : Skip(e) \/ Ask(e) \/ Replace(e) \/ \E k \in found : Insert(e, k)
  \/ EndInterpret

\* A command is killed, or gives up on an interpreter that is not available.
Crash ==
  /\ pc # "idle"
  /\ pc' = "idle" /\ forced' = FALSE /\ queue' = {} /\ doc' = None /\ found' = {}
  /\ cut' = cut \union Unfinished
  /\ Upset
  /\ UNCHANGED <<row, site, store, torn, filed, failures, readings, version, whole>>

\* A release with another prompt or other rules.
Release ==
  /\ pc = "idle"
  /\ version' = version + 1
  /\ Upset
  /\ UNCHANGED <<row, site, archive, filed, failures, pc, run, readings, found, whole>>

\* The scopes derived and records of a clear of the town.
Clear(records) ==
  /\ pc = "idle"
  /\ readings' = {} /\ whole' = [e \in Events |-> None]
  /\ IF records THEN ForgetRecords ELSE UNCHANGED <<row, filed, failures>>
  /\ Upset
  /\ UNCHANGED <<site, archive, pc, run, version, found>>

Next ==
  \/ (Surroundings \/ Extract) /\ UNCHANGED interpretation
  \/ \E force \in BOOLEAN : StartInterpret(force)
  \/ InterpretStep
  \/ \E e \in Events : InterpretFails(e)
  \/ Crash \/ Release
  \/ \E records \in BOOLEAN : Clear(records)

Spec == Init /\ [][Next]_vars

\* The timer starts extraction again and again, and a command that is not killed
\* goes on.  Nothing but an operator starts interpretation (interpret.yml:
\* "deliberately outside the scheduled refresh").
FairSpec ==
  /\ Spec
  /\ WF_vars(ExtractStep /\ UNCHANGED interpretation)
  /\ WF_vars(InterpretStep)
  /\ SF_vars(Scheduled /\ UNCHANGED interpretation)
=============================================================================
