---------------------------- MODULE Publication ----------------------------
(***************************************************************************)
(* How the database gets from the machine that builds it to the one that   *)
(* serves it.  Refresh works on the database the Actions cache kept,       *)
(* Interpret and an operator's laptop on the one last published; each      *)
(* pushes its own to one fixed pair of keys, and a deploy bakes what it    *)
(* pulls.  SQLite writes ahead: a command that ends folds its log into the *)
(* file, one that dies leaves it beside the file, and only the file is     *)
(* cached, published or baked.                                             *)
(*                                                                         *)
(* A database is the set of marks of the commands that wrote to it.  The   *)
(* runners, their cache, the bucket and the host are external.             *)
(***************************************************************************)
EXTENDS Integers, Sequences

CONSTANTS
  Commands,  \* a refresh, in order; its last command may fail (continue-on-error)
  Missing,
  Damaged,   \* half a body, or a file opened beside the log of another
  MaxRuns, MaxFaults  \* bounds: refreshes and interpretations, faults

Group == {"refresher", "interpreter"}  \* concurrency: database-publish
Machines == Group \union {"deployer", "laptop"}

VARIABLES
  db, sum,   \* SNAPSHOT_KEY, SNAPSHOT_DIGEST_KEY; a digest is named by what it is of
  cache,     \* the newest towncivic-db- entry
  disk,      \* disk[m]: towncivic.db and its write-ahead log
  job,       \* job[m]: what m pulls the database for
  at,        \* at[m]: the step m is at
  turn,      \* the command the refresh is at
  ok,        \* no step of the refresh has failed
  body,      \* body[m]: the bytes in hand
  image,     \* the database of the machines that serve
  runs, faults,
  released,  \* history: whole databases somebody set out to publish
  lost,      \* history: marks lost with the cache
  unsure     \* history: a pull was cut short, or had no digest to compare with

bucket == <<db, sum>>
machine == <<disk, job, at, body>>
refresh == <<cache, turn, ok>>
history == <<released, lost, unsure>>
publicationVars == <<bucket, machine, refresh, image, runs, faults, history>>

Mark == [run : 0..MaxRuns, did : {Commands[i] : i \in 1..Len(Commands)} \union {"interpret"}]
Marked == SUBSET Mark
Database == {Missing, Damaged} \union Marked
Log == [over : Database, adds : Marked]
Disk == [file : Database, log : {Missing} \union Log]
Steps == {"idle", "work", "save", "status", "pull", "check", "install", "sweep",
          "interpret", "push", "compare", "put", "sign", "ship"}

ASSUME PublicationConstants ==
  /\ Commands \in Seq(STRING) /\ Len(Commands) > 0
  /\ MaxRuns \in Nat /\ MaxFaults \in Nat
  /\ Missing # Damaged /\ \A c \in Marked : c # Missing /\ c # Damaged

PublicationTypeOK ==
  /\ db \in Database /\ sum \in Database /\ cache \in Database /\ image \in Database
  /\ disk \in [Machines -> Disk]
  /\ job \in [Machines -> {"interpret", "deploy"}]
  /\ at \in [Machines -> Steps]
  /\ body \in [Machines -> Database]
  /\ turn \in 1..Len(Commands) /\ ok \in BOOLEAN
  /\ runs \in 0..MaxRuns /\ faults \in 0..MaxFaults
  /\ released \in SUBSET Database /\ lost \in Marked /\ unsure \in BOOLEAN

NoFile == [file |-> Missing, log |-> Missing]

\* Nothing published yet, or one refresh published and deployed.
PublicationInit ==
  /\ db \in {Missing, {[run |-> 0, did |-> Commands[i]] : i \in 1..Len(Commands)}}
  /\ sum = db /\ cache = db /\ image = db
  /\ disk = [m \in Machines |-> NoFile]
  /\ job = [m \in Machines |-> IF m = "interpreter" THEN "interpret" ELSE "deploy"]
  /\ at = [m \in Machines |-> "idle"]
  /\ body = [m \in Machines |-> Missing]
  /\ turn = 1 /\ ok = TRUE
  /\ runs = 0 /\ faults = 0
  /\ released = {db} /\ lost = {} /\ unsure = FALSE

-----------------------------------------------------------------------------
(* SQLite. *)

Marks(c) == IF c \in {Missing, Damaged} THEN {} ELSE c

\* What opening the file finds: whatever log is beside it is applied.
Whole(d) ==
  IF d.log = Missing THEN d.file
  ELSE IF d.file = Damaged \/ d.log.over # d.file THEN Damaged
  ELSE Marks(d.file) \union d.log.adds

With(c, S) == IF c = Damaged THEN Damaged ELSE Marks(c) \union S

\* A command that ended (closeDb), and one that died having committed S.
Ended(d, S) == [file |-> With(Whole(d), S), log |-> Missing]
Died(d, S) ==
  IF Whole(d) = Damaged THEN Ended(d, {})
  ELSE [file |-> d.file, log |-> [over |-> d.file, adds |-> Marks(Whole(d)) \union S]]

Fault == faults < MaxFaults /\ faults' = faults + 1

Go(m, s) == at' = [at EXCEPT ![m] = s]
Leaves(m, d) == disk' = [disk EXCEPT ![m] = d]

-----------------------------------------------------------------------------
(* refresh.yml *)

FreeRegardless(m) == at[m] = "idle"  \* mutant: the workflows are not one group
FreeGroup(m) == \A n \in Group : at[n] = "idle"

BeginJob(m, d, s) ==
  /\ FreeGroup(m) /\ runs < MaxRuns
  /\ runs' = runs + 1
  /\ Leaves(m, d) /\ Go(m, s)

StartRefresh ==
  /\ BeginJob("refresher", [NoFile EXCEPT !.file = cache], "work")
  /\ turn' = 1 /\ ok' = TRUE
  /\ UNCHANGED <<bucket, cache, job, body, image, faults, history>>

\* One command over every town: it ends, or dies and fails the job, unless it
\* is the last.
Work ==
  LET mark == [run |-> runs, did |-> Commands[turn]]
      last == turn = Len(Commands)
  IN
  /\ at["refresher"] = "work"
  /\ \/ /\ Leaves("refresher", Ended(disk["refresher"], {mark}))
        /\ IF last THEN Go("refresher", "save") /\ turn' = turn ELSE turn' = turn + 1 /\ at' = at
        /\ UNCHANGED <<ok, faults>>
     \/ /\ Fault
        /\ \E S \in SUBSET {mark} : Leaves("refresher", Died(disk["refresher"], S))
        /\ ok' = last
        /\ Go("refresher", "save") /\ turn' = turn
  /\ UNCHANGED <<bucket, cache, job, body, image, runs, history>>

\* if: always().  A save that fails only warns.
Save ==
  /\ at["refresher"] = "save"
  /\ \/ cache' = disk["refresher"].file /\ UNCHANGED <<faults, lost>>
     \/ Fault /\ lost' = lost \union Marks(disk["refresher"].file) /\ cache' = cache
  /\ Go("refresher", "status")
  /\ UNCHANGED <<bucket, disk, job, body, turn, ok, image, runs, released, unsure>>

StatusUnclosed(d) == d  \* mutant: the log is left where it is
StatusOf(d) == Ended(d, {})

\* if: always().  It opens the database, closes it, and fails on a problem;
\* publication follows only if nothing failed.
Status ==
  /\ at["refresher"] = "status"
  /\ Leaves("refresher", StatusOf(disk["refresher"]))
  /\ \E problem \in BOOLEAN :
       /\ ok' = (ok /\ ~problem)
       /\ Go("refresher", IF ok' THEN "push" ELSE "idle")
  /\ UNCHANGED <<bucket, cache, job, body, turn, image, runs, faults, history>>

Evict ==
  /\ Fault /\ cache # Missing
  /\ cache' = Missing /\ lost' = lost \union Marks(cache)
  /\ UNCHANGED <<bucket, machine, turn, ok, image, runs, released, unsure>>

-----------------------------------------------------------------------------
(* interpret.yml, deploy.yml, and the same by hand. *)

StartInterpret ==
  /\ BeginJob("interpreter", NoFile, "pull")
  /\ UNCHANGED <<bucket, refresh, job, body, image, faults, history>>

StartDeploy ==
  /\ at["deployer"] = "idle"
  /\ Leaves("deployer", NoFile) /\ Go("deployer", "pull")
  /\ UNCHANGED <<bucket, refresh, job, body, image, runs, faults, history>>

\* An operator pulls, and interprets or deploys; or starts from what the disk
\* holds.  What a command left unfinished is not published or deployed.
Operate ==
  /\ at["laptop"] = "idle"
  /\ \/ \E kind \in {"interpret", "deploy"} :
          job' = [job EXCEPT !["laptop"] = kind] /\ Go("laptop", "pull")
        /\ UNCHANGED released
     \/ /\ disk["laptop"].file # Missing
        /\ job' = [job EXCEPT !["laptop"] = "interpret"] /\ Go("laptop", "interpret")
        /\ UNCHANGED released
     \/ /\ disk["laptop"].file # Missing /\ disk["laptop"].log = Missing
        /\ job' = job
        /\ \/ Go("laptop", "push") /\ UNCHANGED released
           \/ Go("laptop", "ship") /\ released' = released \union {disk["laptop"].file}
  /\ UNCHANGED <<bucket, refresh, disk, body, image, runs, faults, lost, unsure>>

Interpret(m) ==
  /\ at[m] = "interpret"
  /\ m = "laptop" => runs < MaxRuns
  /\ runs' = IF m = "laptop" THEN runs + 1 ELSE runs
  /\ LET mark == [run |-> runs', did |-> "interpret"] IN
     \/ Leaves(m, Ended(disk[m], {mark})) /\ Go(m, "push") /\ UNCHANGED faults
     \/ /\ Fault
        /\ \E S \in SUBSET {mark} : Leaves(m, Died(disk[m], S))
        /\ Go(m, "idle")
  /\ UNCHANGED <<bucket, refresh, job, body, image, history>>

Ship(m) ==
  /\ at[m] = "ship"
  /\ image' = disk[m].file
  /\ Go(m, "idle")
  /\ UNCHANGED <<bucket, refresh, disk, job, body, runs, faults, history>>

-----------------------------------------------------------------------------
(* snapshot --pull *)

PullBody(m) ==
  /\ at[m] = "pull"
  /\ \/ db # Missing /\ body' = [body EXCEPT ![m] = db] /\ Go(m, "check") /\ UNCHANGED faults
     \/ db # Missing /\ Fault /\ body' = [body EXCEPT ![m] = Damaged] /\ Go(m, "check")
     \/ db = Missing /\ Go(m, "idle") /\ UNCHANGED <<body, faults>>
     \/ Fault /\ Go(m, "idle") /\ UNCHANGED body
  /\ UNCHANGED <<bucket, refresh, disk, job, image, runs, history>>

Refused(c) == sum # Missing /\ sum # c
\* A digest that cannot be read is taken for one that is not there.
Check(m) ==
  /\ at[m] = "check"
  /\ \/ /\ Go(m, IF Refused(body[m]) THEN "idle" ELSE "install")
        /\ unsure' = (unsure \/ sum = Missing)
        /\ UNCHANGED faults
     \/ Fault /\ Go(m, "install") /\ unsure' = TRUE
  /\ UNCHANGED <<bucket, refresh, disk, job, body, image, runs, released, lost>>

\* Written beside and renamed.
Install(m) ==
  /\ at[m] = "install"
  /\ disk' = [disk EXCEPT ![m].file = body[m]]
  /\ Go(m, "sweep")
  /\ UNCHANGED <<bucket, refresh, job, body, image, runs, faults, history>>

Swept(d) == [d EXCEPT !.log = Missing]

Sweep(m) ==
  /\ at[m] = "sweep"
  /\ Leaves(m, Swept(disk[m]))
  /\ Go(m, IF job[m] = "deploy" THEN "ship" ELSE "interpret")
  /\ UNCHANGED <<bucket, refresh, job, body, image, runs, faults, history>>

-----------------------------------------------------------------------------
(* snapshot *)

\* The file as it is, without opening it.
Push(m) ==
  /\ at[m] = "push"
  /\ body' = [body EXCEPT ![m] = disk[m].file]
  /\ released' = released \union {Whole(disk[m])}
  /\ Go(m, "compare")
  /\ UNCHANGED <<bucket, refresh, disk, job, image, runs, faults, lost, unsure>>

Compare(m) ==
  /\ at[m] = "compare"
  /\ \/ Go(m, IF sum = body[m] THEN "idle" ELSE "put") /\ UNCHANGED faults
     \/ Fault /\ Go(m, "put")
  /\ UNCHANGED <<bucket, refresh, disk, job, body, image, runs, history>>

\* Two objects; a request that fails may have been carried out.
Put(m) ==
  /\ at[m] = "put"
  /\ \/ db' = body[m] /\ Go(m, "sign") /\ UNCHANGED faults
     \/ Fault /\ db' \in {db, body[m]} /\ Go(m, "idle")
  /\ UNCHANGED <<sum, refresh, disk, job, body, image, runs, history>>

Sign(m) ==
  /\ at[m] = "sign"
  /\ \/ sum' = body[m] /\ UNCHANGED faults
     \/ Fault /\ sum' \in {sum, body[m]}
  /\ Go(m, "idle")
  /\ UNCHANGED <<db, refresh, disk, job, body, image, runs, history>>

\* A machine stops; only the laptop's disk is seen again.
Kill(m) ==
  /\ at[m] # "idle" /\ Fault
  /\ Go(m, "idle")
  /\ unsure' = (unsure \/ at[m] = "sweep")
  /\ UNCHANGED <<bucket, refresh, disk, job, body, image, runs, released, lost>>

-----------------------------------------------------------------------------

PublicationNext ==
  \/ StartRefresh \/ Work \/ Save \/ Status \/ Evict
  \/ StartInterpret \/ StartDeploy \/ Operate
  \/ \E m \in Machines :
       \/ PullBody(m) \/ Check(m) \/ Install(m) \/ Sweep(m)
       \/ Interpret(m) \/ Ship(m)
       \/ Push(m) \/ Compare(m) \/ Put(m) \/ Sign(m) \/ Kill(m)

PublicationSpec == PublicationInit /\ [][PublicationNext]_publicationVars
=============================================================================
