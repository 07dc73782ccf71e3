--------------------------- MODULE PublicSideProofs -------------------------
(***************************************************************************)
(* What is proved of the public side: of Publication, that the image       *)
(* served is a database somebody released and that the workflows'          *)
(* publications only add; of Reading, for any archive, any instance of its *)
(* page sizes and any order of commits, clocks and answers, that what a    *)
(* screen or a page shows is what the archive says.                        *)
(***************************************************************************)
EXTENDS PublicationProps, ReadingProps, FiniteSetTheorems, FunctionTheorems, SequenceTheorems, TLAPS

-----------------------------------------------------------------------------
(* Publication: the inductive invariant. *)

\* Who takes which steps, and that the two workflows take turns.
Refreshing == {"work", "save", "status", "push", "compare", "put", "sign"}
Pulling == {"pull", "check", "install", "sweep"}
Pushing == {"push", "compare", "put", "sign"}

Roles ==
  /\ at["refresher"] \in {"idle"} \union Refreshing
  /\ at["interpreter"] \in {"idle", "interpret"} \union Pulling \union Pushing
  /\ at["deployer"] \in {"idle", "ship"} \union Pulling
  /\ at["laptop"] \in {"idle", "interpret", "ship"} \union Pulling \union Pushing
  /\ job["interpreter"] = "interpret" /\ job["deployer"] = "deploy"
  /\ at["refresher"] = "idle" \/ at["interpreter"] = "idle"

\* Whose log lies beside a file, and when there is none.
Bare == {"work", "push", "compare", "put", "sign", "ship"}

CleanAt(m) ==
  /\ disk[m].file # Damaged
  /\ at[m] # "sweep" /\ disk[m].log # Missing => disk[m].log.over = disk[m].file
  /\ at[m] \in Bare => disk[m].log = Missing
  /\ at[m] \in Pushing \union {"ship"} => disk[m].file # Missing
  /\ m = "interpreter" /\ at[m] # "idle" => disk[m].log = Missing

Clean == cache # Damaged /\ \A m \in Machines : CleanAt(m)

\* A whole database somebody set out to publish: what passed the digest is one.
Sound(c) == c \in released /\ c # Damaged /\ c # Missing

TrustedAt(m) ==
  /\ at[m] \in {"install", "compare", "put", "sign"} => Sound(body[m])
  /\ at[m] \in {"sweep", "ship"} => Sound(disk[m].file)

Trusted ==
  /\ sum # Missing => Sound(sum)
  /\ image # Missing => Sound(image)
  /\ \A m \in Machines : TrustedAt(m)

\* All that is published is in the cache, or was lost with it.
Published == Required(db) \subseteq Marks(cache) \union lost

\* A refresh grows over the cache and saves what it will publish.
RefresherCarries ==
  /\ at["refresher"] \in {"work", "save"} => Marks(cache) \subseteq Marks(disk["refresher"].file)
  /\ at["refresher"] \in {"save", "status"} /\ ok /\ disk["refresher"].log # Missing =>
       Required(disk["refresher"].log.adds) \subseteq Marks(disk["refresher"].file)
  /\ at["refresher"] \in {"status", "push"} =>
       /\ Required(cache) \subseteq Marks(disk["refresher"].file)
       /\ Required(disk["refresher"].file) \subseteq Marks(cache) \union lost
  /\ at["refresher"] \in {"compare", "put", "sign"} =>
       /\ Required(cache) \subseteq Marks(body["refresher"])
       /\ Required(body["refresher"]) \subseteq Marks(cache) \union lost

\* The interpreter holds all that was published when it pulled, and since: of
\* the others only a laptop publishes meanwhile.
Hand == IF at["interpreter"] \in {"sweep", "interpret", "push"} THEN disk["interpreter"].file
        ELSE body["interpreter"]

InterpreterCarries ==
  at["interpreter"] \notin {"idle", "pull"} =>
    /\ Hand = Damaged \/ Required(db) \subseteq Marks(Hand) \union lost
    /\ Required(Hand) \subseteq Marks(cache) \union lost

\* A laptop holds nothing that was not published.
LaptopCarries ==
  /\ Required(body["laptop"]) \subseteq Marks(db) \union lost
  /\ Required(disk["laptop"].file) \subseteq Marks(db) \union lost
  /\ disk["laptop"].log # Missing => Required(disk["laptop"].log.adds) \subseteq Marks(db) \union lost
  /\ at["laptop"] \in {"compare", "put", "sign"} => body["laptop"] = disk["laptop"].file

Carried == Published /\ RefresherCarries /\ InterpreterCarries /\ LaptopCarries

PublicationInv == PublicationTypeOK /\ Roles /\ (~unsure => Clean /\ Trusted /\ Carried)

-----------------------------------------------------------------------------
(* SQLite's files keep their type. *)

\* Marks are marks.
LEMMA MarksType ==
  ASSUME NEW c \in Database
  PROVE  Marks(c) \in Marked
<1>1. \A x \in Marked : x # Missing /\ x # Damaged BY PublicationConstants
<1> QED BY <1>1, SMT DEF Marks, Database, Marked

\* A database that is written to is a database.
LEMMA WithType ==
  ASSUME NEW c \in Database, NEW S \in Marked
  PROVE  /\ With(c, S) \in Database
         /\ c # Damaged => With(c, S) = Marks(c) \union S /\ With(c, S) \in Marked
         /\ With(c, S) # Missing
<1>1. Marks(c) \union S \in Marked BY MarksType DEF Marked
<1>2. \A x \in Marked : x # Missing /\ x # Damaged BY PublicationConstants
<1>3. Missing # Damaged BY PublicationConstants
<1> QED BY <1>1, <1>2, <1>3 DEF With, Database

\* A file with a log of its own, or none, is whole.
LEMMA WholeType ==
  ASSUME NEW d \in Disk
  PROVE  /\ Whole(d) \in Database
         /\ d.log = Missing => Whole(d) = d.file
         /\ d.log # Missing /\ d.log.over = d.file /\ d.file # Damaged =>
              Whole(d) = Marks(d.file) \union d.log.adds /\ Whole(d) \in Marked
<1>1. d.file \in Database /\ (d.log # Missing => d.log.adds \in Marked) BY DEF Disk, Log
<1>2. CASE d.log = Missing BY <1>1, <1>2 DEF Whole
<1>3. CASE d.log # Missing
  <2>1. Marks(d.file) \union d.log.adds \in Marked BY <1>1, <1>3, MarksType DEF Marked
  <2> QED BY <1>1, <1>3, <2>1 DEF Whole, Database
<1> QED BY <1>2, <1>3

\* A disk stays a disk, however a command leaves it.
LEMMA EndedType ==
  ASSUME NEW d \in Disk, NEW S \in Marked
  PROVE  Ended(d, S) \in Disk
BY WholeType, WithType DEF Ended, Disk

\* Also when the command dies.
LEMMA DiedType ==
  ASSUME NEW d \in Disk, NEW S \in Marked
  PROVE  Died(d, S) \in Disk
<1>1. {} \in Marked BY DEF Marked
<1>2. Ended(d, {}) \in Disk BY <1>1, EndedType
<1>3. Marks(Whole(d)) \union S \in Marked BY WholeType, MarksType DEF Marked
<1>4. [over |-> d.file, adds |-> Marks(Whole(d)) \union S] \in Log BY <1>3 DEF Log, Disk
<1>5. [file |-> d.file, log |-> [over |-> d.file, adds |-> Marks(Whole(d)) \union S]] \in Disk
  BY <1>4 DEF Disk
<1> QED BY <1>2, <1>5 DEF Died

\* The mark of a command is one.
LEMMA MarkType ==
  ASSUME NEW k \in 0..MaxRuns, NEW i \in 1..Len(Commands)
  PROVE  /\ [run |-> k, did |-> Commands[i]] \in Mark
         /\ [run |-> k, did |-> "interpret"] \in Mark
BY DEF Mark

\* The types hold at first.
LEMMA InitType == PublicationInit => PublicationTypeOK
<1> SUFFICES ASSUME PublicationInit PROVE PublicationTypeOK OBVIOUS
<1>1. db \in Database
  <2>1. 0 \in 0..MaxRuns BY PublicationConstants
  <2>2. \A i \in 1..Len(Commands) : [run |-> 0, did |-> Commands[i]] \in Mark BY <2>1, MarkType
  <2>3. {[run |-> 0, did |-> Commands[i]] : i \in 1..Len(Commands)} \in Marked BY <2>2 DEF Marked
  <2> QED BY <2>3 DEF PublicationInit, Database
<1>2. NoFile \in Disk BY DEF NoFile, Disk, Database
<1>3. 1 \in 1..Len(Commands) BY PublicationConstants
<1>4. disk \in [Machines -> Disk] /\ body \in [Machines -> Database]
  BY <1>2 DEF PublicationInit, Database
<1>5. at \in [Machines -> Steps] /\ job \in [Machines -> {"interpret", "deploy"}]
  BY DEF PublicationInit, Steps
<1>6. runs \in 0..MaxRuns /\ faults \in 0..MaxFaults BY PublicationConstants DEF PublicationInit
<1> QED BY <1>1, <1>3, <1>4, <1>5, <1>6 DEF PublicationInit, PublicationTypeOK, Marked

\* Steps, disks and faults are counted within their types.
LEMMA Bookkeeping ==
  ASSUME PublicationTypeOK, NEW m \in Machines, NEW s \in Steps, NEW d \in Disk
  PROVE  /\ Go(m, s) => at' \in [Machines -> Steps]
         /\ Leaves(m, d) => disk' \in [Machines -> Disk]
         /\ Fault => faults' \in 0..MaxFaults
BY PublicationConstants DEF PublicationTypeOK, Go, Leaves, Fault

\* Every step keeps the types.
LEMMA TypeStep == PublicationTypeOK /\ [PublicationNext]_publicationVars => PublicationTypeOK'
<1> SUFFICES ASSUME PublicationTypeOK, [PublicationNext]_publicationVars PROVE PublicationTypeOK' OBVIOUS
<1> USE PublicationConstants
<1>0. {"refresher", "interpreter", "deployer", "laptop"} = Machines BY DEF Machines, Group
<1>1. CASE UNCHANGED publicationVars BY <1>1 DEF PublicationTypeOK, publicationVars, bucket, machine, refresh, history
<1>b. ASSUME NEW m \in Machines, NEW d, NEW s \in Steps, d \in Disk, BeginJob(m, d, s)
      PROVE  runs' \in 0..MaxRuns /\ disk' \in [Machines -> Disk] /\ at' \in [Machines -> Steps]
  BY <1>b, Bookkeeping DEF BeginJob, PublicationTypeOK
<1>2. CASE StartRefresh
  <2>1. [NoFile EXCEPT !.file = cache] \in Disk BY DEF PublicationTypeOK, NoFile, Disk
  <2>2. "refresher" \in Machines /\ "work" \in Steps BY <1>0 DEF Steps
  <2>3. 1 \in 1..Len(Commands) OBVIOUS
  <2> QED BY <1>2, <1>b, <2>1, <2>2, <2>3 DEF StartRefresh, PublicationTypeOK, bucket, history
<1>3. CASE Work
  <2> DEFINE mark == [run |-> runs, did |-> Commands[turn]]
  <2>1. mark \in Mark /\ disk["refresher"] \in Disk BY <1>0, MarkType DEF PublicationTypeOK
  <2>2. {mark} \in Marked /\ \A S \in SUBSET {mark} : S \in Marked BY <2>1 DEF Marked
  <2>3. disk' \in [Machines -> Disk]
    BY <1>0, <1>3, <2>1, <2>2, EndedType, DiedType DEF Work, Leaves, PublicationTypeOK
  <2>4. at' \in [Machines -> Steps] /\ turn' \in 1..Len(Commands)
    BY <1>0, <1>3 DEF Work, Go, PublicationTypeOK, Steps
  <2>5. faults' \in 0..MaxFaults BY <1>3 DEF Work, Fault, PublicationTypeOK
  <2>6. ok' \in BOOLEAN
    <3>1. ok' = (turn = Len(Commands)) \/ ok' = ok BY <1>3, Zenon DEF Work
    <3> QED BY <3>1 DEF PublicationTypeOK
  <2> QED BY <1>3, <2>3, <2>4, <2>5, <2>6 DEF Work, PublicationTypeOK, bucket, history
<1>4. CASE Save
  <2>1. disk["refresher"].file \in Database BY <1>0 DEF PublicationTypeOK, Disk
  <2>2. cache' \in Database /\ lost' \in Marked
    BY <1>4, <2>1, MarksType DEF Save, PublicationTypeOK, Marked
  <2>3. "refresher" \in Machines /\ "status" \in Steps BY <1>0 DEF Steps
  <2> QED BY <1>4, <2>2, <2>3, Bookkeeping DEF Save, PublicationTypeOK, bucket, Go, Fault
<1>5. CASE Status
  <2>1. StatusOf(disk["refresher"]) \in Disk BY <1>0, EndedType DEF PublicationTypeOK, StatusOf, Marked
  <2>2. disk' \in [Machines -> Disk] BY <1>5, <2>1, <1>0 DEF Status, Leaves, PublicationTypeOK
  <2>3. at' \in [Machines -> Steps] /\ ok' \in BOOLEAN BY <1>5, <1>0 DEF Status, Go, PublicationTypeOK, Steps
  <2> QED BY <1>5, <2>2, <2>3 DEF Status, PublicationTypeOK, bucket, history
<1>6. CASE Evict
  <2>1. cache' \in Database /\ lost' \in Marked
    BY <1>6, MarksType DEF Evict, PublicationTypeOK, Marked, Database
  <2> QED BY <1>6, <2>1 DEF Evict, Fault, PublicationTypeOK, bucket, machine
<1>7. CASE StartInterpret
  <2>1. NoFile \in Disk BY DEF NoFile, Disk, Database
  <2>2. "interpreter" \in Machines /\ "pull" \in Steps BY <1>0 DEF Steps
  <2> QED BY <1>7, <1>b, <2>1, <2>2 DEF StartInterpret, PublicationTypeOK, bucket, refresh, history
<1>8. CASE StartDeploy
  <2>1. NoFile \in Disk BY DEF NoFile, Disk, Database
  <2>2. "deployer" \in Machines /\ "pull" \in Steps BY <1>0 DEF Steps
  <2> QED BY <1>8, <2>1, <2>2, Bookkeeping DEF StartDeploy, PublicationTypeOK, bucket, refresh, history
<1>9. CASE Operate
  <2>1. at' \in [Machines -> Steps] BY <1>9, <1>0 DEF Operate, Go, PublicationTypeOK, Steps
  <2>2. job' \in [Machines -> {"interpret", "deploy"}] BY <1>9, <1>0 DEF Operate, PublicationTypeOK
  <2>3. released' \in SUBSET Database BY <1>9, <1>0 DEF Operate, PublicationTypeOK, Disk
  <2> QED BY <1>9, <2>1, <2>2, <2>3 DEF Operate, PublicationTypeOK, bucket, refresh
<1>10. ASSUME NEW m \in Machines,
              \/ PullBody(m) \/ Check(m) \/ Install(m) \/ Sweep(m)
              \/ Interpret(m) \/ Ship(m)
              \/ Push(m) \/ Compare(m) \/ Put(m) \/ Sign(m) \/ Kill(m)
       PROVE  PublicationTypeOK'
  <2> DEFINE d == disk[m]
  <2>0. d \in Disk /\ d.file \in Database /\ body[m] \in Database BY DEF PublicationTypeOK, Disk
  <2>1. CASE PullBody(m)
    <3>1. at' \in [Machines -> Steps] BY <2>1 DEF PullBody, Go, PublicationTypeOK, Steps
    <3>2. body' \in [Machines -> Database] BY <2>1 DEF PullBody, PublicationTypeOK, Database
    <3> QED BY <2>1, <3>1, <3>2 DEF PullBody, PublicationTypeOK, Fault, bucket, refresh, history
  <2>2. CASE Check(m)
    <3>1. at' \in [Machines -> Steps] BY <2>2 DEF Check, Go, PublicationTypeOK, Steps
    <3>2. unsure' \in BOOLEAN
      <4>1. unsure' = (unsure \/ sum = Missing) \/ unsure' = TRUE BY <2>2, Zenon DEF Check
      <4> QED BY <4>1 DEF PublicationTypeOK
    <3>3. faults' \in 0..MaxFaults BY <2>2 DEF Check, Fault, PublicationTypeOK
    <3> QED BY <2>2, <3>1, <3>2, <3>3 DEF Check, PublicationTypeOK, bucket, refresh
  <2>3. CASE Install(m)
    <3>1. at' \in [Machines -> Steps] BY <2>3 DEF Install, Go, PublicationTypeOK, Steps
    <3>2. [d EXCEPT !.file = body[m]] \in Disk BY <2>0 DEF Disk
    <3>3. disk' = [disk EXCEPT ![m] = [d EXCEPT !.file = body[m]]] BY <2>3 DEF Install
    <3>4. disk' \in [Machines -> Disk] BY <3>2, <3>3 DEF PublicationTypeOK
    <3> QED BY <2>3, <3>1, <3>4 DEF Install, PublicationTypeOK, bucket, refresh, history
  <2>4. CASE Sweep(m)
    <3>1. at' \in [Machines -> Steps] BY <2>4 DEF Sweep, Go, PublicationTypeOK, Steps
    <3>2. Swept(d) \in Disk BY <2>0 DEF Disk, Swept
    <3> QED BY <2>4, <3>1, <3>2 DEF Sweep, Leaves, PublicationTypeOK, bucket, refresh, history
  <2>5. CASE Interpret(m)
    <3> DEFINE mark == [run |-> runs', did |-> "interpret"]
    <3>0. runs' \in 0..MaxRuns /\ 1 \in 1..Len(Commands) BY <2>5 DEF Interpret, PublicationTypeOK
    <3>1. mark \in Mark BY <3>0, MarkType
    <3>2. {mark} \in Marked /\ \A S \in SUBSET {mark} : S \in Marked BY <3>1 DEF Marked
    <3>3. at' \in [Machines -> Steps] BY <2>5 DEF Interpret, Go, PublicationTypeOK, Steps
    <3>4. disk' \in [Machines -> Disk]
      BY <2>0, <2>5, <3>2, EndedType, DiedType DEF Interpret, Leaves, PublicationTypeOK
    <3> QED BY <2>5, <3>0, <3>3, <3>4 DEF Interpret, PublicationTypeOK, Fault, bucket, refresh, history
  <2>6. CASE Ship(m)
    <3>1. at' \in [Machines -> Steps] BY <2>6 DEF Ship, Go, PublicationTypeOK, Steps
    <3> QED BY <2>0, <2>6, <3>1 DEF Ship, PublicationTypeOK, bucket, refresh, history
  <2>7. CASE Push(m)
    <3>1. at' \in [Machines -> Steps] BY <2>7 DEF Push, Go, PublicationTypeOK, Steps
    <3>2. Whole(d) \in Database BY <2>0, WholeType
    <3> QED BY <2>0, <2>7, <3>1, <3>2 DEF Push, PublicationTypeOK, bucket, refresh
  <2>8. CASE Compare(m)
    <3>1. at' \in [Machines -> Steps] BY <2>8 DEF Compare, Go, PublicationTypeOK, Steps
    <3> QED BY <2>8, <3>1 DEF Compare, PublicationTypeOK, Fault, bucket, refresh, history
  <2>9. CASE Put(m)
    <3>1. at' \in [Machines -> Steps] BY <2>9 DEF Put, Go, PublicationTypeOK, Steps
    <3> QED BY <2>0, <2>9, <3>1 DEF Put, PublicationTypeOK, Fault, refresh, history
  <2>10. CASE Sign(m)
    <3>1. at' \in [Machines -> Steps] BY <2>10 DEF Sign, Go, PublicationTypeOK, Steps
    <3> QED BY <2>0, <2>10, <3>1 DEF Sign, PublicationTypeOK, Fault, refresh, history
  <2>11. CASE Kill(m)
    <3>1. at' \in [Machines -> Steps] BY <2>11 DEF Kill, Go, PublicationTypeOK, Steps
    <3> QED BY <2>11, <3>1 DEF Kill, PublicationTypeOK, Fault, bucket, refresh
  <2> QED BY <1>10, <2>1, <2>2, <2>3, <2>4, <2>5, <2>6, <2>7, <2>8, <2>9, <2>10, <2>11
<1> QED BY <1>1, <1>2, <1>3, <1>4, <1>5, <1>6, <1>7, <1>8, <1>9, <1>10 DEF PublicationNext

\* At first every machine is idle.
LEMMA RolesInit == PublicationInit => Roles
BY DEF PublicationInit, Roles, Machines, Group

\* The machines, one by one.
LEMMA FourMachines == Machines = {"refresher", "interpreter", "deployer", "laptop"}
BY DEF Machines, Group

\* Every step moves one machine on, and only from and to its own steps.
LEMMA RolesStep == PublicationTypeOK /\ Roles /\ [PublicationNext]_publicationVars => Roles'
<1> SUFFICES ASSUME PublicationTypeOK, Roles, [PublicationNext]_publicationVars PROVE Roles' OBVIOUS
<1> USE FourMachines DEF Refreshing, Pulling, Pushing
<1>0. at \in [Machines -> Steps] /\ job \in [Machines -> {"interpret", "deploy"}] BY DEF PublicationTypeOK
<1>1. CASE UNCHANGED publicationVars BY <1>1 DEF Roles, publicationVars, machine
<1>2. CASE StartRefresh
  <2>1. at["refresher"] = "idle" /\ at["interpreter"] = "idle"
    BY <1>2 DEF StartRefresh, BeginJob, FreeGroup, Group
  <2>2. at' = [at EXCEPT !["refresher"] = "work"] /\ job' = job
    BY <1>2 DEF StartRefresh, BeginJob, Go
  <2> QED BY <1>0, <2>1, <2>2 DEF Roles
<1>3. CASE Work
  <2>1. at["refresher"] = "work" /\ job' = job BY <1>3 DEF Work
  <2>2. at' = at \/ at' = [at EXCEPT !["refresher"] = "save"] BY <1>3 DEF Work, Go
  <2> QED BY <1>0, <2>1, <2>2 DEF Roles
<1>4. CASE Save
  <2>1. at["refresher"] = "save" /\ job' = job BY <1>4 DEF Save
  <2>2. at' = [at EXCEPT !["refresher"] = "status"] BY <1>4 DEF Save, Go
  <2> QED BY <1>0, <2>1, <2>2 DEF Roles
<1>5. CASE Status
  <2>1. at["refresher"] = "status" /\ job' = job BY <1>5 DEF Status
  <2>2. at' = [at EXCEPT !["refresher"] = "push"] \/ at' = [at EXCEPT !["refresher"] = "idle"]
    BY <1>5 DEF Status, Go
  <2> QED BY <1>0, <2>1, <2>2 DEF Roles
<1>6. CASE Evict BY <1>6 DEF Evict, machine, Roles
<1>7. CASE StartInterpret
  <2>1. at["refresher"] = "idle" /\ at["interpreter"] = "idle"
    BY <1>7 DEF StartInterpret, BeginJob, FreeGroup, Group
  <2>2. at' = [at EXCEPT !["interpreter"] = "pull"] /\ job' = job
    BY <1>7 DEF StartInterpret, BeginJob, Go
  <2> QED BY <1>0, <2>1, <2>2 DEF Roles
<1>8. CASE StartDeploy
  <2>1. at' = [at EXCEPT !["deployer"] = "pull"] /\ job' = job BY <1>8 DEF StartDeploy, Go
  <2> QED BY <1>0, <2>1 DEF Roles
<1>9. CASE Operate
  <2>1. \E s \in {"pull", "interpret", "push", "ship"} : at' = [at EXCEPT !["laptop"] = s]
    BY <1>9 DEF Operate, Go
  <2>2. job' = job \/ \E k \in {"interpret", "deploy"} : job' = [job EXCEPT !["laptop"] = k]
    BY <1>9 DEF Operate
  <2> QED BY <1>0, <2>1, <2>2 DEF Roles
<1>10. ASSUME NEW m \in Machines,
              \/ PullBody(m) \/ Check(m) \/ Install(m) \/ Sweep(m)
              \/ Interpret(m) \/ Ship(m)
              \/ Push(m) \/ Compare(m) \/ Put(m) \/ Sign(m) \/ Kill(m)
       PROVE  Roles'
  <2>0. job' = job
    BY <1>10 DEF PullBody, Check, Install, Sweep, Interpret, Ship, Push, Compare, Put, Sign, Kill
  <2>1. at[m] # "idle"
    BY <1>10 DEF PullBody, Check, Install, Sweep, Interpret, Ship, Push, Compare, Put, Sign, Kill
  <2>2. CASE at' = [at EXCEPT ![m] = "idle"] BY <1>0, <2>0, <2>2 DEF Roles
  <2>3. CASE at[m] = "pull" /\ at' = [at EXCEPT ![m] = "check"] BY <1>0, <2>0, <2>3 DEF Roles
  <2>4. CASE at[m] = "check" /\ at' = [at EXCEPT ![m] = "install"] BY <1>0, <2>0, <2>4 DEF Roles
  <2>5. CASE at[m] = "install" /\ at' = [at EXCEPT ![m] = "sweep"] BY <1>0, <2>0, <2>5 DEF Roles
  <2>6. CASE /\ at[m] = "sweep"
             /\ at' = [at EXCEPT ![m] = IF job[m] = "deploy" THEN "ship" ELSE "interpret"]
    BY <1>0, <2>0, <2>6 DEF Roles
  <2>7. CASE at[m] = "interpret" /\ at' = [at EXCEPT ![m] = "push"] BY <1>0, <2>0, <2>7 DEF Roles
  <2>8. CASE /\ at[m] \in {"push", "compare", "put"}
             /\ \E s \in {"compare", "put", "sign"} : at' = [at EXCEPT ![m] = s]
    BY <1>0, <2>0, <2>8 DEF Roles
  <2>p. ASSUME PullBody(m) PROVE Roles' BY <2>p, <2>2, <2>3 DEF PullBody, Go
  <2>c. ASSUME Check(m) PROVE Roles' BY <2>c, <2>2, <2>4 DEF Check, Go
  <2>o. ASSUME Compare(m) PROVE Roles' BY <2>o, <2>2, <2>8 DEF Compare, Go
  <2>t. ASSUME Put(m) PROVE Roles' BY <2>t, <2>2, <2>8 DEF Put, Go
  <2>s. ASSUME Push(m) PROVE Roles' BY <2>s, <2>8 DEF Push, Go
  <2>i. ASSUME Interpret(m) PROVE Roles' BY <2>i, <2>2, <2>7 DEF Interpret, Go
  <2>9. CASE Install(m) BY <2>9, <2>5 DEF Install, Go
  <2>10. CASE Sweep(m) BY <2>10, <2>6 DEF Sweep, Go
  <2>11. CASE Ship(m) \/ Sign(m) \/ Kill(m) BY <2>11, <2>2 DEF Ship, Sign, Kill, Go
  <2> QED BY <1>10, <2>p, <2>c, <2>o, <2>t, <2>s, <2>i, <2>9, <2>10, <2>11
<1> QED BY <1>1, <1>2, <1>3, <1>4, <1>5, <1>6, <1>7, <1>8, <1>9, <1>10 DEF PublicationNext

-----------------------------------------------------------------------------
(* Files and logs. *)

\* Opening a file beside its own log, or none: a command that ends leaves the
\* two in one file, one that dies leaves the file as it was.
LEMMA Opening ==
  ASSUME NEW d \in Disk, NEW S \in Marked,
         d.file # Damaged, d.log # Missing => d.log.over = d.file
  PROVE  /\ Whole(d) # Damaged
         /\ Marks(d.file) \subseteq Marks(Whole(d))
         /\ d.log = Missing => Whole(d) = d.file
         /\ d.log # Missing => Marks(Whole(d)) \subseteq Marks(d.file) \union d.log.adds
         /\ Ended(d, S).log = Missing
         /\ Ended(d, S).file # Damaged /\ Ended(d, S).file # Missing
         /\ Marks(Ended(d, S).file) = Marks(Whole(d)) \union S
         /\ Died(d, S).file = d.file
         /\ Died(d, S).log # Missing => Died(d, S).log.over = d.file
         /\ Died(d, S).log.adds = Marks(Whole(d)) \union S
<1>1. \A c \in Marked : c # Missing /\ c # Damaged BY PublicationConstants
<1>2. \A c \in Marked : Marks(c) = c BY <1>1, Zenon DEF Marks
<1>3. Whole(d) # Damaged /\ Marks(d.file) \subseteq Marks(Whole(d))
  <2>1. CASE d.log = Missing BY <2>1, WholeType
  <2>2. CASE d.log # Missing
    <3>1. Whole(d) = Marks(d.file) \union d.log.adds /\ Whole(d) \in Marked BY <2>2, WholeType
    <3> QED BY <3>1, <1>1, <1>2
  <2> QED BY <2>1, <2>2
<1>4. d.log # Missing => Marks(Whole(d)) \subseteq Marks(d.file) \union d.log.adds
  BY WholeType, <1>2
<1>5. Ended(d, S).log = Missing /\ Ended(d, S).file = With(Whole(d), S) BY DEF Ended
<1>6. With(Whole(d), S) = Marks(Whole(d)) \union S /\ With(Whole(d), S) \in Marked
  BY <1>3, WholeType, WithType
<1>7. Died(d, S) = [file |-> d.file, log |-> [over |-> d.file, adds |-> Marks(Whole(d)) \union S]]
  BY <1>3 DEF Died
<1>8. Marks(Ended(d, S).file) = Marks(Whole(d)) \union S BY <1>2, <1>5, <1>6
<1>9. Ended(d, S).file # Damaged /\ Ended(d, S).file # Missing BY <1>1, <1>5, <1>6
<1>10. /\ Died(d, S).file = d.file /\ Died(d, S).log.over = d.file
       /\ Died(d, S).log.adds = Marks(Whole(d)) \union S
  BY <1>7
<1> QED BY <1>3, <1>4, <1>5, <1>8, <1>9, <1>10, WholeType

\* Only the machine that takes the step has its place, its disk and its bytes changed.
Others(m) == \A n \in Machines \ {m} : at'[n] = at[n] /\ disk'[n] = disk[n] /\ body'[n] = body[n]

\* What any machine does, as PublicationNext has it.
Moves(m) ==
  \/ PullBody(m) \/ Check(m) \/ Install(m) \/ Sweep(m)
  \/ Interpret(m) \/ Ship(m)
  \/ Push(m) \/ Compare(m) \/ Put(m) \/ Sign(m) \/ Kill(m)

\* Every step is one machine's, or the loss of the cache.
LEMMA Framed ==
  ASSUME PublicationTypeOK
  PROVE  /\ StartRefresh \/ Work \/ Save \/ Status => Others("refresher")
         /\ StartInterpret => Others("interpreter")
         /\ StartDeploy => Others("deployer")
         /\ Operate => Others("laptop")
         /\ Evict => UNCHANGED machine
         /\ \A m \in Machines : Moves(m) => Others(m)
<1>0. at \in [Machines -> Steps] /\ disk \in [Machines -> Disk] /\ body \in [Machines -> Database]
  BY DEF PublicationTypeOK
<1>1. StartRefresh \/ Work \/ Save \/ Status => Others("refresher")
  <2>1. CASE StartRefresh BY <2>1, <1>0 DEF StartRefresh, BeginJob, Go, Leaves, Others
  <2>2. CASE Work BY <2>2, <1>0 DEF Work, Go, Leaves, Others
  <2>3. CASE Save BY <2>3, <1>0 DEF Save, Go, Others
  <2>4. CASE Status BY <2>4, <1>0 DEF Status, Go, Leaves, Others
  <2> QED BY <2>1, <2>2, <2>3, <2>4
<1>2. StartInterpret => Others("interpreter") BY <1>0 DEF StartInterpret, BeginJob, Go, Leaves, Others
<1>3. StartDeploy => Others("deployer") BY <1>0 DEF StartDeploy, Go, Leaves, Others
<1>4. Operate => Others("laptop") BY <1>0 DEF Operate, Go, Others
<1>5. Evict => UNCHANGED machine BY DEF Evict
<1>6. ASSUME NEW m \in Machines, Moves(m) PROVE Others(m)
  <2>1. CASE PullBody(m) BY <2>1, <1>0 DEF PullBody, Go, Others
  <2>2. CASE Check(m) BY <2>2, <1>0 DEF Check, Go, Others
  <2>3. CASE Install(m) BY <2>3, <1>0 DEF Install, Go, Others
  <2>4. CASE Sweep(m) BY <2>4, <1>0 DEF Sweep, Go, Leaves, Others
  <2>5. CASE Interpret(m) BY <2>5, <1>0 DEF Interpret, Go, Leaves, Others
  <2>6. CASE Ship(m) BY <2>6, <1>0 DEF Ship, Go, Others
  <2>7. CASE Push(m) BY <2>7, <1>0 DEF Push, Go, Others
  <2>8. CASE Compare(m) BY <2>8, <1>0 DEF Compare, Go, Others
  <2>9. CASE Put(m) BY <2>9, <1>0 DEF Put, Go, Others
  <2>10. CASE Sign(m) BY <2>10, <1>0 DEF Sign, Go, Others
  <2>11. CASE Kill(m) BY <2>11, <1>0 DEF Kill, Go, Others
  <2> QED BY <1>6, <2>1, <2>2, <2>3, <2>4, <2>5, <2>6, <2>7, <2>8, <2>9, <2>10, <2>11 DEF Moves
<1> QED BY <1>1, <1>2, <1>3, <1>4, <1>5, <1>6

-----------------------------------------------------------------------------
(* Files are whole and logs their own; what is compared, is what was released. *)

\* What a step leaves alone stays clean.
LEMMA CleanFramed ==
  ASSUME NEW m, Clean, Others(m), cache' # Damaged, m \in Machines => CleanAt(m)'
  PROVE  Clean'
BY DEF Clean, CleanAt, Others

\* What a step leaves alone stays trusted.
LEMMA TrustedFramed ==
  ASSUME NEW m, Trusted, Others(m), released \subseteq released',
         sum' # Missing => Sound(sum)', image' # Missing => Sound(image)',
         m \in Machines => TrustedAt(m)'
  PROVE  Trusted'
BY DEF Trusted, TrustedAt, Others, Sound

\* Every step keeps files whole, logs their own, and what is served released.
LEMMA SafeStep ==
  ASSUME PublicationTypeOK, Roles, Clean, Trusted, [PublicationNext]_publicationVars, ~unsure'
  PROVE  Clean' /\ Trusted'
<1> USE FourMachines
<1>0. /\ at \in [Machines -> Steps] /\ disk \in [Machines -> Disk] /\ body \in [Machines -> Database]
      /\ \A m \in Machines : disk[m] \in Disk
      /\ Missing # Damaged
  BY PublicationConstants DEF PublicationTypeOK
<1>s. released' = released => \A c : Sound(c) => c \in released' /\ c # Damaged /\ c # Missing
  BY DEF Sound
<1>1. CASE UNCHANGED publicationVars
  BY <1>1 DEF Clean, CleanAt, Trusted, TrustedAt, Sound, publicationVars, machine, bucket, refresh, history
<1>2. CASE StartRefresh
  <2>1. /\ at'["refresher"] = "work" /\ disk'["refresher"] = [NoFile EXCEPT !.file = cache]
        /\ UNCHANGED <<cache, bucket, image, released>>
    BY <1>2, <1>0 DEF StartRefresh, BeginJob, Go, Leaves, history
  <2>2. disk'["refresher"].file = cache /\ disk'["refresher"].log = Missing BY <2>1 DEF NoFile
  <2>3. CleanAt("refresher")' BY <2>1, <2>2 DEF CleanAt, Clean, Pushing
  <2>4. TrustedAt("refresher")' BY <2>1 DEF TrustedAt
  <2>5. Others("refresher") BY <1>2, Framed
  <2>6. Clean' BY <2>1, <2>3, <2>5, CleanFramed DEF Clean
  <2>7. Trusted' BY <2>1, <2>4, <2>5, TrustedFramed DEF Trusted, Sound, bucket
  <2> QED BY <2>6, <2>7
<1>3. CASE Work
  <2> DEFINE d == disk["refresher"]
             mark == [run |-> runs, did |-> Commands[turn]]
  <2>0. at["refresher"] = "work" /\ UNCHANGED <<cache, bucket, image, released>>
    BY <1>3 DEF Work, history
  <2>1. d \in Disk /\ d.file # Damaged /\ d.log = Missing BY <2>0, <1>0 DEF Clean, CleanAt, Bare
  <2>2. {mark} \in Marked /\ \A S \in SUBSET {mark} : S \in Marked
    BY MarkType DEF PublicationTypeOK, Marked
  <2>3. at'["refresher"] \in {"work", "save"} /\ (disk'["refresher"].log # Missing => at'["refresher"] = "save")
    <3>1. CASE Leaves("refresher", Ended(d, {mark})) /\ (at' = at \/ Go("refresher", "save"))
      BY <3>1, <2>0, <2>1, <2>2, <1>0, Opening DEF Leaves, Go
    <3>2. CASE Go("refresher", "save") BY <3>2, <1>0 DEF Go
    <3> QED BY <1>3, <3>1, <3>2 DEF Work
  <2>4. \E S \in SUBSET {mark} : disk'["refresher"] = Ended(d, {mark}) \/ disk'["refresher"] = Died(d, S)
    BY <1>3, <1>0 DEF Work, Leaves
  <2>5. /\ disk'["refresher"].file # Damaged
        /\ disk'["refresher"].log # Missing => disk'["refresher"].log.over = disk'["refresher"].file
    <3>1. \A S \in Marked :
            /\ Ended(d, S).log = Missing /\ Ended(d, S).file # Damaged
            /\ Died(d, S).file = d.file
            /\ Died(d, S).log # Missing => Died(d, S).log.over = d.file
      BY <2>1, Opening
    <3> QED BY <2>1, <2>2, <2>4, <3>1
  <2>6. CleanAt("refresher")' BY <2>3, <2>5 DEF CleanAt, Bare, Pushing
  <2>7. TrustedAt("refresher")' BY <2>3 DEF TrustedAt
  <2>8. Others("refresher") BY <1>3, Framed
  <2>9. Clean' BY <2>0, <2>6, <2>8, CleanFramed DEF Clean
  <2>10. Trusted' BY <2>0, <2>7, <2>8, TrustedFramed DEF Trusted, Sound, bucket
  <2> QED BY <2>9, <2>10
<1>4. CASE Save
  <2>1. /\ at["refresher"] = "save" /\ at'["refresher"] = "status"
        /\ disk' = disk /\ UNCHANGED <<bucket, image, released>>
        /\ cache' \in {cache, disk["refresher"].file}
    BY <1>4, <1>0 DEF Save, Go
  <2>2. CleanAt("refresher")' /\ cache' # Damaged BY <2>1 DEF Clean, CleanAt, Bare, Pushing
  <2>3. TrustedAt("refresher")' BY <2>1 DEF TrustedAt
  <2>4. Others("refresher") BY <1>4, Framed
  <2>5. Clean' BY <2>2, <2>4, CleanFramed
  <2>6. Trusted' BY <2>1, <2>3, <2>4, TrustedFramed DEF Trusted, Sound, bucket
  <2> QED BY <2>5, <2>6
<1>5. CASE Status
  <2> DEFINE d == disk["refresher"]
  <2>1. /\ at["refresher"] = "status" /\ at'["refresher"] \in {"push", "idle"}
        /\ disk'["refresher"] = Ended(d, {}) /\ UNCHANGED <<cache, bucket, image, released>>
    BY <1>5, <1>0 DEF Status, Go, Leaves, StatusOf, history
  <2>2. /\ d \in Disk /\ d.file # Damaged /\ (d.log # Missing => d.log.over = d.file)
        /\ {} \in Marked
    BY <2>1, <1>0 DEF Clean, CleanAt, Marked
  <2>3. CleanAt("refresher")' BY <2>1, <2>2, Opening DEF CleanAt
  <2>4. TrustedAt("refresher")' BY <2>1 DEF TrustedAt
  <2>5. Others("refresher") BY <1>5, Framed
  <2>6. Clean' BY <2>1, <2>3, <2>5, CleanFramed DEF Clean
  <2>7. Trusted' BY <2>1, <2>4, <2>5, TrustedFramed DEF Trusted, Sound, bucket
  <2> QED BY <2>6, <2>7
<1>6. CASE Evict
  <2>1. cache' # Damaged /\ UNCHANGED <<bucket, machine, image, released>> BY <1>6, <1>0 DEF Evict
  <2> QED BY <2>1 DEF Clean, CleanAt, Trusted, TrustedAt, Sound, bucket, machine
<1>7. CASE StartInterpret
  <2>1. /\ at'["interpreter"] = "pull" /\ disk'["interpreter"] = NoFile
        /\ UNCHANGED <<cache, bucket, image, released>>
    BY <1>7, <1>0 DEF StartInterpret, BeginJob, Go, Leaves, history, refresh
  <2>2. CleanAt("interpreter")' BY <2>1, <1>0 DEF CleanAt, Pushing, NoFile
  <2>3. TrustedAt("interpreter")' BY <2>1 DEF TrustedAt
  <2>4. Others("interpreter") BY <1>7, Framed
  <2>5. Clean' BY <2>1, <2>2, <2>4, CleanFramed DEF Clean
  <2>6. Trusted' BY <2>1, <2>3, <2>4, TrustedFramed DEF Trusted, Sound, bucket
  <2> QED BY <2>5, <2>6
<1>8. CASE StartDeploy
  <2>1. /\ at'["deployer"] = "pull" /\ disk'["deployer"] = NoFile
        /\ UNCHANGED <<cache, bucket, image, released>>
    BY <1>8, <1>0 DEF StartDeploy, Go, Leaves, history, refresh
  <2>2. CleanAt("deployer")' BY <2>1, <1>0 DEF CleanAt, Pushing, NoFile
  <2>3. TrustedAt("deployer")' BY <2>1 DEF TrustedAt
  <2>4. Others("deployer") BY <1>8, Framed
  <2>5. Clean' BY <2>1, <2>2, <2>4, CleanFramed DEF Clean
  <2>6. Trusted' BY <2>1, <2>3, <2>4, TrustedFramed DEF Trusted, Sound, bucket
  <2> QED BY <2>5, <2>6
<1>9. CASE Operate
  <2>1. /\ at["laptop"] = "idle" /\ at'["laptop"] \in {"pull", "interpret", "push", "ship"}
        /\ disk' = disk /\ UNCHANGED <<cache, bucket, image>> /\ released \subseteq released'
        /\ at'["laptop"] \in {"push", "ship"} => disk["laptop"].file # Missing /\ disk["laptop"].log = Missing
        /\ at'["laptop"] = "ship" => disk["laptop"].file \in released'
    BY <1>9, <1>0 DEF Operate, Go, refresh
  <2>2. CleanAt("laptop")' BY <2>1 DEF Clean, CleanAt, Bare, Pushing
  <2>3. TrustedAt("laptop")' BY <2>1 DEF TrustedAt, Clean, CleanAt, Sound
  <2>4. Others("laptop") BY <1>9, Framed
  <2>5. Clean' BY <2>1, <2>2, <2>4, CleanFramed DEF Clean
  <2>6. Trusted' BY <2>1, <2>3, <2>4, TrustedFramed DEF Trusted, Sound, bucket
  <2> QED BY <2>5, <2>6
<1>10. ASSUME NEW m \in Machines, Moves(m) PROVE Clean' /\ Trusted'
  <2> DEFINE d == disk[m]
  <2>0. /\ Others(m) /\ d \in Disk /\ CleanAt(m) /\ TrustedAt(m) /\ cache' = cache /\ cache # Damaged
        /\ at[m] \in Steps
    <3>1. cache' = cache
      BY <1>10 DEF Moves, PullBody, Check, Install, Sweep, Interpret, Ship, Push, Compare, Put,
                   Sign, Kill, refresh
    <3> QED BY <1>10, <1>0, <3>1, Framed DEF Clean, Trusted
  <2>1. SUFFICES /\ CleanAt(m)' /\ TrustedAt(m)'
                 /\ released \subseteq released'
                 /\ (sum' # Missing => Sound(sum)') /\ (image' # Missing => Sound(image)')
    BY <2>0, CleanFramed, TrustedFramed
  <2>k. (sum # Missing => Sound(sum)) /\ (image # Missing => Sound(image)) BY DEF Trusted
  <2>2. CASE PullBody(m)
    <3>1. /\ at[m] = "pull" /\ at'[m] \in {"check", "idle"} /\ disk' = disk
          /\ UNCHANGED <<sum, image, released>>
      BY <2>2, <1>0 DEF PullBody, Go, bucket, history
    <3> QED BY <3>1, <2>0, <2>k DEF CleanAt, TrustedAt, Sound, Bare, Pushing
  <2>3. CASE Check(m)
    <3>1. /\ at[m] = "check" /\ at'[m] \in {"install", "idle"} /\ disk' = disk /\ body' = body
          /\ UNCHANGED <<sum, image, released>>
      BY <2>3, <1>0 DEF Check, Go, bucket
    <3>2. at'[m] = "install" => Sound(body[m])
      <4>1. CASE Go(m, "install") /\ unsure' = TRUE BY <4>1
      <4>2. CASE /\ Go(m, IF Refused(body[m]) THEN "idle" ELSE "install")
                 /\ unsure' = (unsure \/ sum = Missing)
        <5>1. sum # Missing BY <4>2
        <5> QED BY <5>1, <4>2, <1>0, <2>k DEF Go, Refused
      <4> QED BY <2>3, <4>1, <4>2 DEF Check
    <3> QED BY <3>1, <3>2, <2>0, <2>k DEF CleanAt, TrustedAt, Sound, Bare, Pushing
  <2>4. CASE Install(m)
    <3>1. /\ at[m] = "install" /\ at'[m] = "sweep" /\ disk'[m] = [disk[m] EXCEPT !.file = body[m]]
          /\ UNCHANGED <<body, sum, image, released>>
      BY <2>4, <1>0 DEF Install, Go, bucket, history
    <3>2. disk'[m].file = body[m] /\ disk'[m].log = disk[m].log BY <3>1, <2>0 DEF Disk
    <3>3. Sound(body[m]) BY <3>1, <2>0 DEF TrustedAt
    <3> QED BY <3>1, <3>2, <3>3, <2>0, <2>k DEF CleanAt, TrustedAt, Sound, Bare, Pushing
  <2>5. CASE Sweep(m)
    <3>1. /\ at[m] = "sweep" /\ at'[m] \in {"ship", "interpret"} /\ disk'[m] = [disk[m] EXCEPT !.log = Missing]
          /\ UNCHANGED <<body, sum, image, released>>
      BY <2>5, <1>0 DEF Sweep, Go, Leaves, Swept, bucket, history
    <3>2. disk'[m].file = disk[m].file /\ disk'[m].log = Missing BY <3>1, <2>0 DEF Disk
    <3>3. Sound(disk[m].file) BY <3>1, <2>0 DEF TrustedAt
    <3> QED BY <3>1, <3>2, <3>3, <2>0, <2>k DEF CleanAt, TrustedAt, Sound, Bare, Pushing
  <2>6. CASE Interpret(m)
    <3> DEFINE mark == [run |-> runs', did |-> "interpret"]
    <3>1. at[m] = "interpret" /\ UNCHANGED <<sum, image, released>>
      BY <2>6 DEF Interpret, bucket, history
    <3>2. {mark} \in Marked /\ \A S \in SUBSET {mark} : S \in Marked
      <4>1. runs' \in 0..MaxRuns /\ 1 \in 1..Len(Commands)
        BY <2>6, PublicationConstants DEF Interpret, PublicationTypeOK
      <4> QED BY <4>1, MarkType DEF Marked
    <3>3. d.file # Damaged /\ (d.log # Missing => d.log.over = d.file) BY <3>1, <2>0 DEF CleanAt
    <3>o. \A S \in Marked :
            /\ Ended(d, S).log = Missing /\ Ended(d, S).file # Damaged /\ Ended(d, S).file # Missing
            /\ Died(d, S).file = d.file
            /\ Died(d, S).log # Missing => Died(d, S).log.over = d.file
      BY <2>0, <3>3, Opening
    <3>4. CASE Leaves(m, Ended(d, {mark})) /\ Go(m, "push")
      <4>1. disk'[m] = Ended(d, {mark}) /\ at'[m] = "push" BY <3>4, <1>0 DEF Leaves, Go
      <4>2. disk'[m].log = Missing /\ disk'[m].file # Damaged /\ disk'[m].file # Missing
        BY <4>1, <3>2, <3>o
      <4> QED BY <4>1, <4>2, <3>1, <2>k DEF CleanAt, TrustedAt, Sound, Bare, Pushing
    <3>5. ASSUME NEW S \in SUBSET {mark}, Leaves(m, Died(d, S)), Go(m, "idle")
          PROVE  /\ CleanAt(m)' /\ TrustedAt(m)'
                 /\ released \subseteq released'
                 /\ (sum' # Missing => Sound(sum)') /\ (image' # Missing => Sound(image)')
      <4>1. disk'[m] = Died(d, S) /\ at'[m] = "idle" BY <3>5, <1>0 DEF Leaves, Go
      <4>2. disk'[m].file = d.file /\ (disk'[m].log # Missing => disk'[m].log.over = d.file)
        <5>1. S \in Marked BY <3>2, Zenon
        <5> QED BY <4>1, <5>1, <3>o
      <4> QED BY <4>1, <4>2, <3>1, <3>3, <2>k DEF CleanAt, TrustedAt, Sound, Bare, Pushing
    <3> QED BY <2>6, <3>4, <3>5 DEF Interpret
  <2>7. CASE Ship(m)
    <3>1. /\ at[m] = "ship" /\ at'[m] = "idle" /\ image' = disk[m].file
          /\ UNCHANGED <<disk, body, sum, released>>
      BY <2>7, <1>0 DEF Ship, Go, bucket, history
    <3>2. Sound(disk[m].file) BY <3>1, <2>0 DEF TrustedAt
    <3> QED BY <3>1, <3>2, <2>0, <2>k DEF CleanAt, TrustedAt, Sound, Bare, Pushing
  <2>8. CASE Push(m)
    <3>1. /\ at[m] = "push" /\ at'[m] = "compare" /\ body'[m] = disk[m].file
          /\ released' = released \union {Whole(disk[m])}
          /\ UNCHANGED <<disk, sum, image>>
      BY <2>8, <1>0 DEF Push, Go, bucket
    <3>2. disk[m].log = Missing /\ disk[m].file # Missing /\ disk[m].file # Damaged
      BY <3>1, <2>0 DEF CleanAt, Bare, Pushing
    <3>3. Whole(disk[m]) = disk[m].file BY <3>2, <2>0, WholeType
    <3> QED BY <3>1, <3>2, <3>3, <2>0, <2>k DEF CleanAt, TrustedAt, Sound, Bare, Pushing
  <2>9. CASE Compare(m)
    <3>1. /\ at[m] = "compare" /\ at'[m] \in {"put", "idle"}
          /\ UNCHANGED <<disk, body, sum, image, released>>
      BY <2>9, <1>0 DEF Compare, Go, bucket, history
    <3> QED BY <3>1, <2>0, <2>k DEF CleanAt, TrustedAt, Sound, Bare, Pushing
  <2>10. CASE Put(m)
    <3>1. /\ at[m] = "put" /\ at'[m] \in {"sign", "idle"}
          /\ UNCHANGED <<disk, body, sum, image, released>>
      BY <2>10, <1>0 DEF Put, Go, history
    <3> QED BY <3>1, <2>0, <2>k DEF CleanAt, TrustedAt, Sound, Bare, Pushing
  <2>11. CASE Sign(m)
    <3>1. /\ at[m] = "sign" /\ at'[m] = "idle" /\ sum' \in {sum, body[m]}
          /\ UNCHANGED <<disk, body, image, released>>
      BY <2>11, <1>0 DEF Sign, Go, history
    <3>2. Sound(body[m]) BY <3>1, <2>0 DEF TrustedAt
    <3> QED BY <3>1, <3>2, <2>0, <2>k DEF CleanAt, TrustedAt, Sound, Bare, Pushing
  <2>12. CASE Kill(m)
    <3>1. /\ at'[m] = "idle" /\ at[m] # "sweep" /\ UNCHANGED <<disk, body, sum, image, released>>
      <4>1. unsure' = (unsure \/ at[m] = "sweep") BY <2>12 DEF Kill
      <4> QED BY <4>1, <2>12, <1>0 DEF Kill, Go, bucket
    <3> QED BY <3>1, <2>0, <2>k DEF CleanAt, TrustedAt, Sound, Bare, Pushing
  <2> QED BY <1>10, <2>2, <2>3, <2>4, <2>5, <2>6, <2>7, <2>8, <2>9, <2>10, <2>11, <2>12 DEF Moves
<1> QED BY <1>1, <1>2, <1>3, <1>4, <1>5, <1>6, <1>7, <1>8, <1>9, <1>10 DEF PublicationNext, Moves

-----------------------------------------------------------------------------
(* What is published is carried by whoever may publish next. *)

\* A machine that publishes nothing in a step disturbs only what is its own.
LEMMA CarriedFramed ==
  ASSUME NEW m, Carried, Others(m), db' = db, cache' = cache, lost \subseteq lost',
         m # "refresher" => ok' = ok,
         m = "refresher" => RefresherCarries',
         m = "interpreter" => InterpreterCarries',
         m = "laptop" => LaptopCarries'
  PROVE  Carried'
<1> USE FourMachines
<1>1. Published' BY DEF Carried, Published, Required
<1>2. m # "refresher" => RefresherCarries' BY DEF Carried, RefresherCarries, Others, Required
<1>3. m # "interpreter" => InterpreterCarries'
  BY DEF Carried, InterpreterCarries, Hand, Others, Required
<1>4. m # "laptop" => LaptopCarries' BY DEF Carried, LaptopCarries, Others, Required
<1> QED BY <1>1, <1>2, <1>3, <1>4 DEF Carried

\* What is no database has no marks.
LEMMA NoMarks == Marks(Missing) = {} /\ Marks(Damaged) = {} /\ \A c \in Marked : Marks(c) = c
<1>1. \A c \in Marked : c # Missing /\ c # Damaged BY PublicationConstants
<1>2. \A c \in Marked : Marks(c) = c BY <1>1, Zenon DEF Marks
<1> QED BY <1>2 DEF Marks

\* The refresher's own steps.
LEMMA RefresherKeeps ==
  ASSUME PublicationTypeOK, Roles, Clean, Carried,
         StartRefresh \/ Work \/ Status \/ Moves("refresher")
  PROVE  RefresherCarries'
<1> USE FourMachines
<1> DEFINE d == disk["refresher"]
<1>0. /\ at \in [Machines -> Steps] /\ disk \in [Machines -> Disk] /\ body \in [Machines -> Database]
      /\ d \in Disk /\ d.file # Damaged /\ CleanAt("refresher")
  BY DEF PublicationTypeOK, Clean, CleanAt
<1>1. CASE StartRefresh
  <2>1. /\ at'["refresher"] = "work" /\ disk'["refresher"] = [NoFile EXCEPT !.file = cache]
        /\ cache' = cache
    BY <1>1, <1>0 DEF StartRefresh, BeginJob, Go, Leaves
  <2>2. disk'["refresher"].file = cache BY <2>1 DEF NoFile
  <2> QED BY <2>1, <2>2 DEF RefresherCarries
<1>2. CASE Work
  <2> DEFINE mark == [run |-> runs, did |-> Commands[turn]]
  <2>0. at["refresher"] = "work" /\ cache' = cache /\ lost' = lost BY <1>2 DEF Work, history
  <2>1. d.log = Missing /\ Marks(cache) \subseteq Marks(d.file)
    BY <2>0, <1>0 DEF CleanAt, Bare, Carried, RefresherCarries
  <2>2. {mark} \in Marked /\ \A S \in SUBSET {mark} : S \in Marked
    BY MarkType DEF PublicationTypeOK, Marked
  <2>3. \A S \in Marked :
          /\ Ended(d, S).log = Missing /\ Marks(Ended(d, S).file) = Marks(d.file) \union S
          /\ Died(d, S).file = d.file /\ Died(d, S).log.adds = Marks(d.file) \union S
    BY <1>0, <2>1, Opening
  <2>4. CASE Leaves("refresher", Ended(d, {mark})) /\ (at' = at \/ Go("refresher", "save"))
    <3>1. disk'["refresher"] = Ended(d, {mark}) /\ at'["refresher"] \in {"work", "save"}
      BY <2>4, <2>0, <1>0 DEF Leaves, Go
    <3>2. /\ disk'["refresher"].log = Missing
          /\ Marks(disk'["refresher"].file) = Marks(d.file) \union {mark}
      BY <3>1, <2>2, <2>3
    <3> QED BY <3>1, <3>2, <2>0, <2>1 DEF RefresherCarries
  <2>5. ASSUME NEW S \in SUBSET {mark}, Leaves("refresher", Died(d, S)),
               ok' = (turn = Len(Commands)), Go("refresher", "save")
        PROVE  RefresherCarries'
    <3>1. disk'["refresher"] = Died(d, S) /\ at'["refresher"] = "save"
      BY <2>5, <1>0 DEF Leaves, Go
    <3>2. S \in Marked BY <2>2, Zenon
    <3>3. disk'["refresher"].file = d.file /\ disk'["refresher"].log.adds = Marks(d.file) \union S
      BY <3>1, <3>2, <2>3
    <3>4. ok' => Required(disk'["refresher"].log.adds) \subseteq Marks(d.file)
      <4>1. \A x \in S : x = mark BY Zenon
      <4>2. mark.did = Commands[turn] OBVIOUS
      <4>3. Marks(d.file) \union S \in Marked
        BY <3>2, <1>0, MarksType DEF Disk, Marked
      <4>4. Marks(disk'["refresher"].log.adds) = Marks(d.file) \union S BY <3>3, <4>3, NoMarks
      <4>5. ok' => \A x \in S : x.did = Commands[Len(Commands)] BY <4>1, <4>2, <2>5
      <4> QED BY <4>4, <4>5 DEF Required
    <3> QED BY <3>1, <3>3, <3>4, <2>0, <2>1 DEF RefresherCarries
  <2> QED BY <1>2, <2>4, <2>5 DEF Work
<1>3. CASE Status
  <2>1. /\ at["refresher"] = "status" /\ at'["refresher"] \in {"push", "idle"}
        /\ at'["refresher"] = "push" => ok
        /\ disk'["refresher"] = Ended(d, {}) /\ cache' = cache /\ lost' = lost
    <3>1. at["refresher"] = "status" /\ disk'["refresher"] = Ended(d, {}) /\ cache' = cache /\ lost' = lost
      BY <1>3, <1>0 DEF Status, Leaves, StatusOf, history
    <3>2. at'["refresher"] \in {"push", "idle"} /\ (at'["refresher"] = "push" => ok')
      BY <1>3, <1>0 DEF Status, Go
    <3>3. ok' => ok BY <1>3, Zenon DEF Status
    <3> QED BY <3>1, <3>2, <3>3
  <2>2. d.log # Missing => d.log.over = d.file BY <2>1, <1>0 DEF CleanAt
  <2>3. {} \in Marked BY DEF Marked
  <2>4. /\ Marks(Ended(d, {}).file) = Marks(Whole(d))
        /\ Marks(d.file) \subseteq Marks(Whole(d))
        /\ d.log = Missing => Marks(Whole(d)) = Marks(d.file)
        /\ d.log # Missing => Marks(Whole(d)) \subseteq Marks(d.file) \union d.log.adds
    <3>1. \A S \in Marked :
            /\ Marks(Ended(d, S).file) = Marks(Whole(d)) \union S
            /\ Marks(d.file) \subseteq Marks(Whole(d))
            /\ d.log = Missing => Whole(d) = d.file
            /\ d.log # Missing => Marks(Whole(d)) \subseteq Marks(d.file) \union d.log.adds
      BY <1>0, <2>2, Opening
    <3>2. Marks(Ended(d, {}).file) = Marks(Whole(d)) \union {} BY <2>3, <3>1, Zenon
    <3> QED BY <2>3, <3>1, <3>2
  <2>5. d.log # Missing => Marks(d.log.adds) = d.log.adds BY <1>0, NoMarks DEF Disk, Log
  <2>6. /\ Required(cache) \subseteq Marks(d.file)
        /\ Required(d.file) \subseteq Marks(cache) \union lost
        /\ ok /\ d.log # Missing => Required(d.log.adds) \subseteq Marks(d.file)
    BY <2>1 DEF Carried, RefresherCarries
  <2>7. at'["refresher"] = "push" => Required(Ended(d, {}).file) \subseteq Marks(cache) \union lost
    <3>1. CASE d.log = Missing BY <3>1, <2>4, <2>6 DEF Required
    <3>2. CASE d.log # Missing BY <3>2, <2>1, <2>4, <2>5, <2>6 DEF Required
    <3> QED BY <3>1, <3>2
  <2>8. Required(cache) \subseteq Marks(Ended(d, {}).file) BY <2>4, <2>6
  <2> QED BY <2>1, <2>7, <2>8 DEF RefresherCarries, Required
<1>4. CASE Moves("refresher")
  <2>0. at["refresher"] \in {"idle"} \union Refreshing BY DEF Roles
  <2>1. CASE Push("refresher")
    <3>1. /\ at["refresher"] = "push" /\ at'["refresher"] = "compare"
          /\ body'["refresher"] = d.file /\ disk' = disk /\ UNCHANGED <<cache, lost>>
      BY <2>1, <1>0 DEF Push, Go, refresh
    <3> QED BY <3>1 DEF Carried, RefresherCarries, Required
  <2>2. CASE Compare("refresher") \/ Put("refresher")
    <3>1. /\ at["refresher"] \in {"compare", "put"}
          /\ at'["refresher"] \in {"put", "sign", "idle"}
          /\ UNCHANGED <<body, disk, cache, lost>>
      BY <2>2, <1>0 DEF Compare, Put, Go, refresh, history
    <3> QED BY <3>1 DEF Carried, RefresherCarries, Required
  <2>3. CASE Sign("refresher") \/ Kill("refresher")
    <3>1. at'["refresher"] = "idle" BY <2>3, <1>0 DEF Sign, Kill, Go
    <3> QED BY <3>1 DEF RefresherCarries
  <2>4. CASE \/ PullBody("refresher") \/ Check("refresher") \/ Install("refresher")
             \/ Sweep("refresher") \/ Interpret("refresher") \/ Ship("refresher")
    <3>1. at["refresher"] \in Pulling \union {"interpret", "ship"}
      BY <2>4 DEF PullBody, Check, Install, Sweep, Interpret, Ship, Pulling
    <3> QED BY <3>1, <2>0 DEF Refreshing, Pulling
  <2> QED BY <1>4, <2>1, <2>2, <2>3, <2>4 DEF Moves
<1> QED BY <1>1, <1>2, <1>3, <1>4

\* The interpreter's own steps, short of publication.
LEMMA InterpreterKeeps ==
  ASSUME PublicationTypeOK, Roles, Clean, Carried,
         StartInterpret \/ (Moves("interpreter") /\ ~Put("interpreter"))
  PROVE  InterpreterCarries'
<1> USE FourMachines
<1> DEFINE m == "interpreter"
           d == disk[m]
<1>0. /\ at \in [Machines -> Steps] /\ disk \in [Machines -> Disk] /\ body \in [Machines -> Database]
      /\ d \in Disk /\ d.file # Damaged /\ CleanAt(m)
      /\ job[m] = "interpret"
  BY DEF PublicationTypeOK, Clean, CleanAt, Roles
<1>1. CASE at'[m] \in {"idle", "pull"} BY <1>1 DEF InterpreterCarries
<1>2. CASE StartInterpret
  <2>1. at'[m] = "pull" BY <1>2, <1>0 DEF StartInterpret, BeginJob, Go
  <2> QED BY <2>1, <1>1
<1>3. CASE PullBody(m)
  <2>1. UNCHANGED <<db, cache, lost>> BY <1>3 DEF PullBody, bucket, refresh, history
  <2>2. CASE at'[m] = "check" /\ body'[m] \in {db, Damaged}
    <3>1. Hand' = body'[m] BY <2>2 DEF Hand
    <3>2. Required(Damaged) = {} BY NoMarks DEF Required
    <3> QED BY <2>1, <2>2, <3>1, <3>2 DEF InterpreterCarries, Carried, Published, Required
  <2>3. at'[m] = "idle" \/ (at'[m] = "check" /\ body'[m] \in {db, Damaged})
    BY <1>3, <1>0 DEF PullBody, Go
  <2> QED BY <2>2, <2>3, <1>1
<1>4. CASE Check(m) \/ Install(m) \/ Sweep(m) \/ Push(m) \/ Compare(m)
  <2>1. /\ UNCHANGED <<db, cache, lost>>
        /\ at[m] \notin {"idle", "pull"}
    BY <1>4 DEF Check, Install, Sweep, Push, Compare, bucket, refresh, history
  <2>2. Hand' = Hand \/ at'[m] \in {"idle", "pull"}
    <3>1. CASE Check(m)
      <4>1. at[m] = "check" /\ at'[m] \in {"install", "idle"} /\ body' = body
        BY <3>1, <1>0 DEF Check, Go
      <4> QED BY <4>1 DEF Hand
    <3>2. CASE Install(m)
      <4>1. at[m] = "install" /\ at'[m] = "sweep" /\ disk'[m] = [d EXCEPT !.file = body[m]]
        BY <3>2, <1>0 DEF Install, Go
      <4>2. disk'[m].file = body[m] BY <4>1, <1>0 DEF Disk
      <4> QED BY <4>1, <4>2 DEF Hand
    <3>3. CASE Sweep(m)
      <4>1. at[m] = "sweep" /\ at'[m] = "interpret" /\ disk'[m] = [d EXCEPT !.log = Missing]
        BY <3>3, <1>0 DEF Sweep, Go, Leaves, Swept
      <4>2. disk'[m].file = d.file BY <4>1, <1>0 DEF Disk
      <4> QED BY <4>1, <4>2 DEF Hand
    <3>4. CASE Push(m)
      <4>1. at[m] = "push" /\ at'[m] = "compare" /\ body'[m] = d.file BY <3>4, <1>0 DEF Push, Go
      <4> QED BY <4>1 DEF Hand
    <3>5. CASE Compare(m)
      <4>1. at[m] = "compare" /\ at'[m] \in {"put", "idle"} /\ body' = body
        BY <3>5, <1>0 DEF Compare, Go
      <4> QED BY <4>1 DEF Hand
    <3> QED BY <1>4, <3>1, <3>2, <3>3, <3>4, <3>5
  <2> QED BY <1>1, <2>1, <2>2 DEF InterpreterCarries, Carried, Required
<1>5. CASE Interpret(m)
  <2> DEFINE mark == [run |-> runs', did |-> "interpret"]
  <2>1. at[m] = "interpret" /\ UNCHANGED <<db, cache, lost>>
    BY <1>5 DEF Interpret, bucket, refresh, history
  <2>2. {mark} \in Marked
    <3>1. runs' \in 0..MaxRuns /\ 1 \in 1..Len(Commands)
      BY <1>5, PublicationConstants DEF Interpret, PublicationTypeOK
    <3> QED BY <3>1, MarkType DEF Marked
  <2>3. CASE Leaves(m, Ended(d, {mark})) /\ Go(m, "push")
    <3>1. disk'[m] = Ended(d, {mark}) /\ at'[m] = "push" BY <2>3, <1>0 DEF Leaves, Go
    <3>2. d.log = Missing BY <2>1, <1>0 DEF CleanAt
    <3>3. Marks(disk'[m].file) = Marks(d.file) \union {mark}
      BY <3>1, <3>2, <2>2, <1>0, Opening
    <3>4. Hand = d.file /\ Hand' = disk'[m].file BY <2>1, <3>1 DEF Hand
    <3>5. /\ Required(db) \subseteq Marks(d.file) \union lost
          /\ Required(d.file) \subseteq Marks(cache) \union lost
      BY <2>1, <3>4, <1>0 DEF Carried, InterpreterCarries
    <3>6. Required(disk'[m].file) = Required(d.file)
      <4>1. mark.did = "interpret" OBVIOUS
      <4> QED BY <3>3, <4>1 DEF Required
    <3> QED BY <2>1, <3>3, <3>4, <3>5, <3>6 DEF InterpreterCarries, Required
  <2>4. CASE Go(m, "idle") BY <2>4, <1>0, <1>1 DEF Go
  <2> QED BY <1>5, <2>3, <2>4 DEF Interpret
<1>6. CASE Sign(m) \/ Kill(m) \/ Ship(m)
  <2>1. at'[m] = "idle" BY <1>6, <1>0 DEF Sign, Kill, Ship, Go
  <2> QED BY <2>1, <1>1
<1> QED BY <1>2, <1>3, <1>4, <1>5, <1>6 DEF Moves

\* A laptop's own steps, short of publication.
LEMMA LaptopKeeps ==
  ASSUME PublicationTypeOK, Roles, Clean, Carried,
         Operate \/ (Moves("laptop") /\ ~Put("laptop"))
  PROVE  LaptopCarries'
<1> USE FourMachines
<1> DEFINE m == "laptop"
           d == disk[m]
<1>0. /\ at \in [Machines -> Steps] /\ disk \in [Machines -> Disk] /\ body \in [Machines -> Database]
      /\ d \in Disk /\ d.file # Damaged /\ CleanAt(m)
  BY DEF PublicationTypeOK, Clean, CleanAt
<1>l. LaptopCarries BY DEF Carried
<1>1. UNCHANGED <<db, lost>>
  <2>1. CASE Operate BY <2>1 DEF Operate, bucket
  <2>2. CASE Moves(m) /\ ~Put(m)
    BY <2>2 DEF Moves, PullBody, Check, Install, Sweep, Interpret, Ship, Push, Compare, Sign, Kill,
                bucket, history
  <2> QED BY <2>1, <2>2
<1>2. CASE UNCHANGED <<disk, body>> /\ (at'[m] \in {"compare", "put", "sign"} => at[m] = "compare")
  BY <1>l, <1>1, <1>2 DEF LaptopCarries, Required
<1>3. CASE \/ Operate \/ Check(m) \/ Ship(m) \/ Compare(m) \/ Sign(m) \/ Kill(m)
  <2>1. UNCHANGED <<disk, body>>
    BY <1>3 DEF Operate, Check, Ship, Compare, Sign, Kill
  <2>2. at'[m] \in {"compare", "put", "sign"} => at[m] = "compare"
    BY <1>3, <1>0 DEF Operate, Check, Ship, Compare, Sign, Kill, Go
  <2> QED BY <1>2, <2>1, <2>2
<1>4. CASE PullBody(m)
  <2>1. /\ disk' = disk /\ at'[m] \in {"check", "idle"}
        /\ body'[m] \in {db, Damaged, body[m]}
    BY <1>4, <1>0 DEF PullBody, Go
  <2> QED BY <2>1, <1>1, <1>l, NoMarks DEF LaptopCarries, Required
<1>5. CASE Install(m)
  <2>1. /\ body' = body /\ at'[m] = "sweep" /\ disk'[m] = [d EXCEPT !.file = body[m]]
    BY <1>5, <1>0 DEF Install, Go
  <2>2. disk'[m].file = body[m] /\ disk'[m].log = d.log BY <2>1, <1>0 DEF Disk
  <2> QED BY <2>1, <2>2, <1>1, <1>l DEF LaptopCarries, Required
<1>6. CASE Sweep(m)
  <2>1. /\ body' = body /\ at'[m] \in {"ship", "interpret"} /\ disk'[m] = [d EXCEPT !.log = Missing]
    BY <1>6, <1>0 DEF Sweep, Go, Leaves, Swept
  <2>2. disk'[m].file = d.file /\ disk'[m].log = Missing BY <2>1, <1>0 DEF Disk
  <2> QED BY <2>1, <2>2, <1>1, <1>l DEF LaptopCarries, Required
<1>7. CASE Push(m)
  <2>1. /\ disk' = disk /\ at'[m] = "compare" /\ body'[m] = d.file
    BY <1>7, <1>0 DEF Push, Go
  <2> QED BY <2>1, <1>1, <1>l DEF LaptopCarries, Required
<1>8. CASE Interpret(m)
  <2> DEFINE mark == [run |-> runs', did |-> "interpret"]
  <2>1. at[m] = "interpret" /\ body' = body BY <1>8 DEF Interpret
  <2>2. {mark} \in Marked /\ \A S \in SUBSET {mark} : S \in Marked
    <3>1. runs' \in 0..MaxRuns /\ 1 \in 1..Len(Commands)
      BY <1>8, PublicationConstants DEF Interpret, PublicationTypeOK
    <3> QED BY <3>1, MarkType DEF Marked
  <2>3. d.log # Missing => d.log.over = d.file BY <2>1, <1>0 DEF CleanAt
  <2>4. \A S \in Marked :
          /\ Ended(d, S).log = Missing /\ Marks(Ended(d, S).file) = Marks(Whole(d)) \union S
          /\ Died(d, S).file = d.file /\ Died(d, S).log.adds = Marks(Whole(d)) \union S
    BY <1>0, <2>3, Opening
  <2>5. /\ d.log = Missing => Marks(Whole(d)) = Marks(d.file)
        /\ d.log # Missing => Marks(Whole(d)) \subseteq Marks(d.file) \union d.log.adds
    <3>1. {} \in Marked BY DEF Marked
    <3> QED BY <3>1, <1>0, <2>3, Opening
  <2>6. d.log # Missing => Marks(d.log.adds) = d.log.adds BY <1>0, NoMarks DEF Disk, Log
  <2>7. ASSUME NEW S \in SUBSET {mark}, NEW x \in Marks(Whole(d)) \union S,
               x.did # "interpret", x.did # Commands[Len(Commands)]
        PROVE  x \in Marks(db) \union lost
    <3>1. mark.did = "interpret" OBVIOUS
    <3>2. x \in Marks(Whole(d)) BY <2>7, <3>1, Zenon
    <3> QED BY <2>5, <2>6, <2>7, <3>2, <1>l DEF LaptopCarries, Required
  <2>8. CASE Leaves(m, Ended(d, {mark})) /\ Go(m, "push")
    <3>1. disk'[m] = Ended(d, {mark}) /\ at'[m] = "push" BY <2>8, <1>0 DEF Leaves, Go
    <3>2. disk'[m].log = Missing /\ Marks(disk'[m].file) = Marks(Whole(d)) \union {mark}
      BY <3>1, <2>2, <2>4
    <3>3. Required(disk'[m].file) \subseteq Marks(db) \union lost BY <3>2, <2>7 DEF Required
    <3> QED BY <3>1, <3>2, <3>3, <2>1, <1>1, <1>l DEF LaptopCarries, Required
  <2>9. ASSUME NEW S \in SUBSET {mark}, Leaves(m, Died(d, S)), Go(m, "idle")
        PROVE  LaptopCarries'
    <3>1. disk'[m] = Died(d, S) /\ at'[m] = "idle" BY <2>9, <1>0 DEF Leaves, Go
    <3>2. S \in Marked BY <2>2, Zenon
    <3>3. disk'[m].file = d.file /\ disk'[m].log.adds = Marks(Whole(d)) \union S
      BY <3>1, <3>2, <2>4
    <3>4. Marks(Whole(d)) \union S \in Marked
      BY <3>2, <1>0, WholeType, MarksType DEF Marked
    <3>5. Required(disk'[m].log.adds) \subseteq Marks(db) \union lost
      BY <3>3, <3>4, <2>7, NoMarks DEF Required
    <3> QED BY <3>1, <3>3, <3>5, <2>1, <1>1, <1>l DEF LaptopCarries, Required
  <2> QED BY <1>8, <2>8, <2>9 DEF Interpret
<1> QED BY <1>3, <1>4, <1>5, <1>6, <1>7, <1>8 DEF Moves

\* Whoever publishes next takes nothing back, unless an operator does.
LEMMA PutAdds ==
  ASSUME PublicationTypeOK, Roles, Trusted, Carried, NEW m \in Machines, Put(m), m # "laptop"
  PROVE  Required(db) \subseteq Marks(body[m]) \union lost
<1>1. at[m] = "put" BY DEF Put
<1>2. CASE m = "refresher"
  BY <1>1, <1>2 DEF Carried, Published, RefresherCarries, Required
<1>3. CASE m = "interpreter"
  <2>1. Hand = body[m] BY <1>1, <1>3 DEF Hand
  <2>2. body[m] # Damaged BY <1>1 DEF Trusted, TrustedAt, Sound
  <2> QED BY <1>1, <1>3, <2>1, <2>2 DEF Carried, InterpreterCarries
<1>4. CASE m = "deployer" BY <1>1, <1>4 DEF Roles, Pulling
<1> QED BY <1>2, <1>3, <1>4, FourMachines

\* A publication: what it leaves the others with.
LEMMA PutKeeps ==
  ASSUME PublicationTypeOK, Roles, Clean, Trusted, Carried, NEW m \in Machines, Put(m)
  PROVE  Carried'
<1> USE FourMachines
<1>0. /\ at \in [Machines -> Steps] /\ at[m] = "put" /\ at'[m] \in {"sign", "idle"}
      /\ db' \in {db, body[m]} /\ UNCHANGED <<disk, body, cache, ok, lost>>
      /\ \A n \in Machines \ {m} : at'[n] = at[n]
  BY DEF PublicationTypeOK, Put, Go, refresh, history
<1>1. Required(body[m]) \subseteq Marks(cache) \union lost
  <2>1. CASE m = "refresher" BY <1>0, <2>1 DEF Carried, RefresherCarries
  <2>2. CASE m = "interpreter"
    <3>1. Hand = body[m] BY <1>0, <2>2 DEF Hand
    <3> QED BY <1>0, <2>2, <3>1 DEF Carried, InterpreterCarries
  <2>3. CASE m = "laptop" BY <1>0, <2>3 DEF Carried, LaptopCarries, Published, Required
  <2>4. CASE m = "deployer" BY <1>0, <2>4 DEF Roles, Pulling
  <2> QED BY <2>1, <2>2, <2>3, <2>4
<1>2. Published' BY <1>0, <1>1 DEF Carried, Published, Required
<1>3. RefresherCarries'
  <2>1. CASE m = "refresher" BY <1>0, <2>1 DEF Carried, RefresherCarries, Required
  <2>2. CASE m # "refresher" BY <1>0, <2>2 DEF Carried, RefresherCarries, Required
  <2> QED BY <2>1, <2>2
<1>4. InterpreterCarries'
  <2>1. CASE m = "interpreter"
    <3>1. Hand = body[m] /\ (at'[m] = "sign" => Hand' = body[m]) BY <1>0, <2>1 DEF Hand
    <3> QED BY <1>0, <2>1, <3>1 DEF Carried, InterpreterCarries, Required
  <2>2. CASE m = "refresher"
    <3>1. at["interpreter"] = "idle" BY <1>0, <2>2 DEF Roles
    <3> QED BY <1>0, <2>2, <3>1 DEF InterpreterCarries
  <2>3. CASE m = "laptop"
    <3>1. Hand' = Hand /\ at'["interpreter"] = at["interpreter"] BY <1>0, <2>3 DEF Hand
    <3>2. Required(body[m]) \subseteq Marks(db) \union lost
      BY <2>3 DEF Carried, LaptopCarries
    <3>3. Required(db') \subseteq Required(db) \union lost BY <1>0, <3>2 DEF Required
    <3> QED BY <1>0, <3>1, <3>3 DEF Carried, InterpreterCarries, Required
  <2>4. CASE m = "deployer" BY <1>0, <2>4 DEF Roles, Pulling
  <2> QED BY <2>1, <2>2, <2>3, <2>4
<1>5. LaptopCarries'
  <2>1. CASE m = "laptop"
    <3>1. disk[m].log = Missing BY <1>0 DEF Clean, CleanAt, Bare
    <3>2. body[m] = disk[m].file BY <1>0, <2>1 DEF Carried, LaptopCarries
    <3> QED BY <1>0, <2>1, <3>1, <3>2 DEF Carried, LaptopCarries, Required
  <2>2. CASE m # "laptop"
    <3>1. Required(db) \subseteq Marks(db') \union lost
      BY <1>0, <2>2, PutAdds DEF Required
    <3>2. \A c : Required(c) \subseteq Marks(db) \union lost => Required(c) \subseteq Marks(db') \union lost
      BY <3>1 DEF Required
    <3> QED BY <1>0, <2>2, <3>2 DEF Carried, LaptopCarries, Required
  <2> QED BY <2>1, <2>2
<1> QED BY <1>2, <1>3, <1>4, <1>5 DEF Carried

\* Every step leaves what is published with whoever may publish next.
LEMMA CarriedStep ==
  ASSUME PublicationTypeOK, Roles, Clean, Trusted, Carried, [PublicationNext]_publicationVars
  PROVE  Carried'
<1> USE FourMachines
<1>0. at \in [Machines -> Steps] BY DEF PublicationTypeOK
<1>1. CASE UNCHANGED publicationVars
  BY <1>1 DEF Carried, Published, RefresherCarries, InterpreterCarries, Hand, LaptopCarries, Required,
              publicationVars, bucket, machine, refresh, history
<1>2. CASE StartRefresh \/ Work \/ Status
  <2>1. Others("refresher") /\ RefresherCarries' BY <1>2, Framed, RefresherKeeps
  <2>2. UNCHANGED <<db, cache, lost>> BY <1>2 DEF StartRefresh, Work, Status, bucket, history
  <2> QED BY <2>1, <2>2, CarriedFramed
<1>3. CASE Save
  <2>1. /\ at["refresher"] = "save" /\ at'["refresher"] = "status"
        /\ at'["laptop"] = at["laptop"] /\ at'["interpreter"] = at["interpreter"]
        /\ UNCHANGED <<db, disk, body, ok>>
        /\ \/ cache' = disk["refresher"].file /\ lost' = lost
           \/ cache' = cache /\ lost' = lost \union Marks(disk["refresher"].file)
    BY <1>3, <1>0 DEF Save, Go, bucket
  <2>2. /\ Marks(cache) \subseteq Marks(disk["refresher"].file)
        /\ at["interpreter"] = "idle"
    BY <2>1 DEF Roles, Carried, RefresherCarries
  <2>3. Published' BY <2>1, <2>2 DEF Carried, Published, Required
  <2>4. RefresherCarries' BY <2>1, <2>2 DEF Carried, RefresherCarries, Required
  <2>5. InterpreterCarries' BY <2>1, <2>2 DEF InterpreterCarries
  <2>6. LaptopCarries' BY <2>1 DEF Carried, LaptopCarries, Required
  <2> QED BY <2>3, <2>4, <2>5, <2>6 DEF Carried
<1>4. CASE Evict
  <2>1. /\ cache' = Missing /\ lost' = lost \union Marks(cache)
        /\ UNCHANGED <<db, disk, body, at, ok>>
    BY <1>4 DEF Evict, bucket, machine
  <2>2. Marks(cache') = {} /\ Required(cache') = {} BY <2>1, NoMarks DEF Required
  <2>3. Published' BY <2>1 DEF Carried, Published, Required
  <2>4. RefresherCarries' BY <2>1, <2>2 DEF Carried, RefresherCarries, Required
  <2>5. InterpreterCarries' BY <2>1 DEF Carried, InterpreterCarries, Hand, Required
  <2>6. LaptopCarries' BY <2>1 DEF Carried, LaptopCarries, Required
  <2> QED BY <2>3, <2>4, <2>5, <2>6 DEF Carried
<1>5. CASE StartInterpret
  <2>1. Others("interpreter") /\ InterpreterCarries' BY <1>5, Framed, InterpreterKeeps
  <2>2. UNCHANGED <<db, cache, ok, lost>> BY <1>5 DEF StartInterpret, bucket, refresh, history
  <2> QED BY <2>1, <2>2, CarriedFramed
<1>6. CASE StartDeploy
  <2>1. Others("deployer") BY <1>6, Framed
  <2>2. UNCHANGED <<db, cache, ok, lost>> BY <1>6 DEF StartDeploy, bucket, refresh, history
  <2> QED BY <2>1, <2>2, CarriedFramed
<1>7. CASE Operate
  <2>1. Others("laptop") /\ LaptopCarries' BY <1>7, Framed, LaptopKeeps
  <2>2. UNCHANGED <<db, cache, ok, lost>> BY <1>7 DEF Operate, bucket, refresh
  <2> QED BY <2>1, <2>2, CarriedFramed
<1>8. ASSUME NEW m \in Machines, Moves(m) PROVE Carried'
  <2>1. CASE Put(m) BY <2>1, PutKeeps
  <2>2. CASE ~Put(m)
    <3>1. Others(m) BY <1>8, Framed
    <3>2. UNCHANGED <<db, cache, ok, lost>>
      BY <1>8, <2>2 DEF Moves, PullBody, Check, Install, Sweep, Interpret, Ship, Push, Compare, Sign,
                        Kill, bucket, refresh, history
    <3>3. m = "refresher" => RefresherCarries' BY <1>8, RefresherKeeps
    <3>4. m = "interpreter" => InterpreterCarries' BY <1>8, <2>2, InterpreterKeeps
    <3>5. m = "laptop" => LaptopCarries' BY <1>8, <2>2, LaptopKeeps
    <3> QED BY <3>1, <3>2, <3>3, <3>4, <3>5, CarriedFramed
  <2> QED BY <2>1, <2>2
<1> QED BY <1>1, <1>2, <1>3, <1>4, <1>5, <1>6, <1>7, <1>8 DEF PublicationNext, Moves

-----------------------------------------------------------------------------
(* The theorems. *)

\* The invariant holds at first.
LEMMA InvInit == PublicationInit => PublicationInv
<1> SUFFICES ASSUME PublicationInit PROVE PublicationInv OBVIOUS
<1> USE FourMachines
<1>0. PublicationTypeOK /\ Roles BY InitType, RolesInit
<1>1. db # Damaged
  <2>1. db \in {Missing} \union Marked
    <3>1. 0 \in 0..MaxRuns BY PublicationConstants
    <3>2. \A i \in 1..Len(Commands) : [run |-> 0, did |-> Commands[i]] \in Mark BY <3>1, MarkType
    <3>3. {[run |-> 0, did |-> Commands[i]] : i \in 1..Len(Commands)} \in Marked
      BY <3>2 DEF Marked
    <3> QED BY <3>3 DEF PublicationInit
  <2> QED BY <2>1, PublicationConstants
<1>2. \A m \in Machines : at[m] = "idle" /\ body[m] = Missing /\ disk[m] = NoFile BY DEF PublicationInit
<1>3. \A m \in Machines : disk[m].file = Missing /\ disk[m].log = Missing BY <1>2 DEF NoFile
<1>4. Clean BY <1>1, <1>2, <1>3, PublicationConstants DEF PublicationInit, Clean, CleanAt, Bare, Pushing
<1>5. Trusted BY <1>1, <1>2 DEF PublicationInit, Trusted, TrustedAt, Sound
<1>6. Required(Missing) = {} BY NoMarks DEF Required
<1>7. Carried
  BY <1>2, <1>3, <1>6
  DEF PublicationInit, Carried, Published, RefresherCarries, InterpreterCarries, LaptopCarries, Required
<1> QED BY <1>0, <1>4, <1>5, <1>7 DEF PublicationInv

\* Every step keeps the invariant.
LEMMA InvStep == PublicationInv /\ [PublicationNext]_publicationVars => PublicationInv'
<1> SUFFICES ASSUME PublicationInv, [PublicationNext]_publicationVars PROVE PublicationInv' OBVIOUS
<1>1. PublicationTypeOK' /\ Roles' BY TypeStep, RolesStep DEF PublicationInv
<1>2. unsure => unsure'
  <2>1. CASE UNCHANGED publicationVars BY <2>1 DEF publicationVars, history
  <2>2. CASE PublicationNext
    BY <2>2 DEF PublicationNext, StartRefresh, Work, Save, Status, Evict, StartInterpret, StartDeploy, Operate,
                PullBody, Check, Install, Sweep, Interpret, Ship, Push, Compare, Put, Sign, Kill, history
  <2> QED BY <2>1, <2>2
<1>3. ASSUME ~unsure' PROVE Clean' /\ Trusted' /\ Carried'
  BY <1>2, <1>3, SafeStep, CarriedStep DEF PublicationInv
<1> QED BY <1>1, <1>3 DEF PublicationInv

\* The invariant holds of every behaviour of refreshes, interpretations, deploys
\* and operators, whatever dies, is evicted or is cut short.
THEOREM PublicationHolds == PublicationSpec => []PublicationInv
<1>1. PublicationInit => PublicationInv BY InvInit
<1>2. PublicationInv /\ [PublicationNext]_publicationVars => PublicationInv' BY InvStep
<1> QED BY <1>1, <1>2, PTL DEF PublicationSpec

\* The variables keep their types.
THEOREM PublicationTypes == PublicationSpec => []PublicationTypeOK
<1>1. PublicationInv => PublicationTypeOK BY DEF PublicationInv
<1> QED BY <1>1, PublicationHolds, PTL

\* What is served is, byte for byte, a whole database somebody set out to
\* publish, as long as every pull was whole and verified (snapshot.ts pullSnapshot).
THEOREM ServedWhole == PublicationSpec => []ServedIsWhole
<1>1. PublicationInv => ServedIsWhole
  <2> SUFFICES ASSUME PublicationInv, ~unsure, image # Missing PROVE image \in released \ {Damaged}
    BY DEF ServedIsWhole
  <2>1. Sound(image) BY DEF PublicationInv, Trusted
  <2> QED BY <2>1 DEF Sound
<1> QED BY <1>1, PublicationHolds, PTL

\* The workflows never take back records that were published, unless they went
\* with the cache or a pull was cut short or unverified (refresh.yml and
\* interpret.yml, one concurrency group).
THEOREM RecordsKept == PublicationSpec => RecordsStay
<1> DEFINE Kept == Required(db) \ Required(db') \subseteq lost \/ unsure \/ at["laptop"] = "put"
<1>1. PublicationInv /\ [PublicationNext]_publicationVars => [Kept]_publicationVars
  <2> SUFFICES ASSUME PublicationInv, [PublicationNext]_publicationVars, ~unsure, at["laptop"] # "put"
               PROVE  Required(db) \ Required(db') \subseteq lost
    OBVIOUS
  <2>1. CASE db' = db BY <2>1 DEF Required
  <2>2. ASSUME NEW m \in Machines, Put(m) PROVE Required(db) \ Required(db') \subseteq lost
    <3>1. m # "laptop" /\ db' \in {db, body[m]} BY <2>2 DEF Put
    <3>2. Required(db) \subseteq Marks(body[m]) \union lost BY <2>2, <3>1, PutAdds DEF PublicationInv
    <3> QED BY <3>1, <3>2 DEF Required
  <2>3. db' = db \/ \E m \in Machines : Put(m)
    <3>1. CASE UNCHANGED publicationVars BY <3>1 DEF publicationVars, bucket
    <3>2. CASE PublicationNext
      BY <3>2 DEF PublicationNext, StartRefresh, Work, Save, Status, Evict, StartInterpret, StartDeploy, Operate,
                  PullBody, Check, Install, Sweep, Interpret, Ship, Push, Compare, Sign, Kill, bucket
    <3> QED BY <3>1, <3>2
  <2> QED BY <2>1, <2>2, <2>3
<1> QED BY <1>1, PublicationHolds, PTL DEF PublicationSpec, RecordsStay

-----------------------------------------------------------------------------
(* Orders: what sorting gives, whatever the relation R puts first. *)

Ranked(s, S, R) ==
  /\ s \in [1..Cardinality(S) -> S]
  /\ \A i, j \in 1..Cardinality(S) : i < j => s[i] # s[j] /\ <<s[j], s[i]>> \notin R

\* Those of S that R puts before a; the first n of a sequence.
Preceding(a, S, R) == {x \in S : <<x, a>> \in R}
Front(s, n) == {s[i] : i \in 1..n}

\* A finite set of numbers that is not empty has a greatest.
LEMMA Greatest ==
  ASSUME NEW T, T \subseteq Nat, T # {}, IsFiniteSet(T)
  PROVE  \E x \in T : \A y \in T : y <= x
<1> DEFINE above(x) == {y \in T : y > x}
<1> DEFINE N == {above(x) : x \in T}
<1>1. N \subseteq FiniteSubsetsOf(T) /\ N # {}
  <2>1. \A x \in T : above(x) \subseteq T BY Zenon
  <2>2. \A x \in T : IsFiniteSet(above(x))
    <3> HIDE DEF above
    <3> QED BY <2>1, FS_Subset, Zenon
  <2> QED BY <2>1, <2>2 DEF FiniteSubsetsOf
<1>2. PICK k \in N : \A n \in N : ~(<<n, k>> \in StrictSubsetOrdering(T))
  <2> HIDE DEF N
  <2> QED BY <1>1, FS_StrictSubsetOrderingWellFounded, WFMin, Zenon
<1>3. PICK x \in T : k = above(x) OBVIOUS
<1>4. ASSUME NEW y \in T, y > x PROVE FALSE
  <2>0. \A z \in T : z > y => z > x BY <1>4
  <2>1. above(y) \subseteq above(x) BY <2>0
  <2>2. above(y) # above(x)
    <3>1. y \in above(x) /\ y \notin above(y) BY <1>4
    <3> QED BY <3>1, Zenon
  <2>3. above(y) \in N /\ above(y) \subseteq T /\ above(x) \subseteq T OBVIOUS
  <2> HIDE DEF above, N
  <2>4. <<above(y), above(x)>> \in (SUBSET T) \X (SUBSET T)
    BY <2>3
  <2>5. ASSUME NEW A, NEW B, <<A, B>> \in (SUBSET T) \X (SUBSET T), A \subseteq B, A # B
        PROVE  <<A, B>> \in StrictSubsetOrdering(T)
    <3> DEFINE p == <<A, B>>
    <3>1. p[1] = A /\ p[2] = B OBVIOUS
    <3> HIDE DEF p
    <3>2. p \in StrictSubsetOrdering(T) BY <2>5, <3>1, Zenon DEF StrictSubsetOrdering, p
    <3> QED BY <3>2 DEF p
  <2>6. <<above(y), above(x)>> \in StrictSubsetOrdering(T) BY <2>1, <2>2, <2>4, <2>5
  <2> QED BY <2>3, <2>6, <1>2, <1>3
<1> QED BY <1>4

\* A ranking is a sequence of the set, without repetition, that leaves nothing out.
LEMMA RankedIsAll ==
  ASSUME NEW S, IsFiniteSet(S), NEW R, NEW s, Ranked(s, S, R)
  PROVE  /\ s \in Seq(S) /\ Len(s) = Cardinality(S) /\ Cardinality(S) \in Nat
         /\ \A i, j \in 1..Len(s) : s[i] = s[j] => i = j
         /\ \A x \in S : \E i \in 1..Len(s) : s[i] = x
<1>0. PICK n \in Nat : n = Cardinality(S) BY FS_CardinalityType
<1>1. s \in [1..n -> S] BY <1>0 DEF Ranked
<1>2. s \in Seq(S) /\ Len(s) = n BY <1>1
<1>3. ASSUME NEW i \in 1..n, NEW j \in 1..n, s[i] = s[j] PROVE i = j
  <2>1. ~(i < j) /\ ~(j < i) BY <1>0, <1>3 DEF Ranked
  <2> QED BY <2>1
<1>4. s \in Injection(1..n, S) BY <1>1, <1>3, Fun_IsInj
<1>5. IsFiniteSet(1..n) /\ Cardinality(1..n) = n BY FS_Interval
<1>6. s \in Surjection(1..n, S) BY <1>0, <1>4, <1>5, FS_Injection
<1> QED BY <1>0, <1>2, <1>3, <1>6, Fun_SurjectionProperties

\* The first of a sequence without repetition are as many as there are.
LEMMA FrontCounts ==
  ASSUME NEW S, NEW s \in Seq(S), NEW n \in 0..Len(s),
         \A i, j \in 1..Len(s) : s[i] = s[j] => i = j
  PROVE  IsFiniteSet(Front(s, n)) /\ Cardinality(Front(s, n)) = n
<1> DEFINE f == [i \in 1..n |-> s[i]]
<1> DEFINE T == {s[i] : i \in 1..n}
<1>1. /\ f \in [1..n -> T]
      /\ \A a, b \in 1..n : f[a] = f[b] => a = b
      /\ \A t \in T : \E i \in 1..n : f[i] = t
  <2>1. f \in [1..n -> T] BY Zenon
  <2>2. ASSUME NEW a \in 1..n, NEW b \in 1..n, f[a] = f[b] PROVE a = b
    <3>1. s[a] = s[b] BY <2>2
    <3>2. a \in 1..Len(s) /\ b \in 1..Len(s) OBVIOUS
    <3> QED BY <3>1, <3>2
  <2>3. \A t \in T : \E i \in 1..n : f[i] = t OBVIOUS
  <2> QED BY <2>1, <2>2, <2>3
<1>2. IsFiniteSet(1..n) /\ Cardinality(1..n) = n BY FS_Interval
<1>3. f \in Surjection(1..n, T) /\ f \in Injection(1..n, T)
  <2> HIDE DEF f, T
  <2> QED BY <1>1, Fun_IsInj, Fun_IsSurj
<1> HIDE DEF f, T
<1>4. IsFiniteSet(T) BY <1>2, <1>3, FS_Surjection
<1>5. Cardinality(T) = Cardinality(1..n) BY <1>2, <1>3, FS_Surjection
<1> QED BY <1>2, <1>4, <1>5 DEF T, Front

\* What comes before the i-th of a ranking, if of two different ones one is first.
LEMMA BeforeIt ==
  ASSUME NEW S, IsFiniteSet(S), NEW R,
         \A a \in S : <<a, a>> \notin R,
         \A a, b \in S : a = b \/ <<a, b>> \in R \/ <<b, a>> \in R,
         NEW s, Ranked(s, S, R), NEW i \in 1..Len(s)
  PROVE  Cardinality(Preceding(s[i], S, R)) = i - 1
<1>1. s \in Seq(S) /\ Len(s) = Cardinality(S) /\ Cardinality(S) \in Nat
  BY RankedIsAll
<1>2. \A k, j \in 1..Len(s) : s[k] = s[j] => k = j
  BY RankedIsAll
<1>3. \A x \in S : \E k \in 1..Len(s) : s[k] = x
  BY RankedIsAll
<1>4. \A k, j \in 1..Len(s) : k < j => s[k] # s[j] /\ <<s[j], s[k]>> \notin R
  BY <1>1 DEF Ranked
<1>5. \A k \in 1..Len(s) : s[k] \in S BY <1>1
<1>6. \A k \in 1..Len(s) : <<s[k], s[i]>> \in R <=> k < i
  <2> TAKE k \in 1..Len(s)
  <2>1. CASE k < i BY <2>1, <1>4, <1>5
  <2>2. CASE k = i BY <2>2, <1>5
  <2>3. CASE k > i BY <2>3, <1>4
  <2> QED BY <2>1, <2>2, <2>3, <1>1
<1>7. Preceding(s[i], S, R) = Front(s, i - 1)
  <2>1. ASSUME NEW x \in S, <<x, s[i]>> \in R PROVE \E k \in 1..(i - 1) : x = s[k]
    <3>1. PICK k \in 1..Len(s) : s[k] = x BY <1>3
    <3>2. k < i BY <3>1, <2>1, <1>6
    <3> QED BY <3>1, <3>2, <1>1
  <2>2. ASSUME NEW k \in 1..(i - 1) PROVE s[k] \in S /\ <<s[k], s[i]>> \in R
    <3>1. k \in 1..Len(s) /\ k < i BY <1>1
    <3> QED BY <3>1, <1>5, <1>6
  <2>3. Preceding(s[i], S, R) \subseteq Front(s, i - 1) BY <2>1 DEF Preceding, Front
  <2>4. Front(s, i - 1) \subseteq Preceding(s[i], S, R) BY <2>2 DEF Preceding, Front
  <2> QED BY <2>3, <2>4
<1>8. i - 1 \in 0..Len(s) BY <1>1
<1> QED BY <1>1, <1>2, <1>7, <1>8, FrontCounts

\* There is one ranking if of two different ones one is first.
LEMMA OneRanking ==
  ASSUME NEW S, IsFiniteSet(S), NEW R,
         \A a \in S : <<a, a>> \notin R,
         \A a, b \in S : a = b \/ <<a, b>> \in R \/ <<b, a>> \in R,
         NEW s, Ranked(s, S, R), NEW t, Ranked(t, S, R)
  PROVE  s = t
<1>1. s \in Seq(S) /\ Len(s) = Cardinality(S) /\ t \in Seq(S) /\ Len(t) = Cardinality(S) /\ Cardinality(S) \in Nat
  BY RankedIsAll
<1>2. \A x \in S : \E k \in 1..Len(t) : t[k] = x BY RankedIsAll
<1>3. ASSUME NEW i \in 1..Len(s) PROVE s[i] = t[i]
  <2>1. s[i] \in S BY <1>1
  <2>2. PICK k \in 1..Len(t) : t[k] = s[i] BY <2>1, <1>2
  <2>3. Cardinality(Preceding(s[i], S, R)) = i - 1 BY BeforeIt
  <2>4. Cardinality(Preceding(t[k], S, R)) = k - 1 BY BeforeIt
  <2>5. i - 1 = k - 1 BY <2>2, <2>3, <2>4
  <2>6. i = k BY <2>5, <1>1
  <2> QED BY <2>2, <2>6
<1> QED BY <1>1, <1>3, SeqEqual

-----------------------------------------------------------------------------
(* Slices. *)

Upto(s, n) == First(s, n * PageSize)

\* The first so many of a sequence.
LEMMA FirstIs ==
  ASSUME NEW S, NEW s \in Seq(S), NEW n \in Nat
  PROVE  /\ First(s, n) \in Seq(S) /\ Len(First(s, n)) = Least(n, Len(s))
         /\ Least(n, Len(s)) \in 0..Len(s) /\ Least(n, Len(s)) <= n
         /\ \A i \in 1..Least(n, Len(s)) : First(s, n)[i] = s[i]
         /\ Among(First(s, n)) = Front(s, Least(n, Len(s)))
<1> DEFINE m == Least(n, Len(s))
<1>1. Len(s) \in Nat /\ \A i \in 1..Len(s) : s[i] \in S OBVIOUS
<1>2. m \in 0..Len(s) /\ m <= n BY <1>1 DEF Least
<1> HIDE DEF m
<1>3. \A i \in 1..m : s[i] \in S BY <1>1, <1>2
<1>4. /\ SubSeq(s, 1, m) \in Seq(S)
      /\ Len(SubSeq(s, 1, m)) = IF 1 <= m THEN m - 1 + 1 ELSE 0
      /\ \A i \in 1..(m - 1 + 1) : SubSeq(s, 1, m)[i] = s[1 + i - 1]
  BY <1>2, <1>3, SubSeqProperties
<1>5. First(s, n) = SubSeq(s, 1, m) BY DEF First, m
<1>6. Len(First(s, n)) = m BY <1>2, <1>4, <1>5
<1>7. \A i \in 1..m : First(s, n)[i] = s[i] BY <1>2, <1>4, <1>5
<1>8. Among(First(s, n)) = Front(s, m) BY <1>6, <1>7 DEF Among, Front
<1> QED BY <1>2, <1>4, <1>5, <1>6, <1>7, <1>8 DEF m

\* Where a page begins and ends.
LEMMA Pages ==
  ASSUME NEW p \in Nat \ {0}
  PROVE  /\ (p - 1) * PageSize \in Nat /\ p * PageSize \in Nat
         /\ p * PageSize = (p - 1) * PageSize + PageSize /\ PageSize \in Nat \ {0}
         /\ 0 * PageSize = 0 /\ 1 * PageSize = PageSize /\ p - 1 \in Nat
         /\ p > 1 => (p - 1) \in Nat \ {0}
<1>1. PageSize \in Nat \ {0} BY SiteConstants
<1>2. p - 1 \in Nat /\ (p > 1 => (p - 1) \in Nat \ {0}) OBVIOUS
<1>3. (p - 1) * PageSize \in Nat /\ p * PageSize \in Nat BY <1>1, <1>2
<1>4. p * PageSize = (p - 1) * PageSize + PageSize BY <1>1
<1>5. 0 * PageSize = 0 /\ 1 * PageSize = PageSize BY <1>1
<1> QED BY <1>1, <1>2, <1>3, <1>4, <1>5

\* A page of a sequence.
LEMMA SliceIs ==
  ASSUME NEW S, NEW s \in Seq(S), NEW p \in Nat \ {0}
  PROVE  /\ Slice(s, p) \in Seq(S)
         /\ p * PageSize <= Len(s) => Len(Slice(s, p)) = PageSize
         /\ p * PageSize > Len(s) => Len(Slice(s, p)) < PageSize
         /\ (p - 1) * PageSize < Len(s) => Slice(s, p) # <<>>
<1> DEFINE a == (p - 1) * PageSize
<1> DEFINE b == p * PageSize
<1>1. a \in Nat /\ b \in Nat /\ b = a + PageSize /\ PageSize \in Nat \ {0} BY Pages
<1>2. Len(s) \in Nat /\ \A i \in 1..Len(s) : s[i] \in S OBVIOUS
<1>3. Slice(s, p) = SubSeq(s, a + 1, Least(b, Len(s))) BY DEF Slice
<1> HIDE DEF a, b
<1> DEFINE m == Least(b, Len(s))
<1>4. m \in Nat /\ m <= Len(s) /\ m <= b /\ (b <= Len(s) => m = b) /\ (b > Len(s) => m = Len(s))
  BY <1>1, <1>2 DEF Least
<1> HIDE DEF m
<1>5. \A i \in (a + 1)..m : s[i] \in S BY <1>1, <1>2, <1>4
<1>6. a + 1 \in Int /\ m \in Int BY <1>1, <1>4
<1>7. /\ SubSeq(s, a + 1, m) \in Seq(S)
      /\ Len(SubSeq(s, a + 1, m)) = IF a + 1 <= m THEN m - (a + 1) + 1 ELSE 0
  BY <1>5, <1>6, SubSeqProperties
<1>8. Slice(s, p) \in Seq(S) /\ Len(Slice(s, p)) = IF a + 1 <= m THEN m - a ELSE 0
  BY <1>1, <1>3, <1>4, <1>7 DEF m
<1>9. (b <= Len(s) => Len(Slice(s, p)) = PageSize) /\ (b > Len(s) => Len(Slice(s, p)) < PageSize)
  BY <1>1, <1>2, <1>4, <1>8
<1>10. ASSUME a < Len(s) PROVE Slice(s, p) # <<>>
  <2>1. Len(Slice(s, p)) > 0 BY <1>1, <1>2, <1>4, <1>8, <1>10
  <2> QED BY <2>1
<1> QED BY <1>8, <1>9, <1>10 DEF a, b

\* The pages before one and that one are the pages up to it.
LEMMA PagesJoin ==
  ASSUME NEW S, NEW s \in Seq(S), NEW p \in Nat \ {0}
  PROVE  /\ Upto(s, p - 1) \o Slice(s, p) = Upto(s, p)
         /\ Slice(s, 1) = Upto(s, 1)
<1> DEFINE a == (p - 1) * PageSize
<1> DEFINE b == p * PageSize
<1> DEFINE k == Least(a, Len(s))
<1> DEFINE m == Least(b, Len(s))
<1>1. a \in Nat /\ b \in Nat /\ b = a + PageSize /\ PageSize \in Nat \ {0} BY Pages
<1>2. Len(s) \in Nat OBVIOUS
<1>3. Slice(s, p) = SubSeq(s, a + 1, m) /\ Upto(s, p) = SubSeq(s, 1, m) /\ Upto(s, p - 1) = SubSeq(s, 1, k)
  BY DEF Slice, Upto, First
<1> HIDE DEF a, b
<1>4. m \in Nat /\ m <= Len(s) /\ m <= b /\ (b <= Len(s) => m = b) /\ (b > Len(s) => m = Len(s))
  BY <1>1, <1>2 DEF Least
<1>5. (a <= Len(s) => k = a) /\ (a > Len(s) => k = Len(s)) BY <1>1, <1>2 DEF Least
<1> HIDE DEF k, m
<1>6. ASSUME a <= Len(s) PROVE Upto(s, p - 1) \o Slice(s, p) = Upto(s, p)
  <2>1. 1 \in 1..(Len(s) + 1) /\ a \in (1 - 1)..Len(s) /\ m \in a..Len(s)
    BY <1>1, <1>2, <1>4, <1>6
  <2>2. SubSeq(s, 1, a) \o SubSeq(s, a + 1, m) = SubSeq(s, 1, m)
    BY <2>1, ConcatAdjacentSubSeq
  <2> QED BY <1>3, <1>5, <1>6, <2>2, Zenon
<1>7. ASSUME a > Len(s) PROVE Upto(s, p - 1) \o Slice(s, p) = Upto(s, p)
  <2>1. m = Len(s) BY <1>1, <1>2, <1>4, <1>7
  <2>2. m < a + 1 /\ a + 1 \in Int /\ m \in Int BY <1>1, <1>2, <1>4, <1>7
  <2>3. SubSeq(s, a + 1, m) = <<>> BY <2>2, SubSeqEmpty
  <2>4. SubSeq(s, 1, Len(s)) = s BY SubSeqFull
  <2>5. s \o <<>> = s BY ConcatEmptySeq
  <2> QED BY <1>3, <1>5, <1>7, <2>1, <2>3, <2>4, <2>5, Zenon
<1>8. Slice(s, 1) = Upto(s, 1)
  <2> DEFINE c == (1 - 1) * PageSize + 1
  <2> DEFINE e == Least(1 * PageSize, Len(s))
  <2>1. c = 1 BY <1>1
  <2>2. Slice(s, 1) = SubSeq(s, c, e) BY DEF Slice
  <2>3. Upto(s, 1) = SubSeq(s, 1, e) BY DEF Upto, First
  <2> HIDE DEF c, e
  <2> QED BY <2>1, <2>2, <2>3
<1>9. a <= Len(s) \/ a > Len(s) BY <1>1, <1>2
<1> QED BY <1>6, <1>7, <1>8, <1>9, Zenon

\* What pages up to the end of a sequence are.
LEMMA PagesEnd ==
  ASSUME NEW S, NEW s \in Seq(S), NEW p \in Nat
  PROVE  /\ Upto(s, p) \in Seq(S) /\ Len(Upto(s, p)) <= Len(s)
         /\ \A i \in 1..Len(Upto(s, p)) : Upto(s, p)[i] = s[i]
         /\ p * PageSize >= Len(s) => Upto(s, p) = s
<1>1. p * PageSize \in Nat BY SiteConstants
<1>2. Upto(s, p) \in Seq(S) /\ Len(Upto(s, p)) <= Len(s) /\ \A i \in 1..Len(Upto(s, p)) : Upto(s, p)[i] = s[i]
  <2> DEFINE n == p * PageSize
  <2> HIDE DEF n
  <2>1. n \in Nat BY <1>1 DEF n
  <2>2. /\ First(s, n) \in Seq(S) /\ Len(First(s, n)) = Least(n, Len(s)) /\ Least(n, Len(s)) \in 0..Len(s)
        /\ \A i \in 1..Least(n, Len(s)) : First(s, n)[i] = s[i]
    BY <2>1, FirstIs
  <2>3. Upto(s, p) = First(s, n) BY DEF Upto, n
  <2> QED BY <2>2, <2>3
<1>3. ASSUME p * PageSize >= Len(s) PROVE Upto(s, p) = s
  <2>1. Least(p * PageSize, Len(s)) = Len(s) BY <1>1, <1>3 DEF Least
  <2> QED BY <2>1, SubSeqFull DEF Upto, First
<1> QED BY <1>2, <1>3

-----------------------------------------------------------------------------
(* The orders the queries ask for. *)

Puts(f) == UNION {{<<a, b>> : b \in {c \in Found(f) : Before(f, a, c)}} : a \in Found(f)}
Distinct(f) == \A a, b \in Found(f) : a = b \/ Before(f, a, b) \/ Before(f, b, a)

\* What is read of the rows are numbers.
LEMMA RowType ==
  ASSUME ArchiveTypeOK
  PROVE  /\ \A r \in Records : archive[r] # None => Row(r) \in Content
         /\ \A m \in DOMAIN matters : m \in Matter /\ matters[m] \in MatterRow /\ Spelt[matters[m].label] \in Subject
<1>1. ASSUME NEW r \in Records, archive[r] # None PROVE Row(r) \in Content
  <2>1. archive[r] \in Versions[r] BY <1>1 DEF ArchiveTypeOK, AnyArchive
  <2> QED BY <2>1, ArchiveConstants DEF Row
<1>2. ASSUME NEW m \in DOMAIN matters PROVE m \in Matter /\ matters[m] \in MatterRow /\ Spelt[matters[m].label] \in Subject
  <2>1. m \in Matter /\ matters[m] \in MatterRow BY DEF ArchiveTypeOK
  <2>2. matters[m].label \in Subjects BY <2>1 DEF MatterRow
  <2> QED BY <2>1, <2>2, LinkingConstants
<1> QED BY <1>1, <1>2

\* What a query finds.
LEMMA FoundType ==
  ASSUME ArchiveTypeOK, NEW f
  PROVE  /\ f.view = "timelines" => Found(f) \subseteq DOMAIN matters /\ Found(f) \subseteq Matter
         /\ f.view # "timelines" => Found(f) \subseteq Records /\ \A r \in Found(f) : archive[r] # None /\ Row(r) \in Content
<1>1. f.view = "timelines" => Found(f) \subseteq DOMAIN matters BY DEF Found
<1>2. f.view # "timelines" => Found(f) \subseteq Records /\ \A r \in Found(f) : archive[r] # None
  BY DEF Found, Selects
<1> QED BY <1>1, <1>2, RowType

\* It is a finite set.
LEMMA FoundFinite ==
  ASSUME ArchiveTypeOK, IsFiniteSet(DOMAIN matters), NEW f
  PROVE  IsFiniteSet(Found(f)) /\ Cardinality(Found(f)) \in Nat
<1>1. IsFiniteSet(Records) BY ArchiveConstants
<1>2. IsFiniteSet(Found(f)) BY <1>1, FoundType, FS_Subset
<1> QED BY <1>2, FS_CardinalityType

\* No record is put before itself.
LEMMA NeverBeforeItself ==
  ASSUME ArchiveTypeOK, NEW f, NEW x \in Found(f)
  PROVE  ~Before(f, x, x)
<1>1. CASE f.view = "timelines"
  <2>1. matters[x] \in MatterRow /\ Spelt[matters[x].label] \in Subject BY <1>1, FoundType, RowType
  <2>2. matters[x].last \in Nat /\ matters[x].count \in Nat /\ Spelt[matters[x].label].rank \in Nat
    BY <2>1 DEF MatterRow, Subject
  <2> QED BY <1>1, <2>2 DEF Before, Livelier
<1>2. CASE f.view # "timelines"
  <2>1. Row(x) \in Content BY <1>2, FoundType
  <2>2. Row(x).at \in Nat /\ Row(x).title \in Nat BY <2>1 DEF Content
  <2> QED BY <1>2, <2>2 DEF Before, Sooner, Newer
<1> QED BY <1>1, <1>2

\* The pairs an order is about.
LEMMA PutsIs ==
  ASSUME NEW f, NEW x, NEW y
  PROVE  <<x, y>> \in Puts(f) <=> x \in Found(f) /\ y \in Found(f) /\ Before(f, x, y)
BY DEF Puts

\* An order is a ranking.
LEMMA OrderRanks ==
  ASSUME NEW f, NEW s
  PROVE  s \in Orders(f) <=> Ranked(s, Found(f), Puts(f))
BY DEF Orders, Sorted, Ranked, Puts

\* An order of what is found lists it all, each once, none before what goes first.
LEMMA OrderIs ==
  ASSUME ArchiveTypeOK, IsFiniteSet(DOMAIN matters), NEW f, NEW s \in Orders(f)
  PROVE  /\ s \in Seq(Found(f)) /\ Len(s) = Cardinality(Found(f)) /\ Cardinality(Found(f)) \in Nat
         /\ \A i, j \in 1..Len(s) : s[i] = s[j] => i = j
         /\ \A x \in Found(f) : \E i \in 1..Len(s) : s[i] = x
         /\ \A i, j \in 1..Len(s) : i < j => ~Before(f, s[j], s[i])
<1>1. Ranked(s, Found(f), Puts(f)) /\ IsFiniteSet(Found(f)) BY OrderRanks, FoundFinite
<1>2. s \in Seq(Found(f)) /\ Len(s) = Cardinality(Found(f)) /\ Cardinality(Found(f)) \in Nat
  BY <1>1, RankedIsAll
<1>3. \A i, j \in 1..Len(s) : s[i] = s[j] => i = j BY <1>1, RankedIsAll
<1>4. \A x \in Found(f) : \E i \in 1..Len(s) : s[i] = x BY <1>1, RankedIsAll
<1>5. ASSUME NEW i \in 1..Len(s), NEW j \in 1..Len(s), i < j PROVE ~Before(f, s[j], s[i])
  <2>1. <<s[j], s[i]>> \notin Puts(f) BY <1>1, <1>2, <1>5 DEF Ranked
  <2>2. s[i] \in Found(f) /\ s[j] \in Found(f) BY <1>2
  <2> QED BY <2>1, <2>2, PutsIs
<1> QED BY <1>2, <1>3, <1>4, <1>5

\* If no two found are equal in it there is one.
LEMMA OneOrder ==
  ASSUME ArchiveTypeOK, IsFiniteSet(DOMAIN matters), NEW f, Distinct(f), NEW s \in Orders(f), NEW t \in Orders(f)
  PROVE  s = t
<1>1. Ranked(s, Found(f), Puts(f)) /\ Ranked(t, Found(f), Puts(f)) BY OrderRanks
<1>2. IsFiniteSet(Found(f)) BY FoundFinite
<1>3. \A a \in Found(f) : <<a, a>> \notin Puts(f) BY PutsIs, NeverBeforeItself
<1>4. \A a, b \in Found(f) : a = b \/ <<a, b>> \in Puts(f) \/ <<b, a>> \in Puts(f)
  BY PutsIs DEF Distinct
<1> QED BY <1>1, <1>2, <1>3, <1>4, OneRanking

\* The page asked for says nothing of what is found, nor of its order.
LEMMA OtherPage ==
  ASSUME NEW f, NEW g, g.town = f.town, g.view = f.view, g.q = f.q, g.body = f.body, g.when = f.when
  PROVE  Found(g) = Found(f) /\ Orders(g) = Orders(f) /\ (Distinct(g) <=> Distinct(f))
<1>1. Found(g) = Found(f) BY DEF Found, SelectsMatter, Selects
<1>2. \A a, b : Before(g, a, b) <=> Before(f, a, b) BY DEF Before
<1>3. Puts(g) = Puts(f)
  <2>1. ASSUME NEW z \in Puts(g) PROVE z \in Puts(f) BY <1>1, <1>2 DEF Puts
  <2>2. ASSUME NEW z \in Puts(f) PROVE z \in Puts(g) BY <1>1, <1>2 DEF Puts
  <2> QED BY <2>1, <2>2
<1>4. \A s : s \in Orders(g) <=> s \in Orders(f) BY <1>1, <1>3, OrderRanks, Zenon
<1>5. Orders(g) = Orders(f)
  <2>1. \A s \in Orders(g) : s \in Orders(f) BY <1>4
  <2>2. \A s \in Orders(f) : s \in Orders(g) BY <1>4
  <2> HIDE DEF Orders
  <2> QED BY <2>1, <2>2
<1> QED BY <1>1, <1>2, <1>5 DEF Distinct

\* While nothing is committed and the clock stands, a query finds the same.
LEMMA SameAnswer ==
  ASSUME UNCHANGED archiveVars, NEW f
  PROVE  /\ Found(f)' = Found(f) /\ Orders(f)' = Orders(f) /\ BoardsOf(f)' = BoardsOf(f)
         /\ Distinct(f)' <=> Distinct(f)
<1> USE DEF archiveVars
<1>1. \A g : Found(g)' = Found(g) BY DEF Found, SelectsMatter, Selects, InView, Row
<1>2. \A a, b : Before(f, a, b)' = Before(f, a, b) BY DEF Before, Livelier, Sooner, Newer, Row
<1>3. Orders(f)' = Orders(f) BY <1>1, <1>2 DEF Orders, Sorted
<1>4. \A r : Row(r)' = Row(r) BY DEF Row
<1>5. BoardsOf(f)' = BoardsOf(f) BY <1>1, <1>4 DEF BoardsOf
<1>6. Distinct(f)' <=> Distinct(f) BY <1>1, <1>2 DEF Distinct
<1> QED BY <1>1, <1>3, <1>5, <1>6

-----------------------------------------------------------------------------
(* What link writes. *)

Numbered(L) == {l.record : l \in L}
Dated(L) == {[at |-> Row(l.record).at, stage |-> l.stage] : l \in L}
OfMatter(m, L) == {l \in L : l.matter = m}

\* A reference is of a record that is there, to a matter of its town.
Refers(ref) ==
  /\ ref.record \in Records /\ archive[ref.record] # None
  /\ ref.mention \in Range(Row(ref.record).says) /\ Spelt[ref.mention.of].kind # "neither"
  /\ ref.matter = RefOf(Row(ref.record), ref.mention.of)

\* What is made of a finite set is finite.
LEMMA ImageFinite ==
  ASSUME NEW S, IsFiniteSet(S), NEW T, NEW g \in [S -> T], NEW U, \A u \in U : \E x \in S : u = g[x]
  PROVE  IsFiniteSet(U)
<1>1. g \in Surjection(S, Range(g)) BY Fun_RangeProperties
<1>2. IsFiniteSet(Range(g)) BY <1>1, FS_Surjection
<1>3. U \subseteq Range(g) BY DEF Range
<1> QED BY <1>2, <1>3, FS_Subset

\* What link finds are references, of the towns it was asked for.
LEMMA ReferencesRefer ==
  ASSUME NEW T
  PROVE  \A ref \in References(T) : Refers(ref) /\ Row(ref.record).town \in T /\ ref.record \in Of(T)
<1> SUFFICES ASSUME NEW ref \in References(T)
             PROVE  Refers(ref) /\ Row(ref.record).town \in T /\ ref.record \in Of(T)
  OBVIOUS
<1>1. PICK r \in Of(T) : \E x \in LinkedIn(Row(r), Known(T)) :
        ref = [matter |-> RefOf(Row(r), x.of), record |-> r, mention |-> x]
  BY DEF References
<1>2. PICK x \in LinkedIn(Row(r), Known(T)) :
        ref = [matter |-> RefOf(Row(r), x.of), record |-> r, mention |-> x]
  BY <1>1
<1>3. ref.matter = RefOf(Row(r), x.of) /\ ref.record = r /\ ref.mention = x BY <1>2
<1>4. x \in Range(Row(r).says) /\ Spelt[x.of].kind # "neither" BY DEF LinkedIn, Referring, Range
<1>5. r \in Records /\ archive[r] # None /\ Row(r).town \in T BY DEF Of, Present
<1> QED BY <1>3, <1>4, <1>5 DEF Refers

\* The stage read is one.
LEMMA ReadStageType ==
  ASSUME NEW cues \in SUBSET Cues, NEW type \in Types
  PROVE  ReadStage(cues, type) \in Stages
<1>1. Rules[1] = "withdrawn" /\ Rules[2] = "decided" /\ Rules[3] = "continued" /\ Rules[4] = "scheduled"
      /\ Rules[5] = "filed" /\ Len(Rules) = 5
  BY DEF Rules
<1>2. Cues = {Rules[i] : i \in 1..5} BY <1>1 DEF Cues
<1>3. CASE cues = {} BY <1>3 DEF ReadStage, Default, Stages, Cues, Rules
<1>4. CASE cues # {}
  <2> DEFINE First1(i) == Rules[i] \in cues /\ \A j \in 1..(i - 1) : Rules[j] \notin cues
  <2>1. PICK k \in 1..5 : Rules[k] \in cues BY <1>2, <1>4
  <2>2. k = 1 \/ k = 2 \/ k = 3 \/ k = 4 \/ k = 5 OBVIOUS
  <2>3. \E i \in 1..5 : First1(i)
    <3>1. CASE Rules[1] \in cues BY <3>1
    <3>2. CASE Rules[1] \notin cues /\ Rules[2] \in cues
      <4>1. \A j \in 1..(2 - 1) : j = 1 OBVIOUS
      <4>2. First1(2) BY <3>2, <4>1
      <4> QED BY <4>2
    <3>3. CASE Rules[1] \notin cues /\ Rules[2] \notin cues /\ Rules[3] \in cues
      <4>1. \A j \in 1..(3 - 1) : j = 1 \/ j = 2 OBVIOUS
      <4>2. First1(3) BY <3>3, <4>1
      <4> QED BY <4>2
    <3>4. CASE Rules[1] \notin cues /\ Rules[2] \notin cues /\ Rules[3] \notin cues /\ Rules[4] \in cues
      <4>1. \A j \in 1..(4 - 1) : j = 1 \/ j = 2 \/ j = 3 OBVIOUS
      <4>2. First1(4) BY <3>4, <4>1
      <4> QED BY <4>2
    <3>5. CASE Rules[1] \notin cues /\ Rules[2] \notin cues /\ Rules[3] \notin cues /\ Rules[4] \notin cues
      <4>1. \A j \in 1..(5 - 1) : j = 1 \/ j = 2 \/ j = 3 \/ j = 4 OBVIOUS
      <4>2. k = 5 BY <2>1, <2>2, <3>5
      <4>3. First1(5) BY <3>5, <4>1, <4>2, <2>1
      <4> QED BY <4>3
    <3> QED BY <3>1, <3>2, <3>3, <3>4, <3>5
  <2> DEFINE i == CHOOSE n \in 1..Len(Rules) : First1(n)
  <2>4. i \in 1..5 BY <1>1, <2>3
  <2>5. ReadStage(cues, type) = Rules[i] BY <1>4 DEF ReadStage
  <2> HIDE DEF i
  <2> QED BY <1>2, <2>4, <2>5 DEF Stages
<1> QED BY <1>3, <1>4

\* A reference makes a link.
LEMMA LinkOfType ==
  ASSUME archive \in AnyArchive, NEW ref, Refers(ref)
  PROVE  /\ LinkOf(ref) \in Link /\ LinkOf(ref).matter = ref.matter /\ LinkOf(ref).record = ref.record
         /\ Row(ref.record) \in Content /\ ref.mention.of \in Subjects
         /\ ref.matter \in Matter /\ ref.matter.town = Row(ref.record).town
<1> DEFINE row == Row(ref.record)
<1>1. row \in Content
  <2>1. archive[ref.record] \in Versions[ref.record] BY DEF AnyArchive, Refers
  <2> QED BY <2>1, ArchiveConstants DEF Row, Refers
<1>2. ref.mention \in Mention
  <2>1. row.says \in Seq(Mention) BY <1>1 DEF Content
  <2> QED BY <2>1 DEF Refers, Range
<1>3. ref.mention.of \in Subjects /\ Spelt[ref.mention.of] \in Subject
  BY <1>2, LinkingConstants DEF Mention
<1>4. Spelt[ref.mention.of].kind \in {"address", "article", "bid"} /\ Spelt[ref.mention.of].name \in STRING
  BY <1>3 DEF Subject, Refers
<1>5. row.town \in Towns /\ row.at \in Nat /\ row.type \in Types /\ row.cues \in SUBSET Cues BY <1>1 DEF Content
<1>6. Year(row.at) \in Nat BY <1>5, LinkingConstants DEF Year
<1>7. RefOf(row, ref.mention.of) \in Matter /\ RefOf(row, ref.mention.of).town = row.town
  BY <1>4, <1>5, <1>6 DEF RefOf, Matter
<1>8. Scoped(row, ref.mention) \in SUBSET Cues BY <1>2, <1>5 DEF Scoped, Mention
<1>9. ReadStage(Scoped(row, ref.mention), row.type) \in Stages BY <1>5, <1>8, ReadStageType
<1>10. LinkOf(ref) = [matter |-> ref.matter, record |-> ref.record, stage |-> ReadStage(Scoped(row, ref.mention), row.type)]
  BY DEF LinkOf
<1> HIDE DEF row
<1>11. LinkOf(ref) \in Link /\ LinkOf(ref).matter = ref.matter /\ LinkOf(ref).record = ref.record
  BY <1>7, <1>9, <1>10 DEF Link, Refers, row
<1> QED BY <1>1, <1>3, <1>7, <1>11 DEF Refers, row

\* All the dates there are.
LEMMA DatesFinite ==
  ASSUME NEW U, \A u \in U : \E r \in Records : u = Row(r).at
  PROVE  IsFiniteSet(U)
<1> DEFINE g == [r \in Records |-> Row(r).at]
<1> DEFINE V == {Row(r).at : r \in Records}
<1>1. g \in [Records -> V] OBVIOUS
<1>2. \A u \in U : \E r \in Records : u = g[r] OBVIOUS
<1> HIDE DEF g, V
<1> QED BY <1>1, <1>2, ArchiveConstants, ImageFinite

\* Where a matter stands is what the newest record says that says more than a
\* mention.
LEMMA RollupIs ==
  ASSUME NEW S, \A x \in S : x.at \in Nat /\ x.stage \in Stages /\ \E r \in Records : x.at = Row(r).at
  PROVE  /\ RollupStatus(S) \in Stages
         /\ (\A x \in S : x.stage = "mentioned") => RollupStatus(S) = "mentioned"
         /\ (\E x \in S : x.stage # "mentioned") =>
              \E x \in S : /\ x.stage # "mentioned" /\ x.stage = RollupStatus(S)
                           /\ \A y \in S : y.stage # "mentioned" => y.at <= x.at
<1> DEFINE D == {x \in S : x.stage # "mentioned"}
<1>1. CASE D = {}
  <2>1. RollupStatus(S) = "mentioned" BY <1>1 DEF RollupStatus
  <2> QED BY <1>1, <2>1 DEF Stages
<1>2. CASE D # {}
  <2> DEFINE U == {x.at : x \in D}
  <2>1. IsFiniteSet(U)
    <3>1. \A u \in U : \E r \in Records : u = Row(r).at OBVIOUS
    <3> HIDE DEF U
    <3> QED BY <3>1, DatesFinite
  <2>2. U \subseteq Nat /\ U # {} BY <1>2
  <2>3. PICK d \in U : \A e \in U : e <= d
    <3> HIDE DEF U
    <3> QED BY <2>1, <2>2, Greatest
  <2>4. PICK x \in D : x.at = d OBVIOUS
  <2>5. \A y \in D : y.at <= x.at BY <2>3, <2>4
  <2> DEFINE w == CHOOSE v \in D : \A y \in D : y.at <= v.at
  <2>6. w \in D /\ \A y \in D : y.at <= w.at
    <3> HIDE DEF D
    <3> QED BY <2>5
  <2>7. RollupStatus(S) = w.stage BY <1>2 DEF RollupStatus
  <2> HIDE DEF w
  <2>8. w \in S /\ w.stage # "mentioned" BY <2>6
  <2>9. \A y \in S : y.stage # "mentioned" => y.at <= w.at BY <2>6
  <2> QED BY <2>7, <2>8, <2>9
<1> QED BY <1>1, <1>2

\* The longest spelling is one of them.
LEMMA LabelIs ==
  ASSUME NEW S, S \subseteq Subjects, S # {}
  PROVE  BestLabel(S) \in S
<1> DEFINE U == {Spelt[s].length : s \in S}
<1> DEFINE g == [s \in S |-> Spelt[s].length]
<1>0. \A s \in S : Spelt[s].length \in Nat BY LinkingConstants DEF Subject
<1>1. IsFiniteSet(S) BY LinkingConstants, FS_Subset
<1>2. g \in [S -> Nat] /\ \A u \in U : \E s \in S : u = g[s] BY <1>0
<1>3. IsFiniteSet(U)
  <2> HIDE DEF g, U
  <2> QED BY <1>1, <1>2, ImageFinite
<1>4. U \subseteq Nat /\ U # {} BY <1>0
<1>5. PICK d \in U : \A e \in U : e <= d
  <2> HIDE DEF U
  <2> QED BY <1>3, <1>4, Greatest
<1>6. PICK s \in S : Spelt[s].length = d OBVIOUS
<1>7. \A t \in S : Spelt[t].length <= Spelt[s].length BY <1>5, <1>6
<1> QED BY <1>7 DEF BestLabel

\* The row of a matter is one, and says what its links say.
LEMMA WrittenIs ==
  ASSUME archive \in AnyArchive, NEW mine, mine # {}, \A ref \in mine : Refers(ref)
  PROVE  /\ Written(mine) \in MatterRow
         /\ Written(mine).count = Cardinality(Numbered(Linked(mine)))
         /\ Written(mine).status = RollupStatus(Dated(Linked(mine)))
<1> DEFINE numbers == {ref.record : ref \in mine}
<1> DEFINE dates == {Row(ref.record).at : ref \in mine}
<1> DEFINE points == {[at |-> Row(ref.record).at, stage |-> LinkOf(ref).stage] : ref \in mine}
<1> DEFINE names == {ref.mention.of : ref \in mine}
<1>0. \A ref \in mine :
        /\ ref.record \in Records /\ Row(ref.record).at \in Nat /\ ref.mention.of \in Subjects
        /\ LinkOf(ref).stage \in Stages /\ LinkOf(ref).record = ref.record
  <2> TAKE ref \in mine
  <2>1. Refers(ref) OBVIOUS
  <2>2. LinkOf(ref) \in Link /\ LinkOf(ref).record = ref.record /\ Row(ref.record) \in Content /\ ref.mention.of \in Subjects
    BY <2>1, LinkOfType
  <2> QED BY <2>1, <2>2 DEF Link, Content, Refers
<1>1. numbers \subseteq Records BY <1>0
<1>2. Cardinality(numbers) \in Nat
  <2> HIDE DEF numbers
  <2> QED BY <1>1, ArchiveConstants, FS_Subset, FS_CardinalityType
<1>3. dates \subseteq Nat /\ dates # {} /\ \A u \in dates : \E r \in Records : u = Row(r).at BY <1>0
<1>4. PICK d \in dates : \A e \in dates : e <= d
  <2> HIDE DEF dates
  <2> QED BY <1>3, DatesFinite, Greatest
<1> DEFINE newest == CHOOSE u \in dates : \A e \in dates : e <= u
<1>5. newest \in Nat BY <1>3, <1>4
<1>6. RollupStatus(points) \in Stages
  <2>1. \A x \in points : x.at \in Nat /\ x.stage \in Stages /\ \E r \in Records : x.at = Row(r).at BY <1>0
  <2> HIDE DEF points
  <2> QED BY <2>1, RollupIs
<1>7. BestLabel(names) \in Subjects
  <2>1. names \subseteq Subjects /\ names # {} BY <1>0
  <2> HIDE DEF names
  <2> QED BY <2>1, LabelIs
<1>8. numbers = Numbered(Linked(mine))
  <2>1. \A ref \in mine : LinkOf(ref).record = ref.record BY <1>0
  <2> HIDE DEF LinkOf
  <2> QED BY <2>1 DEF Numbered, Linked
<1>9. points = Dated(Linked(mine))
  <2>1. \A ref \in mine : LinkOf(ref).record = ref.record BY <1>0
  <2>2. \A x \in points : x \in Dated(Linked(mine)) BY <2>1 DEF Dated, Linked
  <2>3. \A x \in Dated(Linked(mine)) : x \in points BY <2>1 DEF Dated, Linked
  <2> HIDE DEF points
  <2> QED BY <2>2, <2>3
<1>10. Written(mine) = [count |-> Cardinality(numbers), last |-> newest,
                        status |-> RollupStatus(points), label |-> BestLabel(names)]
  BY DEF Written
<1> HIDE DEF numbers, dates, points, names, newest
<1> QED BY <1>2, <1>5, <1>6, <1>7, <1>8, <1>9, <1>10 DEF MatterRow

\* What link makes of references: matters with their rows, and links to them.
LEMMA RebuiltIs ==
  ASSUME archive \in AnyArchive, NEW R, \A ref \in R : Refers(ref)
  PROVE  /\ IsFiniteSet(DOMAIN Rebuilt(R))
         /\ \A l \in Linked(R) :
              /\ l \in Link /\ l.matter \in DOMAIN Rebuilt(R)
              /\ archive[l.record] # None /\ Row(l.record).town = l.matter.town
         /\ \A m \in DOMAIN Rebuilt(R) :
              /\ m \in Matter /\ Rebuilt(R)[m] \in MatterRow
              /\ Rebuilt(R)[m].count = Cardinality(Numbered(OfMatter(m, Linked(R))))
              /\ Rebuilt(R)[m].status = RollupStatus(Dated(OfMatter(m, Linked(R))))
              /\ \E ref \in R : m = ref.matter
<1>1. DOMAIN Rebuilt(R) = {ref.matter : ref \in R} BY DEF Rebuilt
<1>2. \A ref \in R :
        /\ LinkOf(ref) \in Link /\ LinkOf(ref).matter = ref.matter /\ LinkOf(ref).record = ref.record
        /\ ref.mention.of \in Subjects /\ ref.matter \in Matter /\ ref.matter.town = Row(ref.record).town
        /\ archive[ref.record] # None /\ ref.record \in Records
        /\ ref.matter = RefOf(Row(ref.record), ref.mention.of)
  <2> TAKE ref \in R
  <2>1. Refers(ref) OBVIOUS
  <2> QED BY <2>1, LinkOfType DEF Refers
<1>3. IsFiniteSet(DOMAIN Rebuilt(R))
  <2> DEFINE g == [p \in Records \X Subjects |-> RefOf(Row(p[1]), p[2])]
  <2> DEFINE V == {RefOf(Row(p[1]), p[2]) : p \in Records \X Subjects}
  <2>1. IsFiniteSet(Records \X Subjects) BY ArchiveConstants, LinkingConstants, FS_Product
  <2>2. g \in [Records \X Subjects -> V] BY Zenon
  <2>3. \A m \in DOMAIN Rebuilt(R) : \E p \in Records \X Subjects : m = g[p]
    <3> TAKE m \in DOMAIN Rebuilt(R)
    <3>1. PICK ref \in R : m = ref.matter BY <1>1
    <3>2. <<ref.record, ref.mention.of>> \in Records \X Subjects BY <1>2
    <3>3. g[<<ref.record, ref.mention.of>>] = RefOf(Row(ref.record), ref.mention.of)
      <4> HIDE DEF RefOf, Row
      <4> QED BY <3>2
    <3> HIDE DEF g
    <3> QED BY <3>1, <3>2, <3>3, <1>2
  <2> HIDE DEF g, V
  <2> QED BY <2>1, <2>2, <2>3, ImageFinite
<1>4. ASSUME NEW l \in Linked(R)
      PROVE  /\ l \in Link /\ l.matter \in DOMAIN Rebuilt(R)
             /\ archive[l.record] # None /\ Row(l.record).town = l.matter.town
  <2>1. PICK ref \in R : l = LinkOf(ref) BY DEF Linked
  <2> HIDE DEF LinkOf, Row
  <2> QED BY <2>1, <1>1, <1>2
<1>5. ASSUME NEW m \in DOMAIN Rebuilt(R)
      PROVE  /\ m \in Matter /\ Rebuilt(R)[m] \in MatterRow
             /\ Rebuilt(R)[m].count = Cardinality(Numbered(OfMatter(m, Linked(R))))
             /\ Rebuilt(R)[m].status = RollupStatus(Dated(OfMatter(m, Linked(R))))
             /\ \E ref \in R : m = ref.matter
  <2> DEFINE mine == {ref \in R : ref.matter = m}
  <2>1. PICK ref \in R : m = ref.matter BY <1>1
  <2>2. mine # {} /\ \A x \in mine : Refers(x) BY <2>1
  <2>3. Rebuilt(R)[m] = Written(mine) BY <1>1 DEF Rebuilt
  <2>4. Linked(mine) = OfMatter(m, Linked(R))
    <3>1. \A x \in Linked(mine) : x \in OfMatter(m, Linked(R)) BY <1>2 DEF Linked, OfMatter
    <3>2. \A x \in OfMatter(m, Linked(R)) : x \in Linked(mine)
      <4> TAKE x \in OfMatter(m, Linked(R))
      <4>1. PICK y \in R : x = LinkOf(y) BY DEF Linked, OfMatter
      <4>2. y \in mine BY <4>1, <1>2 DEF OfMatter
      <4> QED BY <4>1, <4>2 DEF Linked
    <3> HIDE DEF mine
    <3> QED BY <3>1, <3>2
  <2> HIDE DEF mine
  <2>5. /\ Written(mine) \in MatterRow
        /\ Written(mine).count = Cardinality(Numbered(Linked(mine)))
        /\ Written(mine).status = RollupStatus(Dated(Linked(mine)))
    BY <2>2, WrittenIs
  <2>6. m \in Matter BY <2>1, <1>2
  <2> QED BY <2>1, <2>3, <2>4, <2>5, <2>6
<1> QED BY <1>3, <1>4, <1>5

-----------------------------------------------------------------------------
(* The archive's invariant. *)

\* A link is of a record that is there, to a matter of its town that is there.
Consistent ==
  \A l \in links :
    l.matter \in DOMAIN matters /\ archive[l.record] # None /\ Row(l.record).town = l.matter.town

\* A matter's row counts its records, and stands where they do unless one of
\* them was published anew since.
Counted(m) == matters[m].count = Cardinality(Numbered(OfMatter(m, links)))
Rolled(m) ==
  Numbered(OfMatter(m, links)) \intersect revised = {} =>
    matters[m].status = RollupStatus(Dated(OfMatter(m, links)))

ArchiveInv ==
  /\ ArchiveTypeOK
  /\ IsFiniteSet(DOMAIN matters)
  /\ Consistent
  /\ \A m \in DOMAIN matters : Counted(m) /\ Rolled(m)

\* It holds at first.
LEMMA ArchiveInitHolds == ArchiveInit => ArchiveInv
<1> SUFFICES ASSUME ArchiveInit PROVE ArchiveInv OBVIOUS
<1> DEFINE R == UNION {References({t}) : t \in Towns}
<1>1. archive \in AnyArchive BY ArchiveConstants DEF ArchiveInit
<1>2. \A ref \in R : Refers(ref) BY ReferencesRefer
<1>3. links = Linked(R) /\ matters = Rebuilt(R) /\ revised = {} /\ now = 1 /\ changes = 0 BY DEF ArchiveInit
<1> HIDE DEF R
<1>4. /\ IsFiniteSet(DOMAIN Rebuilt(R))
      /\ \A l \in Linked(R) :
           /\ l \in Link /\ l.matter \in DOMAIN Rebuilt(R)
           /\ archive[l.record] # None /\ Row(l.record).town = l.matter.town
      /\ \A m \in DOMAIN Rebuilt(R) :
           /\ m \in Matter /\ Rebuilt(R)[m] \in MatterRow
           /\ Rebuilt(R)[m].count = Cardinality(Numbered(OfMatter(m, Linked(R))))
           /\ Rebuilt(R)[m].status = RollupStatus(Dated(OfMatter(m, Linked(R))))
  BY <1>1, <1>2, RebuiltIs
<1>5. now \in 0..MaxNow /\ changes \in 0..MaxChanges
  BY <1>3, ArchiveConstants
<1>6. ArchiveTypeOK BY <1>1, <1>3, <1>4, <1>5 DEF ArchiveTypeOK
<1> HIDE DEF Rebuilt, Linked
<1> QED BY <1>3, <1>4, <1>6 DEF ArchiveInv, Consistent, Counted, Rolled

\* Publishing keeps it: a record stays in its town.
LEMMA PublishHolds == ArchiveInv /\ Publish => ArchiveInv'
<1> SUFFICES ASSUME ArchiveInv, Publish PROVE ArchiveInv' OBVIOUS
<1>0. PICK r \in Records : \E w \in Versions[r] \ {archive[r]} :
        archive' = [archive EXCEPT ![r] = w] /\ revised' = revised \union {r}
  BY DEF Publish
<1>1. PICK v \in Versions[r] \ {archive[r]} :
        archive' = [archive EXCEPT ![r] = v] /\ revised' = revised \union {r}
  BY <1>0
<1>2. links' = links /\ matters' = matters /\ now' = now /\ changes < MaxChanges /\ changes' = changes + 1
  BY DEF Publish, Commit, Change
<1>3. archive \in AnyArchive /\ DOMAIN archive = Records BY DEF ArchiveInv, ArchiveTypeOK, AnyArchive
<1>4. archive' \in AnyArchive
  <2>1. \A x \in Records : archive'[x] \in {None} \union Versions[x] BY <1>1, <1>3 DEF AnyArchive
  <2>2. DOMAIN archive' = Records /\ archive' = [x \in Records |-> archive'[x]] BY <1>1, <1>3
  <2> QED BY <2>1, <2>2 DEF AnyArchive
<1>5. ArchiveTypeOK'
  BY <1>1, <1>2, <1>4, ArchiveConstants DEF ArchiveInv, ArchiveTypeOK
<1>6. ASSUME NEW x \in Records, archive[x] # None
      PROVE  archive'[x] # None /\ Row(x)'.town = Row(x).town /\ (x # r => Row(x)' = Row(x))
  <2>1. CASE x # r BY <2>1, <1>1, <1>6 DEF Row
  <2>2. CASE x = r
    <3>1. archive[r] \in Versions[r] /\ archive'[r] = v BY <2>2, <1>1, <1>3, <1>6 DEF AnyArchive
    <3>2. v # None /\ Text[v].town = Text[archive[r]].town BY <3>1, ArchiveConstants
    <3> QED BY <2>2, <3>1, <3>2 DEF Row
  <2> QED BY <2>1, <2>2
<1>7. \A l \in links : l.record \in Records /\ archive[l.record] # None
  BY DEF ArchiveInv, ArchiveTypeOK, Link, Consistent
<1>8. Consistent'
  <2> SUFFICES ASSUME NEW l \in links
               PROVE  l.matter \in DOMAIN matters /\ archive'[l.record] # None /\ Row(l.record)'.town = l.matter.town
    BY <1>2 DEF Consistent, Row
  <2>1. l.matter \in DOMAIN matters /\ Row(l.record).town = l.matter.town BY DEF ArchiveInv, Consistent
  <2>2. archive'[l.record] # None /\ Row(l.record)'.town = Row(l.record).town BY <1>6, <1>7
  <2> QED BY <2>1, <2>2
<1>9. ASSUME NEW m \in DOMAIN matters PROVE Counted(m)' /\ Rolled(m)'
  <2> DEFINE L == OfMatter(m, links)
  <2>1. Counted(m) /\ Rolled(m) BY DEF ArchiveInv
  <2>2. Counted(m)' BY <2>1, <1>2 DEF Counted, Numbered, OfMatter
  <2>3. ASSUME Numbered(L) \intersect revised' = {} PROVE matters[m].status = RollupStatus(Dated(L)')
    <3>1. r \notin Numbered(L) /\ Numbered(L) \intersect revised = {} BY <2>3, <1>1
    <3>2. \A l \in L : l.record # r /\ l \in links BY <3>1 DEF Numbered, OfMatter
    <3>3. \A l \in L : Row(l.record)' = Row(l.record) BY <3>2, <1>6, <1>7
    <3>4. Dated(L)' = Dated(L)
      <4>1. L' = L BY <1>2 DEF OfMatter
      <4> HIDE DEF L
      <4> QED BY <3>3, <4>1 DEF Dated
    <3> QED BY <3>1, <3>4, <2>1 DEF Rolled
  <2>4. Rolled(m)'
    <3>1. matters' = matters /\ L' = L BY <1>2 DEF OfMatter
    <3> QED BY <2>3, <3>1 DEF Rolled, Dated, Numbered, OfMatter
  <2> QED BY <2>2, <2>4
<1> QED BY <1>2, <1>5, <1>8, <1>9 DEF ArchiveInv

\* Linking a town writes its matters from its records; the others stay.
LEMMA RelinkHolds == ArchiveInv /\ Relink => ArchiveInv'
<1> SUFFICES ASSUME ArchiveInv, Relink PROVE ArchiveInv' OBVIOUS
<1>1. PICK t \in Towns :
        LET R == References({t})
            new == Rebuilt(R)
            others == {m \in DOMAIN matters : m.town # t}
        IN
        /\ links' = {l \in links : l.matter.town # t} \union Linked(R)
        /\ matters' = [m \in others \union DOMAIN new |-> IF m.town = t THEN new[m] ELSE matters[m]]
        /\ revised' = revised \ Of({t})
  BY DEF Relink
<1> DEFINE R == References({t})
<1> DEFINE new == Rebuilt(R)
<1> DEFINE others == {m \in DOMAIN matters : m.town # t}
<1>2. /\ links' = {l \in links : l.matter.town # t} \union Linked(R)
      /\ matters' = [m \in others \union DOMAIN new |-> IF m.town = t THEN new[m] ELSE matters[m]]
      /\ revised' = revised \ Of({t})
  BY <1>1
<1>3. archive' = archive /\ now' = now /\ changes < MaxChanges /\ changes' = changes + 1
  BY DEF Relink, Commit, Change
<1>4. archive \in AnyArchive BY DEF ArchiveInv, ArchiveTypeOK
<1>5. \A ref \in R : Refers(ref) /\ Row(ref.record).town = t
  <2>1. \A ref \in R : Refers(ref) /\ Row(ref.record).town \in {t} BY ReferencesRefer
  <2> HIDE DEF R
  <2> QED BY <2>1
<1> HIDE DEF R
<1>6. /\ IsFiniteSet(DOMAIN new)
      /\ \A l \in Linked(R) :
           /\ l \in Link /\ l.matter \in DOMAIN new
           /\ archive[l.record] # None /\ Row(l.record).town = l.matter.town
      /\ \A m \in DOMAIN new :
           /\ m \in Matter /\ new[m] \in MatterRow
           /\ new[m].count = Cardinality(Numbered(OfMatter(m, Linked(R))))
           /\ new[m].status = RollupStatus(Dated(OfMatter(m, Linked(R))))
           /\ \E ref \in R : m = ref.matter
  BY <1>4, <1>5, RebuiltIs
<1> HIDE DEF new
<1>7. \A m \in DOMAIN new : m.town = t
  <2> TAKE m \in DOMAIN new
  <2>1. PICK ref \in R : m = ref.matter BY <1>6
  <2>2. Refers(ref) /\ Row(ref.record).town = t BY <1>5
  <2>3. ref.matter.town = Row(ref.record).town BY <1>4, <2>2, LinkOfType
  <2> QED BY <2>1, <2>2, <2>3
<1>8. DOMAIN matters' = others \union DOMAIN new BY <1>2
<1>9. \A m \in others : m \in DOMAIN matters /\ m.town # t OBVIOUS
<1>10. /\ \A m \in others : matters'[m] = matters[m]
       /\ \A m \in DOMAIN new : matters'[m] = new[m]
  BY <1>2, <1>7
<1>11. IsFiniteSet(DOMAIN matters')
  <2>1. IsFiniteSet(DOMAIN matters) /\ others \subseteq DOMAIN matters BY DEF ArchiveInv
  <2> HIDE DEF others
  <2>2. IsFiniteSet(others) BY <2>1, FS_Subset
  <2>3. IsFiniteSet(DOMAIN new) BY <1>6
  <2>4. IsFiniteSet(others \union DOMAIN new) BY <2>2, <2>3, FS_Union
  <2> QED BY <2>4, <1>8
<1> HIDE DEF others
<1>12. links \subseteq Link /\ revised \subseteq Records BY DEF ArchiveInv, ArchiveTypeOK
<1>13. ArchiveTypeOK'
  <2>1. links' \in SUBSET Link /\ revised' \in SUBSET Records BY <1>2, <1>6, <1>12
  <2>2. \A m \in DOMAIN matters' : m \in Matter /\ matters'[m] \in MatterRow
    BY <1>6, <1>8, <1>9, <1>10 DEF ArchiveInv, ArchiveTypeOK
  <2>3. now' \in 0..MaxNow /\ changes' \in 0..MaxChanges
    BY <1>3, ArchiveConstants DEF ArchiveInv, ArchiveTypeOK
  <2> QED BY <2>1, <2>2, <2>3, <1>3, <1>4 DEF ArchiveTypeOK
<1>14. \A l \in links : l.matter \in DOMAIN matters /\ archive[l.record] # None /\ Row(l.record).town = l.matter.town
  BY DEF ArchiveInv, Consistent
<1>15. Consistent'
  <2> SUFFICES ASSUME NEW l \in links'
               PROVE  l.matter \in DOMAIN matters' /\ archive[l.record] # None /\ Row(l.record).town = l.matter.town
    BY <1>3 DEF Consistent, Row
  <2>1. CASE l \in Linked(R) BY <2>1, <1>6, <1>8
  <2>2. CASE l \in links /\ l.matter.town # t BY <2>2, <1>8, <1>14 DEF others
  <2> QED BY <2>1, <2>2, <1>2
<1>16. ASSUME NEW m \in DOMAIN new PROVE Counted(m)' /\ Rolled(m)'
  <2>1. OfMatter(m, links') = OfMatter(m, Linked(R))
    <3>1. \A l \in OfMatter(m, links') : l \in OfMatter(m, Linked(R)) BY <1>2, <1>7 DEF OfMatter
    <3>2. \A l \in OfMatter(m, Linked(R)) : l \in OfMatter(m, links') BY <1>2 DEF OfMatter
    <3> QED BY <3>1, <3>2
  <2>2. Counted(m)' BY <2>1, <1>6, <1>10 DEF Counted
  <2>3. \A L : Dated(L)' = Dated(L) BY <1>3 DEF Dated, Row
  <2>4. Dated(OfMatter(m, links))' = Dated(OfMatter(m, Linked(R)))
    BY <2>1, <1>3 DEF Dated, Row
  <2>5. Rolled(m)' BY <2>4, <1>6, <1>10 DEF Rolled
  <2> QED BY <2>2, <2>5
<1>17. ASSUME NEW m \in others PROVE Counted(m)' /\ Rolled(m)'
  <2> DEFINE L == OfMatter(m, links)
  <2>1. OfMatter(m, links') = L
    <3>1. \A l \in OfMatter(m, links') : l \in L BY <1>2, <1>6, <1>7, <1>9 DEF OfMatter
    <3>2. \A l \in L : l \in OfMatter(m, links') BY <1>2, <1>9 DEF OfMatter
    <3> QED BY <3>1, <3>2
  <2>2. Counted(m) /\ Rolled(m) BY <1>9 DEF ArchiveInv
  <2>3. Counted(m)' BY <2>1, <2>2, <1>10 DEF Counted
  <2>4. Dated(OfMatter(m, links))' = Dated(L) BY <2>1, <1>3 DEF Dated, Row
  <2>5. Numbered(L) \intersect revised' = {} => Numbered(L) \intersect revised = {}
    <3>1. \A r \in Numbered(L) : r \notin Of({t})
      <4>1. \A l \in L : l \in links /\ l.matter = m BY DEF OfMatter
      <4>2. \A l \in L : Row(l.record).town # t BY <4>1, <1>9, <1>14
      <4> HIDE DEF L
      <4> QED BY <4>2 DEF Numbered, Of
    <3> QED BY <3>1, <1>2
  <2>6. Rolled(m)' BY <2>1, <2>2, <2>4, <2>5, <1>10 DEF Rolled
  <2> QED BY <2>3, <2>6
<1>18. \A m \in DOMAIN matters' : Counted(m)' /\ Rolled(m)' BY <1>8, <1>16, <1>17
<1> QED BY <1>11, <1>13, <1>15, <1>18 DEF ArchiveInv

\* Clearing a town removes its records, its matters and the links between.
LEMMA ClearHolds == ArchiveInv /\ Clear => ArchiveInv'
<1> SUFFICES ASSUME ArchiveInv, Clear PROVE ArchiveInv' OBVIOUS
<1>1. PICK t \in Towns :
        /\ archive' = [r \in Records |-> IF r \in Of({t}) THEN None ELSE archive[r]]
        /\ links' = {l \in links : l.record \notin Of({t})}
        /\ matters' = MattersWithout(t)
        /\ revised' = revised \ Of({t})
  BY DEF Clear
<1>2. now' = now /\ changes < MaxChanges /\ changes' = changes + 1 BY DEF Clear, Commit, Change
<1>3. archive \in AnyArchive /\ links \subseteq Link /\ revised \subseteq Records
  BY DEF ArchiveInv, ArchiveTypeOK
<1>4. DOMAIN matters' = {m \in DOMAIN matters : m.town # t} /\ \A m \in DOMAIN matters' : matters'[m] = matters[m]
  BY <1>1 DEF MattersWithout
<1>5. archive' \in AnyArchive
  <2>1. \A r \in Records : archive'[r] \in {None} \union Versions[r] BY <1>1, <1>3 DEF AnyArchive
  <2> QED BY <2>1, <1>1 DEF AnyArchive
<1>6. IsFiniteSet(DOMAIN matters')
  <2>1. IsFiniteSet(DOMAIN matters) /\ DOMAIN matters' \subseteq DOMAIN matters BY <1>4 DEF ArchiveInv
  <2> QED BY <2>1, FS_Subset
<1>7. ArchiveTypeOK'
  <2>1. links' \in SUBSET Link /\ revised' \in SUBSET Records BY <1>1, <1>3
  <2>2. DOMAIN matters' \subseteq Matter /\ \A m \in DOMAIN matters' : matters'[m] \in MatterRow
    BY <1>4 DEF ArchiveInv, ArchiveTypeOK
  <2>3. now' \in 0..MaxNow /\ changes' \in 0..MaxChanges
    BY <1>2, ArchiveConstants DEF ArchiveInv, ArchiveTypeOK
  <2> QED BY <2>1, <2>2, <2>3, <1>5 DEF ArchiveTypeOK
<1>8. ASSUME NEW l \in links'
      PROVE  /\ l \in links /\ l.matter.town # t /\ l.record \in Records /\ l.record \notin Of({t})
             /\ archive'[l.record] = archive[l.record] /\ Row(l.record)' = Row(l.record)
             /\ l.matter \in DOMAIN matters /\ archive[l.record] # None /\ Row(l.record).town = l.matter.town
  <2>1. l \in links /\ l.record \notin Of({t}) BY <1>1
  <2>2. l.matter \in DOMAIN matters /\ archive[l.record] # None /\ Row(l.record).town = l.matter.town
    BY <2>1 DEF ArchiveInv, Consistent
  <2>3. l.record \in Records BY <2>1, <1>3 DEF Link
  <2>4. Row(l.record).town # t BY <2>1, <2>2, <2>3 DEF Of, Present
  <2>5. archive'[l.record] = archive[l.record] BY <2>1, <2>3, <1>1
  <2> QED BY <2>1, <2>2, <2>3, <2>4, <2>5 DEF Row
<1>9. Consistent'
  <2> SUFFICES ASSUME NEW l \in links'
               PROVE  l.matter \in DOMAIN matters' /\ archive'[l.record] # None /\ Row(l.record)'.town = l.matter.town
    BY DEF Consistent, Row
  <2> QED BY <1>4, <1>8
<1>10. ASSUME NEW m \in DOMAIN matters' PROVE Counted(m)' /\ Rolled(m)'
  <2> DEFINE L == OfMatter(m, links)
  <2>1. m \in DOMAIN matters /\ m.town # t /\ matters'[m] = matters[m] BY <1>4
  <2>2. OfMatter(m, links') = L
    <3>1. \A l \in L : l \in links'
      <4> TAKE l \in L
      <4>1. l \in links /\ l.matter = m BY DEF OfMatter
      <4>2. Row(l.record).town = m.town BY <4>1 DEF ArchiveInv, Consistent
      <4>3. l.record \notin Of({t}) BY <4>2, <2>1 DEF Of
      <4> QED BY <4>1, <4>3, <1>1
    <3>2. \A l \in links' : l \in links BY <1>8
    <3>3. \A l \in OfMatter(m, links') : l \in L BY <3>2 DEF OfMatter
    <3>4. \A l \in L : l \in OfMatter(m, links') BY <3>1 DEF OfMatter
    <3> QED BY <3>3, <3>4
  <2>3. \A l \in L : l \in links' BY <2>2 DEF OfMatter
  <2>4. Counted(m) /\ Rolled(m) BY <2>1 DEF ArchiveInv
  <2>5. Counted(m)' BY <2>1, <2>2, <2>4 DEF Counted
  <2>6. \A l \in L : Row(l.record)' = Row(l.record) BY <1>8, <2>3
  <2>7. Dated(OfMatter(m, links))' = Dated(L)
    <3>1. Dated(OfMatter(m, links))' = {[at |-> Row(l.record)'.at, stage |-> l.stage] : l \in L} BY <2>2 DEF Dated
    <3> HIDE DEF L
    <3> QED BY <3>1, <2>6 DEF Dated
  <2>8. Numbered(L) \intersect revised' = {} => Numbered(L) \intersect revised = {}
    <3>1. \A r \in Numbered(L) : r \notin Of({t})
      <4>1. \A l \in L : l.record \notin Of({t}) BY <1>8, <2>3
      <4> HIDE DEF L
      <4> QED BY <4>1 DEF Numbered
    <3> QED BY <3>1, <1>1
  <2>9. Rolled(m)' BY <2>1, <2>2, <2>4, <2>7, <2>8 DEF Rolled
  <2> QED BY <2>5, <2>9
<1> QED BY <1>6, <1>7, <1>9, <1>10 DEF ArchiveInv

\* So does the clock, and everything that leaves the archive alone.
LEMMA TickHolds == ArchiveInv /\ Tick => ArchiveInv'
<1> SUFFICES ASSUME ArchiveInv, Tick PROVE ArchiveInv' OBVIOUS
<1>1. archive' = archive /\ links' = links /\ matters' = matters /\ revised' = revised
  BY DEF Tick
<1>2. now < MaxNow /\ now' = now + 1 /\ changes < MaxChanges /\ changes' = changes + 1 BY DEF Tick, Change
<1>3. ArchiveTypeOK' BY <1>1, <1>2, ArchiveConstants DEF ArchiveInv, ArchiveTypeOK
<1>4. \A m : (Counted(m)' <=> Counted(m)) /\ (Rolled(m)' <=> Rolled(m))
  BY <1>1 DEF Counted, Rolled, Numbered, Dated, OfMatter, Row
<1>5. Consistent' BY <1>1 DEF ArchiveInv, Consistent, Row
<1> QED BY <1>1, <1>3, <1>4, <1>5 DEF ArchiveInv

\* A stutter of the archive.
LEMMA ArchiveStill == ArchiveInv /\ UNCHANGED archiveVars => ArchiveInv'
<1> SUFFICES ASSUME ArchiveInv, UNCHANGED archiveVars PROVE ArchiveInv' OBVIOUS
<1>1. archive' = archive /\ links' = links /\ matters' = matters /\ revised' = revised /\ now' = now /\ changes' = changes
  BY DEF archiveVars
<1>2. ArchiveTypeOK' BY <1>1 DEF ArchiveInv, ArchiveTypeOK
<1>3. \A m : (Counted(m)' <=> Counted(m)) /\ (Rolled(m)' <=> Rolled(m))
  BY <1>1 DEF Counted, Rolled, Numbered, Dated, OfMatter, Row
<1>4. Consistent' BY <1>1 DEF ArchiveInv, Consistent, Row
<1> QED BY <1>1, <1>2, <1>3, <1>4 DEF ArchiveInv

-----------------------------------------------------------------------------
(* Types. *)

Closed == tab = None => left.screen = 0
TypeInv == TypeOK /\ ArchiveInv /\ Closed

\* A page is of the kind it says.
LEMMA PageKinds ==
  ASSUME SiteTypeOK
  PROVE  /\ On("list") => page \in ListPage
         /\ On("matters") => page \in MattersPage
         /\ On("matter") => page \in MatterPage
         /\ On("record") => page \in RecordPage
         /\ On("for-me") => page \in ForMe
         /\ On("feed") => page \in Feed
BY DEF SiteTypeOK, On, ListPage, MattersPage, MatterPage, RecordPage, ForMe, Feed

\* The rows of a page of what is found.
LEMMA OrderType ==
  ASSUME ArchiveInv, NEW f, NEW s \in Orders(f)
  PROVE  /\ s \in Seq(Found(f)) /\ IsFiniteSet(Found(f)) /\ Cardinality(Found(f)) \in Nat
         /\ f.view # "timelines" => s \in Seq(Records)
         /\ f.view = "timelines" => s \in Seq(Matter)
<1>1. ArchiveTypeOK /\ IsFiniteSet(DOMAIN matters) BY DEF ArchiveInv
<1>2. s \in Seq(Found(f)) BY <1>1, OrderIs
<1>3. IsFiniteSet(Found(f)) /\ Cardinality(Found(f)) \in Nat BY <1>1, FoundFinite
<1>4. /\ f.view = "timelines" => Found(f) \subseteq Matter
      /\ f.view # "timelines" => Found(f) \subseteq Records
  BY <1>1, FoundType
<1>5. f.view # "timelines" => s \in Seq(Records) BY <1>2, <1>4, SeqMonotonic
<1>6. f.view = "timelines" => s \in Seq(Matter) BY <1>2, <1>4, SeqMonotonic
<1> QED BY <1>2, <1>3, <1>5, <1>6

\* Whatever is sorted, what is shown of it is of it.
LEMMA SortedFirst ==
  ASSUME NEW S, NEW s \in [1..Cardinality(S) -> S], IsFiniteSet(S), NEW n \in Nat
  PROVE  Among(First(s, n)) \subseteq S
<1>1. Cardinality(S) \in Nat BY FS_CardinalityType
<1>2. s \in Seq(S) BY <1>1
<1>3. First(s, n) \in Seq(S) BY <1>2, FirstIs
<1> QED BY <1>3 DEF Among

\* The types hold at first.
LEMMA TypesInit == Init => TypeInv
<1> SUFFICES ASSUME Init PROVE TypeInv OBVIOUS
<1>1. ArchiveInv BY ArchiveInitHolds DEF Init
<1>2. SiteTypeOK /\ left \in Quota
  BY SiteConstants DEF Init, SiteInit, SiteTypeOK
<1>3. tab \in {None} \union Views BY DEF Init, Views
<1>4. query \in Query
  BY <1>3, ReadingConstants DEF Init, Opened, Query, Views
<1>5. Closed BY ReadingConstants DEF Init, Closed, Views
<1>6. ReadingTypeOK
  <2>1. Sent(query, 0) \in Ask BY <1>4 DEF Sent, Ask, Key
  <2> QED BY <2>1, <1>3, <1>4 DEF Init, ReadingTypeOK
<1> QED BY <1>1, <1>2, <1>5, <1>6 DEF TypeInv, TypeOK, ArchiveInv

\* Spending leaves a quota.
LEMMA SpendType ==
  ASSUME left \in Quota, NEW what \in {"screen", "lists", "pages"}, Spend(what)
  PROVE  left' \in Quota /\ (left.screen = 0 => left'.screen = 0)
BY DEF Spend, Quota

\* The screen asks for what there may be.
LEMMA ShowTypes ==
  ASSUME TypeInv, NEW q \in Query, NEW a \in Nat, Show(q, a), result' = result \/ result' = None,
         walk' = None \/ walk' = walk
  PROVE  TypeInv'
<1>1. UNCHANGED archiveVars BY DEF Show
<1>2. ArchiveInv' BY <1>1, ArchiveStill DEF TypeInv
<1>3. left \in Quota /\ Spend("screen") BY DEF TypeInv, TypeOK, SiteTypeOK, Show
<1>4. left' \in Quota /\ (left.screen = 0 => left'.screen = 0) BY <1>3, SpendType
<1>5. SiteTypeOK' BY <1>4 DEF TypeInv, TypeOK, SiteTypeOK, Show, elsewhere, site
<1>6. Closed' BY <1>4 DEF TypeInv, Closed, Show
<1>7. flying' \subseteq Ask
  <2>1. Sent(q, a) \in Ask BY DEF Sent, Ask, Key
  <2>2. \A x \in flying : [x EXCEPT !.live = FALSE] \in Ask BY DEF TypeInv, TypeOK, ReadingTypeOK, Ask
  <2> QED BY <2>1, <2>2 DEF Show
<1>8. ReadingTypeOK' BY <1>7 DEF TypeInv, TypeOK, ReadingTypeOK, Show
<1> QED BY <1>2, <1>5, <1>6, <1>8 DEF TypeInv, TypeOK, ArchiveInv

\* Every control of the screen asks for what there may be.
LEMMA ControlTypes ==
  ASSUME TypeInv, Search \/ SetView \/ SetBody \/ SetWhen \/ SetTown \/ NextPage \/ Previous \/ Retry
  PROVE  TypeInv'
<1>1. query \in Query /\ attempt \in Nat /\ tab \in {None} \union Views /\ result \in {None} \union Result
  BY DEF TypeInv, TypeOK, ReadingTypeOK
<1>2. Data # None => Data \in Answer
  BY <1>1, ReadingConstants DEF Data, Current, CurrentOf, Result
<1>3. CASE Search
  <2>1. PICK w \in {None} \union Words : Show([query EXCEPT !.q = w, !.page = 1], attempt) BY <1>3 DEF Search
  <2>4. \E k \in Query : k = [query EXCEPT !.q = w, !.page = 1] /\ Show(k, attempt)
    <3>1. [query EXCEPT !.q = w, !.page = 1] \in Query BY <1>1, 1 \in Nat \ {0} DEF Query
    <3> QED BY <3>1, <2>1
  <2>5. PICK k \in Query : Show(k, attempt) BY <2>4
  <2>6. UNCHANGED result /\ walk' = None BY <1>3 DEF Search, Anew
  <2> QED BY <2>5, <2>6, <1>1, ShowTypes
<1>4. CASE SetView
  <2>1. PICK v \in {"transcripts", "meetings"} : Show([query EXCEPT !.view = v, !.page = 1, !.body = None], attempt)
    BY <1>4 DEF SetView
  <2>4. \E k \in Query : k = [query EXCEPT !.view = v, !.page = 1, !.body = None] /\ Show(k, attempt)
    <3>1. [query EXCEPT !.view = v, !.page = 1, !.body = None] \in Query BY <1>1, 1 \in Nat \ {0} DEF Query
    <3> QED BY <3>1, <2>1
  <2>5. PICK k \in Query : Show(k, attempt) BY <2>4
  <2>6. UNCHANGED result /\ walk' = None BY <1>4 DEF SetView, Anew
  <2> QED BY <2>5, <2>6, <1>1, ShowTypes
<1>5. CASE SetBody
  <2>1. PICK b \in {None, query.body} \union (IF Data = None THEN {} ELSE Data.boards) :
          Show([query EXCEPT !.body = b, !.page = 1], attempt)
    BY <1>5 DEF SetBody
  <2>2. b \in {None} \union Boards BY <1>1, <1>2 DEF Query, Answer
  <2>4. \E k \in Query : k = [query EXCEPT !.body = b, !.page = 1] /\ Show(k, attempt)
    <3>1. [query EXCEPT !.body = b, !.page = 1] \in Query BY <2>2, <1>1, 1 \in Nat \ {0} DEF Query
    <3> QED BY <3>1, <2>1
  <2>5. PICK k \in Query : Show(k, attempt) BY <2>4
  <2>6. UNCHANGED result /\ walk' = None BY <1>5 DEF SetBody, Anew
  <2> QED BY <2>5, <2>6, <1>1, ShowTypes
<1>6. CASE SetWhen
  <2>1. PICK w \in {"all", "past", "upcoming"} : Show([query EXCEPT !.when = w, !.page = 1], attempt)
    BY <1>6 DEF SetWhen
  <2>4. \E k \in Query : k = [query EXCEPT !.when = w, !.page = 1] /\ Show(k, attempt)
    <3>1. [query EXCEPT !.when = w, !.page = 1] \in Query BY <1>1, 1 \in Nat \ {0} DEF Query
    <3> QED BY <3>1, <2>1
  <2>5. PICK k \in Query : Show(k, attempt) BY <2>4
  <2>6. UNCHANGED result /\ walk' = None BY <1>6 DEF SetWhen, Anew
  <2> QED BY <2>5, <2>6, <1>1, ShowTypes
<1>7. CASE SetTown
  <2>1. PICK t \in Towns \ {query.town} : Show(Opened(tab, t), 0) BY <1>7 DEF SetTown
  <2>2. tab # None BY <2>1 DEF Show, Spend, TypeInv, Closed, TypeOK, SiteTypeOK, Quota
  <2>3. Opened(tab, t) \in Query BY <2>2, <1>1 DEF Opened, Query, Views
  <2> QED BY <2>1, <2>3, <1>7, ShowTypes DEF SetTown, Anew
<1>8. CASE NextPage
  <2>1. [query EXCEPT !.page = Data.next] \in Query BY <1>1, <1>2, <1>8 DEF NextPage, Query, Answer
  <2> QED BY <2>1, <1>1, <1>8, ShowTypes DEF NextPage
<1>9. CASE Previous
  <2>1. [query EXCEPT !.page = @ - 1] \in Query BY <1>1, <1>9 DEF Previous, Query
  <2> QED BY <2>1, <1>1, <1>9, ShowTypes DEF Previous, Anew
<1>10. CASE Retry BY <1>1, <1>10, ShowTypes DEF Retry, Anew
<1> QED BY <1>3, <1>4, <1>5, <1>6, <1>7, <1>8, <1>9, <1>10

\* The server reads what there may be.
LEMMA ListTypes ==
  ASSUME TypeInv, NEW x \in flying, List(x)
  PROVE  TypeInv'
<1> DEFINE f == x.key.query
<1>1. ArchiveInv' BY ArchiveStill DEF TypeInv, List
<1>2. x \in Ask /\ f \in Query /\ f.page \in Nat \ {0}
  BY DEF TypeInv, TypeOK, ReadingTypeOK, Ask, Key, Query
<1>3. PICK s \in Orders(f) : Becomes(x, [x EXCEPT !.items = Slice(s, f.page)]) BY DEF List
<1>4. Slice(s, f.page) \in Items
  <2> HIDE DEF f
  <2>1. f.view # "timelines" => s \in Seq(Records) BY OrderType DEF TypeInv
  <2>2. f.view = "timelines" => s \in Seq(Matter) BY OrderType DEF TypeInv
  <2>3. CASE f.view # "timelines" BY <2>1, <2>3, <1>2, SliceIs DEF Items
  <2>4. CASE f.view = "timelines" BY <2>2, <2>4, <1>2, SliceIs DEF Items
  <2> QED BY <2>3, <2>4
<1>5. [x EXCEPT !.items = Slice(s, f.page)] \in Ask BY <1>2, <1>4 DEF Ask
<1>6. flying' \subseteq Ask BY <1>3, <1>5 DEF Becomes, TypeInv, TypeOK, ReadingTypeOK
<1>7. ReadingTypeOK' BY <1>6 DEF List, TypeInv, TypeOK, ReadingTypeOK
<1>8. SiteTypeOK' /\ Closed' BY DEF List, elsewhere, site, TypeInv, TypeOK, SiteTypeOK, Closed
<1> QED BY <1>1, <1>7, <1>8 DEF TypeInv, TypeOK, ArchiveInv

\* It counts what there may be.
LEMMA CountTypes ==
  ASSUME TypeInv, NEW x \in flying, Count(x)
  PROVE  TypeInv'
<1> DEFINE f == x.key.query
<1> DEFINE total == Cardinality(Found(f))
<1> DEFINE ans == [items |-> x.items, total |-> total, next |-> NextOf(f.page, total), boards |-> BoardsOf(f)]
<1>1. ArchiveInv' BY ArchiveStill DEF TypeInv, Count
<1>2. x \in Ask /\ f \in Query /\ f.page \in Nat \ {0}
  BY DEF TypeInv, TypeOK, ReadingTypeOK, Ask, Key, Query
<1>3. total \in Nat BY FoundFinite DEF TypeInv, ArchiveInv
<1>4. x.items \in Items BY <1>2 DEF Count, Ask
<1>5. NextOf(f.page, total) \in {None} \union (Nat \ {0}) BY <1>2 DEF NextOf
<1>6. BoardsOf(f) \subseteq Boards
  <2> DEFINE g == [f EXCEPT !.body = None]
  <2>1. f.view # "timelines" => g.view # "timelines" BY <1>2 DEF Query
  <2> HIDE DEF g
  <2>2. f.view # "timelines" => \A r \in Found(g) : Row(r) \in Content BY <2>1, FoundType DEF TypeInv, ArchiveInv
  <2>3. BoardsOf(f) = IF f.view = "timelines" THEN {} ELSE {Row(r).body : r \in Found(g)} BY DEF BoardsOf, g
  <2> QED BY <2>2, <2>3 DEF Content
<1>7. ans \in Answer
  <2> HIDE DEF total
  <2> QED BY <1>3, <1>4, <1>5, <1>6 DEF Answer
<1>8. Becomes(x, [x EXCEPT !.answer = ans]) BY DEF Count
<1> HIDE DEF ans
<1>9. [x EXCEPT !.answer = ans] \in Ask BY <1>2, <1>7 DEF Ask
<1>10. flying' \subseteq Ask BY <1>8, <1>9 DEF Becomes, TypeInv, TypeOK, ReadingTypeOK
<1>11. ReadingTypeOK' BY <1>10 DEF Count, TypeInv, TypeOK, ReadingTypeOK
<1>12. SiteTypeOK' /\ Closed' BY DEF Count, elsewhere, site, TypeInv, TypeOK, SiteTypeOK, Closed
<1> QED BY <1>1, <1>11, <1>12 DEF TypeInv, TypeOK, ArchiveInv

-----------------------------------------------------------------------------
(* The screen: its requests, and what their answers are worth. *)

Path == [query |-> query, attempt |-> attempt]
Listing(f, items) == \E s \in Orders(f) : items = Slice(s, f.page)
Truthful(f, a) ==
  /\ Listing(f, a.items)
  /\ a.total = Cardinality(Found(f)) /\ a.next = NextOf(f.page, a.total)
  /\ a.boards = BoardsOf(f)

\* The request the screen waits for is of what it shows, and there is at most
\* one; while it shows "Loading" there is one.
Awaited ==
  /\ \A x \in flying : x.live => x.key = Path
  /\ \A x, y \in flying : x.live /\ y.live => x = y
  /\ tab # None /\ Current = None => \E x \in flying : x.live

\* What was read with no commit between is true of the archive as it is, and so
\* is the result made of it.
Told ==
  /\ \A x \in flying :
       x.calm =>
         /\ x.items # None => Listing(x.key.query, x.items)
         /\ x.answer # None => Truthful(x.key.query, x.answer)
  /\ \A k \in {result} \ {None} : fresh /\ k.data # None => Truthful(k.key.query, k.data)

ScreenAction ==
  \/ Search \/ SetView \/ SetBody \/ SetWhen \/ SetTown \/ NextPage \/ Previous \/ Retry
  \/ \E x \in flying : List(x) \/ Count(x) \/ Receive(x) \/ Fail(x)
SiteAction == SiteNext /\ UNCHANGED <<screen, walk, fresh>>

\* What is true stays true while nothing is committed.
LEMMA StillTruthful ==
  ASSUME UNCHANGED archiveVars, NEW f, NEW a
  PROVE  (Listing(f, a)' <=> Listing(f, a)) /\ (Truthful(f, a)' <=> Truthful(f, a))
<1>1. Found(f)' = Found(f) /\ Orders(f)' = Orders(f) /\ BoardsOf(f)' = BoardsOf(f) BY SameAnswer
<1>2. \A b : Listing(f, b)' <=> Listing(f, b) BY <1>1 DEF Listing
<1> QED BY <1>1, <1>2 DEF Truthful

\* What the controls have in common.
LEMMA ControlShows ==
  ASSUME Search \/ SetView \/ SetBody \/ SetWhen \/ SetTown \/ NextPage \/ Previous \/ Retry
  PROVE  /\ UNCHANGED <<archiveVars, tab, fresh>>
         /\ flying' = {[x EXCEPT !.live = FALSE] : x \in flying} \union {Sent(query', attempt')}
         /\ result' = result \/ result' = None
         /\ walk' = None \/ NextPage
BY DEF Search, SetView, SetBody, SetWhen, SetTown, NextPage, Previous, Retry, Show, Anew

\* After a control the request just made is the one awaited.
LEMMA ControlAwaits ==
  ASSUME TypeInv, Search \/ SetView \/ SetBody \/ SetWhen \/ SetTown \/ NextPage \/ Previous \/ Retry
  PROVE  Awaited'
<1>1. flying' = {[x EXCEPT !.live = FALSE] : x \in flying} \union {Sent(query', attempt')} BY ControlShows
<1>2. \A x \in flying : [x EXCEPT !.live = FALSE].live = FALSE
  BY DEF TypeInv, TypeOK, ReadingTypeOK, Ask
<1>3. Sent(query', attempt').key = Path' /\ Sent(query', attempt').live = TRUE BY DEF Sent, Path
<1>4. \A y \in flying' : y.live => y = Sent(query', attempt') BY <1>1, <1>2
<1> HIDE DEF Sent
<1>5. Sent(query', attempt') \in flying' BY <1>1
<1> QED BY <1>3, <1>4, <1>5 DEF Awaited

\* An answer is that of the request awaited, or of none.
LEMMA SettleAwaits ==
  ASSUME TypeInv, Awaited, NEW x \in flying, Receive(x) \/ Fail(x)
  PROVE  Awaited'
<1>1. PICK data : Settle(x, data) BY DEF Receive, Fail
<1>2. flying' = flying \ {x} /\ Path' = Path /\ tab' = tab BY <1>1 DEF Settle, Path
<1>3. CASE x.live
  <2>1. result' = [key |-> Path, data |-> data] BY <1>1, <1>3 DEF Settle, Heard, Awaited
  <2>2. result' # None
    <3>1. x \in Ask /\ x.key = Path BY <1>3 DEF TypeInv, TypeOK, ReadingTypeOK, Awaited
    <3>2. (Receive(x) /\ x.answer # None /\ data = x.answer) \/ data = None
      <4>1. CASE Receive(x)
        <5>1. x.answer # None /\ Settle(x, x.answer) BY <4>1 DEF Receive
        <5>2. result' = [key |-> x.key, data |-> x.answer] BY <5>1, <1>3 DEF Settle, Heard
        <5>3. data = x.answer
          <6>1. result'.data = data BY <2>1
          <6>2. result'.data = x.answer BY <5>2
          <6> QED BY <6>1, <6>2
        <5> QED BY <4>1, <5>1, <5>3
      <4>2. CASE Fail(x)
        <5>1. Settle(x, None) BY <4>2 DEF Fail
        <5>2. result' = [key |-> x.key, data |-> None] BY <5>1, <1>3 DEF Settle, Heard
        <5>3. data = None
          <6>1. result'.data = data BY <2>1
          <6>2. result'.data = None BY <5>2
          <6> QED BY <6>1, <6>2
        <5> QED BY <5>3
      <4> QED BY <4>1, <4>2
    <3>3. result' \in Result BY <2>1, <3>1, <3>2 DEF Ask, Result
    <3> QED BY <3>3, ReadingConstants
  <2>3. Current' # None
    <3>1. result'.key = Path BY <2>1
    <3> QED BY <1>2, <2>2, <3>1 DEF Current, CurrentOf, Path
  <2> QED BY <1>2, <2>3 DEF Awaited
<1>4. CASE ~x.live
  <2>1. result' = result BY <1>1, <1>4 DEF Settle, Heard
  <2>2. Current' = Current BY <2>1, <1>2, <1>1 DEF Settle, Current, CurrentOf
  <2>3. \A y \in flying : y.live => y \in flying' BY <1>2, <1>4
  <2> QED BY <1>2, <2>2, <2>3 DEF Awaited
<1> QED BY <1>3, <1>4

\* A read leaves a request what it was.
LEMMA ReadKeeps ==
  ASSUME TypeInv, NEW x \in flying, List(x) \/ Count(x)
  PROVE  \E y : /\ flying' = (flying \ {x}) \union {y}
                /\ y.live = x.live /\ y.key = x.key /\ y.calm = x.calm
                /\ UNCHANGED <<archiveVars, tab, query, attempt, result, walk, fresh>>
<1>0. x \in Ask BY DEF TypeInv, TypeOK, ReadingTypeOK
<1>1. CASE List(x)
  <2>1. PICK i : Becomes(x, [x EXCEPT !.items = i]) BY <1>1 DEF List
  <2>2. [x EXCEPT !.items = i].live = x.live /\ [x EXCEPT !.items = i].key = x.key
        /\ [x EXCEPT !.items = i].calm = x.calm BY <1>0 DEF Ask
  <2> QED BY <1>1, <2>1, <2>2 DEF List, Becomes
<1>2. CASE Count(x)
  <2>1. PICK i : Becomes(x, [x EXCEPT !.answer = i]) BY <1>2 DEF Count
  <2>2. [x EXCEPT !.answer = i].live = x.live /\ [x EXCEPT !.answer = i].key = x.key
        /\ [x EXCEPT !.answer = i].calm = x.calm BY <1>0 DEF Ask
  <2> QED BY <1>2, <2>1, <2>2 DEF Count, Becomes
<1> QED BY <1>1, <1>2

\* So it is awaited as before.
LEMMA ReadAwaits ==
  ASSUME TypeInv, Awaited, NEW x \in flying, List(x) \/ Count(x)
  PROVE  Awaited'
<1>1. PICK y : /\ flying' = (flying \ {x}) \union {y}
               /\ y.live = x.live /\ y.key = x.key
               /\ UNCHANGED <<archiveVars, tab, query, attempt, result, walk, fresh>>
  BY ReadKeeps
<1>2. Path' = Path /\ Current' = Current /\ tab' = tab BY <1>1 DEF Path, Current, CurrentOf
<1>3. ASSUME NEW z \in flying', z.live PROVE z.key = Path
  BY <1>1, <1>3 DEF Awaited
<1>4. ASSUME NEW z \in flying', NEW w \in flying', z.live, w.live PROVE z = w
  <2>1. CASE z = y /\ w = y BY <2>1
  <2>2. CASE z # y /\ w # y BY <2>2, <1>1, <1>4 DEF Awaited
  <2>3. CASE z = y /\ w # y
    <3>1. w \in flying /\ w # x /\ x.live BY <2>3, <1>1, <1>4
    <3> QED BY <3>1, <1>4 DEF Awaited
  <2>4. CASE z # y /\ w = y
    <3>1. z \in flying /\ z # x /\ x.live BY <2>4, <1>1, <1>4
    <3> QED BY <3>1, <1>4 DEF Awaited
  <2> QED BY <2>1, <2>2, <2>3, <2>4
<1>5. (\E z \in flying : z.live) => \E z \in flying' : z.live BY <1>1
<1> QED BY <1>2, <1>3, <1>4, <1>5 DEF Awaited

\* A commit changes nothing of who waits for what.
LEMMA DisturbAwaits ==
  ASSUME TypeInv, Awaited, Disturb
  PROVE  Awaited'
<1>1. flying' = {[x EXCEPT !.calm = FALSE] : x \in flying} /\ UNCHANGED <<tab, query, attempt, result>>
  BY DEF Disturb
<1>2. \A x \in flying : [x EXCEPT !.calm = FALSE].live = x.live /\ [x EXCEPT !.calm = FALSE].key = x.key
  BY DEF TypeInv, TypeOK, ReadingTypeOK, Ask
<1>3. Path' = Path /\ Current' = Current /\ tab' = tab BY <1>1 DEF Path, Current, CurrentOf
<1>4. \A z \in flying' : \E x \in flying : z = [x EXCEPT !.calm = FALSE] /\ z.live = x.live /\ z.key = x.key
  BY <1>1, <1>2
<1>5. (\E z \in flying : z.live) => \E z \in flying' : z.live BY <1>1, <1>2
<1>6. \A z \in flying' : z.live => z.key = Path BY <1>4 DEF Awaited
<1>7. ASSUME NEW z \in flying', NEW w \in flying', z.live, w.live PROVE z = w
  <2>1. PICK a \in flying : z = [a EXCEPT !.calm = FALSE] /\ z.live = a.live BY <1>4
  <2>2. PICK b \in flying : w = [b EXCEPT !.calm = FALSE] /\ w.live = b.live BY <1>4
  <2>3. a.live /\ b.live BY <2>1, <2>2, <1>7
  <2>4. a = b BY <2>3 DEF Awaited
  <2> QED BY <2>1, <2>2, <2>4
<1> QED BY <1>3, <1>5, <1>6, <1>7 DEF Awaited

\* The requests under way, and what was heard, stay true: after a control,
LEMMA ControlTells ==
  ASSUME TypeInv, Told, Search \/ SetView \/ SetBody \/ SetWhen \/ SetTown \/ NextPage \/ Previous \/ Retry
  PROVE  Told'
<1>1. /\ UNCHANGED <<archiveVars, tab, fresh>>
      /\ flying' = {[x EXCEPT !.live = FALSE] : x \in flying} \union {Sent(query', attempt')}
      /\ result' = result \/ result' = None
  BY ControlShows
<1>2. \A f, a : (Listing(f, a)' <=> Listing(f, a)) /\ (Truthful(f, a)' <=> Truthful(f, a))
  BY <1>1, StillTruthful
<1>3. \A x \in flying : LET y == [x EXCEPT !.live = FALSE] IN
        y.calm = x.calm /\ y.items = x.items /\ y.answer = x.answer /\ y.key = x.key
  BY DEF TypeInv, TypeOK, ReadingTypeOK, Ask
<1>4. Sent(query', attempt').items = None /\ Sent(query', attempt').answer = None BY DEF Sent
<1>5. ASSUME NEW z \in flying', z.calm
      PROVE  /\ z.items # None => Listing(z.key.query, z.items)'
             /\ z.answer # None => Truthful(z.key.query, z.answer)'
  <2>1. CASE z = Sent(query', attempt') BY <2>1, <1>4
  <2>2. CASE z # Sent(query', attempt')
    <3>1. PICK x \in flying : z = [x EXCEPT !.live = FALSE] BY <2>2, <1>1
    <3>2. z.calm = x.calm /\ z.items = x.items /\ z.answer = x.answer /\ z.key = x.key BY <3>1, <1>3
    <3>3. /\ x.items # None => Listing(x.key.query, x.items)
          /\ x.answer # None => Truthful(x.key.query, x.answer)
      BY <1>5, <3>2 DEF Told
    <3> QED BY <3>2, <3>3, <1>2
  <2> QED BY <2>1, <2>2
<1>6. \A k \in {result'} \ {None} : fresh' /\ k.data # None => Truthful(k.key.query, k.data)'
  BY <1>1, <1>2 DEF Told
<1> QED BY <1>5, <1>6 DEF Told

\* with an answer,
LEMMA SettleTells ==
  ASSUME TypeInv, Told, NEW x \in flying, Receive(x) \/ Fail(x)
  PROVE  Told'
<1>1. UNCHANGED archiveVars /\ flying' = flying \ {x} BY DEF Receive, Fail, Settle
<1>2. \A f, a : (Listing(f, a)' <=> Listing(f, a)) /\ (Truthful(f, a)' <=> Truthful(f, a))
  BY <1>1, StillTruthful
<1>3. \A z \in flying' : z.calm =>
         /\ z.items # None => Listing(z.key.query, z.items)'
         /\ z.answer # None => Truthful(z.key.query, z.answer)'
  BY <1>1, <1>2 DEF Told
<1>4. ASSUME NEW k \in {result'} \ {None}, fresh', k.data # None PROVE Truthful(k.key.query, k.data)'
  <2>1. CASE ~x.live
    <3>1. result' = result /\ fresh' = fresh BY <2>1 DEF Receive, Fail, Settle, Heard
    <3> QED BY <3>1, <1>2, <1>4 DEF Told
  <2>2. CASE x.live /\ Receive(x)
    <3>1. k = [key |-> x.key, data |-> x.answer] /\ x.calm /\ x.answer # None
      BY <2>2, <1>4 DEF Receive, Settle, Heard
    <3>2. k.key = x.key /\ k.data = x.answer BY <3>1
    <3>3. Truthful(x.key.query, x.answer) BY <3>1 DEF Told
    <3> QED BY <3>2, <3>3, <1>2
  <2>3. CASE x.live /\ Fail(x)
    <3>1. k = [key |-> x.key, data |-> None] BY <2>3, <1>4 DEF Fail, Settle, Heard
    <3> QED BY <3>1, <1>4
  <2> QED BY <2>1, <2>2, <2>3
<1> QED BY <1>3, <1>4 DEF Told

\* with the rows of a request,
LEMMA ListTells ==
  ASSUME TypeInv, Told, NEW x \in flying, List(x)
  PROVE  Told'
<1>1. UNCHANGED <<archiveVars, result, fresh>> BY DEF List
<1>2. \A f, a : (Listing(f, a)' <=> Listing(f, a)) /\ (Truthful(f, a)' <=> Truthful(f, a))
  BY <1>1, StillTruthful
<1>3. PICK s \in Orders(x.key.query) : Becomes(x, [x EXCEPT !.items = Slice(s, x.key.query.page)]) BY DEF List
<1>4. PICK y : y = [x EXCEPT !.items = Slice(s, x.key.query.page)] OBVIOUS
<1>5. x \in Ask BY DEF TypeInv, TypeOK, ReadingTypeOK
<1>6. y.calm = x.calm /\ y.items = Slice(s, x.key.query.page) /\ y.answer = x.answer /\ y.key = x.key
  BY <1>4, <1>5 DEF Ask
<1>7. Listing(x.key.query, y.items) BY <1>6 DEF Listing
<1>8. flying' = (flying \ {x}) \union {y} BY <1>3, <1>4 DEF Becomes
<1>9. ASSUME NEW z \in flying', z.calm
      PROVE  /\ z.items # None => Listing(z.key.query, z.items)'
             /\ z.answer # None => Truthful(z.key.query, z.answer)'
  <2>1. CASE z = y
    <3>1. x.answer # None => Truthful(x.key.query, x.answer) BY <2>1, <1>6, <1>9 DEF Told
    <3> QED BY <2>1, <3>1, <1>2, <1>6, <1>7
  <2>2. CASE z # y BY <2>2, <1>2, <1>8, <1>9 DEF Told
  <2> QED BY <2>1, <2>2
<1>10. \A k \in {result'} \ {None} : fresh' /\ k.data # None => Truthful(k.key.query, k.data)'
  BY <1>1, <1>2 DEF Told
<1> QED BY <1>9, <1>10 DEF Told

\* and with its count.
LEMMA CountTells ==
  ASSUME TypeInv, Told, NEW x \in flying, Count(x)
  PROVE  Told'
<1>1. UNCHANGED <<archiveVars, result, fresh>> /\ x.items # None BY DEF Count
<1>2. \A f, a : (Listing(f, a)' <=> Listing(f, a)) /\ (Truthful(f, a)' <=> Truthful(f, a))
  BY <1>1, StillTruthful
<1>3. PICK a : /\ a = [items |-> x.items, total |-> Cardinality(Found(x.key.query)),
                       next |-> NextOf(x.key.query.page, Cardinality(Found(x.key.query))),
                       boards |-> BoardsOf(x.key.query)]
               /\ Becomes(x, [x EXCEPT !.answer = a])
  BY DEF Count
<1>4. PICK y : y = [x EXCEPT !.answer = a] OBVIOUS
<1>5. x \in Ask BY DEF TypeInv, TypeOK, ReadingTypeOK
<1>6. y.calm = x.calm /\ y.items = x.items /\ y.answer = a /\ y.key = x.key
  BY <1>4, <1>5 DEF Ask
<1>7. x.calm => Listing(x.key.query, x.items) BY <1>1 DEF Told
<1>8. x.calm => Truthful(x.key.query, a) BY <1>3, <1>7 DEF Truthful
<1>9. flying' = (flying \ {x}) \union {y} BY <1>3, <1>4 DEF Becomes
<1>10. ASSUME NEW z \in flying', z.calm
      PROVE  /\ z.items # None => Listing(z.key.query, z.items)'
             /\ z.answer # None => Truthful(z.key.query, z.answer)'
  <2>1. CASE z = y BY <2>1, <1>2, <1>6, <1>7, <1>8, <1>10
  <2>2. CASE z # y BY <2>2, <1>2, <1>9, <1>10 DEF Told
  <2> QED BY <2>1, <2>2
<1>11. \A k \in {result'} \ {None} : fresh' /\ k.data # None => Truthful(k.key.query, k.data)'
  BY <1>1, <1>2 DEF Told
<1> QED BY <1>10, <1>11 DEF Told

\* A commit leaves nothing that claims to be true.
LEMMA DisturbTells ==
  ASSUME TypeInv, Disturb
  PROVE  Told'
<1>1. flying' = {[x EXCEPT !.calm = FALSE] : x \in flying} /\ fresh' = FALSE BY DEF Disturb
<1>2. \A x \in flying : [x EXCEPT !.calm = FALSE].calm = FALSE BY DEF TypeInv, TypeOK, ReadingTypeOK, Ask
<1>3. \A z \in flying' : z.calm = FALSE BY <1>1, <1>2
<1> QED BY <1>1, <1>3 DEF Told

\* The website does not touch the screen.
LEMMA SiteApart ==
  ASSUME SiteAction \/ UNCHANGED vars
  PROVE  UNCHANGED <<archiveVars, screen, walk, fresh>>
<1>1. CASE UNCHANGED vars BY <1>1 DEF vars
<1>2. CASE SiteAction
  <2>1. SiteNext => UNCHANGED archiveVars
    BY DEF SiteNext, OpenList, ReadRows, ReadTotal, GoOlder, GoNewer, OpenMatters, CountMatters, OpenMatter,
           FinishMatter, OpenRecord, FinishRecord, EditFollows, OpenForMe, FinishForMe, FetchFeed, FinishFeed,
           Visit, Begin, Goes
  <2> QED BY <1>2, <2>1 DEF SiteAction
<1> QED BY <1>1, <1>2

\* So what the screen has is what it was.
LEMMA SiteTells ==
  ASSUME Told, Awaited, SiteAction \/ UNCHANGED vars
  PROVE  Told' /\ Awaited'
<1>1. UNCHANGED <<archiveVars, screen, walk, fresh>> BY SiteApart
<1>2. \A f, a : (Listing(f, a)' <=> Listing(f, a)) /\ (Truthful(f, a)' <=> Truthful(f, a))
  BY <1>1, StillTruthful
<1>3. UNCHANGED <<tab, query, attempt, result, flying, fresh>> BY <1>1 DEF screen
<1>4. Path' = Path /\ Current' = Current BY <1>3 DEF Path, Current, CurrentOf
<1>5. Awaited' BY <1>3, <1>4 DEF Awaited
<1>6. \A z \in flying' : z.calm =>
         /\ z.items # None => Listing(z.key.query, z.items)'
         /\ z.answer # None => Truthful(z.key.query, z.answer)'
  BY <1>3, <1>2 DEF Told
<1>7. \A k \in {result'} \ {None} : fresh' /\ k.data # None => Truthful(k.key.query, k.data)'
  BY <1>3, <1>2 DEF Told
<1> QED BY <1>5, <1>6, <1>7 DEF Told

-----------------------------------------------------------------------------
(* Paging on. *)

\* While the result shown is current it is that of the last page walked to, and
\* what was walked is the pages up to it of the one order there is; while the
\* next page is awaited, the pages before it.
Walked ==
  \A f \in {query}, w \in {walk} \ {None} :
    /\ w \in Seq(Found(f))
    /\ Current # None => Data # None /\ fresh /\ \A x \in flying : ~x.live
    /\ Current = None => f.page > 1
    /\ f.page > 1 => (f.page - 1) * PageSize < Cardinality(Found(f))
    /\ Distinct(f) => \E s \in Orders(f) :
         w = Upto(s, IF Current = None THEN f.page - 1 ELSE f.page)

ScreenInv == Awaited /\ Told /\ Walked

\* The result shown is true if nothing was committed since.
LEMMA DataIs ==
  ASSUME TypeInv, Told
  PROVE  /\ Data # None => Data \in Answer /\ Current = result /\ result # None /\ result.key = Path
         /\ Data # None /\ fresh => Truthful(query, Data)
<1>1. ASSUME Data # None
      PROVE  Data \in Answer /\ Current = result /\ result # None /\ result.key = Path /\ Data = result.data
  <2>1. Current # None /\ Current = result /\ result.key = Path /\ Data = result.data
    BY <1>1 DEF Data, Current, CurrentOf, Path
  <2>2. result \in Result BY <2>1 DEF TypeInv, TypeOK, ReadingTypeOK
  <2> QED BY <2>1, <2>2, <1>1 DEF Result
<1>2. ASSUME Data # None, fresh PROVE Truthful(query, Data)
  <2>1. result # None /\ result.key = Path /\ Data = result.data BY <1>1, <1>2
  <2>2. Truthful(result.key.query, result.data) BY <2>1, <1>2 DEF Told
  <2>3. result.key.query = query BY <2>1 DEF Path
  <2> QED BY <2>1, <2>2, <2>3
<1> QED BY <1>1, <1>2

\* Going on: the pages walked are those before the one asked for.
LEMMA NextPageWalks ==
  ASSUME TypeInv, Told, Walked, NextPage
  PROVE  Walked'
<1>1. /\ Data # None /\ Data.next # None /\ UNCHANGED <<archiveVars, result, walk, fresh, attempt>>
      /\ query' = [query EXCEPT !.page = Data.next] /\ <<query', attempt'>> # <<query, attempt>>
  BY DEF NextPage, Show
<1>2. Current # None /\ result # None /\ result.key = Path BY <1>1, DataIs DEF Data
<1>3. PICK f : f = query OBVIOUS
<1>4. f \in Query /\ f.page \in Nat \ {0} BY <1>3 DEF TypeInv, TypeOK, ReadingTypeOK, Query
<1>5. SUFFICES ASSUME walk # None PROVE Walked' BY <1>1 DEF Walked
<1>6. PICK w : w = walk /\ w # None BY <1>5
<1>7. fresh /\ Truthful(f, Data) /\ w \in Seq(Found(f)) /\ (Distinct(f) => \E s \in Orders(f) : w = Upto(s, f.page))
  BY <1>1, <1>2, <1>3, <1>6, DataIs DEF Walked
<1>8. Cardinality(Found(f)) \in Nat BY FoundFinite DEF TypeInv, ArchiveInv
<1>9. Data.next = f.page + 1 /\ f.page * PageSize < Cardinality(Found(f))
  BY <1>1, <1>7 DEF Truthful, NextOf
<1>10. PICK g : g = query' OBVIOUS
<1>11. /\ g.town = f.town /\ g.view = f.view /\ g.q = f.q /\ g.body = f.body /\ g.when = f.when
       /\ g.page = f.page + 1
  BY <1>1, <1>3, <1>4, <1>9, <1>10 DEF Query
<1>12. Found(g) = Found(f) /\ Orders(g) = Orders(f) /\ (Distinct(g) <=> Distinct(f)) BY <1>11, OtherPage
<1>13. Found(g)' = Found(g) /\ Orders(g)' = Orders(g) /\ (Distinct(g)' <=> Distinct(g)) BY <1>1, SameAnswer
<1>14. Current' = None
  <2>1. query' # query BY <1>1
  <2>2. result'.key # [query |-> query', attempt |-> attempt']
    BY <2>1, <1>1, <1>2 DEF Path
  <2> QED BY <2>2 DEF Current, CurrentOf
<1>15. g.page - 1 = f.page /\ g.page > 1 BY <1>4, <1>11
<1>16. /\ w \in Seq(Found(g)')
       /\ (g.page - 1) * PageSize < Cardinality(Found(g)')
       /\ Distinct(g)' => \E s \in Orders(g)' : w = Upto(s, g.page - 1)
  BY <1>7, <1>9, <1>12, <1>13, <1>15
<1>17. query' = g /\ walk' = w BY <1>1, <1>6, <1>10
<1> QED BY <1>14, <1>15, <1>16, <1>17 DEF Walked

\* Hearing: the page asked for is added to those before it.
LEMMA ReceiveWalks ==
  ASSUME TypeInv, Awaited, Told, Walked, NEW x \in flying, Receive(x), x.live
  PROVE  Walked'
<1>1. /\ x.answer # None /\ UNCHANGED <<archiveVars, query, attempt>> /\ flying' = flying \ {x}
      /\ result' = [key |-> x.key, data |-> x.answer] /\ fresh' = x.calm
      /\ walk' = IF ~x.calm THEN None ELSE IF query.page = 1 THEN x.answer.items
                 ELSE IF walk = None THEN None ELSE walk \o x.answer.items
  BY DEF Receive, Settle, Heard
<1>2. PICK f : f = query OBVIOUS
<1>3. f \in Query /\ f.page \in Nat \ {0} BY <1>2 DEF TypeInv, TypeOK, ReadingTypeOK, Query
<1>4. x.key = Path /\ x.key.query = f /\ x \in Ask BY <1>2 DEF Awaited, Path, TypeInv, TypeOK, ReadingTypeOK
<1>5. SUFFICES ASSUME walk' # None PROVE Walked' BY DEF Walked
<1>6. x.calm BY <1>1, <1>5
<1>7. Truthful(f, x.answer) /\ x.answer \in Answer BY <1>1, <1>4, <1>6 DEF Told, Ask
<1>8. PICK t \in Orders(f) : x.answer.items = Slice(t, f.page) BY <1>7 DEF Truthful, Listing
<1>9. t \in Seq(Found(f)) /\ Len(t) = Cardinality(Found(f)) /\ Cardinality(Found(f)) \in Nat
  BY OrderIs DEF TypeInv, ArchiveInv
<1>10. Slice(t, f.page) \in Seq(Found(f)) BY <1>3, <1>9, SliceIs
<1>11. /\ Current' # None /\ Data' # None
  <2>1. result'.key = Path /\ result'.data = x.answer BY <1>1, <1>4
  <2>2. result' \in Result BY <1>1, <1>4, <1>7 DEF Result, Ask
  <2>3. result' # None BY <2>2, ReadingConstants
  <2>4. Current' = result' BY <2>1, <2>3, <1>1 DEF Current, CurrentOf, Path
  <2> QED BY <2>1, <2>3, <2>4, <1>1 DEF Data
<1>12. fresh' /\ \A y \in flying' : ~y.live BY <1>1, <1>6 DEF Awaited
<1>13. Found(f)' = Found(f) /\ Orders(f)' = Orders(f) /\ (Distinct(f)' <=> Distinct(f)) BY <1>1, SameAnswer
<1>14. PICK w : w = walk' OBVIOUS
<1>15. /\ w \in Seq(Found(f))
       /\ f.page > 1 => (f.page - 1) * PageSize < Cardinality(Found(f))
       /\ Distinct(f) => \E s \in Orders(f) : w = Upto(s, f.page)
  <2>1. CASE f.page = 1
    <3>1. w = Slice(t, f.page) BY <2>1, <1>1, <1>2, <1>6, <1>8, <1>14
    <3>2. Slice(t, 1) = Upto(t, 1) BY <1>9, PagesJoin
    <3> QED BY <2>1, <3>1, <3>2, <1>10
  <2>2. CASE f.page # 1
    <3>1. walk # None /\ w = walk \o Slice(t, f.page) BY <2>2, <1>1, <1>2, <1>5, <1>6, <1>8, <1>14
    <3>2. Current = None BY <3>1 DEF Walked
    <3>3. /\ walk \in Seq(Found(f)) /\ (f.page > 1 => (f.page - 1) * PageSize < Cardinality(Found(f)))
          /\ Distinct(f) => \E s \in Orders(f) : walk = Upto(s, f.page - 1)
      BY <3>1, <3>2, <1>2 DEF Walked
    <3>4. w \in Seq(Found(f)) BY <3>1, <3>3, <1>10, ConcatProperties
    <3>5. ASSUME Distinct(f) PROVE \E s \in Orders(f) : w = Upto(s, f.page)
      <4>1. PICK s \in Orders(f) : walk = Upto(s, f.page - 1) BY <3>3, <3>5
      <4>2. s = t BY <3>5, OneOrder DEF TypeInv, ArchiveInv
      <4>3. Upto(t, f.page - 1) \o Slice(t, f.page) = Upto(t, f.page) BY <1>3, <1>9, PagesJoin
      <4> QED BY <4>1, <4>2, <4>3, <3>1
    <3> QED BY <3>3, <3>4, <3>5
  <2> QED BY <2>1, <2>2
<1>16. query' = f /\ walk' = w BY <1>1, <1>2, <1>14
<1> QED BY <1>11, <1>12, <1>13, <1>15, <1>16 DEF Walked

\* Whoever waits for nothing, or reads, walks nowhere.
LEMMA StillWalks ==
  ASSUME TypeInv, Walked, UNCHANGED <<archiveVars, query, attempt, result, walk, fresh>>,
         (\A x \in flying : ~x.live) => \A x \in flying' : ~x.live
  PROVE  Walked'
<1>1. Current' = Current /\ Data' = Data BY DEF Current, CurrentOf, Data
<1>2. PICK f : f = query OBVIOUS
<1>3. PICK w : w = walk OBVIOUS
<1>4. query' = f /\ walk' = w BY <1>2, <1>3
<1>5. Found(f)' = Found(f) /\ Orders(f)' = Orders(f) /\ (Distinct(f)' <=> Distinct(f)) BY SameAnswer
<1> QED BY <1>1, <1>2, <1>3, <1>4, <1>5 DEF Walked

\* What is walked, whatever the screen does.
LEMMA ScreenWalks ==
  ASSUME TypeInv, ScreenInv, ScreenAction \/ SiteAction \/ Disturb \/ UNCHANGED vars
  PROVE  Walked'
<1>1. CASE Search \/ SetView \/ SetBody \/ SetWhen \/ SetTown \/ NextPage \/ Previous \/ Retry
  <2>1. CASE NextPage BY <2>1, NextPageWalks DEF ScreenInv
  <2>2. CASE ~NextPage
    <3>1. walk' = None BY <1>1, <2>2, ControlShows
    <3> QED BY <3>1 DEF Walked
  <2> QED BY <2>1, <2>2
<1>2. ASSUME NEW x \in flying, List(x) \/ Count(x) PROVE Walked'
  <2>1. PICK y : /\ flying' = (flying \ {x}) \union {y} /\ y.live = x.live
                 /\ UNCHANGED <<archiveVars, tab, query, attempt, result, walk, fresh>>
    BY <1>2, ReadKeeps
  <2>2. (\A z \in flying : ~z.live) => \A z \in flying' : ~z.live BY <2>1
  <2> QED BY <2>1, <2>2, StillWalks DEF ScreenInv
<1>3. ASSUME NEW x \in flying, Receive(x) \/ Fail(x) PROVE Walked'
  <2>1. CASE x.live /\ Receive(x) BY <2>1, ReceiveWalks DEF ScreenInv
  <2>2. CASE x.live /\ Fail(x)
    <3>1. walk' = None BY <2>2 DEF Fail, Heard
    <3> QED BY <3>1 DEF Walked
  <2>3. CASE ~x.live
    <3>1. UNCHANGED <<archiveVars, query, attempt, result, walk, fresh>> /\ flying' = flying \ {x}
      BY <1>3, <2>3 DEF Receive, Fail, Settle, Heard
    <3> QED BY <3>1, StillWalks DEF ScreenInv
  <2> QED BY <1>3, <2>1, <2>2, <2>3
<1>4. CASE SiteAction \/ UNCHANGED vars
  <2>1. UNCHANGED <<archiveVars, screen, walk, fresh>> BY <1>4, SiteApart
  <2> QED BY <2>1, StillWalks DEF ScreenInv, screen
<1>5. CASE Disturb
  <2>1. walk' = None BY <1>5 DEF Disturb
  <2> QED BY <2>1 DEF Walked
<1> QED BY <1>1, <1>2, <1>3, <1>4, <1>5 DEF ScreenAction

\* The screen keeps what it promises.
LEMMA ScreenHolds ==
  ASSUME TypeInv, ScreenInv, ScreenAction \/ SiteAction \/ Disturb \/ UNCHANGED vars
  PROVE  ScreenInv'
<1>1. Walked' BY ScreenWalks
<1>2. Awaited /\ Told BY DEF ScreenInv
<1>3. Awaited' /\ Told'
  <2>1. CASE Search \/ SetView \/ SetBody \/ SetWhen \/ SetTown \/ NextPage \/ Previous \/ Retry
    BY <2>1, <1>2, ControlAwaits, ControlTells
  <2>2. ASSUME NEW x \in flying, List(x) PROVE Awaited' /\ Told' BY <2>2, <1>2, ReadAwaits, ListTells
  <2>3. ASSUME NEW x \in flying, Count(x) PROVE Awaited' /\ Told' BY <2>3, <1>2, ReadAwaits, CountTells
  <2>4. ASSUME NEW x \in flying, Receive(x) \/ Fail(x) PROVE Awaited' /\ Told'
    BY <2>4, <1>2, SettleAwaits, SettleTells
  <2>5. CASE SiteAction \/ UNCHANGED vars BY <2>5, <1>2, SiteTells
  <2>6. CASE Disturb BY <2>6, <1>2, DisturbAwaits, DisturbTells
  <2> QED BY <2>1, <2>2, <2>3, <2>4, <2>5, <2>6 DEF ScreenAction
<1> QED BY <1>1, <1>3 DEF ScreenInv

\* At first it has at most one request, of which nothing is known.
LEMMA ScreenInit == Init => ScreenInv
<1> SUFFICES ASSUME Init PROVE ScreenInv OBVIOUS
<1>1. result = None /\ walk = None /\ attempt = 0 /\ flying = IF tab = None THEN {} ELSE {Sent(query, 0)}
  BY DEF Init
<1>2. Sent(query, 0).key = [query |-> query, attempt |-> 0] /\ Sent(query, 0).live = TRUE
      /\ Sent(query, 0).items = None /\ Sent(query, 0).answer = None
  BY DEF Sent
<1> HIDE DEF Sent
<1>3. Awaited BY <1>1, <1>2 DEF Awaited, Path
<1>4. Told BY <1>1, <1>2 DEF Told
<1>5. Walked BY <1>1 DEF Walked
<1> QED BY <1>3, <1>4, <1>5 DEF ScreenInv

\* What is shown is true of the archive.
LEMMA ScreenShows ==
  ASSUME TypeInv, ScreenInv
  PROVE  ShownIsFound /\ LoadingIsAsking
<1>1. LoadingIsAsking BY DEF ScreenInv, Awaited, LoadingIsAsking
<1>2. ASSUME Data # None, fresh
      PROVE  /\ \A i \in 1..Len(Data.items) : Data.items[i] \in Found(query)
             /\ Data.total = Cardinality(Found(query)) /\ Data.boards = BoardsOf(query)
             /\ \E s \in Orders(query) : Data.items = Slice(s, query.page)
  <2>1. Truthful(query, Data) BY <1>2, DataIs DEF ScreenInv
  <2>2. PICK s \in Orders(query) : Data.items = Slice(s, query.page) BY <2>1 DEF Truthful, Listing
  <2>3. s \in Seq(Found(query)) BY OrderIs DEF TypeInv, ArchiveInv
  <2>4. query.page \in Nat \ {0} BY DEF TypeInv, TypeOK, ReadingTypeOK, Query
  <2>5. Data.items \in Seq(Found(query)) BY <2>2, <2>3, <2>4, SliceIs
  <2>6. \A i \in 1..Len(Data.items) : Data.items[i] \in Found(query) BY <2>5
  <2> QED BY <2>1, <2>2, <2>6 DEF Truthful
<1> QED BY <1>1, <1>2 DEF ShownIsFound

\* And whoever pages on to the end has seen it all.
LEMMA WalkShows ==
  ASSUME TypeInv, ScreenInv
  PROVE  WalkIsComplete
<1> SUFFICES ASSUME Data # None, walk # None, Unequal
             PROVE  /\ query.page > 1 => Data.items # <<>>
                    /\ \A i, j \in 1..Len(walk) : i < j => walk[i] # walk[j]
                    /\ Data.next = None =>
                         /\ {walk[i] : i \in 1..Len(walk)} = Found(query)
                         /\ Len(walk) = Data.total
  BY DEF WalkIsComplete
<1>1. Current # None /\ Data # None BY DataIs DEF ScreenInv
<1>2. PICK f : f = query OBVIOUS
<1>3. f \in Query /\ f.page \in Nat \ {0} BY <1>2 DEF TypeInv, TypeOK, ReadingTypeOK, Query
<1>4. Distinct(f) BY <1>2 DEF Unequal, Distinct
<1>5. /\ fresh /\ (f.page > 1 => (f.page - 1) * PageSize < Cardinality(Found(f)))
      /\ \E s \in Orders(f) : walk = Upto(s, f.page)
  BY <1>1, <1>2, <1>4 DEF ScreenInv, Walked
<1>6. PICK s \in Orders(f) : walk = Upto(s, f.page) BY <1>5
<1>7. Truthful(f, Data) BY <1>1, <1>2, <1>5, DataIs DEF ScreenInv
<1>8. PICK t \in Orders(f) : Data.items = Slice(t, f.page) BY <1>7 DEF Truthful, Listing
<1>9. s = t BY <1>4, OneOrder DEF TypeInv, ArchiveInv
<1>10. /\ s \in Seq(Found(f)) /\ Len(s) = Cardinality(Found(f)) /\ Cardinality(Found(f)) \in Nat
       /\ \A i, j \in 1..Len(s) : s[i] = s[j] => i = j
       /\ \A r \in Found(f) : \E i \in 1..Len(s) : s[i] = r
  BY OrderIs DEF TypeInv, ArchiveInv
<1>11. /\ walk \in Seq(Found(f)) /\ Len(walk) <= Len(s) /\ \A i \in 1..Len(walk) : walk[i] = s[i]
       /\ f.page * PageSize >= Len(s) => walk = s
  BY <1>3, <1>6, <1>10, PagesEnd
<1>12. \A i, j \in 1..Len(walk) : i < j => walk[i] # walk[j]
  <2>1. Len(walk) \in Nat /\ Len(s) \in Nat BY <1>10, <1>11
  <2>2. \A i \in 1..Len(walk) : i \in 1..Len(s) BY <2>1, <1>11
  <2> QED BY <2>2, <1>10, <1>11
<1>13. f.page > 1 => Data.items # <<>> BY <1>3, <1>5, <1>8, <1>9, <1>10, SliceIs
<1>14. ASSUME Data.next = None PROVE {walk[i] : i \in 1..Len(walk)} = Found(f) /\ Len(walk) = Data.total
  <2>1. Data.total = Cardinality(Found(f)) /\ Data.next = NextOf(f.page, Data.total) BY <1>7 DEF Truthful
  <2>2. f.page + 1 # None BY <1>3, ReadingConstants
  <2>3. ~(f.page * PageSize < Data.total) BY <1>14, <2>1, <2>2 DEF NextOf
  <2>4. f.page * PageSize \in Nat BY <1>3, Pages
  <2>5. walk = s BY <2>1, <2>3, <2>4, <1>10, <1>11
  <2>6. {s[i] : i \in 1..Len(s)} = Found(f) BY <1>10
  <2> QED BY <2>1, <2>5, <2>6, <1>10
<1> QED BY <1>2, <1>12, <1>13, <1>14

-----------------------------------------------------------------------------
(* Types again: answers, commits, and the pages of the website. *)

\* Hearing, or not, keeps the types.
LEMMA SettleTypes ==
  ASSUME TypeInv, ScreenInv, NEW x \in flying, Receive(x) \/ Fail(x)
  PROVE  TypeInv'
<1>1. UNCHANGED <<archiveVars, tab, query, attempt, elsewhere, left>> /\ flying' = flying \ {x}
  BY DEF Receive, Fail, Settle
<1>2. ArchiveInv' BY <1>1, ArchiveStill DEF TypeInv
<1>3. SiteTypeOK' /\ Closed' BY <1>1 DEF elsewhere, site, TypeInv, TypeOK, SiteTypeOK, Closed
<1>4. x \in Ask BY DEF TypeInv, TypeOK, ReadingTypeOK
<1>5. result' \in {None} \union Result /\ fresh' \in BOOLEAN
  <2>1. CASE ~x.live
    <3>1. result' = result /\ fresh' = fresh BY <2>1 DEF Receive, Fail, Settle, Heard
    <3> QED BY <3>1 DEF TypeInv, TypeOK, ReadingTypeOK
  <2>2. CASE x.live
    <3>1. PICK d \in {None} \union Answer : result' = [key |-> x.key, data |-> d]
      <4>1. CASE Receive(x) BY <4>1, <2>2, <1>4 DEF Receive, Settle, Heard, Ask
      <4>2. CASE Fail(x) BY <4>2, <2>2 DEF Fail, Settle, Heard
      <4> QED BY <4>1, <4>2
    <3>2. fresh' = x.calm BY <2>2 DEF Receive, Fail, Settle, Heard
    <3> QED BY <3>1, <3>2, <1>4 DEF Result, Ask
  <2> QED BY <2>1, <2>2
<1>6. walk' = None \/ walk' \in Items
  <2>1. SUFFICES ASSUME walk' # None PROVE walk' \in Items OBVIOUS
  <2>2. Walked' BY ScreenWalks DEF ScreenAction
  <2>3. PICK f : f = query' OBVIOUS
  <2>4. walk' \in Seq(Found(f)') BY <2>1, <2>2, <2>3 DEF Walked
  <2>5. Found(f)' = Found(f) BY <1>1, SameAnswer
  <2>6. /\ f.view = "timelines" => Found(f) \subseteq Matter
        /\ f.view # "timelines" => Found(f) \subseteq Records
    BY FoundType DEF TypeInv, ArchiveInv
  <2>7. walk' \in Seq(Matter) \/ walk' \in Seq(Records) BY <2>4, <2>5, <2>6, SeqMonotonic
  <2> QED BY <2>7 DEF Items
<1>7. ReadingTypeOK' BY <1>1, <1>5, <1>6 DEF TypeInv, TypeOK, ReadingTypeOK
<1> QED BY <1>2, <1>3, <1>7 DEF TypeInv, TypeOK, ArchiveInv

\* So does a commit.
LEMMA DisturbTypes ==
  ASSUME TypeInv, Disturb
  PROVE  TypeInv'
<1>1. /\ Disturbs /\ SiteDisturbed /\ walk' = None /\ fresh' = FALSE
      /\ flying' = {[x EXCEPT !.calm = FALSE] : x \in flying}
      /\ UNCHANGED <<tab, query, attempt, result, follows, page, left>>
  BY DEF Disturb
<1>2. ArchiveInv' BY <1>1, PublishHolds, RelinkHolds, ClearHolds, TickHolds DEF Disturbs, TypeInv
<1>3. SiteTypeOK' /\ Closed' BY <1>1 DEF SiteDisturbed, TypeInv, TypeOK, SiteTypeOK, Closed
<1>4. \A x \in flying : [x EXCEPT !.calm = FALSE] \in Ask BY DEF TypeInv, TypeOK, ReadingTypeOK, Ask
<1>5. flying' \subseteq Ask BY <1>1, <1>4
<1>6. ReadingTypeOK' BY <1>1, <1>5 DEF TypeInv, TypeOK, ReadingTypeOK
<1> QED BY <1>2, <1>3, <1>6 DEF TypeInv, TypeOK, ArchiveInv

AnyPage == ListPage \union MattersPage \union MatterPage \union RecordPage \union ForMe \union Feed

\* The website keeps the types if its page and its history do.
LEMMA SiteKeeps ==
  ASSUME TypeInv, SiteAction, page' = page \/ page' \in AnyPage, trail' = None \/ trail' \in Part,
         follows' \in SUBSET Interests, calm' \in BOOLEAN, left' \in Quota,
         left.screen = 0 => left'.screen = 0
  PROVE  TypeInv'
<1>1. UNCHANGED <<archiveVars, screen, walk, fresh>> BY SiteApart
<1>2. ArchiveInv' BY <1>1, ArchiveStill DEF TypeInv
<1>3. ReadingTypeOK' BY <1>1 DEF screen, TypeInv, TypeOK, ReadingTypeOK
<1>4. Closed' BY <1>1 DEF screen, TypeInv, Closed
<1>5. SiteTypeOK' BY DEF TypeInv, TypeOK, SiteTypeOK, AnyPage
<1> QED BY <1>2, <1>3, <1>4, <1>5 DEF TypeInv, TypeOK, ArchiveInv

\* What a list's page is cut from are records.
LEMMA HalfType ==
  ASSUME TypeInv, NEW f \in ListQuery
  PROVE  /\ \A when : Half(f, when).view = f.view /\ Half(f, when).town = f.town /\ Half(f, when).q = f.q
                      /\ Half(f, when).body = f.body /\ Half(f, when).when = when
         /\ \A s \in AheadOf(f) : s \in Part
         /\ \A s \in Rows(f) : s \in Part
<1>1. f \in Query /\ f.view # "timelines" /\ f.page \in Nat \ {0} BY DEF ListQuery, Query
<1>2. \A when : Half(f, when).view = f.view /\ Half(f, when).town = f.town /\ Half(f, when).q = f.q
                /\ Half(f, when).body = f.body /\ Half(f, when).when = when
  BY <1>1 DEF Half, Query
<1>3. ASSUME NEW g, g.view # "timelines" PROVE \A s \in Orders(g) : s \in Part
  BY <1>3, OrderType DEF TypeInv, Part
<1>4. \A s \in Orders(Half(f, "upcoming")) : s \in Part BY <1>1, <1>2, <1>3
<1>5. \A s \in Orders(Half(f, "past")) : s \in Part BY <1>1, <1>2, <1>3
<1>6. \A s \in Orders(f) : s \in Part BY <1>1, <1>3
<1>7. <<>> \in Part BY DEF Part
<1>8. ASSUME NEW s \in Part PROVE First(s, UpcomingSize) \in Part /\ Slice(s, f.page) \in Part
  BY <1>1, FirstIs, SliceIs, SiteConstants DEF Part
<1>9. \A s \in AheadOf(f) : s \in Part BY <1>4, <1>7, <1>8 DEF AheadOf
<1>10. \A s \in Rows(f) : s \in Part
  <2>1. CASE f.view # "activity" BY <2>1, <1>6, <1>8 DEF Rows
  <2>2. CASE f.view = "activity" /\ f.when = "upcoming" BY <2>2, <1>7 DEF Rows
  <2>3. CASE f.view = "activity" /\ f.when # "upcoming" BY <2>3, <1>5, <1>8 DEF Rows
  <2> QED BY <2>1, <2>2, <2>3
<1> QED BY <1>2, <1>9, <1>10

\* What sorting by date gives.
LEMMA NewerRanks ==
  ASSUME NEW S, NEW s \in Sorted(S, Newer)
  PROVE  /\ Ranked(s, S, {})
         /\ \A i, j \in 1..Cardinality(S) : i < j => ~(s[i] \in S /\ s[j] \in S /\ Newer(s[j], s[i]))
<1>1. s \in [1..Cardinality(S) -> S] BY DEF Sorted
<1>2. ASSUME NEW i \in 1..Cardinality(S), NEW j \in 1..Cardinality(S), i < j
      PROVE  s[i] # s[j] /\ ~(s[i] \in S /\ s[j] \in S /\ Newer(s[j], s[i]))
  BY <1>2 DEF Sorted
<1> QED BY <1>1, <1>2 DEF Ranked

\* What sorting timelines gives.
LEMMA MattersRank ==
  ASSUME NEW S, NEW s \in Sorted(S, Livelier) \union Sorted(S, Documented)
  PROVE  Ranked(s, S, {})
<1>1. s \in [1..Cardinality(S) -> S] BY DEF Sorted
<1>2. ASSUME NEW i \in 1..Cardinality(S), NEW j \in 1..Cardinality(S), i < j PROVE s[i] # s[j]
  BY <1>2 DEF Sorted
<1> QED BY <1>1, <1>2 DEF Ranked

\* The first of a ranking are of what is ranked, and as many as may be shown.
LEMMA ShownOf ==
  ASSUME NEW S, IsFiniteSet(S), NEW s, Ranked(s, S, {}), NEW n \in Nat
  PROVE  /\ Among(First(s, n)) \subseteq S
         /\ Cardinality(Among(First(s, n))) = Least(n, Cardinality(S))
<1>1. /\ s \in Seq(S) /\ Len(s) = Cardinality(S) /\ Cardinality(S) \in Nat
      /\ \A i, j \in 1..Len(s) : s[i] = s[j] => i = j
  BY RankedIsAll
<1>2. s \in [1..Cardinality(S) -> S] BY DEF Ranked
<1>3. Among(First(s, n)) \subseteq S BY <1>2, SortedFirst
<1>4. Among(First(s, n)) = Front(s, Least(n, Len(s))) /\ Least(n, Len(s)) \in 0..Len(s)
  BY <1>1, FirstIs
<1>5. Cardinality(Front(s, Least(n, Len(s)))) = Least(n, Len(s)) BY <1>1, <1>4, FrontCounts
<1> QED BY <1>1, <1>3, <1>4, <1>5

-----------------------------------------------------------------------------
(* The pages of the website. *)

\* What a list is cut from, and what comes before it on its first page.
Base(f) ==
  CASE f.view # "activity" -> Orders(f)
    [] f.view = "activity" /\ f.when = "upcoming" -> {<<>>}
    [] f.view = "activity" /\ f.when # "upcoming" -> Orders(Half(f, "past"))
Lead(f) ==
  IF f.view = "activity" /\ f.when # "past"
  THEN {First(s, UpcomingSize) : s \in Orders(Half(f, "upcoming"))} ELSE {<<>>}
Apart(f) == Separate(Found(f))

\* What was seen going on to older records is, of the one order there is, the
\* pages up to the one made, or before the one in the making.
TrailOf(p, t) ==
  LET f == p.query IN
  /\ p.ahead \in IF f.page = 1 THEN Lead(f) ELSE {<<>>}
  /\ p.rows # None => \E s \in Base(f) : p.rows = Slice(s, f.page)
  /\ p.total # None => p.rows # None /\ p.total = Cardinality(Found(f))
  /\ p.total = None /\ f.page = 1 => t = <<>>
  /\ (p.total # None \/ f.page > 1) /\ Apart(f) =>
       \E a \in Lead(f) : \E s \in Base(f) :
         t = a \o Upto(s, IF p.total = None THEN f.page - 1 ELSE f.page)
Trailed == \A p \in {page}, t \in {trail} \ {None} : On("list") => TrailOf(p, t)

\* A page made in several reads says what one read would, if nothing was
\* committed between them.
Shown(S, n) == {Among(First(s, n)) : s \in S}
PageSays(p) ==
  /\ p.kind = "matters" =>
       LET S == ListedMatters(p.town, p.q, p.all) IN
       /\ p.rows \in Shown(Sorted(S, Livelier) \union Sorted(S, Documented), MattersSize)
       /\ p.total # None => p.total = Cardinality(S)
  /\ p.kind = "matter" =>
       /\ p.matter \in DOMAIN matters /\ p.row = matters[p.matter]
       /\ p.rows # None => p.rows = Timeline(p.matter)
  /\ p.kind = "record" /\ p.chips # None => p.chips = MattersForEvent(p.record)
  /\ p.kind = "feed" /\ p.rows # None => p.rows \in Shown(Sorted(Scope(p.town, p.matter), Newer), FeedSize)
  /\ p.kind = "for-me" /\ p.rows # None => p.rows \in Shown(Sorted(Fed(p.of, Records), Newer), FeedSize)
Paged == \A p \in {page} \ {None} : calm => PageSays(p)

SiteInv == Trailed /\ Paged

\* While nothing is committed a trail stays what it was.
LEMMA StillTrails ==
  ASSUME UNCHANGED archiveVars, NEW p, NEW t
  PROVE  /\ \A f : Lead(f)' = Lead(f) /\ Base(f)' = Base(f) /\ (Apart(f)' <=> Apart(f)) /\ Found(f)' = Found(f)
         /\ TrailOf(p, t)' <=> TrailOf(p, t)
<1>1. \A f : Found(f)' = Found(f) /\ Orders(f)' = Orders(f) BY SameAnswer
<1>2. \A f : Lead(f)' = Lead(f) BY <1>1 DEF Lead
<1>3. \A f : Base(f)' = Base(f) BY <1>1 DEF Base
<1>4. \A f : Apart(f)' <=> Apart(f) BY <1>1 DEF Apart, Separate, Newer, Row, archiveVars
<1>5. TrailOf(p, t)' <=> TrailOf(p, t) BY <1>1, <1>2, <1>3, <1>4 DEF TrailOf
<1> QED BY <1>1, <1>2, <1>3, <1>4, <1>5

\* And a page says what it said.
LEMMA StillSays ==
  ASSUME UNCHANGED archiveVars, NEW p
  PROVE  PageSays(p)' <=> PageSays(p)
<1>1. matters' = matters /\ links' = links /\ archive' = archive BY DEF archiveVars
<1>2. \A t, q, all : ListedMatters(t, q, all)' = ListedMatters(t, q, all) BY <1>1 DEF ListedMatters
<1>3. \A S : Sorted(S, Livelier)' = Sorted(S, Livelier) BY <1>1 DEF Sorted, Livelier
<1>4. \A S : Sorted(S, Documented)' = Sorted(S, Documented) BY <1>1 DEF Sorted, Documented
<1>5. \A S : Sorted(S, Newer)' = Sorted(S, Newer) BY <1>1 DEF Sorted, Newer, Row
<1>6. \A m : Timeline(m)' = Timeline(m) /\ MattersForEvent(m)' = MattersForEvent(m)
  BY <1>1 DEF Timeline, MattersForEvent
<1>7. \A t, m : Scope(t, m)' = Scope(t, m) BY <1>1 DEF Scope, Present, Row
<1>8. \A S, a : Fed(S, a)' = Fed(S, a) BY <1>1 DEF Fed, Present, Wants, Matches, Row
<1> QED BY <1>1, <1>2, <1>3, <1>4, <1>5, <1>6, <1>7, <1>8 DEF PageSays

\* Whatever leaves the website alone, or commits, keeps its invariant.
LEMMA StillSite ==
  ASSUME SiteInv, UNCHANGED <<archiveVars, page, trail, calm>>
  PROVE  SiteInv'
<1>1. \A p, t : TrailOf(p, t)' <=> TrailOf(p, t) BY StillTrails
<1>2. \A p : PageSays(p)' <=> PageSays(p) BY StillSays
<1>3. On("list")' <=> On("list") BY DEF On
<1>4. Trailed' BY <1>1, <1>3 DEF SiteInv, Trailed
<1>5. Paged' BY <1>2 DEF SiteInv, Paged
<1> QED BY <1>4, <1>5 DEF SiteInv

\* A commit.
LEMMA DisturbedSite == Disturb => SiteInv'
BY DEF Disturb, SiteDisturbed, SiteInv, Trailed, Paged

\* The screen.
LEMMA ScreenApart ==
  ASSUME SiteInv, ScreenAction \/ UNCHANGED vars
  PROVE  SiteInv'
<1>1. UNCHANGED <<archiveVars, page, trail, calm>>
  <2>1. CASE UNCHANGED vars BY <2>1 DEF vars, site
  <2>2. CASE ScreenAction
    BY <2>2 DEF ScreenAction, Search, SetView, SetBody, SetWhen, SetTown, NextPage, Previous, Retry, Show,
                List, Count, Receive, Fail, Settle, elsewhere, site
  <2> QED BY <2>1, <2>2
<1> QED BY <1>1, StillSite

\* It has no page at first.
LEMMA SiteInit0 == Init => SiteInv
BY DEF Init, SiteInit, SiteInv, Trailed, Paged, On

\* Half of a list, whatever its page.
LEMMA OtherBase ==
  ASSUME NEW f \in ListQuery, NEW g \in ListQuery,
         g.town = f.town, g.view = f.view, g.q = f.q, g.body = f.body, g.when = f.when
  PROVE  Found(g) = Found(f) /\ Base(g) = Base(f) /\ Lead(g) = Lead(f) /\ (Apart(g) <=> Apart(f))
<1>1. Found(g) = Found(f) /\ Orders(g) = Orders(f) BY OtherPage
<1>2. ASSUME NEW when PROVE Orders(Half(g, when)) = Orders(Half(f, when))
  <2>1. /\ Half(g, when).town = Half(f, when).town /\ Half(g, when).view = Half(f, when).view
        /\ Half(g, when).q = Half(f, when).q /\ Half(g, when).body = Half(f, when).body
        /\ Half(g, when).when = Half(f, when).when
    BY DEF Half, ListQuery, Query
  <2> QED BY <2>1, OtherPage
<1>3. Base(g) = Base(f) BY <1>1, <1>2 DEF Base
<1>4. Lead(g) = Lead(f) BY <1>1, <1>2 DEF Lead
<1> QED BY <1>1, <1>3, <1>4 DEF Apart

\* No two records apart by date and title are equal in the order of a list, nor
\* of its halves, which are of it.
LEMMA ApartIs ==
  ASSUME TypeInv, NEW f \in ListQuery
  PROVE  /\ Apart(f) => Distinct(f) /\ \A when : Distinct(Half(f, when)) \/ when \notin {"past", "upcoming"}
                                    \/ f.view # "activity" \/ f.when \notin {when, "all"}
         /\ \A when \in {"past", "upcoming"} :
              f.view = "activity" /\ f.when \in {when, "all"} =>
                /\ Found(Half(f, when)) \subseteq Found(f)
                /\ \A r \in Found(Half(f, when)) : IF when = "past" THEN Row(r).at <= now ELSE Row(r).at > now
                /\ \A r \in Found(f) : (IF when = "past" THEN Row(r).at <= now ELSE Row(r).at > now)
                                         => r \in Found(Half(f, when))
<1>1. f.view # "timelines" /\ f.when \in {"all", "past", "upcoming"} BY DEF ListQuery, Query
<1>2. ASSUME NEW g, g.view # "timelines", NEW S, Separate(S), S \subseteq Records,
             \A r \in S : Row(r) \in Content, Found(g) \subseteq S
      PROVE  Distinct(g)
  <2>1. SUFFICES ASSUME NEW a \in Found(g), NEW b \in Found(g), a # b PROVE Before(g, a, b) \/ Before(g, b, a)
    BY DEF Distinct
  <2>2. Newer(a, b) \/ Newer(b, a) BY <2>1, <1>2 DEF Separate
  <2>3. Row(a) \in Content /\ Row(b) \in Content BY <2>1, <1>2
  <2>4. Row(a).at \in Nat /\ Row(b).at \in Nat /\ Row(a).title \in Nat /\ Row(b).title \in Nat
    BY <2>3 DEF Content
  <2>5. Sooner(a, b) \/ Sooner(b, a) BY <2>2, <2>4 DEF Newer, Sooner
  <2> QED BY <2>2, <2>5, <1>2 DEF Before
<1>3. Found(f) \subseteq Records /\ \A r \in Found(f) : Row(r) \in Content
  BY <1>1, FoundType DEF TypeInv, ArchiveInv
<1>4. ASSUME NEW when \in {"past", "upcoming"}, f.view = "activity", f.when \in {when, "all"}
      PROVE  /\ Found(Half(f, when)) \subseteq Found(f)
             /\ \A r \in Found(Half(f, when)) : IF when = "past" THEN Row(r).at <= now ELSE Row(r).at > now
             /\ \A r \in Found(f) : (IF when = "past" THEN Row(r).at <= now ELSE Row(r).at > now)
                                      => r \in Found(Half(f, when))
  <2>1. PICK g : g = Half(f, when) OBVIOUS
  <2>2. g.view = f.view /\ g.town = f.town /\ g.q = f.q /\ g.body = f.body /\ g.when = when
    BY <2>1, HalfType
  <2>3. Found(g) = {r \in Records : Selects(g, r)} /\ Found(f) = {r \in Records : Selects(f, r)}
    BY <2>2, <1>4 DEF Found
  <2>4. \A r : Selects(g, r) <=> Selects(f, r) /\ (IF when = "past" THEN Row(r).at <= now ELSE Row(r).at > now)
    BY <2>2, <1>4 DEF Selects
  <2>5. /\ Found(g) \subseteq Found(f)
        /\ \A r \in Found(g) : IF when = "past" THEN Row(r).at <= now ELSE Row(r).at > now
        /\ \A r \in Found(f) : (IF when = "past" THEN Row(r).at <= now ELSE Row(r).at > now) => r \in Found(g)
    BY <2>3, <2>4
  <2> QED BY <2>1, <2>5
<1>5. ASSUME Apart(f) PROVE Distinct(f) BY <1>1, <1>2, <1>3, <1>5 DEF Apart
<1>6. ASSUME Apart(f), NEW when \in {"past", "upcoming"}, f.view = "activity", f.when \in {when, "all"}
      PROVE  Distinct(Half(f, when))
  <2>1. Half(f, when).view # "timelines" BY <1>1, HalfType
  <2> QED BY <2>1, <1>2, <1>3, <1>4, <1>6 DEF Apart
<1> QED BY <1>4, <1>5, <1>6

\* The list a page is cut from is records, listed once.
LEMMA BaseType ==
  ASSUME TypeInv, NEW f \in ListQuery
  PROVE  /\ \A s \in Base(f) : s \in Part
         /\ \A a \in Lead(f) : a \in Part
         /\ Apart(f) => \A s, t \in Base(f) : s = t
         /\ Rows(f) = {Slice(s, f.page) : s \in Base(f)}
         /\ AheadOf(f) = IF f.page = 1 THEN Lead(f) ELSE {<<>>}
<1>1. f.view # "timelines" /\ f.when \in {"all", "past", "upcoming"} /\ f.page \in Nat \ {0} BY DEF ListQuery, Query
<1>2. Half(f, "past").view = f.view /\ Half(f, "upcoming").view = f.view BY HalfType
<1>3. ASSUME NEW g, g.view # "timelines" PROVE \A s \in Orders(g) : s \in Part
  BY <1>3, OrderType DEF TypeInv, Part
<1>4. \A s \in Base(f) : s \in Part
  <2>1. \A s \in Orders(f) : s \in Part BY <1>1, <1>3
  <2>2. \A s \in Orders(Half(f, "past")) : s \in Part BY <1>1, <1>2, <1>3
  <2>3. <<>> \in Part BY DEF Part
  <2> QED BY <2>1, <2>2, <2>3 DEF Base
<1>5. \A a \in Lead(f) : a \in Part
  <2>1. \A s \in Orders(Half(f, "upcoming")) : s \in Part BY <1>1, <1>2, <1>3
  <2>2. \A s \in Orders(Half(f, "upcoming")) : First(s, UpcomingSize) \in Part
    BY <2>1, FirstIs, SiteConstants DEF Part
  <2>3. <<>> \in Part BY DEF Part
  <2> QED BY <2>2, <2>3 DEF Lead
<1>6. ASSUME Apart(f), NEW s \in Base(f), NEW t \in Base(f) PROVE s = t
  <2>1. CASE f.view # "activity"
    <3>1. Distinct(f) BY <1>6, ApartIs
    <3>2. s \in Orders(f) /\ t \in Orders(f) BY <2>1 DEF Base
    <3> QED BY <3>1, <3>2, OneOrder DEF TypeInv, ArchiveInv
  <2>2. CASE f.view = "activity" /\ f.when = "upcoming" BY <2>2 DEF Base
  <2>3. CASE f.view = "activity" /\ f.when # "upcoming"
    <3>1. Distinct(Half(f, "past")) BY <2>3, <1>1, <1>6, ApartIs
    <3>2. s \in Orders(Half(f, "past")) /\ t \in Orders(Half(f, "past")) BY <2>3 DEF Base
    <3> QED BY <3>1, <3>2, OneOrder DEF TypeInv, ArchiveInv
  <2> QED BY <2>1, <2>2, <2>3
<1>7. Rows(f) = {Slice(s, f.page) : s \in Base(f)}
  <2>1. CASE f.view # "activity" BY <2>1 DEF Rows, Base
  <2>2. CASE f.view = "activity" /\ f.when = "upcoming"
    <3>1. Slice(<<>>, f.page) = <<>>
      <4> DEFINE a == (f.page - 1) * PageSize + 1
      <4> DEFINE m == Least(f.page * PageSize, Len(<<>>))
      <4>1. a \in Nat \ {0}
        <5> DEFINE b == (f.page - 1) * PageSize
        <5>1. b \in Nat BY <1>1, Pages
        <5> HIDE DEF b
        <5> QED BY <5>1 DEF b
      <4>2. f.page * PageSize \in Nat BY <1>1, Pages
      <4>3. m = 0
        <5>1. Len(<<>>) = 0 OBVIOUS
        <5> DEFINE n == f.page * PageSize
        <5>2. n \in Nat BY <4>2
        <5>3. m = Least(n, 0) BY <5>1
        <5> HIDE DEF n, m
        <5> QED BY <5>2, <5>3 DEF Least
      <4>4. Slice(<<>>, f.page) = SubSeq(<<>>, a, m) BY DEF Slice
      <4> HIDE DEF a, m
      <4>5. m < a /\ a \in Int /\ m \in Int BY <4>1, <4>3
      <4> QED BY <4>4, <4>5, SubSeqEmpty
    <3>2. Rows(f) = {<<>>} /\ Base(f) = {<<>>} BY <2>2 DEF Rows, Base
    <3> QED BY <3>1, <3>2
  <2>3. CASE f.view = "activity" /\ f.when # "upcoming" BY <2>3 DEF Rows, Base
  <2> QED BY <2>1, <2>2, <2>3
<1>8. AheadOf(f) = IF f.page = 1 THEN Lead(f) ELSE {<<>>} BY DEF AheadOf, ShowsUpcoming, Lead
<1> QED BY <1>4, <1>5, <1>6, <1>7, <1>8

-----------------------------------------------------------------------------
(* What the website does, one read at a time. *)

\* A page p, with the trail t, that holds to what it says.
Holds(p, t) ==
  /\ p \in AnyPage /\ (t = None \/ t \in Part)
  /\ p.kind = "list" /\ t # None => TrailOf(p, t)

\* A page asked for.
LEMMA Opens ==
  ASSUME TypeInv, SiteAction, NEW p, NEW t, Begin(p), trail' = t, Holds(p, t), PageSays(p),
         NEW what \in {"lists", "pages"}, Spend(what)
  PROVE  TypeInv' /\ SiteInv'
<1>1. page' = p /\ calm' = TRUE /\ UNCHANGED <<archiveVars, follows>> BY DEF Begin
<1>2. left \in Quota BY DEF TypeInv, TypeOK, SiteTypeOK
<1>3. left' \in Quota /\ (left.screen = 0 => left'.screen = 0) BY <1>2, SpendType
<1>4. follows' \in SUBSET Interests BY <1>1 DEF TypeInv, TypeOK, SiteTypeOK
<1>5. TypeInv' BY <1>1, <1>3, <1>4, SiteKeeps DEF Holds
<1>6. TrailOf(p, t)' <=> TrailOf(p, t) BY <1>1, StillTrails
<1>7. PageSays(p)' <=> PageSays(p) BY <1>1, StillSays
<1>8. Trailed' BY <1>1, <1>6 DEF Trailed, On, Holds
<1>9. Paged' BY <1>1, <1>7 DEF Paged
<1> QED BY <1>5, <1>8, <1>9 DEF SiteInv

\* Its next read.
LEMMA GoesOn ==
  ASSUME TypeInv, SiteAction, NEW p, NEW t, Goes(p), trail' = t, Holds(p, t), calm => PageSays(p)
  PROVE  TypeInv' /\ SiteInv'
<1>1. page' = p /\ UNCHANGED <<archiveVars, follows, left, calm>> BY DEF Goes
<1>2. follows' \in SUBSET Interests /\ calm' \in BOOLEAN /\ left' \in Quota /\ left' = left
  BY <1>1 DEF TypeInv, TypeOK, SiteTypeOK
<1>3. TypeInv' BY <1>1, <1>2, SiteKeeps DEF Holds
<1>4. TrailOf(p, t)' <=> TrailOf(p, t) BY <1>1, StillTrails
<1>5. PageSays(p)' <=> PageSays(p) BY <1>1, StillSays
<1>6. Trailed' BY <1>1, <1>4 DEF Trailed, On, Holds
<1>7. Paged' BY <1>1, <1>5 DEF Paged
<1> QED BY <1>3, <1>6, <1>7 DEF SiteInv

\* Lists.
LEMMA OpenListHolds ==
  ASSUME TypeInv, SiteInv, SiteAction, OpenList
  PROVE  TypeInv' /\ SiteInv'
<1>1. PICK f \in ListQuery : f.page = 1 /\ Visit(f)
  <2>1. PICK f \in [town : Towns, view : {"transcripts", "meetings", "activity"}, q : {None} \union Words,
               body : {None} \union Boards, when : {"all", "past", "upcoming"}, page : {1}] : Visit(f)
    BY DEF OpenList
  <2>2. f \in ListQuery /\ f.page = 1 BY 1 \in Nat \ {0} DEF ListQuery, Query
  <2> QED BY <2>1, <2>2
<1>2. PICK s \in AheadOf(f) :
        Begin([kind |-> "list", query |-> f, ahead |-> s, rows |-> None, total |-> None])
  BY <1>1 DEF Visit
<1>3. PICK p : p = [kind |-> "list", query |-> f, ahead |-> s, rows |-> None, total |-> None] OBVIOUS
<1>4. s \in Part /\ s \in Lead(f) BY <1>1, HalfType, BaseType
<1>5. p \in ListPage BY <1>3, <1>4 DEF ListPage
<1>6. TrailOf(p, <<>>) BY <1>1, <1>3, <1>4 DEF TrailOf
<1>7. Holds(p, <<>>) BY <1>5, <1>6 DEF Holds, AnyPage, Part
<1>8. PageSays(p) BY <1>3 DEF PageSays
<1>9. Spend("lists") /\ trail' = <<>> /\ Begin(p) BY <1>2, <1>3 DEF OpenList
<1> QED BY <1>7, <1>8, <1>9, Opens

\* The page of a list, as it is.
LEMMA ListIs ==
  ASSUME TypeInv, SiteInv, On("list"), NEW p, p = page
  PROVE  /\ p \in ListPage /\ p.query \in ListQuery /\ p.query.page \in Nat \ {0} /\ p.kind = "list"
         /\ trail # None => TrailOf(p, trail) /\ trail \in Part
<1>1. p \in ListPage BY PageKinds DEF TypeInv, TypeOK
<1>2. p.query \in ListQuery /\ p.query.page \in Nat \ {0} /\ p.kind = "list"
  BY <1>1 DEF ListPage, ListQuery, Query
<1>3. trail # None => TrailOf(p, trail) /\ trail \in Part
  BY DEF SiteInv, Trailed, TypeInv, TypeOK, SiteTypeOK
<1> QED BY <1>1, <1>2, <1>3

\* The rows of a list are a page of what it is cut from.
LEMMA ReadRowsHolds ==
  ASSUME TypeInv, SiteInv, SiteAction, ReadRows
  PROVE  TypeInv' /\ SiteInv'
<1>1. PICK p : p = page OBVIOUS
<1>2. PICK t : t = trail OBVIOUS
<1>3. On("list") /\ p.rows = None /\ trail' = t BY <1>1, <1>2 DEF ReadRows
<1>4. /\ p \in ListPage /\ p.query \in ListQuery /\ p.query.page \in Nat \ {0} /\ p.kind = "list"
      /\ t # None => TrailOf(p, t) /\ t \in Part
  BY <1>1, <1>2, <1>3, ListIs
<1>5. PICK s \in Rows(p.query) : Goes([p EXCEPT !.rows = s]) BY <1>1 DEF ReadRows
<1>6. PICK q : q = [p EXCEPT !.rows = s] OBVIOUS
<1>7. s \in Part /\ \E b \in Base(p.query) : s = Slice(b, p.query.page) BY <1>4, HalfType, BaseType
<1>8. q \in ListPage /\ q.kind = "list" /\ q.query = p.query /\ q.ahead = p.ahead /\ q.rows = s /\ q.total = p.total
  BY <1>4, <1>6, <1>7 DEF ListPage
<1>9. ASSUME t # None PROVE TrailOf(q, t)
  <2>1. TrailOf(p, t) BY <1>4, <1>9
  <2>2. p.total = None BY <2>1, <1>3 DEF TrailOf
  <2>3. s # None \/ s = None OBVIOUS
  <2> QED BY <2>1, <2>2, <1>7, <1>8 DEF TrailOf
<1>10. Holds(q, t) BY <1>4, <1>8, <1>9 DEF Holds, AnyPage
<1>11. PageSays(q) BY <1>8 DEF PageSays
<1> QED BY <1>3, <1>5, <1>6, <1>10, <1>11, GoesOn

\* Its count completes the page, and the trail.
LEMMA ReadTotalHolds ==
  ASSUME TypeInv, SiteInv, SiteAction, ReadTotal
  PROVE  TypeInv' /\ SiteInv'
<1>1. PICK p : p = page OBVIOUS
<1>2. PICK t : t = trail OBVIOUS
<1>3. On("list") /\ p.rows # None /\ p.total = None BY <1>1 DEF ReadTotal
<1>4. /\ p \in ListPage /\ p.query \in ListQuery /\ p.query.page \in Nat \ {0} /\ p.kind = "list"
      /\ t # None => TrailOf(p, t) /\ t \in Part
  BY <1>1, <1>2, <1>3, ListIs
<1>5. PICK n : n = Cardinality(Found(p.query)) OBVIOUS
<1>6. PICK q : q = [p EXCEPT !.total = n] OBVIOUS
<1>7. n \in Nat BY <1>5, FoundFinite DEF TypeInv, ArchiveInv
<1>8. n # None BY <1>7, ReadingConstants
<1>9. q \in ListPage /\ q.kind = "list" /\ q.query = p.query /\ q.ahead = p.ahead /\ q.rows = p.rows /\ q.total = n
  BY <1>4, <1>6, <1>7 DEF ListPage
<1>10. p.ahead \in Part /\ p.rows \in Part BY <1>3, <1>4 DEF ListPage
<1>11. PICK u : u = IF t = None THEN None ELSE t \o p.ahead \o p.rows OBVIOUS
<1>12. trail' = u BY <1>1, <1>2, <1>11 DEF ReadTotal
<1>13. u = None \/ u \in Part
  <2>1. CASE t = None BY <2>1, <1>11
  <2>2. CASE t # None
    <3>1. t \in Part BY <2>2, <1>4
    <3>2. t \o p.ahead \in Part BY <3>1, <1>10, ConcatProperties DEF Part
    <3>3. (t \o p.ahead) \o p.rows \in Part BY <3>2, <1>10, ConcatProperties DEF Part
    <3> QED BY <3>3, <2>2, <1>11
  <2> QED BY <2>1, <2>2
<1>14. ASSUME u # None PROVE TrailOf(q, u)
  <2> DEFINE f == p.query
  <2>1. t # None /\ TrailOf(p, t) /\ t \in Part /\ u = t \o p.ahead \o p.rows BY <1>4, <1>11, <1>14
  <2>2. /\ p.ahead \in IF f.page = 1 THEN Lead(f) ELSE {<<>>}
        /\ \E s \in Base(f) : p.rows = Slice(s, f.page)
        /\ f.page = 1 => t = <<>>
        /\ f.page > 1 /\ Apart(f) => \E a \in Lead(f) : \E s \in Base(f) : t = a \o Upto(s, f.page - 1)
    BY <2>1, <1>3 DEF TrailOf
  <2>3. ASSUME Apart(f) PROVE \E a \in Lead(f) : \E s \in Base(f) : u = a \o Upto(s, f.page)
    <3>1. PICK s \in Base(f) : p.rows = Slice(s, f.page) BY <2>2
    <3>2. s \in Part BY <1>4, BaseType
    <3>3. s \in Seq(Records) BY <3>2 DEF Part
    <3>4. CASE f.page = 1
      <4>1. t = <<>> /\ p.ahead \in Lead(f) BY <3>4, <2>2
      <4>2. t \o p.ahead = p.ahead BY <4>1, <1>10, ConcatEmptySeq DEF Part
      <4>3. Slice(s, 1) = Upto(s, 1) BY <3>3, PagesJoin
      <4>4. u = p.ahead \o Upto(s, f.page) BY <4>2, <4>3, <2>1, <3>1, <3>4
      <4> QED BY <4>1, <4>4
    <3>5. CASE f.page # 1
      <4>1. f.page > 1 /\ p.ahead = <<>> BY <3>5, <1>4, <2>2
      <4>2. PICK a \in Lead(f), b \in Base(f) : t = a \o Upto(b, f.page - 1) BY <4>1, <2>2, <2>3
      <4>3. b = s BY <2>3, <1>4, BaseType
      <4>4. t \o p.ahead = t BY <4>1, <2>1, ConcatEmptySeq DEF Part
      <4>5. Upto(s, f.page - 1) \o Slice(s, f.page) = Upto(s, f.page) BY <3>3, <1>4, PagesJoin
      <4>6. a \in Seq(Records) BY <1>4, BaseType DEF Part
      <4>7. Upto(s, f.page - 1) \in Seq(Records) /\ Slice(s, f.page) \in Seq(Records)
        BY <3>3, <1>4, PagesEnd, SliceIs, Pages
      <4>8. (a \o Upto(s, f.page - 1)) \o Slice(s, f.page) = a \o (Upto(s, f.page - 1) \o Slice(s, f.page))
        BY <4>6, <4>7, ConcatAssociative
      <4>9. u = a \o Upto(s, f.page) BY <4>2, <4>3, <4>4, <4>5, <4>8, <2>1, <3>1
      <4> QED BY <4>9
    <3> QED BY <3>4, <3>5
  <2>4. q.ahead \in IF f.page = 1 THEN Lead(f) ELSE {<<>>} BY <2>2, <1>9
  <2>5. q.rows # None /\ \E s \in Base(f) : q.rows = Slice(s, f.page) BY <2>2, <1>3, <1>9
  <2>6. q.query = f /\ q.total # None /\ q.total = Cardinality(Found(f)) BY <1>5, <1>8, <1>9
  <2> HIDE DEF f
  <2> QED BY <2>3, <2>4, <2>5, <2>6 DEF TrailOf
<1>15. Holds(q, u) BY <1>9, <1>13, <1>14 DEF Holds, AnyPage
<1>16. PageSays(q) BY <1>9 DEF PageSays
<1>17. Goes(q) BY <1>1, <1>5, <1>6 DEF ReadTotal
<1> QED BY <1>12, <1>15, <1>16, <1>17, GoesOn

\* Older, the trail goes on; newer, it ends.
LEMMA GoHolds ==
  ASSUME TypeInv, SiteInv, SiteAction, GoOlder \/ GoNewer
  PROVE  TypeInv' /\ SiteInv'
<1>1. PICK p : p = page OBVIOUS
<1>2. PICK t : t = trail OBVIOUS
<1>3. On("list") /\ p.total # None /\ Spend("lists") BY <1>1 DEF GoOlder, GoNewer, Made
<1>4. /\ p \in ListPage /\ p.query \in ListQuery /\ p.query.page \in Nat \ {0} /\ p.kind = "list"
      /\ t # None => TrailOf(p, t) /\ t \in Part
  BY <1>1, <1>2, <1>3, ListIs
<1>5. PICK n \in Nat \ {0} : /\ Visit([p.query EXCEPT !.page = n])
                             /\ (n = p.query.page + 1 /\ trail' = t) \/ trail' = None
  <2>1. CASE GoOlder
    <3>1. Visit([p.query EXCEPT !.page = p.query.page + 1]) /\ trail' = t BY <2>1, <1>1, <1>2 DEF GoOlder
    <3>2. p.query.page + 1 \in Nat \ {0} BY <1>4
    <3> QED BY <3>1, <3>2
  <2>2. CASE GoNewer
    <3>1. Visit([p.query EXCEPT !.page = p.query.page - 1]) /\ trail' = None /\ p.query.page > 1
      BY <2>2, <1>1 DEF GoNewer
    <3>2. p.query.page - 1 \in Nat \ {0} BY <3>1, <1>4
    <3> QED BY <3>1, <3>2
  <2> QED BY <2>1, <2>2
<1>6. PICK f : f = p.query OBVIOUS
<1>7. PICK g : g = [p.query EXCEPT !.page = n] OBVIOUS
<1>8. /\ g \in ListQuery /\ g.page = n
      /\ g.town = f.town /\ g.view = f.view /\ g.q = f.q /\ g.body = f.body /\ g.when = f.when
  BY <1>4, <1>6, <1>7 DEF ListQuery, Query
<1>9. PICK s \in AheadOf(g) : Begin([kind |-> "list", query |-> g, ahead |-> s, rows |-> None, total |-> None])
  BY <1>5, <1>7 DEF Visit
<1>10. PICK q : q = [kind |-> "list", query |-> g, ahead |-> s, rows |-> None, total |-> None] OBVIOUS
<1>11. PICK u : u = trail' OBVIOUS
<1>12. s \in Part /\ s \in IF g.page = 1 THEN Lead(g) ELSE {<<>>} BY <1>8, HalfType, BaseType
<1>13. q \in ListPage /\ q.kind = "list" /\ q.query = g /\ q.ahead = s /\ q.rows = None /\ q.total = None
  BY <1>8, <1>10, <1>12 DEF ListPage
<1>14. u = None \/ (u = t /\ t # None /\ n = f.page + 1 /\ f.page \in Nat \ {0} /\ u \in Part)
  BY <1>4, <1>5, <1>6, <1>11
<1>15. ASSUME u # None PROVE TrailOf(q, u)
  <2>1. u = t /\ t # None /\ n = f.page + 1 /\ f.page \in Nat \ {0} /\ TrailOf(p, t) BY <1>4, <1>14, <1>15
  <2>2. Apart(f) => \E a \in Lead(f) : \E b \in Base(f) : t = a \o Upto(b, f.page)
    BY <2>1, <1>3, <1>6 DEF TrailOf
  <2>3. Found(g) = Found(f) /\ Base(g) = Base(f) /\ Lead(g) = Lead(f) /\ (Apart(g) <=> Apart(f))
    BY <1>4, <1>6, <1>8, OtherBase
  <2>4. g.page - 1 = f.page /\ g.page # 1 BY <2>1, <1>8
  <2>5. Apart(g) => \E a \in Lead(g) : \E b \in Base(g) : u = a \o Upto(b, g.page - 1)
    BY <2>1, <2>2, <2>3, <2>4
  <2> QED BY <2>4, <2>5, <1>12, <1>13 DEF TrailOf
<1>16. Holds(q, u) BY <1>13, <1>14, <1>15 DEF Holds, AnyPage
<1>17. PageSays(q) BY <1>13 DEF PageSays
<1>18. Begin(q) /\ trail' = u BY <1>9, <1>10, <1>11
<1> QED BY <1>3, <1>16, <1>17, <1>18, Opens

\* A page that is no list ends the trail and keeps what it says.
LEMMA OpensOther ==
  ASSUME TypeInv, SiteAction, NEW p \in AnyPage, Spend("pages"), Begin(p), trail' = None, PageSays(p)
  PROVE  TypeInv' /\ SiteInv'
<1>1. Holds(p, None) BY DEF Holds
<1> QED BY <1>1, Opens

\* Or goes on, beside no list.
LEMMA GoesOnOther ==
  ASSUME TypeInv, SiteAction, NEW p \in AnyPage, p.kind # "list", Goes(p), UNCHANGED trail, calm => PageSays(p)
  PROVE  TypeInv' /\ SiteInv'
<1>1. PICK t : t = trail OBVIOUS
<1>2. t = None \/ t \in Part BY <1>1 DEF TypeInv, TypeOK, SiteTypeOK
<1>3. Holds(p, t) /\ trail' = t BY <1>1, <1>2 DEF Holds
<1> QED BY <1>3, GoesOn

\* What the pages list is of what is there.
LEMMA ListedType ==
  ASSUME TypeInv, NEW t, NEW q, NEW all
  PROVE  /\ ListedMatters(t, q, all) \subseteq Matter /\ IsFiniteSet(ListedMatters(t, q, all))
         /\ Cardinality(ListedMatters(t, q, all)) \in Nat
<1>1. IsFiniteSet(DOMAIN matters) /\ DOMAIN matters \subseteq Matter BY DEF TypeInv, ArchiveInv, ArchiveTypeOK
<1>2. ListedMatters(t, q, all) \subseteq DOMAIN matters BY DEF ListedMatters
<1>3. IsFiniteSet(ListedMatters(t, q, all)) BY <1>1, <1>2, FS_Subset
<1>4. Cardinality(ListedMatters(t, q, all)) \in Nat BY <1>3, FS_CardinalityType
<1> QED BY <1>1, <1>2, <1>3, <1>4

\* The page of timelines.
LEMMA MattersHold ==
  ASSUME TypeInv, SiteInv, SiteAction, OpenMatters \/ CountMatters
  PROVE  TypeInv' /\ SiteInv'
<1>1. CASE OpenMatters
  <2>1. PICK t \in Towns, q \in {None} \union Words, all \in BOOLEAN :
          \E s \in Sorted(ListedMatters(t, q, all), Livelier) \union Sorted(ListedMatters(t, q, all), Documented) :
            Begin([kind |-> "matters", town |-> t, q |-> q, all |-> all, total |-> None,
                   rows |-> Among(First(s, MattersSize))])
    BY <1>1 DEF OpenMatters
  <2> DEFINE S == ListedMatters(t, q, all)
  <2>2. PICK s \in Sorted(S, Livelier) \union Sorted(S, Documented) :
            Begin([kind |-> "matters", town |-> t, q |-> q, all |-> all, total |-> None,
                   rows |-> Among(First(s, MattersSize))])
    BY <2>1
  <2>3. PICK p : p = [kind |-> "matters", town |-> t, q |-> q, all |-> all, total |-> None,
                      rows |-> Among(First(s, MattersSize))]
    OBVIOUS
  <2>4. S \subseteq Matter /\ IsFiniteSet(S) BY ListedType
  <2> HIDE DEF S
  <2>5. Ranked(s, S, {}) BY <2>2, MattersRank
  <2>6. Among(First(s, MattersSize)) \subseteq S BY <2>4, <2>5, ShownOf, SiteConstants
  <2>7. Among(First(s, MattersSize)) \in SUBSET Matter BY <2>4, <2>6
  <2>8. p \in MattersPage BY <2>3, <2>7 DEF MattersPage
  <2>9. p.rows \in Shown(Sorted(S, Livelier) \union Sorted(S, Documented), MattersSize)
    BY <2>2, <2>3 DEF Shown
  <2>10. PageSays(p) BY <2>3, <2>9 DEF PageSays, S
  <2> QED BY <2>2, <2>3, <2>8, <2>10, <1>1, OpensOther DEF OpenMatters, AnyPage
<1>2. CASE CountMatters
  <2>1. PICK p : p = page OBVIOUS
  <2>2. On("matters") /\ p.total = None /\ Goes([p EXCEPT !.total = Cardinality(ListedMatters(p.town, p.q, p.all))])
        /\ UNCHANGED trail
    BY <1>2, <2>1 DEF CountMatters
  <2>3. p \in MattersPage /\ p.kind = "matters" /\ p # None
    BY <2>1, <2>2, PageKinds DEF TypeInv, TypeOK, MattersPage, On
  <2>4. PICK n : n = Cardinality(ListedMatters(p.town, p.q, p.all)) OBVIOUS
  <2>5. PICK q : q = [p EXCEPT !.total = n] OBVIOUS
  <2>6. n \in Nat BY <2>4, ListedType
  <2>7. q \in MattersPage /\ q.kind = "matters" /\ q.town = p.town /\ q.q = p.q /\ q.all = p.all
        /\ q.rows = p.rows /\ q.total = n
    BY <2>3, <2>5, <2>6 DEF MattersPage
  <2>8. calm => PageSays(p) BY <2>1, <2>3 DEF SiteInv, Paged
  <2>9. calm => PageSays(q) BY <2>3, <2>4, <2>7, <2>8 DEF PageSays
  <2>10. Goes(q) BY <2>2, <2>4, <2>5
  <2> QED BY <2>2, <2>7, <2>9, <2>10, GoesOnOther DEF AnyPage
<1> QED BY <1>1, <1>2

\* The page of a matter.
LEMMA MatterHolds ==
  ASSUME TypeInv, SiteInv, SiteAction, OpenMatter \/ FinishMatter
  PROVE  TypeInv' /\ SiteInv'
<1>1. CASE OpenMatter
  <2>1. PICK m \in DOMAIN matters : Begin([kind |-> "matter", matter |-> m, row |-> matters[m], rows |-> None])
    BY <1>1 DEF OpenMatter
  <2>2. PICK w : w = matters[m] OBVIOUS
  <2>3. PICK p : p = [kind |-> "matter", matter |-> m, row |-> w, rows |-> None] OBVIOUS
  <2>4. m \in Matter /\ w \in MatterRow BY <2>2 DEF TypeInv, ArchiveInv, ArchiveTypeOK
  <2>5. p \in MatterPage BY <2>3, <2>4 DEF MatterPage
  <2>6. PageSays(p) BY <2>2, <2>3 DEF PageSays
  <2> QED BY <2>1, <2>2, <2>3, <2>5, <2>6, <1>1, OpensOther DEF OpenMatter, AnyPage
<1>2. CASE FinishMatter
  <2>1. PICK p : p = page OBVIOUS
  <2>2. On("matter") /\ p.rows = None /\ Goes([p EXCEPT !.rows = Timeline(p.matter)]) /\ UNCHANGED trail
    BY <1>2, <2>1 DEF FinishMatter
  <2>3. p \in MatterPage /\ p.kind = "matter" /\ p # None
    BY <2>1, <2>2, PageKinds DEF TypeInv, TypeOK, MatterPage, On
  <2>4. PICK n : n = Timeline(p.matter) OBVIOUS
  <2>5. PICK q : q = [p EXCEPT !.rows = n] OBVIOUS
  <2>6. n \in SUBSET Link BY <2>4 DEF Timeline, TypeInv, ArchiveInv, ArchiveTypeOK
  <2>7. q \in MatterPage /\ q.kind = "matter" /\ q.matter = p.matter /\ q.row = p.row /\ q.rows = n
    BY <2>3, <2>5, <2>6 DEF MatterPage
  <2>8. calm => PageSays(p) BY <2>1, <2>3 DEF SiteInv, Paged
  <2>9. calm => PageSays(q) BY <2>3, <2>4, <2>7, <2>8 DEF PageSays
  <2>10. Goes(q) BY <2>2, <2>4, <2>5
  <2> QED BY <2>2, <2>7, <2>9, <2>10, GoesOnOther DEF AnyPage
<1> QED BY <1>1, <1>2

\* The page of a record.
LEMMA RecordHolds ==
  ASSUME TypeInv, SiteInv, SiteAction, OpenRecord \/ FinishRecord
  PROVE  TypeInv' /\ SiteInv'
<1>1. CASE OpenRecord
  <2>1. PICK r \in Present : Begin([kind |-> "record", record |-> r, chips |-> None])
    BY <1>1 DEF OpenRecord
  <2>2. PICK p : p = [kind |-> "record", record |-> r, chips |-> None] OBVIOUS
  <2>3. p \in RecordPage BY <2>2 DEF RecordPage, Present
  <2>4. PageSays(p) BY <2>2 DEF PageSays
  <2> QED BY <2>1, <2>2, <2>3, <2>4, <1>1, OpensOther DEF OpenRecord, AnyPage
<1>2. CASE FinishRecord
  <2>1. PICK p : p = page OBVIOUS
  <2>2. On("record") /\ p.chips = None /\ Goes([p EXCEPT !.chips = MattersForEvent(p.record)]) /\ UNCHANGED trail
    BY <1>2, <2>1 DEF FinishRecord
  <2>3. p \in RecordPage /\ p.kind = "record" BY <2>1, <2>2, PageKinds DEF TypeInv, TypeOK, RecordPage
  <2>4. PICK n : n = MattersForEvent(p.record) OBVIOUS
  <2>5. PICK q : q = [p EXCEPT !.chips = n] OBVIOUS
  <2>6. n \in SUBSET Link BY <2>4 DEF MattersForEvent, TypeInv, ArchiveInv, ArchiveTypeOK
  <2>7. q \in RecordPage /\ q.kind = "record" /\ q.record = p.record /\ q.chips = n
    BY <2>3, <2>5, <2>6 DEF RecordPage
  <2>8. PageSays(q) BY <2>4, <2>7 DEF PageSays
  <2>9. Goes(q) BY <2>2, <2>4, <2>5
  <2> QED BY <2>2, <2>7, <2>8, <2>9, GoesOnOther DEF AnyPage
<1> QED BY <1>1, <1>2

\* For me.
LEMMA ForMeHolds ==
  ASSUME TypeInv, SiteInv, SiteAction, OpenForMe \/ FinishForMe
  PROVE  TypeInv' /\ SiteInv'
<1>1. CASE OpenForMe
  <2>1. PICK S \in {follows} \union {{s} : s \in {x \in Interests : Choice(x)}} :
          Begin([kind |-> "for-me", of |-> S, rows |-> None, reasons |-> [r \in Records |-> {}]])
    BY <1>1 DEF OpenForMe
  <2>2. S \in SUBSET Interests BY DEF TypeInv, TypeOK, SiteTypeOK
  <2>3. PICK e : e = [r \in Records |-> {}] OBVIOUS
  <2>4. e \in [Records -> SUBSET Interests] BY <2>3
  <2>5. PICK p : p = [kind |-> "for-me", of |-> S, rows |-> None, reasons |-> e] OBVIOUS
  <2>6. p \in ForMe BY <2>2, <2>4, <2>5 DEF ForMe
  <2>7. PageSays(p) BY <2>5 DEF PageSays
  <2> QED BY <2>1, <2>3, <2>5, <2>6, <2>7, <1>1, OpensOther DEF OpenForMe, AnyPage
<1>2. CASE FinishForMe
  <2>1. PICK p : p = page OBVIOUS
  <2>2. On("for-me") /\ p.rows = None /\ UNCHANGED trail BY <1>2, <2>1 DEF FinishForMe
  <2>3. p \in ForMe /\ p.kind = "for-me" BY <2>1, <2>2, PageKinds DEF TypeInv, TypeOK, ForMe
  <2>4. PICK s \in Sorted(Fed(p.of, Records), Newer) :
          LET front == Among(First(s, FeedSize)) IN
          Goes([p EXCEPT !.rows = front, !.reasons = [r \in Records |-> {i \in p.of : r \in Fed({i}, front)}]])
    BY <1>2, <2>1 DEF FinishForMe
  <2>5. PICK n : n = Among(First(s, FeedSize)) OBVIOUS
  <2>6. PICK e : e = [r \in Records |-> {i \in p.of : r \in Fed({i}, n)}] OBVIOUS
  <2>7. PICK q : q = [p EXCEPT !.rows = n, !.reasons = e] OBVIOUS
  <2>8. n \subseteq Records
    <3>1. Fed(p.of, Records) \subseteq Records BY DEF Fed
    <3>2. IsFiniteSet(Fed(p.of, Records)) BY <3>1, ArchiveConstants, FS_Subset
    <3>3. Ranked(s, Fed(p.of, Records), {}) BY NewerRanks
    <3>4. n \subseteq Fed(p.of, Records) BY <2>5, <3>2, <3>3, ShownOf, SiteConstants
    <3> QED BY <3>1, <3>4
  <2>9. e \in [Records -> SUBSET Interests]
    <3>1. p.of \in SUBSET Interests BY <2>3 DEF ForMe
    <3> QED BY <2>6, <3>1
  <2>10. q \in ForMe /\ q.kind = "for-me" /\ q.of = p.of /\ q.rows = n
    BY <2>3, <2>7, <2>8, <2>9 DEF ForMe
  <2>11. q.rows \in Shown(Sorted(Fed(q.of, Records), Newer), FeedSize) BY <2>5, <2>10 DEF Shown
  <2>12. PageSays(q) BY <2>10, <2>11 DEF PageSays
  <2>13. Goes(q) BY <2>4, <2>5, <2>6, <2>7
  <2> QED BY <2>2, <2>10, <2>12, <2>13, GoesOnOther DEF AnyPage
<1> QED BY <1>1, <1>2

\* The feeds.
LEMMA FeedHolds ==
  ASSUME TypeInv, SiteInv, SiteAction, FetchFeed \/ FinishFeed
  PROVE  TypeInv' /\ SiteInv'
<1>1. CASE FetchFeed
  <2>1. PICK t \in Towns, m \in {s.matter : s \in Interests} :
          Begin([kind |-> "feed", town |-> t, rows |-> None, matter |-> IF m \in DOMAIN matters THEN m ELSE None])
    BY <1>1 DEF FetchFeed
  <2>2. PICK k : k = IF m \in DOMAIN matters THEN m ELSE None OBVIOUS
  <2>3. k \in {None} \union Matter BY <2>2 DEF TypeInv, ArchiveInv, ArchiveTypeOK
  <2>4. PICK p : p = [kind |-> "feed", town |-> t, rows |-> None, matter |-> k] OBVIOUS
  <2>5. p \in Feed BY <2>3, <2>4 DEF Feed
  <2>6. PageSays(p) BY <2>4 DEF PageSays
  <2> QED BY <2>1, <2>2, <2>4, <2>5, <2>6, <1>1, OpensOther DEF FetchFeed, AnyPage
<1>2. CASE FinishFeed
  <2>1. PICK p : p = page OBVIOUS
  <2>2. On("feed") /\ p.rows = None /\ UNCHANGED trail BY <1>2, <2>1 DEF FinishFeed
  <2>3. p \in Feed /\ p.kind = "feed" BY <2>1, <2>2, PageKinds DEF TypeInv, TypeOK, Feed
  <2> DEFINE S == Scope(p.town, p.matter)
  <2>4. PICK s \in Sorted(S, Newer) : Goes([p EXCEPT !.rows = Among(First(s, FeedSize))])
    BY <1>2, <2>1 DEF FinishFeed
  <2>5. PICK n : n = Among(First(s, FeedSize)) OBVIOUS
  <2>6. PICK q : q = [p EXCEPT !.rows = n] OBVIOUS
  <2>7. n \subseteq Records
    <3>1. S \subseteq Records BY DEF Scope, Present
    <3> HIDE DEF S
    <3>2. IsFiniteSet(S) BY <3>1, ArchiveConstants, FS_Subset
    <3>3. Ranked(s, S, {}) BY NewerRanks
    <3>4. n \subseteq S BY <2>5, <3>2, <3>3, ShownOf, SiteConstants
    <3> QED BY <3>1, <3>4
  <2>8. q \in Feed /\ q.kind = "feed" /\ q.town = p.town /\ q.matter = p.matter /\ q.rows = n
    BY <2>3, <2>6, <2>7 DEF Feed
  <2>9. q.rows \in Shown(Sorted(S, Newer), FeedSize) BY <2>5, <2>8 DEF Shown
  <2>10. PageSays(q) BY <2>8, <2>9 DEF PageSays
  <2>11. Goes(q) BY <2>4, <2>5, <2>6
  <2> QED BY <2>2, <2>8, <2>10, <2>11, GoesOnOther DEF AnyPage
<1> QED BY <1>1, <1>2

\* A follow more or less touches no page.
LEMMA EditHolds ==
  ASSUME TypeInv, SiteInv, SiteAction, EditFollows
  PROVE  TypeInv' /\ SiteInv'
<1>1. Spend("pages") /\ UNCHANGED <<archiveVars, page, trail, calm>> BY DEF EditFollows
<1>2. left \in Quota /\ follows \in SUBSET Interests /\ calm \in BOOLEAN /\ (trail = None \/ trail \in Part)
  BY DEF TypeInv, TypeOK, SiteTypeOK
<1>3. left' \in Quota /\ (left.screen = 0 => left'.screen = 0) BY <1>1, <1>2, SpendType
<1>4. follows' \in SUBSET Interests BY <1>2 DEF EditFollows
<1>5. TypeInv' BY <1>1, <1>2, <1>3, <1>4, SiteKeeps
<1>6. SiteInv' BY <1>1, StillSite
<1> QED BY <1>5, <1>6

\* Every step of the website.
LEMMA SiteHolds ==
  ASSUME TypeInv, SiteInv, SiteAction
  PROVE  TypeInv' /\ SiteInv'
BY OpenListHolds, ReadRowsHolds, ReadTotalHolds, GoHolds, MattersHold, MatterHolds, RecordHolds, EditHolds,
   ForMeHolds, FeedHolds DEF SiteAction, SiteNext

-----------------------------------------------------------------------------
(* The whole. *)

\* What holds of everything that is read: at the phone's screen, and on the
\* pages of the website.
ReadersInv == TypeInv /\ ScreenInv /\ SiteInv

\* It holds at first,
LEMMA ReadersInit == Init => ReadersInv
BY TypesInit, ScreenInit, SiteInit0 DEF ReadersInv

\* and every step keeps it.
LEMMA ReadersStep == ReadersInv /\ [Next]_vars => ReadersInv'
<1> SUFFICES ASSUME ReadersInv, [Next]_vars PROVE ReadersInv' OBVIOUS
<1>1. TypeInv /\ ScreenInv /\ SiteInv BY DEF ReadersInv
<1>2. Disturb \/ ScreenAction \/ SiteAction \/ UNCHANGED vars BY DEF Next, ScreenAction, SiteAction
<1>3. ScreenInv' BY <1>1, <1>2, ScreenHolds
<1>4. CASE Disturb BY <1>1, <1>3, <1>4, DisturbTypes, DisturbedSite DEF ReadersInv
<1>5. CASE SiteAction BY <1>1, <1>3, <1>5, SiteHolds DEF ReadersInv
<1>6. CASE UNCHANGED vars
  <2>1. UNCHANGED archiveVars BY <1>6 DEF vars
  <2>2. ArchiveInv' BY <2>1, <1>1, ArchiveStill DEF TypeInv
  <2>3. TypeOK' /\ Closed'
    BY <2>2, <1>1, <1>6 DEF vars, screen, site, TypeInv, TypeOK, ArchiveInv, SiteTypeOK, ReadingTypeOK, Closed
  <2>4. TypeInv' BY <2>2, <2>3 DEF TypeInv
  <2>5. SiteInv' BY <1>1, <1>6, ScreenApart
  <2> QED BY <1>3, <2>4, <2>5 DEF ReadersInv
<1>7. CASE ScreenAction
  <2>1. SiteInv' BY <1>1, <1>7, ScreenApart
  <2>2. TypeInv'
    <3>1. CASE Search \/ SetView \/ SetBody \/ SetWhen \/ SetTown \/ NextPage \/ Previous \/ Retry
      BY <1>1, <3>1, ControlTypes
    <3>2. ASSUME NEW x \in flying, List(x) PROVE TypeInv' BY <1>1, <3>2, ListTypes
    <3>3. ASSUME NEW x \in flying, Count(x) PROVE TypeInv' BY <1>1, <3>3, CountTypes
    <3>4. ASSUME NEW x \in flying, Receive(x) \/ Fail(x) PROVE TypeInv' BY <1>1, <3>4, SettleTypes
    <3> QED BY <1>7, <3>1, <3>2, <3>3, <3>4 DEF ScreenAction
  <2> QED BY <1>3, <2>1, <2>2 DEF ReadersInv
<1> QED BY <1>2, <1>4, <1>5, <1>6, <1>7

\* What is listed going on to older records.
LEMMA TrailShows ==
  ASSUME ReadersInv, Made, trail # None, Separate(Found(page.query))
  PROVE  /\ \A i, j \in 1..Len(trail) : i < j => trail[i] # trail[j]
         /\ Among(trail) \subseteq Found(page.query)
         /\ ~Older =>
              \A r \in Found(page.query) \ Among(trail) :
                /\ page.query.view = "activity" /\ Row(r).at > now
                /\ Cardinality({q \in Among(trail) : Sooner(q, r)}) >= UpcomingSize
<1>0. TypeInv /\ SiteInv BY DEF ReadersInv
<1>1. PICK p : p = page OBVIOUS
<1>2. PICK t : t = trail OBVIOUS
<1>3. /\ p \in ListPage /\ p.query \in ListQuery /\ p.query.page \in Nat \ {0} /\ p.total # None
      /\ TrailOf(p, t) /\ t \in Part
  BY <1>0, <1>1, <1>2, ListIs DEF Made
<1>4. PICK f : f = p.query OBVIOUS
<1>5. f \in ListQuery /\ f.page \in Nat \ {0} /\ f.view # "timelines" /\ f.when \in {"all", "past", "upcoming"}
  BY <1>3, <1>4 DEF ListQuery, Query
<1>6. Apart(f) BY <1>1, <1>4 DEF Apart
<1>7. PICK a \in Lead(f), s \in Base(f) : t = a \o Upto(s, f.page) BY <1>3, <1>4, <1>6 DEF TrailOf
<1>8. PICK z \in Base(f) : p.rows = Slice(z, f.page) BY <1>3, <1>4 DEF TrailOf
<1>9. a \in Seq(Records) /\ s \in Seq(Records) BY <1>0, <1>5, BaseType DEF Part
<1>10. p.rows = Slice(s, f.page) BY <1>0, <1>5, <1>6, <1>8, BaseType
<1> DEFINE b == Upto(s, f.page)
<1>11. b \in Seq(Records) /\ Len(b) <= Len(s) /\ \A i \in 1..Len(b) : b[i] = s[i] BY <1>5, <1>9, PagesEnd
<1>12. f.page * PageSize >= Len(s) => b = s BY <1>5, <1>9, PagesEnd
<1>13. f.page * PageSize \in Nat /\ Len(s) \in Nat
  <2>1. f.page * PageSize \in Nat BY <1>5, Pages
  <2>2. Len(s) \in Nat BY <1>9
  <2> QED BY <2>1, <2>2
<1>14. f.page * PageSize > Len(s) <=> Len(p.rows) < PageSize
  <2>1. (f.page * PageSize <= Len(s) => Len(p.rows) = PageSize) /\ (f.page * PageSize > Len(s) => Len(p.rows) < PageSize)
    BY <1>5, <1>9, <1>10, SliceIs
  <2>2. PageSize \in Nat BY SiteConstants
  <2> QED BY <2>1, <2>2, <1>13
\* a set a and a set b, apart, each listed once, of the records found
<1>15. ASSUME NEW A, NEW B, A \subseteq Found(f), B \subseteq Found(f), A \intersect B = {},
              a \in Seq(A), s \in Seq(B),
              \A i, j \in 1..Len(a) : a[i] = a[j] => i = j,
              \A i, j \in 1..Len(s) : s[i] = s[j] => i = j
       PROVE  /\ \A i, j \in 1..Len(t) : i < j => t[i] # t[j]
              /\ Among(t) \subseteq Found(f)
              /\ b = s => Among(a) \union Among(s) \subseteq Among(t)
  <2> HIDE DEF b
  <2>1. b \in Seq(B)
    <3>1. \A i \in 1..Len(b) : b[i] \in B BY <1>11, <1>15
    <3>2. Len(b) \in Nat /\ b = [i \in 1..Len(b) |-> b[i]] BY <1>11
    <3> QED BY <3>1, <3>2
  <2>2. \A i, j \in 1..Len(b) : b[i] = b[j] => i = j
    <3>1. Len(b) \in Nat /\ Len(s) \in Nat /\ Len(b) <= Len(s) BY <1>9, <1>11
    <3>2. \A i \in 1..Len(b) : i \in 1..Len(s) BY <3>1
    <3> QED BY <3>2, <1>11, <1>15
  <2>3. t = a \o b BY <1>7 DEF b
  <2>4. Len(a) \in Nat /\ Len(b) \in Nat BY <1>9, <1>11
  <2>5. /\ Len(t) = Len(a) + Len(b)
        /\ \A i \in 1..Len(t) : t[i] = IF i <= Len(a) THEN a[i] ELSE b[i - Len(a)]
    BY <2>3, <2>4, <1>9, <1>11, ConcatProperties
  <2>6. \A i \in 1..Len(t) : \/ i \in 1..Len(a) /\ t[i] = a[i] /\ t[i] \in A
                             \/ i - Len(a) \in 1..Len(b) /\ i > Len(a) /\ t[i] = b[i - Len(a)] /\ t[i] \in B
    <3> TAKE i \in 1..Len(t)
    <3>1. CASE i <= Len(a)
      <4>1. i \in 1..Len(a) /\ t[i] = a[i] BY <3>1, <2>4, <2>5
      <4>2. a[i] \in A BY <4>1, <1>15
      <4> QED BY <4>1, <4>2
    <3>2. CASE i > Len(a)
      <4>1. i - Len(a) \in 1..Len(b) /\ t[i] = b[i - Len(a)] BY <3>2, <2>4, <2>5
      <4>2. b[i - Len(a)] \in B BY <4>1, <2>1
      <4> QED BY <4>1, <4>2, <3>2
    <3> QED BY <3>1, <3>2, <2>4
  <2>7. ASSUME NEW i \in 1..Len(t), NEW j \in 1..Len(t), i < j PROVE t[i] # t[j]
    <3>1. CASE i \in 1..Len(a) /\ j \in 1..Len(a) /\ t[i] = a[i] /\ t[j] = a[j] BY <3>1, <2>7, <1>15
    <3>2. CASE /\ i - Len(a) \in 1..Len(b) /\ t[i] = b[i - Len(a)]
               /\ j - Len(a) \in 1..Len(b) /\ t[j] = b[j - Len(a)]
      <4>1. i - Len(a) # j - Len(a) BY <2>4, <2>7
      <4> QED BY <3>2, <4>1, <2>2
    <3>3. CASE t[i] \in A /\ t[j] \in B BY <3>3, <1>15
    <3>4. CASE t[i] \in B /\ t[j] \in A BY <3>4, <1>15
    <3> QED BY <2>6, <3>1, <3>2, <3>3, <3>4
  <2>8. Among(t) \subseteq Found(f) BY <2>6, <1>15 DEF Among
  <2>9. ASSUME b = s PROVE Among(a) \union Among(s) \subseteq Among(t)
    <3>1. ASSUME NEW i \in 1..Len(a) PROVE a[i] \in Among(t)
      <4>1. i \in 1..Len(t) /\ i <= Len(a) BY <2>4, <2>5
      <4>2. t[i] = a[i] BY <4>1, <2>5
      <4> QED BY <4>1, <4>2 DEF Among
    <3>2. ASSUME NEW i \in 1..Len(s) PROVE s[i] \in Among(t)
      <4> DEFINE k == i + Len(a)
      <4>1. k \in 1..Len(t) /\ ~(k <= Len(a)) /\ k - Len(a) = i BY <2>4, <2>5, <2>9
      <4> HIDE DEF k
      <4>2. t[k] = s[i] BY <4>1, <2>5, <2>9
      <4> QED BY <4>1, <4>2 DEF Among
    <3> QED BY <3>1, <3>2 DEF Among
  <2> QED BY <2>7, <2>8, <2>9
<1> HIDE DEF b
<1>16. ASSUME NEW g, s \in Orders(g), Found(g) \subseteq Records
       PROVE  /\ s \in Seq(Found(g)) /\ \A i, j \in 1..Len(s) : s[i] = s[j] => i = j
              /\ \A r \in Found(g) : r \in Among(s)
              /\ Len(s) = Cardinality(Found(g))
  <2>1. \A r \in Found(g) : \E i \in 1..Len(s) : s[i] = r BY <1>0, <1>16, OrderIs DEF TypeInv, ArchiveInv
  <2>2. s \in Seq(Found(g)) /\ Len(s) = Cardinality(Found(g)) BY <1>0, <1>16, OrderIs DEF TypeInv, ArchiveInv
  <2>3. \A i, j \in 1..Len(s) : s[i] = s[j] => i = j BY <1>0, <1>16, OrderIs DEF TypeInv, ArchiveInv
  <2>4. \A r \in Found(g) : r \in Among(s) BY <2>1 DEF Among
  <2> QED BY <2>2, <2>3, <2>4
<1>17. Found(f) \subseteq Records /\ \A r \in Found(f) : Row(r) \in Content
  BY <1>0, <1>5, FoundType DEF TypeInv, ArchiveInv
\* the meetings: everything is cut from one order
<1>18. CASE f.view # "activity"
  <2>1. s \in Orders(f) /\ a = <<>> BY <1>18 DEF Base, Lead
  <2>2. s \in Seq(Found(f)) /\ (\A i, j \in 1..Len(s) : s[i] = s[j] => i = j)
        /\ (\A r \in Found(f) : r \in Among(s)) /\ Len(s) = Cardinality(Found(f))
    BY <2>1, <1>16, <1>17
  <2>3. /\ \A i, j \in 1..Len(t) : i < j => t[i] # t[j]
        /\ Among(t) \subseteq Found(f)
        /\ b = s => Among(a) \union Among(s) \subseteq Among(t)
    <3>1. a \in Seq({}) /\ \A i, j \in 1..Len(a) : a[i] = a[j] => i = j BY <2>1
    <3>2. {} \subseteq Found(f) /\ {} \intersect Found(f) = {} OBVIOUS
    <3> QED BY <3>1, <3>2, <2>2, <1>15
  <2>4. ASSUME ~Older PROVE Found(f) \subseteq Among(t)
    <3>1. ~(f.page * PageSize < p.total) BY <2>4, <1>18, <1>1, <1>4 DEF Older
    <3>2. p.total = Cardinality(Found(f)) BY <1>3, <1>4 DEF TrailOf
    <3>3. b = s BY <3>1, <3>2, <2>2, <1>12, <1>13
    <3> QED BY <3>3, <2>2, <2>3
  <2> QED BY <2>3, <2>4, <1>1, <1>2, <1>4
\* the general feed: what is to come first, what is past in pages
<1>19. CASE f.view = "activity"
  <2>1. /\ f.when # "upcoming" => /\ s \in Orders(Half(f, "past"))
                                  /\ Found(Half(f, "past")) \subseteq Found(f)
                                  /\ \A r \in Found(Half(f, "past")) : Row(r).at <= now
                                  /\ \A r \in Found(f) : Row(r).at <= now => r \in Found(Half(f, "past"))
        /\ f.when = "upcoming" => s = <<>> /\ \A r \in Found(f) : Row(r).at > now
        /\ f.when # "past" =>
             /\ \E u \in Orders(Half(f, "upcoming")) : a = First(u, UpcomingSize)
             /\ Found(Half(f, "upcoming")) \subseteq Found(f) /\ Distinct(Half(f, "upcoming"))
             /\ \A r \in Found(Half(f, "upcoming")) : Row(r).at > now
             /\ \A r \in Found(f) : Row(r).at > now => r \in Found(Half(f, "upcoming"))
        /\ f.when = "past" => a = <<>> /\ \A r \in Found(f) : Row(r).at <= now
    <3>1. f.when # "upcoming" => f.when \in {"past", "all"} BY <1>5
    <3>2. f.when # "past" => f.when \in {"upcoming", "all"} BY <1>5
    <3>3. f.when # "upcoming" =>
            /\ Found(Half(f, "past")) \subseteq Found(f)
            /\ \A r \in Found(Half(f, "past")) : Row(r).at <= now
            /\ \A r \in Found(f) : Row(r).at <= now => r \in Found(Half(f, "past"))
      BY <3>1, <1>0, <1>5, <1>19, ApartIs
    <3>4. f.when # "past" =>
            /\ Found(Half(f, "upcoming")) \subseteq Found(f)
            /\ \A r \in Found(Half(f, "upcoming")) : Row(r).at > now
            /\ \A r \in Found(f) : Row(r).at > now => r \in Found(Half(f, "upcoming"))
      BY <3>2, <1>0, <1>5, <1>19, ApartIs
    <3>5. f.when # "past" => Distinct(Half(f, "upcoming")) BY <3>2, <1>0, <1>5, <1>6, <1>19, ApartIs
    <3>6. (f.when # "upcoming" => s \in Orders(Half(f, "past"))) /\ (f.when = "upcoming" => s = <<>>)
      BY <1>19 DEF Base
    <3>7. (f.when # "past" => \E u \in Orders(Half(f, "upcoming")) : a = First(u, UpcomingSize))
          /\ (f.when = "past" => a = <<>>)
      BY <1>19 DEF Lead
    <3>8. Found(f) = {r \in Records : Selects(f, r)} BY <1>19 DEF Found
    <3>9. f.when = "upcoming" => \A r \in Found(f) : Row(r).at > now BY <3>8 DEF Selects
    <3>10. f.when = "past" => \A r \in Found(f) : Row(r).at <= now BY <3>8 DEF Selects
    <3> QED BY <3>3, <3>4, <3>5, <3>6, <3>7, <3>9, <3>10
  <2> DEFINE A == {r \in Found(f) : Row(r).at > now}
  <2> DEFINE B == {r \in Found(f) : Row(r).at <= now}
  <2>2. now \in Nat /\ \A r \in Found(f) : Row(r).at \in Nat
    BY <1>0, <1>17, ArchiveConstants DEF TypeInv, ArchiveInv, ArchiveTypeOK, Content
  <2>3. A \subseteq Found(f) /\ B \subseteq Found(f) /\ A \intersect B = {} BY <2>2
  <2>4. s \in Seq(B) /\ (\A i, j \in 1..Len(s) : s[i] = s[j] => i = j) /\ B \subseteq Among(s)
    <3>1. CASE f.when = "upcoming"
      <4>1. s = <<>> /\ B = {} BY <3>1, <2>1, <2>2
      <4> QED BY <4>1
    <3>2. CASE f.when # "upcoming"
      <4>1. Found(Half(f, "past")) = B BY <3>2, <2>1
      <4>2. s \in Orders(Half(f, "past")) /\ Found(Half(f, "past")) \subseteq Records BY <3>2, <2>1, <1>17
      <4>3. s \in Seq(Found(Half(f, "past"))) /\ (\A i, j \in 1..Len(s) : s[i] = s[j] => i = j)
            /\ \A r \in Found(Half(f, "past")) : r \in Among(s)
        BY <4>2, <1>16
      <4> HIDE DEF B
      <4> QED BY <4>1, <4>3
    <3> QED BY <3>1, <3>2
  <2>5. /\ a \in Seq(A) /\ (\A i, j \in 1..Len(a) : a[i] = a[j] => i = j)
        /\ \A r \in A \ Among(a) :
             /\ IsFiniteSet(Among(a)) /\ Cardinality(Among(a)) = UpcomingSize
             /\ \A q \in Among(a) : Sooner(q, r)
    <3>1. CASE f.when = "past"
      <4>1. a = <<>> /\ A = {} BY <3>1, <2>1, <2>2
      <4> QED BY <4>1
    <3>2. CASE f.when # "past"
      <4>1. PICK u \in Orders(Half(f, "upcoming")) : a = First(u, UpcomingSize) BY <3>2, <2>1
      <4>2. Found(Half(f, "upcoming")) = A /\ Distinct(Half(f, "upcoming")) BY <3>2, <2>1
      <4>3. PICK g : g = Half(f, "upcoming") OBVIOUS
      <4>4. g.view = "activity" /\ g.when = "upcoming" BY <4>3, <1>0, <1>5, <1>19, HalfType
      <4>5. Found(g) = A /\ Distinct(g) /\ u \in Orders(g) BY <4>1, <4>2, <4>3
      <4> HIDE DEF A
      <4>6. /\ u \in Seq(A) /\ Len(u) = Cardinality(A)
            /\ \A i, j \in 1..Len(u) : u[i] = u[j] => i = j
            /\ \A r \in A : \E i \in 1..Len(u) : u[i] = r
            /\ \A i, j \in 1..Len(u) : i < j => ~Before(g, u[j], u[i])
        BY <4>5, <1>0, OrderIs DEF TypeInv, ArchiveInv
      <4>7. PICK n : n = Least(UpcomingSize, Len(u)) OBVIOUS
      <4>8. UpcomingSize \in Nat BY SiteConstants
      <4>9. /\ a \in Seq(A) /\ Len(a) = n /\ n \in 0..Len(u) /\ \A i \in 1..n : a[i] = u[i]
            /\ Among(a) = Front(u, n)
        BY <4>1, <4>6, <4>7, <4>8, FirstIs
      <4>10. Len(u) \in Nat BY <4>6
      <4>11. \A i, j \in 1..Len(a) : a[i] = a[j] => i = j
        <5>1. \A i \in 1..n : i \in 1..Len(u) BY <4>9, <4>10
        <5> QED BY <5>1, <4>6, <4>9
      <4>12. ASSUME NEW r \in A \ Among(a)
             PROVE  /\ IsFiniteSet(Among(a)) /\ Cardinality(Among(a)) = UpcomingSize
                    /\ \A q \in Among(a) : Sooner(q, r)
        <5>1. PICK k \in 1..Len(u) : u[k] = r BY <4>6
        <5>2. k > n
          <6>1. ASSUME k \in 1..n PROVE FALSE
            <7>1. r \in Front(u, n) BY <5>1, <6>1 DEF Front
            <7> QED BY <7>1, <4>9, <4>12
          <6> QED BY <6>1, <4>9, <4>10
        <5>3. n = UpcomingSize BY <5>2, <4>7, <4>8, <4>10 DEF Least
        <5>4. IsFiniteSet(Among(a)) /\ Cardinality(Among(a)) = n BY <4>6, <4>9, FrontCounts
        <5>5. ASSUME NEW q \in Among(a) PROVE Sooner(q, r)
          <6>1. PICK i \in 1..n : q = u[i] BY <4>9, <5>5 DEF Front
          <6>2. i \in 1..Len(u) /\ i < k BY <6>1, <5>2, <4>9, <4>10
          <6>3. ~Before(g, r, q) /\ q # r BY <5>1, <6>1, <6>2, <4>6
          <6>4. q \in A /\ r \in A BY <4>6, <6>1, <6>2
          <6>5. Before(g, q, r) BY <6>3, <6>4, <4>5 DEF Distinct
          <6> QED BY <6>5, <4>4 DEF Before
        <5> QED BY <5>3, <5>4, <5>5
      <4> QED BY <4>9, <4>11, <4>12
    <3> QED BY <3>1, <3>2
  <2> HIDE DEF A, B
  <2>6. /\ \A i, j \in 1..Len(t) : i < j => t[i] # t[j]
        /\ Among(t) \subseteq Found(f)
        /\ b = s => Among(a) \union Among(s) \subseteq Among(t)
    BY <2>3, <2>4, <2>5, <1>15
  <2>7. ASSUME ~Older, NEW r \in Found(f) \ Among(t)
        PROVE  Row(r).at > now /\ Cardinality({q \in Among(t) : Sooner(q, r)}) >= UpcomingSize
    <3>1. ~(Len(p.rows) >= PageSize) BY <2>7, <1>19, <1>1, <1>4 DEF Older
    <3>2. p.rows \in Seq(Records) BY <1>5, <1>9, <1>10, SliceIs
    <3>3. Len(p.rows) \in Nat /\ PageSize \in Nat BY <3>2, SiteConstants
    <3>4. Len(p.rows) < PageSize BY <3>1, <3>3
    <3>5. b = s BY <3>4, <1>12, <1>13, <1>14
    <3>6. r \notin Among(a) /\ r \notin Among(s) BY <3>5, <2>6, <2>7
    <3>7. r \notin B BY <3>6, <2>4
    <3>8. Row(r).at > now BY <3>7, <2>2, <2>7 DEF B
    <3>9. r \in A BY <3>8, <2>7 DEF A
    <3>10. /\ IsFiniteSet(Among(a)) /\ Cardinality(Among(a)) = UpcomingSize
           /\ \A q \in Among(a) : Sooner(q, r)
      BY <2>5, <3>6, <3>9
    <3> DEFINE Q == {q \in Among(t) : Sooner(q, r)}
    <3>11. Among(a) \subseteq Q BY <3>5, <3>10, <2>6
    <3>12. Q \subseteq Records BY <2>6, <1>17
    <3> HIDE DEF Q
    <3>13. IsFiniteSet(Q) BY <3>12, ArchiveConstants, FS_Subset
    <3>14. Cardinality(Among(a)) <= Cardinality(Q) BY <3>11, <3>13, FS_Subset
    <3>15. Cardinality(Q) \in Nat /\ UpcomingSize \in Nat BY <3>13, FS_CardinalityType, SiteConstants
    <3>16. Cardinality(Q) >= UpcomingSize BY <3>10, <3>14, <3>15
    <3> QED BY <3>8, <3>16 DEF Q
  <2> QED BY <2>6, <2>7, <1>1, <1>2, <1>4, <1>19
<1> QED BY <1>18, <1>19

\* The pages of the lists, and that of timelines.
LEMMA BrowseShows == ReadersInv => BrowseIsComplete
<1> SUFFICES ASSUME ReadersInv PROVE BrowseIsComplete OBVIOUS
<1>1. TypeInv /\ SiteInv BY DEF ReadersInv
<1>2. ASSUME On("matters"), page.total # None, calm
      PROVE  Cardinality(page.rows) = Least(page.total, MattersSize)
  <2>1. PICK p : p = page OBVIOUS
  <2>2. p.kind = "matters" /\ p # None /\ p.total # None BY <2>1, <1>2 DEF On
  <2> DEFINE S == ListedMatters(p.town, p.q, p.all)
  <2>3. /\ p.rows \in Shown(Sorted(S, Livelier) \union Sorted(S, Documented), MattersSize)
        /\ p.total = Cardinality(S)
    BY <1>1, <1>2, <2>1, <2>2 DEF SiteInv, Paged, PageSays
  <2>4. IsFiniteSet(S) /\ Cardinality(S) \in Nat BY <1>1, ListedType
  <2> HIDE DEF S
  <2>5. PICK s \in Sorted(S, Livelier) \union Sorted(S, Documented) : p.rows = Among(First(s, MattersSize))
    BY <2>3 DEF Shown
  <2>6. Ranked(s, S, {}) BY <2>5, MattersRank
  <2>7. MattersSize \in Nat BY SiteConstants
  <2>8. Cardinality(p.rows) = Least(MattersSize, Cardinality(S)) BY <2>4, <2>5, <2>6, <2>7, ShownOf
  <2>9. Least(MattersSize, Cardinality(S)) = Least(Cardinality(S), MattersSize) BY <2>4, <2>7 DEF Least
  <2> QED BY <2>1, <2>3, <2>8, <2>9
<1> QED BY <1>2, TrailShows DEF BrowseIsComplete

\* What following a matter alone brings is the feed of that matter.
LEMMA FollowIsFeed ==
  ASSUME TypeInv, NEW m, m # None, m.town \in Towns, NEW t,
         NEW s, s = [kind |-> "matter", value |-> None, matter |-> m, town |-> m.town]
  PROVE  Fed({s}, Records) = Scope(t, m)
<1>1. s.kind = "matter" /\ s.matter = m /\ s.town = m.town /\ s.town # None BY ArchiveConstants
<1>2. ~AsksForAdmin({s}) BY <1>1 DEF AsksForAdmin
<1>3. \A r : Matches(s, r) <=> \E l \in links : l.matter = m /\ l.record = r BY <1>1 DEF Matches
<1>4. \A r : Wants(s, r) <=> (\E l \in links : l.matter = m /\ l.record = r) /\ Row(r).town = m.town
  BY <1>1, <1>3 DEF Wants
<1>5. Fed({s}, Records) = {r \in Present \intersect Records : Wants(s, r) /\ Row(r).channel # "admin"}
  BY <1>2 DEF Fed
<1>6. Present \intersect Records = Present BY DEF Present
<1>7. \A r \in Present : r \in Fed({s}, Records) <=> r \in Scope(t, m)
  BY <1>4, <1>5, <1>6 DEF Scope
<1>8. Fed({s}, Records) \subseteq Present /\ Scope(t, m) \subseteq Present BY <1>5 DEF Scope
<1> QED BY <1>7, <1>8

\* What the pages say of a matter.
LEMMA PagesShow == ReadersInv => PagesAgree
<1> SUFFICES ASSUME ReadersInv, calm PROVE PagesAgree BY DEF PagesAgree
<1>1. TypeInv /\ SiteInv /\ ArchiveInv /\ ArchiveTypeOK BY DEF ReadersInv, TypeInv, ArchiveInv
<1>2. ASSUME On("matter"), page.rows # None
      PROVE  LET shown == page.rows
                 dated == {l.record : l \in shown} \intersect revised = {}
             IN
             /\ page.row.count = Cardinality({l.record : l \in shown})
             /\ dated /\ Definite(shown) = {} => page.row.status = "mentioned"
             /\ dated /\ Definite(shown) # {} =>
                  \E l \in Definite(shown) :
                    /\ l.stage = page.row.status
                    /\ \A k \in Definite(shown) : Row(k.record).at <= Row(l.record).at
  <2>1. PICK p : p = page OBVIOUS
  <2>2. p.kind = "matter" /\ p # None /\ p.rows # None BY <2>1, <1>2 DEF On
  <2>3. p.matter \in DOMAIN matters /\ p.row = matters[p.matter] /\ p.rows = Timeline(p.matter)
    BY <1>1, <2>1, <2>2 DEF SiteInv, Paged, PageSays
  <2>4. PICK L : L = Timeline(p.matter) OBVIOUS
  <2>5. L = OfMatter(p.matter, links) /\ L \subseteq links BY <2>4 DEF OfMatter, Timeline
  <2>6. Counted(p.matter) /\ Rolled(p.matter) BY <1>1, <2>3 DEF ArchiveInv
  <2>7. p.row.count = Cardinality(Numbered(L)) BY <2>3, <2>5, <2>6 DEF Counted
  <2>8. Numbered(L) \intersect revised = {} => p.row.status = RollupStatus(Dated(L))
    BY <2>3, <2>5, <2>6 DEF Rolled
  <2>9. \A l \in L : l \in Link /\ l.record \in Records /\ archive[l.record] # None /\ Row(l.record) \in Content
    <3>1. \A l \in L : l \in Link /\ archive[l.record] # None
      BY <1>1, <2>5 DEF ArchiveInv, ArchiveTypeOK, Consistent
    <3> QED BY <3>1, <1>1, RowType DEF Link
  <2>10. \A x \in Dated(L) : x.at \in Nat /\ x.stage \in Stages /\ \E r \in Records : x.at = Row(r).at
    BY <2>9 DEF Dated, Link, Content
  <2> DEFINE D == Dated(L)
  <2>11. /\ (\A x \in D : x.stage = "mentioned") => RollupStatus(D) = "mentioned"
         /\ (\E x \in D : x.stage # "mentioned") =>
              \E x \in D : /\ x.stage # "mentioned" /\ x.stage = RollupStatus(D)
                           /\ \A y \in D : y.stage # "mentioned" => y.at <= x.at
    <3> HIDE DEF D
    <3>1. \A x \in D : x.at \in Nat /\ x.stage \in Stages /\ \E r \in Records : x.at = Row(r).at
      BY <2>10 DEF D
    <3> QED BY <3>1, RollupIs
  <2>12. ASSUME Numbered(L) \intersect revised = {}, Definite(L) = {} PROVE p.row.status = "mentioned"
    <3>1. \A l \in L : l.stage = "mentioned" BY <2>12 DEF Definite
    <3>2. \A x \in D : x.stage = "mentioned" BY <3>1 DEF Dated
    <3> QED BY <2>8, <2>11, <2>12, <3>2
  <2>13. ASSUME Numbered(L) \intersect revised = {}, Definite(L) # {}
         PROVE  \E l \in Definite(L) : /\ l.stage = p.row.status
                                       /\ \A k \in Definite(L) : Row(k.record).at <= Row(l.record).at
    <3>1. PICK d \in L : d.stage # "mentioned" BY <2>13 DEF Definite
    <3>2. \A l \in L : [at |-> Row(l.record).at, stage |-> l.stage] \in D BY DEF Dated
    <3>3. \E x \in D : x.stage # "mentioned"
      <4>1. [at |-> Row(d.record).at, stage |-> d.stage].stage = d.stage OBVIOUS
      <4> HIDE DEF D
      <4> QED BY <3>1, <3>2, <4>1
    <3>4. PICK x \in D : /\ x.stage # "mentioned" /\ x.stage = RollupStatus(D)
                         /\ \A y \in D : y.stage # "mentioned" => y.at <= x.at
      BY <2>11, <3>3
    <3>5. PICK l \in L : x.at = Row(l.record).at /\ x.stage = l.stage
      <4>1. x \in {[at |-> Row(l.record).at, stage |-> l.stage] : l \in L} BY <3>4 DEF Dated
      <4>2. PICK l \in L : x = [at |-> Row(l.record).at, stage |-> l.stage] BY <4>1
      <4> QED BY <4>2
    <3>6. l \in Definite(L) /\ l.stage = p.row.status BY <2>8, <2>13, <3>4, <3>5 DEF Definite
    <3>7. ASSUME NEW k \in Definite(L) PROVE Row(k.record).at <= Row(l.record).at
      <4>1. k \in L /\ k.stage # "mentioned" BY DEF Definite
      <4>2. PICK y : y = [at |-> Row(k.record).at, stage |-> k.stage] OBVIOUS
      <4>3. y \in D /\ y.at = Row(k.record).at /\ y.stage = k.stage BY <3>2, <4>1, <4>2
      <4> QED BY <3>4, <3>5, <4>1, <4>3
    <3> QED BY <3>6, <3>7
  <2> QED BY <2>1, <2>3, <2>4, <2>7, <2>12, <2>13 DEF Numbered
<1>3. ASSUME On("record"), page.chips # None
      PROVE  \A l \in links : l.record = page.record => l \in page.chips
  <2>1. PICK p : p = page OBVIOUS
  <2>2. p.kind = "record" /\ p # None /\ p.chips # None BY <2>1, <1>3 DEF On
  <2>3. p.chips = MattersForEvent(p.record) BY <1>1, <2>1, <2>2 DEF SiteInv, Paged, PageSays
  <2>4. \A l \in links : l.matter \in DOMAIN matters BY <1>1 DEF ArchiveInv, Consistent
  <2> QED BY <2>1, <2>3, <2>4 DEF MattersForEvent
<1>4. ASSUME On("feed"), page.rows # None, page.matter # None
      PROVE  \E s \in Sorted(Fed({[kind |-> "matter", value |-> None, matter |-> page.matter,
                                    town |-> page.matter.town]}, Records), Newer) :
               page.rows = Among(First(s, FeedSize))
  <2>1. PICK p : p = page OBVIOUS
  <2>2. p.kind = "feed" /\ p # None /\ p.rows # None /\ p.matter # None BY <2>1, <1>4 DEF On
  <2>3. p.rows \in Shown(Sorted(Scope(p.town, p.matter), Newer), FeedSize)
    BY <1>1, <2>1, <2>2 DEF SiteInv, Paged, PageSays
  <2>4. p \in Feed BY <1>1, <1>4, <2>1, PageKinds DEF TypeInv, TypeOK
  <2>5. p.matter.town \in Towns BY <2>2, <2>4 DEF Feed, Matter
  <2>6. PICK f : f = [kind |-> "matter", value |-> None, matter |-> p.matter, town |-> p.matter.town] OBVIOUS
  <2>7. Fed({f}, Records) = Scope(p.town, p.matter) BY <1>1, <2>2, <2>5, <2>6, FollowIsFeed
  <2>8. \E s \in Sorted(Fed({f}, Records), Newer) : p.rows = Among(First(s, FeedSize))
    BY <2>3, <2>7 DEF Shown
  <2> QED BY <2>1, <2>6, <2>8
<1> QED BY <1>2, <1>3, <1>4 DEF PagesAgree

\* What the page of follows shows.
LEMMA ForMeShows == ReadersInv => ForMeIsUnion
<1> SUFFICES ASSUME ReadersInv, On("for-me"), page.rows # None, calm
             PROVE  /\ \A s \in page.of : \A r \in Fed({s}, Records) \ page.rows :
                         Cardinality(page.rows) = FeedSize /\ \A n \in page.rows : ~Newer(r, n)
                    /\ \A r \in page.rows : \E s \in page.of :
                         s.town \in {None, Row(r).town} /\ Matches(s, r)
  BY DEF ForMeIsUnion
<1>1. TypeInv /\ SiteInv BY DEF ReadersInv
<1>2. PICK p : p = page OBVIOUS
<1>3. p.kind = "for-me" /\ p # None /\ p.rows # None BY <1>2 DEF On
<1> DEFINE S == Fed(p.of, Records)
<1>4. p.rows \in Shown(Sorted(S, Newer), FeedSize) BY <1>1, <1>2, <1>3 DEF SiteInv, Paged, PageSays
<1>5. PICK s \in Sorted(S, Newer) : p.rows = Among(First(s, FeedSize)) BY <1>4 DEF Shown
<1>6. S \subseteq Records BY DEF Fed
<1>7. \A f \in p.of : Fed({f}, Records) \subseteq S BY DEF Fed, AsksForAdmin
<1>8. \A r \in S : \E f \in p.of : f.town \in {None, Row(r).town} /\ Matches(f, r) BY DEF Fed, Wants
<1> HIDE DEF S
<1>9. IsFiniteSet(S) BY <1>6, ArchiveConstants, FS_Subset
<1>10. /\ Ranked(s, S, {})
       /\ \A i, j \in 1..Cardinality(S) : i < j => ~(s[i] \in S /\ s[j] \in S /\ Newer(s[j], s[i]))
  BY <1>5, NewerRanks
<1>11. /\ s \in Seq(S) /\ Len(s) = Cardinality(S) /\ Cardinality(S) \in Nat
       /\ \A i, j \in 1..Len(s) : s[i] = s[j] => i = j
       /\ \A x \in S : \E i \in 1..Len(s) : s[i] = x
  BY <1>9, <1>10, RankedIsAll
<1>12. PICK n : n = Least(FeedSize, Len(s)) OBVIOUS
<1>13. FeedSize \in Nat BY SiteConstants
<1>14. p.rows = Front(s, n) /\ n \in 0..Len(s) BY <1>5, <1>11, <1>12, <1>13, FirstIs
<1>15. Cardinality(p.rows) = n BY <1>11, <1>14, FrontCounts
<1>16. p.rows \subseteq S
  <2>1. \A i \in 1..n : i \in 1..Len(s) BY <1>11, <1>14
  <2> QED BY <2>1, <1>11, <1>14 DEF Front
<1>17. ASSUME NEW r \in S \ p.rows PROVE Cardinality(p.rows) = FeedSize /\ \A q \in p.rows : ~Newer(r, q)
  <2>1. PICK k \in 1..Len(s) : s[k] = r BY <1>11
  <2>2. ~(k \in 1..n) BY <2>1, <1>14, <1>17 DEF Front
  <2>3. k > n BY <2>2, <1>11, <1>14
  <2>4. n = FeedSize BY <2>3, <1>11, <1>12, <1>13 DEF Least
  <2>5. ASSUME NEW q \in p.rows PROVE ~Newer(r, q)
    <3>1. PICK i \in 1..n : q = s[i] BY <1>14, <2>5 DEF Front
    <3>2. i \in 1..Len(s) /\ i < k BY <3>1, <2>3, <1>11, <1>14
    <3>3. s[i] \in S /\ s[k] \in S BY <3>2, <1>11
    <3> QED BY <2>1, <3>1, <3>2, <3>3, <1>10, <1>11
  <2> QED BY <1>15, <2>4, <2>5
<1> QED BY <1>2, <1>7, <1>8, <1>16, <1>17

\* The invariant holds of every behaviour of writers, clock, readers and late
\* answers.
THEOREM ReadersHold == Spec => []ReadersInv
<1>1. Init => ReadersInv BY ReadersInit
<1>2. ReadersInv /\ [Next]_vars => ReadersInv' BY ReadersStep
<1> QED BY <1>1, <1>2, PTL DEF Spec

\* The variables of archive, pages and screen keep their types.
THEOREM ReadingTypes == Spec => []TypeOK
<1>1. ReadersInv => TypeOK BY DEF ReadersInv, TypeInv
<1> QED BY <1>1, ReadersHold, PTL

\* The list shown, its count and its boards are those of the filters and the page
\* on the screen, until the next commit (state.tsx useResource).
THEOREM FoundIsShown == Spec => []ShownIsFound
<1>1. ReadersInv => ShownIsFound BY ScreenShows DEF ReadersInv
<1> QED BY <1>1, ReadersHold, PTL

\* A screen that shows "Loading" has a request of its own under way: none loads for
\* ever because a late answer was dropped (state.tsx useResource).
THEOREM LoadingAsks == Spec => []LoadingIsAsking
<1>1. ReadersInv => LoadingIsAsking BY ScreenShows DEF ReadersInv
<1> QED BY <1>1, ReadersHold, PTL

\* Paging on to the end shows every record counted once, and no blank page, if
\* nothing was committed meanwhile (reader.ts nextPage, repo.ts queryEvents).
THEOREM WalkComplete == Spec => []WalkIsComplete
<1>1. ReadersInv => WalkIsComplete BY WalkShows DEF ReadersInv
<1> QED BY <1>1, ReadersHold, PTL

\* So does following "Older" to the last page, but for what is far ahead in the
\* general feed (server.ts /activity); and a page of timelines is full.
THEOREM BrowseComplete == Spec => []BrowseIsComplete
<1>1. ReadersInv => BrowseIsComplete BY BrowseShows
<1> QED BY <1>1, ReadersHold, PTL

\* The pages agree on what they say of a matter: its count, its status, the
\* timelines of its records and its feed (server.ts, link.ts, stages.ts).
THEOREM AgreePages == Spec => []PagesAgree
<1>1. ReadersInv => PagesAgree BY PagesShow
<1> QED BY <1>1, ReadersHold, PTL

\* For me is the union of what the follows ask for, each in its town, cut at the
\* size of the feed (repo.ts personalFeed).
THEOREM UnionForMe == Spec => []ForMeIsUnion
<1>1. ReadersInv => ForMeIsUnion BY ForMeShows
<1> QED BY <1>1, ReadersHold, PTL
=============================================================================
