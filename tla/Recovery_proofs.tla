-------------------------- MODULE Recovery_proofs --------------------------
(* Proofs about Recovery, for every number of agents, jobs, destinations,  *)
(* backups and events.                                                     *)
EXTENDS Recovery, TLAPS

-----------------------------------------------------------------------------
(* The inductive invariant, in parts.                                      *)

\* A suffix or a path is changed by an event, and each event changes it by one.
Counted ==
  /\ \A j \in Jobs : suffix[j] <= events + 1
  /\ \A d \in Dests : place[d] <= events + 1

ConfigTypes ==
  /\ listed \in [Jobs -> Lists] /\ suffix \in [Jobs -> Nat] /\ place \in [Dests -> Nat]
  /\ events \in 0..MaxEvents
  /\ Counted

Copies == [run : Runs, id : Dests, at : Locations, live : BOOLEAN]

StorageTypes ==
  /\ repo \subseteq Locations \X Jobs
  /\ damaged \subseteq Locations
  /\ copies \subseteq Copies

\* Only a row that was never inserted names no job.
RowTypes ==
  /\ row \in [Runs -> Row]
  /\ \A r \in Runs : row[r].status # "none" => row[r].job \in Jobs
  /\ verified \in [Jobs -> {"never", "passed", "failed"}]

AnyTask      == Backup \cup Verify \cup Restore \cup Forget
TaskTypes    == tasks \subseteq AnyTask
HistoryTypes == moved \subseteq Runs /\ excused \subseteq Runs

\* A repository under a suffix lies under that of the job whose password opens it.
OwnRepositories == \A x \in repo : x[1].suffix # 0 => x[1].job = x[2]

\* The snapshot that a run left at d is where its job looks for it now.
Stored(r, d) ==
  LET j == row[r].job IN
  /\ \E c \in copies : c.run = r /\ c.id = d /\ c.at = Location(j, d)
  /\ Opens(Location(j, d), j)
  /\ d \in ToSet(listed[j]) /\ place[d] # 0

\* What is known of a backup under way: its row; its targets, of which no two
\* have one number, and whose suffix, if there is one, is its job's; that they are where the job has
\* them now; that the repository it saves into can be opened; and that its last
\* success is stored.
OwnRow(t) == row[t.run].status # "none" /\ row[t.run].job = t.job
OwnTargets(t) ==
  /\ t.todo \subseteq t.sent
  /\ \A x \in t.sent : (x.at.suffix # 0 => x.at.job = t.job) /\ \A y \in t.sent : x.pos = y.pos => x = y
Aimed(t) ==
  (t.phase \in {"config", "init", "save"} /\ t.run \notin moved) =>
    \A x \in t.todo : /\ x.at = Location(t.job, x.dest)
                      /\ x.dest \in ToSet(listed[t.job]) /\ place[x.dest] # 0
Opened(t) == t.phase = "save" => \A x \in Upcoming(t) : Opens(x.at, t.job)
Saved(t)  ==
  (t.last \in Dests /\ t.run \notin moved /\ row[t.run].status # "deleted") => Stored(t.run, t.last)

BackupInv(t) == OwnRow(t) /\ OwnTargets(t) /\ Aimed(t) /\ Opened(t) /\ Saved(t)

\* A verification under way has met no damage but what it has recorded.
VerifyInv(t) == t.sick \subseteq damaged /\ (~t.bad => t.sick \subseteq {x.at : x \in t.todo})

\* The agent is told to forget only snapshots whose row is deleted.
ForgetInv(t) == row[t.run].status = "deleted"

Sound(t) ==
  /\ t.kind = "backup" => BackupInv(t)
  /\ t.kind = "verify" => VerifyInv(t)
  /\ t.kind = "forget" => ForgetInv(t)

TasksSound == \A t \in tasks : Sound(t)

\* The snapshot that a successful row names is stored.
RowsStored ==
  \A r \in Runs : (row[r].status = "success" /\ r \notin moved) => Stored(r, row[r].dest)

Types == ConfigTypes /\ StorageTypes /\ RowTypes /\ TaskTypes /\ HistoryTypes

Inv == Types /\ OwnRepositories /\ TasksSound /\ RowsStored /\ FailsForAReason

-----------------------------------------------------------------------------
(* Facts about the operators.                                              *)

LEMMA ListFacts ==
  ASSUME NEW s \in Lists
  PROVE  /\ DOMAIN s \subseteq Nat
         /\ \A i \in DOMAIN s : s[i] \in Dests
         /\ ToSet(s) = {s[i] : i \in DOMAIN s}
         /\ ToSet(s) \subseteq Dests
<1>1. PICK m : m \in 0..Cardinality(Dests) /\ s \in [1..m -> Dests]
  BY DEF Lists, SeqOf
<1>2. DOMAIN s = 1..m /\ 1..m \subseteq Nat
  BY <1>1
<1>3. ToSet(s) = {s[i] : i \in DOMAIN s}
  BY DEF ToSet
<1>4. QED
  BY <1>1, <1>2, <1>3

LEMMA LocationTypes ==
  ASSUME ConfigTypes, NEW j \in Jobs, NEW d \in Dests, place[d] # 0
  PROVE  Location(j, d) \in Locations /\ (Location(j, d).suffix # 0 => Location(j, d).job = j)
<1>1. place[d] \in 1..(MaxEvents + 1) /\ suffix[j] \in 0..(MaxEvents + 1)
  BY RecoveryAssumption DEF ConfigTypes, Counted
<1>2. j \in 0..NumJobs /\ 0 \in 0..NumJobs
  BY RecoveryAssumption DEF Jobs
<1>3. QED
  BY <1>1, <1>2 DEF Location, Locations

\* What is sent: where the job has each destination now, numbered.
LEMMA SentFacts ==
  ASSUME ConfigTypes, NEW j \in Jobs
  PROVE  /\ Sent(j) \subseteq Targets
         /\ \A x \in Sent(j) : /\ x.at = Location(j, x.dest) /\ (x.at.suffix # 0 => x.at.job = j)
                              /\ x.dest \in ToSet(listed[j]) /\ place[x.dest] # 0
                              /\ \A y \in Sent(j) : x.pos = y.pos => x = y
<1>1. listed[j] \in Lists
  BY DEF ConfigTypes
<1>2. ASSUME NEW x \in Sent(j)
      PROVE  \E i \in DOMAIN listed[j] :
               /\ place[listed[j][i]] # 0
               /\ x = [pos |-> i, dest |-> listed[j][i], at |-> Location(j, listed[j][i])]
  BY <1>2 DEF Sent
<1>3. ASSUME NEW x \in Sent(j)
      PROVE  /\ x \in Targets /\ x.at = Location(j, x.dest) /\ (x.at.suffix # 0 => x.at.job = j)
             /\ x.dest \in ToSet(listed[j]) /\ place[x.dest] # 0
  <2>1. PICK i \in DOMAIN listed[j] :
          /\ place[listed[j][i]] # 0
          /\ x = [pos |-> i, dest |-> listed[j][i], at |-> Location(j, listed[j][i])]
    BY <1>2, <1>3
  <2>2. i \in Nat /\ listed[j][i] \in Dests /\ listed[j][i] \in ToSet(listed[j])
    BY <1>1, ListFacts
  <2>3. /\ Location(j, listed[j][i]) \in Locations
        /\ Location(j, listed[j][i]).suffix # 0 => Location(j, listed[j][i]).job = j
    BY <2>1, <2>2, LocationTypes
  <2>4. QED
    BY <2>1, <2>2, <2>3 DEF Targets
<1>4. ASSUME NEW x \in Sent(j), NEW y \in Sent(j), x.pos = y.pos PROVE x = y
  BY <1>2, <1>4
<1>5. QED
  BY <1>3, <1>4

\* The same in the order of the table: no two destinations have one place in it.
LEMMA FetchedFacts ==
  ASSUME ConfigTypes, NEW j \in Jobs
  PROVE  /\ Fetched(j) \subseteq Targets
         /\ \A x \in Fetched(j) : /\ x.at = Location(j, x.dest) /\ (x.at.suffix # 0 => x.at.job = j)
                                 /\ x.dest \in ToSet(listed[j]) /\ place[x.dest] # 0
                                 /\ \A y \in Fetched(j) : x.pos = y.pos => x = y
<1>1. ASSUME NEW x \in Fetched(j)
      PROVE  /\ x \in Targets /\ x.pos = TableOrder[x.dest]
             /\ x.at = Location(j, x.dest) /\ (x.at.suffix # 0 => x.at.job = j)
             /\ x.dest \in ToSet(listed[j]) /\ place[x.dest] # 0
  <2>1. PICK z \in Sent(j) : x = [z EXCEPT !.pos = TableOrder[z.dest]]
    BY <1>1 DEF Fetched
  <2>2. /\ z \in Targets /\ z.at = Location(j, z.dest) /\ (z.at.suffix # 0 => z.at.job = j)
        /\ z.dest \in ToSet(listed[j]) /\ place[z.dest] # 0
    BY SentFacts
  <2>3. TableOrder[z.dest] \in Nat
    BY <2>2, RecoveryAssumption DEF Targets
  <2>4. x \in Targets /\ x.pos = TableOrder[z.dest] /\ x.dest = z.dest /\ x.at = z.at
    BY <2>1, <2>2, <2>3 DEF Targets
  <2>5. QED
    BY <2>2, <2>4
<1>2. ASSUME NEW x \in Fetched(j), NEW y \in Fetched(j), x.pos = y.pos PROVE x = y
  <2>1. x.dest \in Dests /\ y.dest \in Dests /\ TableOrder[x.dest] = TableOrder[y.dest]
    BY <1>1, <1>2 DEF Targets
  <2>2. x.dest = y.dest
    BY <2>1, RecoveryAssumption DEF IsInjective
  <2>3. QED
    BY <1>1, <1>2, <2>2 DEF Targets
<1>3. QED
  BY <1>1, <1>2

\* The tasks of each kind.
LEMMA KindFacts ==
  ASSUME NEW t \in AnyTask
  PROVE  /\ t.kind = "backup" => t \in Backup
         /\ t.kind = "verify" => t \in Verify
         /\ t.kind = "restore" => t \in Restore
         /\ t.kind = "forget" => t \in Forget
         /\ t.kind \in {"backup", "verify", "restore", "forget"}
  BY DEF AnyTask, Backup, Verify, Restore, Forget

\* A flag that no part of the invariant looks at.
LEMMA UnlinkedTask ==
  ASSUME NEW t \in AnyTask, NEW u, u = [t EXCEPT !.linked = FALSE]
  PROVE  /\ u \in AnyTask
         /\ Sound(t)' => Sound(u)'
<1>1. CASE t.kind = "backup"
  <2>1. /\ u \in Backup /\ u.kind = "backup" /\ u.run = t.run /\ u.job = t.job /\ u.phase = t.phase
        /\ u.todo = t.todo /\ u.sent = t.sent /\ u.last = t.last
    BY <1>1, KindFacts DEF Backup
  <2>2. Sound(t)' => Sound(u)'
    BY <1>1, <2>1
    DEF Sound, BackupInv, OwnRow, OwnTargets, Aimed, Opened, Saved, Upcoming
  <2>3. QED
    BY <2>1, <2>2 DEF AnyTask
<1>2. CASE t.kind = "verify"
  <2>1. u \in Verify /\ u.kind = "verify" /\ u.sick = t.sick /\ u.bad = t.bad /\ u.todo = t.todo
    BY <1>2, KindFacts DEF Verify
  <2>2. QED
    BY <1>2, <2>1 DEF Sound, VerifyInv, AnyTask
<1>3. CASE t.kind = "restore"
  <2>1. u \in Restore /\ u.kind = "restore"
    BY <1>3, KindFacts DEF Restore
  <2>2. QED
    BY <1>3, <2>1 DEF Sound, AnyTask
<1>4. CASE t.kind = "forget"
  <2>1. u \in Forget /\ u.kind = "forget" /\ u.run = t.run
    BY <1>4, KindFacts DEF Forget
  <2>2. QED
    BY <1>4, <2>1 DEF Sound, ForgetInv, AnyTask
<1>5. QED
  BY <1>1, <1>2, <1>3, <1>4, KindFacts

-----------------------------------------------------------------------------
(* What a step keeps of what others rely on.                               *)

ConfigKept(j) ==
  \A d \in ToSet(listed[j]) :
    place[d] # 0 => /\ d \in ToSet(listed'[j])
                    /\ place'[d] = place[d] /\ suffix'[j] = suffix[j]

\* A row keeps its job, and a deleted one stays deleted.
RowsKept ==
  \A r \in Runs : row[r].status # "none" =>
    /\ row'[r].status # "none" /\ row'[r].job = row[r].job
    /\ row[r].status = "deleted" => row'[r].status = "deleted"

CopiesKept ==
  \A c \in copies : row'[c.run].status # "deleted" =>
    \E k \in copies' : k.run = c.run /\ k.id = c.id /\ k.at = c.at

Grown == moved \subseteq moved' /\ excused \subseteq excused' /\ repo \subseteq repo' /\ damaged \subseteq damaged'

\* What moves the data of a run out of its job's sight is noted with the run.
Noted ==
  /\ \A t \in tasks : (t.kind = "backup" /\ t.run \notin moved') => ConfigKept(t.job)
  /\ \A r \in Runs : (row[r].status = "success" /\ row'[r].status = "success" /\ r \notin moved')
                     => ConfigKept(row[r].job)

Kept == RowsKept /\ CopiesKept /\ Grown /\ Noted

LEMMA StoredKept ==
  ASSUME Types, RowsKept, CopiesKept, Grown, NEW r \in Runs, NEW d \in Dests,
         row[r].status # "none", row'[r].status # "deleted", ConfigKept(row[r].job), Stored(r, d)
  PROVE  Stored(r, d)'
<1> DEFINE j == row[r].job
<1>1. j \in Jobs /\ row'[r].job = j
  BY DEF Types, RowTypes, RowsKept
<1>2. /\ d \in ToSet(listed[j]) /\ place[d] # 0 /\ Opens(Location(j, d), j)
  BY DEF Stored
<1>3. d \in ToSet(listed'[j]) /\ place'[d] # 0 /\ Location(j, d)' = Location(j, d)
  BY <1>1, <1>2 DEF ConfigKept, Location
<1>4. Opens(Location(j, d), j)'
  BY <1>1, <1>2, <1>3 DEF Opens, Grown
<1>5. PICK c \in copies : c.run = r /\ c.id = d /\ c.at = Location(j, d)
  BY DEF Stored
<1>6. \E k \in copies' : k.run = r /\ k.id = d /\ k.at = Location(j, d)
  BY <1>5 DEF CopiesKept
<1>7. QED
  BY <1>1, <1>3, <1>4, <1>6 DEF Stored

\* A task that a step leaves alone stays sound.
LEMMA SoundKept ==
  ASSUME Inv, Kept, NEW t \in tasks
  PROVE  Sound(t)'
<1>a. TaskTypes /\ Types /\ Sound(t) /\ RowsKept /\ CopiesKept /\ Grown /\ Noted
  BY DEF Inv, Types, TasksSound, Kept
<1>1. CASE t.kind = "backup"
  <2>1. /\ t.run \in Runs /\ t.job \in Jobs
        /\ OwnRow(t) /\ OwnTargets(t) /\ Aimed(t) /\ Opened(t) /\ Saved(t)
    BY <1>a, <1>1, KindFacts DEF TaskTypes, Backup, Sound, BackupInv
  <2>2. OwnRow(t)' /\ OwnTargets(t)'
    BY <2>1, <1>a DEF OwnRow, OwnTargets, RowsKept
  <2>3. Aimed(t)'
    BY <2>1, <1>a, <1>1 DEF Aimed, Grown, Noted, ConfigKept, Location
  <2>4. Opened(t)'
    BY <2>1, <1>a DEF Opened, Opens, Grown
  <2>5. Saved(t)'
    <3> SUFFICES ASSUME t.last \in Dests, t.run \notin moved', row'[t.run].status # "deleted"
                 PROVE  Stored(t.run, t.last)'
      BY DEF Saved
    <3>1. t.run \notin moved /\ row[t.run].status # "deleted" /\ row[t.run].status # "none"
      BY <1>a, <2>1 DEF Grown, RowsKept, OwnRow
    <3>2. ConfigKept(row[t.run].job)
      BY <1>a, <1>1, <2>1 DEF Noted, OwnRow
    <3>3. QED
      BY <1>a, <2>1, <3>1, <3>2, StoredKept DEF Saved
  <2>6. QED
    BY <1>1, <2>2, <2>3, <2>4, <2>5 DEF Sound, BackupInv
<1>2. CASE t.kind = "verify"
  BY <1>a, <1>2 DEF Sound, VerifyInv, Grown
<1>3. CASE t.kind = "forget"
  <2>1. t.run \in Runs /\ row[t.run].status = "deleted"
    BY <1>a, <1>3, KindFacts DEF TaskTypes, Forget, Sound, ForgetInv
  <2>2. row'[t.run].status = "deleted"
    BY <1>a, <2>1 DEF RowsKept
  <2>3. QED
    BY <1>3, <2>2 DEF Sound, ForgetInv
<1>4. CASE t.kind = "restore"
  BY <1>4 DEF Sound
<1>5. QED
  BY <1>a, <1>1, <1>2, <1>3, <1>4, KindFacts DEF TaskTypes

\* A row that a step leaves successful stays stored.
LEMMA RowStoredKept ==
  ASSUME Inv, Kept, NEW r \in Runs, NEW d \in Dests, row[r].status = "success", row'[r].status = "success",
         row[r].dest = d, r \notin moved'
  PROVE  Stored(r, d)'
<1>1. Types /\ RowsKept /\ CopiesKept /\ Grown /\ ConfigKept(row[r].job) /\ Stored(r, d)
  BY DEF Inv, Kept, Noted, Grown, RowsStored
<1>2. QED
  BY <1>1, StoredKept

\* What is left to show of a step: its own tasks, and the rows it has changed.
LEMMA StepSound ==
  ASSUME Inv, Types', Kept, OwnRepositories',
         \A u \in tasks' : u \in tasks \/ (\E t \in tasks : u = [t EXCEPT !.linked = FALSE]) \/ Sound(u)',
         \A r \in Runs : \/ row'[r].status \notin {"success", "failed", "warning"}
                         \/ row'[r].status = row[r].status /\ row'[r].dest = row[r].dest
                         \/ row'[r].status \in {"failed", "warning"} /\ r \in excused'
                         \/ row'[r].status = "success" /\ (r \notin moved' => Stored(r, row[r].dest)')
  PROVE  Inv'
<1>1. TasksSound'
  <2>1. \A t \in tasks : Sound(t)'
    BY SoundKept
  <2>2. \A t \in tasks : \A u : u = [t EXCEPT !.linked = FALSE] => Sound(u)'
    BY <2>1, UnlinkedTask DEF Inv, Types, TaskTypes
  <2>3. \A u \in tasks' : Sound(u)'
    BY <2>1, <2>2
  <2>4. QED
    BY <2>3 DEF TasksSound
<1>2. FailsForAReason'
  BY DEF Inv, FailsForAReason, Kept, Grown
<1>3. RowsStored'
  <2> SUFFICES ASSUME NEW r \in Runs, row'[r].status = "success", r \notin moved'
               PROVE  Stored(r, row[r].dest)'
    BY DEF RowsStored
  <2>1. CASE row[r].status = "success" /\ row'[r].dest = row[r].dest
    <3>1. r \notin moved /\ Stored(r, row[r].dest) /\ row[r].job \in Jobs
      BY <2>1 DEF Inv, RowsStored, Kept, Grown, Types, RowTypes
    <3>2. PICK d : d = row[r].dest
      OBVIOUS
    <3>3. d \in Dests
      BY <3>1, <3>2, ListFacts DEF Stored, Inv, Types, ConfigTypes
    <3>4. Stored(r, d)'
      BY <2>1, <3>2, <3>3, RowStoredKept
    <3>5. d = row'[r].dest
      BY <2>1, <3>2
    <3>6. QED
      BY <3>4, <3>5 DEF Stored
  <2>2. QED
    BY <2>1
<1>4. QED
  BY <1>1, <1>2, <1>3 DEF Inv

-----------------------------------------------------------------------------
(* Steps that leave parts of the state alone.                              *)

LEMMA SteadyConfig ==
  ASSUME ConfigTypes, UNCHANGED config, UNCHANGED events \/ Event
  PROVE  ConfigTypes' /\ Noted
<1>1. events' \in 0..MaxEvents /\ events <= events'
  BY RecoveryAssumption DEF ConfigTypes, Event
<1>2. UNCHANGED listed /\ UNCHANGED suffix /\ UNCHANGED place
  BY DEF config
<1>3. ConfigTypes'
  BY <1>1, <1>2 DEF ConfigTypes, Counted
<1>4. \A j : ConfigKept(j)
  BY <1>2 DEF ConfigKept, Location
<1>5. QED
  BY <1>3, <1>4 DEF Noted

LEMMA SteadyStorage ==
  ASSUME StorageTypes, OwnRepositories, UNCHANGED storage
  PROVE  StorageTypes' /\ OwnRepositories' /\ CopiesKept /\ UNCHANGED repo /\ UNCHANGED damaged
<1>1. UNCHANGED repo /\ UNCHANGED copies /\ UNCHANGED damaged
  BY DEF storage
<1>2. QED
  BY <1>1 DEF StorageTypes, OwnRepositories, CopiesKept

LEMMA SteadyRows ==
  ASSUME RowTypes, UNCHANGED row, UNCHANGED verified
  PROVE  RowTypes' /\ RowsKept
  BY DEF RowTypes, RowsKept

LEMMA RunSets ==
  ASSUME TaskTypes, NEW j
  PROVE  /\ RunsOf(j) \subseteq Runs /\ InFlight(j) \subseteq Runs
         /\ \A t \in tasks : t.kind = "backup" /\ t.job = j => t.run \in InFlight(j)
         /\ \A r \in Runs : row[r].job = j /\ row[r].status # "deleted" => r \in RunsOf(j)
  BY KindFacts DEF TaskTypes, RunsOf, InFlight, Backup

-----------------------------------------------------------------------------
(* Changes of jobs and destinations.                                       *)

LEMMA EditJobInv == ASSUME Inv, NEW j \in Jobs, NEW s \in Lists, EditJob(j, s) PROVE Inv'
<1>a. Types /\ ConfigTypes /\ StorageTypes /\ RowTypes /\ TaskTypes /\ HistoryTypes /\ OwnRepositories
  BY DEF Inv, Types
<1>b. /\ listed' = [listed EXCEPT ![j] = s]
      /\ UNCHANGED suffix /\ UNCHANGED place /\ UNCHANGED row /\ UNCHANGED verified
      /\ UNCHANGED storage /\ UNCHANGED tasks /\ UNCHANGED excused
      /\ Event
  BY DEF EditJob
<1>c. /\ ToSet(listed[j]) \subseteq ToSet(s) => moved' = moved
      /\ ~(ToSet(listed[j]) \subseteq ToSet(s)) => moved' = moved \cup RunsOf(j) \cup InFlight(j)
      /\ \A d \in ToSet(s) : place[d] # 0
  BY DEF EditJob
<1>1. ConfigTypes'
  BY <1>a, <1>b, RecoveryAssumption DEF ConfigTypes, Counted, Event
<1>2. StorageTypes' /\ OwnRepositories' /\ CopiesKept /\ UNCHANGED repo /\ UNCHANGED damaged
  BY <1>a, <1>b, SteadyStorage
<1>3. RowTypes' /\ RowsKept
  BY <1>a, <1>b, SteadyRows
<1>4. TaskTypes' /\ HistoryTypes' /\ Grown
  BY <1>a, <1>b, <1>c, <1>2, RunSets DEF TaskTypes, HistoryTypes, Grown
<1>5. ASSUME NEW k \in Jobs, k # j \/ ToSet(listed[j]) \subseteq ToSet(s) PROVE ConfigKept(k)
  <2>1. ToSet(listed[k]) \subseteq ToSet(listed'[k])
    BY <1>5, <1>a, <1>b DEF ConfigTypes
  <2>2. QED
    BY <2>1, <1>b DEF ConfigKept, Location
<1>6. Noted
  <2>1. \A t \in tasks : (t.kind = "backup" /\ t.run \notin moved') => ConfigKept(t.job)
    BY <1>5, <1>a, <1>c, RunSets, KindFacts DEF TaskTypes, Backup
  <2>2. ASSUME NEW r \in Runs, row[r].status = "success", r \notin moved' PROVE ConfigKept(row[r].job)
    <3>1. row[r].job \in Jobs
      BY <2>2, <1>a DEF RowTypes
    <3>2. QED
      BY <2>2, <3>1, <1>5, <1>a, <1>c, RunSets
  <2>3. QED
    BY <2>1, <2>2 DEF Noted
<1>7. QED
  BY <1>b, <1>1, <1>2, <1>3, <1>4, <1>6, StepSound DEF Types, Kept

\* What the marking of the rows of some jobs does.
LEMMA OrphanRows ==
  ASSUME RowTypes, NEW J \in SUBSET Jobs, Orphan(J)
  PROVE  /\ row' \in [Runs -> Row]
         /\ \A r \in Runs : /\ row'[r].job = row[r].job /\ row'[r].dest = row[r].dest
                            /\ \/ row'[r].status = row[r].status /\ (row[r].job \notin J \/ row[r].status = "deleted")
                               \/ /\ row'[r].status = "orphaned" /\ row[r].status # "deleted"
                                  /\ row[r].job \in J
<1>1. ASSUME NEW r \in Runs
      PROVE  /\ row'[r] \in Row /\ row'[r].job = row[r].job /\ row'[r].dest = row[r].dest
             /\ \/ row'[r].status = row[r].status /\ (row[r].job \notin J \/ row[r].status = "deleted")
                \/ row'[r].status = "orphaned" /\ row[r].status # "deleted" /\ row[r].job \in J
  <2>1. row[r] \in Row
    BY DEF RowTypes
  <2>2. CASE r \in UNION {RunsOf(k) : k \in J}
    <3>1. row'[r] = [row[r] EXCEPT !.status = "orphaned"] /\ row[r].status # "deleted" /\ row[r].job \in J
      BY <2>2 DEF Orphan, RunsOf
    <3>2. QED
      BY <2>1, <3>1 DEF Row
  <2>3. CASE r \notin UNION {RunsOf(k) : k \in J}
    <3>1. row'[r] = row[r]
      BY <2>3 DEF Orphan
    <3>2. row[r].job \notin J \/ row[r].status = "deleted"
      BY <2>3 DEF RunsOf
    <3>3. QED
      BY <2>1, <3>1, <3>2
  <2>4. QED
    BY <2>2, <2>3
<1>2. row' = [r \in Runs |-> row'[r]]
  BY DEF Orphan
<1>3. QED
  BY <1>1, <1>2

LEMMA OrphanKept ==
  ASSUME StorageTypes, RowTypes, NEW J \in SUBSET Jobs, Orphan(J), UNCHANGED verified, UNCHANGED storage
  PROVE  /\ RowTypes' /\ RowsKept
         /\ \A r \in Runs : \/ row'[r].status = "orphaned"
                            \/ row'[r].status = row[r].status /\ row'[r].dest = row[r].dest
<1>1. RowTypes'
  BY OrphanRows DEF RowTypes
<1>2. RowsKept
  BY OrphanRows DEF RowsKept
<1>3. QED
  BY <1>1, <1>2, OrphanRows

LEMMA ResetJobInv == ASSUME Inv, NEW j \in Jobs, ResetJob(j) PROVE Inv'
<1>a. Types /\ ConfigTypes /\ StorageTypes /\ RowTypes /\ TaskTypes /\ HistoryTypes /\ OwnRepositories
  BY DEF Inv, Types
<1>b. /\ suffix' = [suffix EXCEPT ![j] = suffix[j] + 1]
      /\ Orphan({j}) /\ moved' = moved \cup InFlight(j)
      /\ UNCHANGED listed /\ UNCHANGED place /\ UNCHANGED verified
      /\ UNCHANGED storage /\ UNCHANGED tasks /\ UNCHANGED excused
      /\ events < MaxEvents /\ events' = events + 1
  BY DEF ResetJob, Event
<1>1. ConfigTypes'
  <2>1. events' \in 0..MaxEvents
    BY <1>a, <1>b, RecoveryAssumption DEF ConfigTypes
  <2>2. suffix' \in [Jobs -> Nat] /\ \A k \in Jobs : suffix'[k] <= events' + 1
    BY <1>a, <1>b DEF ConfigTypes, Counted
  <2>3. \A d \in Dests : place'[d] <= events' + 1
    BY <1>a, <1>b DEF ConfigTypes, Counted
  <2>4. QED
    BY <1>a, <1>b, <2>1, <2>2, <2>3 DEF ConfigTypes, Counted
<1>2. StorageTypes' /\ OwnRepositories' /\ CopiesKept /\ UNCHANGED repo /\ UNCHANGED damaged
  BY <1>a, <1>b, SteadyStorage
<1>3. /\ RowTypes' /\ RowsKept
      /\ \A r \in Runs : \/ row'[r].status = "orphaned"
                         \/ row'[r].status = row[r].status /\ row'[r].dest = row[r].dest
  BY <1>a, <1>b, OrphanKept
<1>4. TaskTypes' /\ HistoryTypes' /\ Grown
  BY <1>a, <1>b, <1>2, RunSets DEF TaskTypes, HistoryTypes, Grown
<1>5. ASSUME NEW k \in Jobs, k # j PROVE ConfigKept(k)
  BY <1>5, <1>a, <1>b DEF ConfigKept, Location, ConfigTypes
<1>6. Noted
  <2>1. \A t \in tasks : (t.kind = "backup" /\ t.run \notin moved') => ConfigKept(t.job)
    BY <1>5, <1>a, <1>b, RunSets, KindFacts DEF TaskTypes, Backup
  <2>2. ASSUME NEW r \in Runs, row[r].status = "success", row'[r].status = "success" PROVE ConfigKept(row[r].job)
    <3>1. row[r].job \in Jobs
      BY <2>2, <1>a DEF RowTypes
    <3>2. row[r].job # j
      BY <2>2, <1>a, <1>b, OrphanRows
    <3>3. QED
      BY <3>1, <3>2, <1>5
  <2>3. QED
    BY <2>1, <2>2 DEF Noted
<1>7. QED
  BY <1>b, <1>1, <1>2, <1>3, <1>4, <1>6, StepSound DEF Types, Kept

\* A change of the path of d concerns the jobs that list d.
LEMMA PlaceKept ==
  ASSUME ConfigTypes, NEW d \in Dests, NEW p \in Nat, place' = [place EXCEPT ![d] = p],
         UNCHANGED listed, UNCHANGED suffix, NEW k \in Jobs, k \notin Users(d)
  PROVE  ConfigKept(k)
<1>1. d \notin ToSet(listed[k])
  BY DEF Users
<1>2. \A e \in ToSet(listed[k]) : place'[e] = place[e]
  BY <1>1, ListFacts DEF ConfigTypes
<1>3. QED
  BY <1>2 DEF ConfigKept, Location

LEMMA PlaceCounted ==
  ASSUME ConfigTypes, NEW d \in Dests, place[d] # 0, NEW p \in {0, place[d] + 1},
         place' = [place EXCEPT ![d] = p], UNCHANGED listed, UNCHANGED suffix, Event
  PROVE  ConfigTypes' /\ p \in Nat
<1>1. place[d] \in Nat /\ place[d] <= events + 1 /\ p \in Nat /\ p <= events + 2
  BY DEF ConfigTypes, Counted
<1>2. events' \in 0..MaxEvents /\ events' = events + 1
  BY RecoveryAssumption DEF ConfigTypes, Event
<1>3. place' \in [Dests -> Nat] /\ \A e \in Dests : place'[e] <= events' + 1
  BY <1>1, <1>2 DEF ConfigTypes, Counted
<1>4. \A k \in Jobs : suffix'[k] <= events' + 1
  BY <1>2 DEF ConfigTypes, Counted
<1>5. QED
  BY <1>1, <1>2, <1>3, <1>4 DEF ConfigTypes, Counted

LEMMA ResetDestinationInv == ASSUME Inv, NEW d \in Dests, ResetDestination(d) PROVE Inv'
<1>a. Types /\ ConfigTypes /\ StorageTypes /\ RowTypes /\ TaskTypes /\ HistoryTypes /\ OwnRepositories
  BY DEF Inv, Types
<1>b. /\ place[d] # 0 /\ place' = [place EXCEPT ![d] = place[d] + 1]
      /\ Orphan(Users(d)) /\ moved' = moved \cup UNION {InFlight(j) : j \in Users(d)}
      /\ UNCHANGED listed /\ UNCHANGED suffix /\ UNCHANGED verified
      /\ UNCHANGED storage /\ UNCHANGED tasks /\ UNCHANGED excused
      /\ Event
  BY DEF ResetDestination
<1>c. Users(d) \subseteq Jobs
  BY DEF Users
<1>1. ConfigTypes' /\ place[d] + 1 \in Nat
  BY <1>a, <1>b, PlaceCounted
<1>2. StorageTypes' /\ OwnRepositories' /\ CopiesKept /\ UNCHANGED repo /\ UNCHANGED damaged
  BY <1>a, <1>b, SteadyStorage
<1>3. /\ RowTypes' /\ RowsKept
      /\ \A r \in Runs : \/ row'[r].status = "orphaned"
                         \/ row'[r].status = row[r].status /\ row'[r].dest = row[r].dest
  BY <1>a, <1>b, <1>c, OrphanKept
<1>4. TaskTypes' /\ HistoryTypes' /\ Grown
  BY <1>a, <1>b, <1>2, RunSets DEF TaskTypes, HistoryTypes, Grown
<1>5. ASSUME NEW k \in Jobs, k \notin Users(d) PROVE ConfigKept(k)
  BY <1>5, <1>a, <1>b, <1>1, PlaceKept
<1>6. Noted
  <2>1. ASSUME NEW t \in tasks, t.kind = "backup", t.run \notin moved' PROVE ConfigKept(t.job)
    <3>1. t.job \in Jobs /\ t.run \in InFlight(t.job)
      BY <2>1, <1>a, RunSets, KindFacts DEF TaskTypes, Backup
    <3>2. t.job \notin Users(d)
      BY <2>1, <3>1, <1>b
    <3>3. QED
      BY <3>1, <3>2, <1>5
  <2>2. ASSUME NEW r \in Runs, row[r].status = "success", row'[r].status = "success" PROVE ConfigKept(row[r].job)
    <3>1. row[r].job \in Jobs
      BY <2>2, <1>a DEF RowTypes
    <3>2. row[r].job \notin Users(d)
      BY <2>2, <1>a, <1>b, <1>c, OrphanRows
    <3>3. QED
      BY <3>1, <3>2, <1>5
  <2>3. QED
    BY <2>1, <2>2 DEF Noted
<1>7. QED
  BY <1>b, <1>1, <1>2, <1>3, <1>4, <1>6, StepSound DEF Types, Kept

LEMMA MoveDestinationInv == ASSUME Inv, NEW d \in Dests, MoveDestination(d) PROVE Inv'
<1>a. Types /\ ConfigTypes /\ StorageTypes /\ RowTypes /\ TaskTypes /\ HistoryTypes /\ OwnRepositories
  BY DEF Inv, Types
<1>b. /\ place[d] # 0
      /\ moved' = moved \cup UNION {RunsOf(j) \cup InFlight(j) : j \in Users(d)}
      /\ UNCHANGED listed /\ UNCHANGED suffix /\ UNCHANGED row /\ UNCHANGED verified
      /\ UNCHANGED storage /\ UNCHANGED tasks /\ UNCHANGED excused
      /\ Event
  BY DEF MoveDestination
<1>c. PICK p \in {0, place[d] + 1} : place' = [place EXCEPT ![d] = p]
  BY DEF MoveDestination
<1>1. ConfigTypes' /\ p \in Nat
  BY <1>a, <1>b, <1>c, PlaceCounted
<1>2. StorageTypes' /\ OwnRepositories' /\ CopiesKept /\ UNCHANGED repo /\ UNCHANGED damaged
  BY <1>a, <1>b, SteadyStorage
<1>3. RowTypes' /\ RowsKept
  BY <1>a, <1>b, SteadyRows
<1>4. TaskTypes' /\ HistoryTypes' /\ Grown
  BY <1>a, <1>b, <1>2, RunSets DEF TaskTypes, HistoryTypes, Grown
<1>5. ASSUME NEW k \in Jobs, k \notin Users(d) PROVE ConfigKept(k)
  BY <1>5, <1>a, <1>b, <1>c, <1>1, PlaceKept
<1>6. Noted
  <2>1. ASSUME NEW t \in tasks, t.kind = "backup", t.run \notin moved' PROVE ConfigKept(t.job)
    <3>1. t.job \in Jobs /\ t.run \in InFlight(t.job)
      BY <2>1, <1>a, RunSets, KindFacts DEF TaskTypes, Backup
    <3>2. t.job \notin Users(d)
      BY <2>1, <3>1, <1>b
    <3>3. QED
      BY <3>1, <3>2, <1>5
  <2>2. ASSUME NEW r \in Runs, row[r].status = "success", r \notin moved' PROVE ConfigKept(row[r].job)
    <3>1. row[r].job \in Jobs /\ r \in RunsOf(row[r].job)
      BY <2>2, <1>a, RunSets DEF RowTypes
    <3>2. row[r].job \notin Users(d)
      BY <2>2, <3>1, <1>b
    <3>3. QED
      BY <3>1, <3>2, <1>5
  <2>3. QED
    BY <2>1, <2>2 DEF Noted
<1>7. QED
  BY <1>b, <1>1, <1>2, <1>3, <1>4, <1>6, StepSound DEF Types, Kept

-----------------------------------------------------------------------------
(* Requests.                                                               *)

\* A step that leaves configuration, storage and rows alone, and what it adds.
LEMMA SteadyInv ==
  ASSUME Inv, UNCHANGED config, UNCHANGED storage, UNCHANGED row, UNCHANGED moved,
         UNCHANGED events \/ Event, RowTypes', TaskTypes',
         excused \subseteq excused', excused' \subseteq Runs,
         \A u \in tasks' : u \in tasks \/ (\E t \in tasks : u = [t EXCEPT !.linked = FALSE]) \/ Sound(u)'
  PROVE  Inv'
<1>a. Types /\ ConfigTypes /\ StorageTypes /\ RowTypes /\ TaskTypes /\ HistoryTypes /\ OwnRepositories
  BY DEF Inv, Types
<1>1. ConfigTypes' /\ Noted
  BY <1>a, SteadyConfig
<1>2. StorageTypes' /\ OwnRepositories' /\ CopiesKept /\ UNCHANGED repo /\ UNCHANGED damaged
  BY <1>a, SteadyStorage
<1>3. RowsKept
  BY DEF RowsKept
<1>4. HistoryTypes' /\ Grown
  BY <1>a, <1>2 DEF HistoryTypes, Grown
<1>5. QED
  BY <1>1, <1>2, <1>3, <1>4, StepSound DEF Types, Kept

LEMMA RunJobInv == ASSUME Inv, NEW j \in Jobs, NEW r \in Runs, RunJob(j, r) PROVE Inv'
<1> DEFINE u == [kind |-> "backup", run |-> r, job |-> j, linked |-> TRUE, phase |-> "fetch",
                 todo |-> {}, sent |-> {}, last |-> "none"]
           new == [status |-> "running", job |-> j, dest |-> NoDest]
<1>a. Types /\ ConfigTypes /\ StorageTypes /\ RowTypes /\ TaskTypes /\ HistoryTypes /\ OwnRepositories
  BY DEF Inv, Types
<1>b. /\ row[r].status = "none" /\ row' = [row EXCEPT ![r] = new] /\ tasks' = tasks \cup {u}
      /\ UNCHANGED config /\ UNCHANGED verified /\ UNCHANGED storage
      /\ UNCHANGED moved /\ UNCHANGED excused /\ UNCHANGED events
  BY DEF RunJob
<1>c. new \in Row /\ new.status = "running" /\ new.job = j
  BY RecoveryAssumption DEF Row, Jobs
<1>d. /\ u \in Backup /\ u.kind = "backup" /\ u.run = r /\ u.job = j /\ u.phase = "fetch"
      /\ u.todo = {} /\ u.sent = {} /\ u.last \notin Dests
  BY RecoveryAssumption DEF Backup
<1> HIDE DEF new, u
<1>1. ConfigTypes' /\ Noted
  BY <1>a, <1>b, SteadyConfig
<1>2. StorageTypes' /\ UNCHANGED repo /\ UNCHANGED damaged /\ OwnRepositories' /\ CopiesKept
  BY <1>a, <1>b, SteadyStorage
<1>3. row'[r] = new /\ \A q \in Runs \ {r} : row'[q] = row[q]
  BY <1>a, <1>b DEF RowTypes
<1>4. RowTypes' /\ RowsKept
  <2>1. row' \in [Runs -> Row]
    BY <1>a, <1>b, <1>c DEF RowTypes
  <2>2. QED
    BY <1>a, <1>b, <1>c, <1>3, <2>1 DEF RowTypes, RowsKept
<1>5. TaskTypes' /\ HistoryTypes' /\ Grown
  BY <1>a, <1>b, <1>d, <1>2 DEF TaskTypes, AnyTask, HistoryTypes, Grown
<1>6. Sound(u)'
  BY <1>c, <1>d, <1>3 DEF Sound, BackupInv, OwnRow, OwnTargets, Aimed, Opened, Saved
<1>7. \A q \in Runs : \/ row'[q].status \notin {"success", "failed", "warning"}
                      \/ row'[q].status = row[q].status /\ row'[q].dest = row[q].dest
  BY <1>c, <1>3
<1>8. QED
  BY <1>b, <1>1, <1>2, <1>4, <1>5, <1>6, <1>7, StepSound DEF Types, Kept

LEMMA RequestVerifyInv == ASSUME Inv, NEW j \in Jobs, RequestVerify(j) PROVE Inv'
<1>u. PICK u : u = [kind |-> "verify", job |-> j, linked |-> TRUE, begun |-> FALSE, bad |-> FALSE,
                    todo |-> Sent(j), sick |-> {x.at : x \in Sent(j)} \cap damaged]
  OBVIOUS
<1>a. Types /\ ConfigTypes /\ StorageTypes /\ RowTypes /\ TaskTypes /\ HistoryTypes /\ OwnRepositories
  BY DEF Inv, Types
<1>b. /\ tasks' = tasks \cup {u} /\ Event
      /\ UNCHANGED config /\ UNCHANGED row /\ UNCHANGED verified /\ UNCHANGED storage
      /\ UNCHANGED moved /\ UNCHANGED excused
  BY <1>u DEF RequestVerify
<1>c. UNCHANGED damaged
  BY <1>b DEF storage
<1>1. Sent(j) \subseteq Targets
  BY <1>a, SentFacts
<1>2. u \in Verify /\ u.kind = "verify" /\ u.sick = {x.at : x \in u.todo} \cap damaged
  BY <1>u, <1>1, <1>a DEF Verify, StorageTypes
<1>3. Sound(u)'
  BY <1>2, <1>c DEF Sound, VerifyInv
<1>4. RowTypes' /\ TaskTypes'
  BY <1>a, <1>b, <1>2, SteadyRows DEF TaskTypes, AnyTask
<1>5. QED
  BY <1>a, <1>b, <1>3, <1>4, SteadyInv DEF HistoryTypes

LEMMA ShownFacts ==
  ASSUME RowTypes, NEW r \in Runs, Shown(r)
  PROVE  row[r].dest \in Dests /\ row[r].job \in Jobs /\ JobAgent[row[r].job] \in Agents
<1>1. row[r] \in Row /\ row[r].job \in Jobs /\ row[r].dest # NoDest
  BY DEF RowTypes, Shown
<1>2. row[r].dest \in Dests
  BY <1>1 DEF Row
<1>3. QED
  BY <1>1, <1>2, RecoveryAssumption

LEMMA RequestRestoreInv ==
  ASSUME Inv, NEW r \in Runs, NEW d \in Dests, NEW a \in Agents, RequestRestore(r, d, a)
  PROVE  Inv'
<1>u. PICK u : u = [kind |-> "restore", run |-> r, id |-> row[r].dest, dest |-> d, agent |-> a,
                    linked |-> TRUE]
  OBVIOUS
<1>a. Types /\ ConfigTypes /\ StorageTypes /\ RowTypes /\ TaskTypes /\ HistoryTypes /\ OwnRepositories
  BY DEF Inv, Types
<1>b. /\ tasks' = tasks \cup {u} /\ Event /\ Shown(r)
      /\ UNCHANGED config /\ UNCHANGED row /\ UNCHANGED verified /\ UNCHANGED storage
      /\ UNCHANGED moved /\ UNCHANGED excused
  BY <1>u DEF RequestRestore
<1>1. u \in Restore /\ u.kind = "restore"
  BY <1>u, <1>a, <1>b, ShownFacts DEF Restore
<1>2. Sound(u)'
  BY <1>1 DEF Sound
<1>3. RowTypes' /\ TaskTypes'
  BY <1>a, <1>b, <1>1, SteadyRows DEF TaskTypes, AnyTask
<1>4. QED
  BY <1>a, <1>b, <1>2, <1>3, SteadyInv DEF HistoryTypes

LEMMA DeleteSnapshotInv == ASSUME Inv, NEW r \in Runs, DeleteSnapshot(r) PROVE Inv'
<1>u. PICK u : u = [kind |-> "forget", run |-> r, id |-> row[r].dest,
                    agent |-> JobAgent[row[r].job], linked |-> TRUE]
  OBVIOUS
<1> DEFINE new == [row[r] EXCEPT !.status = "deleted"]
<1>a. Types /\ ConfigTypes /\ StorageTypes /\ RowTypes /\ TaskTypes /\ HistoryTypes /\ OwnRepositories
  BY DEF Inv, Types
<1>b. /\ row[r].status \notin {"none", "deleted"} /\ row' = [row EXCEPT ![r] = new]
      /\ tasks' = tasks \/ (Shown(r) /\ tasks' = tasks \cup {u})
      /\ Event
      /\ UNCHANGED config /\ UNCHANGED verified /\ UNCHANGED storage
      /\ UNCHANGED moved /\ UNCHANGED excused
  BY <1>u, <1>a DEF DeleteSnapshot, RowTypes
<1>c. row[r] \in Row
  BY <1>a DEF RowTypes
<1>d. new \in Row /\ new.status = "deleted" /\ new.job = row[r].job
  BY <1>c DEF Row
<1>e. u.kind = "forget" /\ u.run = r /\ (Shown(r) => u \in Forget)
  BY <1>u, <1>a, ShownFacts DEF Forget
<1> HIDE DEF new
<1>1. ConfigTypes' /\ Noted
  BY <1>a, <1>b, SteadyConfig
<1>2. StorageTypes' /\ UNCHANGED repo /\ UNCHANGED damaged /\ OwnRepositories' /\ CopiesKept
  BY <1>a, <1>b, SteadyStorage
<1>3. row'[r] = new /\ \A q \in Runs \ {r} : row'[q] = row[q]
  BY <1>a, <1>b DEF RowTypes
<1>4. RowTypes' /\ RowsKept
  <2>1. row' \in [Runs -> Row]
    BY <1>a, <1>b, <1>d DEF RowTypes
  <2>2. QED
    BY <1>a, <1>b, <1>d, <1>3, <2>1 DEF RowTypes, RowsKept
<1>5. TaskTypes' /\ HistoryTypes' /\ Grown
  BY <1>a, <1>b, <1>e, <1>2 DEF TaskTypes, AnyTask, HistoryTypes, Grown
<1>6. Sound(u)'
  BY <1>d, <1>e, <1>3 DEF Sound, ForgetInv
<1>7. \A q \in Runs : \/ row'[q].status \notin {"success", "failed", "warning"}
                      \/ row'[q].status = row[q].status /\ row'[q].dest = row[q].dest
  BY <1>d, <1>3
<1>8. QED
  BY <1>b, <1>1, <1>2, <1>4, <1>5, <1>6, <1>7, StepSound DEF Types, Kept

-----------------------------------------------------------------------------
(* runBackup.                                                              *)

Results == Dests \cup {"none", "failed"}

\* What an outcome may do to the rows.
Recorded(r, last) ==
  /\ \A q \in Runs \ {r} : row'[q] = row[q]
  /\ \/ row'[r] = row[r]
     \/ /\ row[r].status # "deleted"
        /\ last \in Dests => row'[r].status = "success" /\ row'[r].dest = last
        /\ last \notin Dests => row'[r].status = "failed"

LEMMA OutcomeFacts ==
  ASSUME RowTypes, UNCHANGED verified, NEW t, t.run \in Runs, t.last \in Results,
         row[t.run].status # "none", Outcome(t)
  PROVE  RowTypes' /\ RowsKept /\ Recorded(t.run, t.last)
<1> DEFINE old == row[t.run]
           new == [old EXCEPT !.status = IF t.last \in Dests THEN "success" ELSE "failed",
                              !.dest = IF t.last \in Dests THEN t.last ELSE @]
<1>1. old \in Row /\ old.job \in Jobs
  BY DEF RowTypes
<1>2. /\ new \in Row /\ new.job = old.job
      /\ t.last \in Dests => new.status = "success" /\ new.dest = t.last
      /\ t.last \notin Dests => new.status = "failed"
  BY <1>1 DEF Row
<1>3. row' = row \/ (old.status # "deleted" /\ row' = [row EXCEPT ![t.run] = new])
  BY <1>1 DEF Outcome, RowTypes, Row
<1>4. new.status # "none"
  BY <1>2
<1> HIDE DEF new
<1>5. CASE row' = row
  BY <1>5, SteadyRows DEF Recorded
<1>6. CASE old.status # "deleted" /\ row' = [row EXCEPT ![t.run] = new]
  <2>1. row'[t.run] = new /\ \A q \in Runs \ {t.run} : row'[q] = row[q]
    BY <1>6 DEF RowTypes
  <2>2. row' \in [Runs -> Row]
    BY <1>2, <1>6 DEF RowTypes
  <2>3. RowTypes' /\ RowsKept
    BY <1>1, <1>2, <1>4, <1>6, <2>1, <2>2 DEF RowTypes, RowsKept
  <2>4. Recorded(t.run, t.last)
    BY <1>2, <1>6, <2>1 DEF Recorded
  <2>5. QED
    BY <2>3, <2>4
<1>7. QED
  BY <1>3, <1>5, <1>6

\* The task that goes on after the destination x with the result last.
GoesOn(u, t, x, last) ==
  /\ u \in Backup /\ u.kind = "backup"
  /\ u.run = t.run /\ u.job = t.job /\ u.sent = t.sent /\ u.last = last
  /\ \/ u.phase = "config" /\ u.todo = t.todo \ {x}
     \/ u.phase = "check" /\ u.todo = t.sent

LEMMA ProceedFacts ==
  ASSUME RowTypes, TaskTypes, UNCHANGED verified, NEW t \in tasks, t.kind = "backup", OwnRow(t),
         NEW x, NEW last \in Results, Proceed(t, x, last)
  PROVE  /\ RowTypes' /\ RowsKept /\ Recorded(t.run, last)
         /\ \A u \in tasks' : u \in tasks \/ GoesOn(u, t, x, last)
<1> DEFINE u == [t EXCEPT !.todo = @ \ {x}, !.phase = "config", !.last = last]
           v == [u EXCEPT !.phase = "check", !.todo = u.sent]
<1>1. t \in Backup /\ t.run \in Runs /\ row[t.run].status # "none"
  BY KindFacts DEF TaskTypes, Backup, OwnRow
<1>2. GoesOn(u, t, x, last) /\ u \in Backup
  BY <1>1 DEF Backup, GoesOn, Results
<1>3. GoesOn(v, t, x, last)
  BY <1>1, <1>2 DEF Backup, GoesOn, Results
<1>4. u.run = t.run /\ u.last = last
  BY <1>2 DEF GoesOn
<1>5. \/ tasks' = (tasks \ {t}) \cup {u} /\ UNCHANGED row
      \/ Outcome(u) /\ (tasks' = (tasks \ {t}) \cup {v} \/ tasks' = (tasks \ {t}) \cup {})
  BY DEF Proceed, Replace
<1> HIDE DEF u, v
<1>6. CASE tasks' = (tasks \ {t}) \cup {u} /\ UNCHANGED row
  BY <1>2, <1>6, SteadyRows DEF Recorded
<1>7. CASE Outcome(u) /\ (tasks' = (tasks \ {t}) \cup {v} \/ tasks' = (tasks \ {t}) \cup {})
  <2>1. RowTypes' /\ RowsKept /\ Recorded(t.run, last)
    BY <1>1, <1>4, <1>7, OutcomeFacts
  <2>2. QED
    BY <1>3, <1>7, <2>1
<1>8. QED
  BY <1>5, <1>6, <1>7

\* What is known of a backup task that the invariant holds of.
LEMMA BackupTask ==
  ASSUME Inv, NEW t \in tasks, t.kind = "backup"
  PROVE  /\ t \in Backup /\ t.run \in Runs /\ t.job \in Jobs /\ t.last \in Results
         /\ t.todo \subseteq Targets /\ t.sent \subseteq Targets /\ Upcoming(t) \subseteq t.todo
         /\ OwnRow(t) /\ OwnTargets(t) /\ Aimed(t) /\ Opened(t) /\ Saved(t)
<1>1. t \in Backup /\ BackupInv(t)
  BY KindFacts DEF Inv, Types, TasksSound, Sound, TaskTypes
<1>2. /\ t.run \in Runs /\ t.job \in Jobs /\ t.last \in Results
      /\ t.todo \subseteq Targets /\ t.sent \subseteq Targets
  BY <1>1 DEF Backup, Results
<1>3. Upcoming(t) \subseteq t.todo
  BY DEF Upcoming
<1>4. QED
  BY <1>1, <1>2, <1>3 DEF BackupInv

\* At most one destination comes next.
LEMMA OneUpcoming ==
  ASSUME NEW t, t.todo \subseteq Targets, OwnTargets(t), NEW x \in Upcoming(t),
         NEW u, u.todo = t.todo
  PROVE  \A y \in Upcoming(u) : y = x
<1>1. \A y \in Upcoming(u) : y \in t.todo /\ y.pos <= x.pos /\ x.pos <= y.pos
  BY DEF Upcoming
<1>2. \A y \in Upcoming(u) : y.pos = x.pos
  BY <1>1 DEF Targets, Upcoming
<1>3. QED
  BY <1>1, <1>2 DEF OwnTargets, Upcoming

\* The backup goes on to the next destination, or ends, with the result last.
LEMMA ProceedInv ==
  ASSUME Inv, NEW t \in tasks, t.kind = "backup", t.phase \in {"init", "save"}, NEW x,
         NEW last \in Results, Proceed(t, x, last),
         UNCHANGED config, UNCHANGED verified, UNCHANGED moved, UNCHANGED events \/ Event,
         StorageTypes', OwnRepositories', CopiesKept, Grown, excused' \subseteq Runs,
         last \notin Dests => t.run \in excused',
         (last \in Dests /\ t.run \notin moved' /\ row'[t.run].status # "deleted") => Stored(t.run, last)'
  PROVE  Inv'
<1>a. Types /\ ConfigTypes /\ StorageTypes /\ RowTypes /\ TaskTypes /\ HistoryTypes
  BY DEF Inv, Types
<1>b. UNCHANGED listed /\ UNCHANGED suffix /\ UNCHANGED place
  BY DEF config
<1>1. ConfigTypes' /\ Noted
  BY <1>a, SteadyConfig
<1>2. /\ RowTypes' /\ RowsKept /\ Recorded(t.run, last)
      /\ \A u \in tasks' : u \in tasks \/ GoesOn(u, t, x, last)
  BY <1>a, BackupTask, ProceedFacts
<1>3. TaskTypes' /\ HistoryTypes'
  BY <1>a, <1>2 DEF TaskTypes, AnyTask, HistoryTypes, GoesOn
<1>4. ASSUME NEW u \in tasks', GoesOn(u, t, x, last) PROVE Sound(u)'
  <2>1. /\ u.kind = "backup" /\ u.run = t.run /\ u.job = t.job /\ u.sent = t.sent /\ u.last = last
        /\ u.phase \in {"config", "check"} /\ (u.phase = "config" => u.todo = t.todo \ {x})
        /\ u.todo = t.todo \ {x} \/ u.todo = t.sent
    BY <1>4 DEF GoesOn
  <2>2. OwnRow(t) /\ OwnTargets(t) /\ Aimed(t) /\ t.run \in Runs
    BY BackupTask
  <2>3. OwnRow(u)'
    BY <2>1, <2>2, <1>2 DEF OwnRow, RowsKept
  <2>4. OwnTargets(u)'
    BY <2>1, <2>2 DEF OwnTargets
  <2>5. Aimed(u)'
    BY <2>1, <2>2, <1>b DEF Aimed, Location
  <2>6. Opened(u)' /\ Saved(u)'
    BY <2>1 DEF Opened, Saved
  <2>7. QED
    BY <2>1, <2>3, <2>4, <2>5, <2>6 DEF Sound, BackupInv
<1>5. ASSUME NEW r \in Runs
      PROVE  \/ row'[r].status = row[r].status /\ row'[r].dest = row[r].dest
             \/ row'[r].status \in {"failed", "warning"} /\ r \in excused'
             \/ row'[r].status = "success" /\ (r \notin moved' => Stored(r, row[r].dest)')
  <2>1. CASE row'[r] = row[r]
    BY <2>1
  <2>2. CASE r = t.run /\ last \in Dests /\ row'[r].status = "success" /\ row'[r].dest = last
    BY <2>2 DEF Stored
  <2>3. CASE r = t.run /\ last \notin Dests /\ row'[r].status = "failed"
    BY <2>3
  <2>4. QED
    BY <1>2, <2>1, <2>2, <2>3 DEF Recorded
<1>6. QED
  BY <1>1, <1>2, <1>3, <1>4, <1>5, StepSound DEF Types, Kept

\* What a result stored before the step is worth after it.
LEMMA SavedKept ==
  ASSUME Inv, NEW t \in tasks, t.kind = "backup", RowsKept, CopiesKept, Grown, UNCHANGED config,
         UNCHANGED moved, t.last \in Dests, t.run \notin moved', row'[t.run].status # "deleted"
  PROVE  Stored(t.run, t.last)'
<1>1. Types /\ t.run \in Runs /\ OwnRow(t) /\ Saved(t)
  BY BackupTask DEF Inv
<1>2. UNCHANGED listed /\ UNCHANGED suffix /\ UNCHANGED place
  BY DEF config
<1>3. ConfigKept(row[t.run].job)
  BY <1>2 DEF ConfigKept, Location
<1>4. row[t.run].status # "none" /\ row[t.run].status # "deleted"
  BY <1>1 DEF OwnRow, RowsKept
<1>5. Stored(t.run, t.last)
  BY <1>1, <1>4 DEF Saved
<1>6. QED
  BY <1>1, <1>3, <1>4, <1>5, StoredKept

LEMMA InitRepoInv ==
  ASSUME Inv, NEW t \in tasks, t.kind = "backup", NEW x \in Upcoming(t), InitRepo(t, x)
  PROVE  Inv'
<1>a. Types /\ ConfigTypes /\ StorageTypes /\ RowTypes /\ TaskTypes /\ HistoryTypes /\ OwnRepositories
  BY DEF Inv, Types
<1>b. /\ t \in Backup /\ t.run \in Runs /\ t.job \in Jobs /\ t.last \in Results /\ x \in Targets /\ x \in t.todo
      /\ OwnRow(t) /\ OwnTargets(t) /\ Aimed(t) /\ Saved(t)
  BY BackupTask
<1>c. /\ t.phase = "init"
      /\ excused' = IF Exists(x.at) /\ (Opens(x.at, t.job) \/ x.at.suffix = 0)
                    THEN excused \cup {t.run} ELSE excused
      /\ UNCHANGED config /\ UNCHANGED verified /\ UNCHANGED copies /\ UNCHANGED damaged
      /\ UNCHANGED moved /\ UNCHANGED events
  BY DEF InitRepo
<1>d. x.at \in Locations /\ (x.at.suffix # 0 => x.at.job = t.job)
  BY <1>b DEF Targets, OwnTargets
<1>e. excused \subseteq excused' /\ excused' \subseteq Runs /\ CopiesKept
  BY <1>a, <1>b, <1>c DEF HistoryTypes, CopiesKept
<1>1. CASE Exists(x.at)
  <2>1. Proceed(t, x, t.last) /\ UNCHANGED repo
    BY <1>1 DEF InitRepo
  <2>2. Opens(x.at, t.job) \/ x.at.suffix = 0
    BY <1>1, <1>a, <1>d DEF Exists, Opens, OwnRepositories
  <2>3. Grown /\ StorageTypes' /\ OwnRepositories'
    BY <1>a, <1>c, <1>e, <2>1 DEF Grown, StorageTypes, OwnRepositories
  <2>4. RowsKept
    BY <1>a, <1>b, <1>c, <2>1, ProceedFacts
  <2>5. (t.last \in Dests /\ t.run \notin moved' /\ row'[t.run].status # "deleted") => Stored(t.run, t.last)'
    BY <1>c, <1>e, <2>3, <2>4, SavedKept
  <2>6. t.run \in excused'
    BY <1>c, <1>1, <2>2
  <2>7. QED
    BY <1>b, <1>c, <1>e, <2>1, <2>3, <2>5, <2>6, ProceedInv
<1>2. CASE ~Exists(x.at)
  <2> DEFINE u == [t EXCEPT !.phase = "save"]
  <2>1. /\ repo' = repo \cup {<<x.at, t.job>>} /\ tasks' = (tasks \ {t}) \cup {u} /\ UNCHANGED row
    BY <1>2 DEF InitRepo, Replace
  <2>2. /\ u \in Backup /\ u.kind = "backup" /\ u.run = t.run /\ u.job = t.job /\ u.phase = "save"
        /\ u.todo = t.todo /\ u.sent = t.sent /\ u.last = t.last
    BY <1>b DEF Backup
  <2> HIDE DEF u
  <2>3. Grown /\ StorageTypes' /\ OwnRepositories'
    BY <1>a, <1>b, <1>c, <1>d, <1>e, <2>1 DEF Grown, StorageTypes, OwnRepositories
  <2>4. RowTypes' /\ RowsKept /\ ConfigTypes' /\ Noted
    BY <1>a, <1>c, <2>1, SteadyRows, SteadyConfig
  <2>5. TaskTypes' /\ HistoryTypes'
    BY <1>a, <1>b, <1>c, <1>e, <2>1, <2>2 DEF TaskTypes, AnyTask, HistoryTypes
  <2>6. Kept
    BY <1>e, <2>3, <2>4 DEF Kept
  <2>7. OwnRow(t)' /\ OwnTargets(t)' /\ Aimed(t)' /\ Saved(t)'
    BY <1>b, <2>6, SoundKept DEF Sound, BackupInv, Backup
  <2>8. OwnRow(u)' /\ OwnTargets(u)' /\ Aimed(u)' /\ Saved(u)'
    BY <1>c, <2>2, <2>7 DEF OwnRow, OwnTargets, Aimed, Saved
  <2>9. Opened(u)'
    <3>1. \A y \in Upcoming(u) : y = x
      BY <1>b, <2>2, OneUpcoming, BackupTask
    <3>2. <<x.at, u.job>> \in repo'
      BY <2>1, <2>2
    <3>3. QED
      BY <3>1, <3>2 DEF Opened, Opens
  <2>10. Sound(u)'
    BY <2>2, <2>8, <2>9 DEF Sound, BackupInv
  <2>11. QED
    BY <1>a, <2>1, <2>3, <2>4, <2>5, <2>6, <2>10, StepSound DEF Types
<1>3. QED
  BY <1>1, <1>2

\* The backup ends before its first destination.
LEMMA AbandonInv ==
  ASSUME Inv, NEW t \in tasks, t.kind = "backup", Outcome(t), Replace(t, {}),
         excused' = excused \cup {t.run},
         UNCHANGED config, UNCHANGED verified, UNCHANGED storage, UNCHANGED moved,
         UNCHANGED events \/ Event
  PROVE  Inv'
<1>a. Types /\ ConfigTypes /\ StorageTypes /\ RowTypes /\ TaskTypes /\ HistoryTypes /\ OwnRepositories
  BY DEF Inv, Types
<1>b. t.run \in Runs /\ t.last \in Results /\ row[t.run].status # "none"
  BY BackupTask DEF OwnRow
<1>1. ConfigTypes' /\ Noted
  BY <1>a, SteadyConfig
<1>2. StorageTypes' /\ OwnRepositories' /\ CopiesKept /\ UNCHANGED repo /\ UNCHANGED damaged
  BY <1>a, SteadyStorage
<1>3. RowTypes' /\ RowsKept /\ Recorded(t.run, t.last)
  BY <1>a, <1>b, OutcomeFacts
<1>4. tasks' \subseteq tasks /\ TaskTypes' /\ HistoryTypes' /\ Grown
  BY <1>a, <1>b, <1>2 DEF Replace, TaskTypes, HistoryTypes, Grown
<1>5. ASSUME NEW r \in Runs
      PROVE  \/ row'[r].status = row[r].status /\ row'[r].dest = row[r].dest
             \/ row'[r].status \in {"failed", "warning"} /\ r \in excused'
             \/ row'[r].status = "success" /\ (r \notin moved' => Stored(r, row[r].dest)')
  <2>1. CASE row'[r] = row[r]
    BY <2>1
  <2>2. CASE r = t.run /\ t.last \in Dests /\ row'[r].status = "success" /\ row'[r].dest = t.last
    <3>1. r \notin moved' => Stored(r, t.last)'
      BY <2>2, <1>2, <1>3, <1>4, SavedKept
    <3>2. QED
      BY <2>2, <3>1 DEF Stored
  <2>3. CASE r = t.run /\ t.last \notin Dests /\ row'[r].status = "failed"
    BY <2>3
  <2>4. QED
    BY <1>3, <2>1, <2>2, <2>3 DEF Recorded
<1>6. QED
  BY <1>1, <1>2, <1>3, <1>4, <1>5, StepSound DEF Types, Kept

LEMMA FetchConfigInv == ASSUME Inv, NEW t \in tasks, t.kind = "backup", FetchConfig(t) PROVE Inv'
<1>a. Types /\ ConfigTypes /\ StorageTypes /\ RowTypes /\ TaskTypes /\ HistoryTypes /\ OwnRepositories
  BY DEF Inv, Types
<1>b. UNCHANGED config /\ UNCHANGED verified /\ UNCHANGED storage /\ UNCHANGED moved /\ UNCHANGED events
  BY DEF FetchConfig
<1>1. CASE Sent(t.job) = {}
  BY <1>1, <1>b, AbandonInv DEF FetchConfig
<1>2. CASE Sent(t.job) # {}
  <2>u. PICK u : u = [t EXCEPT !.phase = "config", !.todo = Fetched(t.job), !.sent = Fetched(t.job)]
    OBVIOUS
  <2>1. tasks' = (tasks \ {t}) \cup {u} /\ UNCHANGED row /\ UNCHANGED excused
    BY <1>2, <2>u DEF FetchConfig, Replace
  <2>2. t \in Backup /\ t.run \in Runs /\ t.job \in Jobs /\ OwnRow(t) /\ Saved(t)
    BY BackupTask
  <2>3. Fetched(t.job) \subseteq Targets
    BY <1>a, <2>2, FetchedFacts
  <2>4. /\ u \in Backup /\ u.kind = "backup" /\ u.run = t.run /\ u.job = t.job /\ u.phase = "config"
        /\ u.todo = Fetched(t.job) /\ u.sent = Fetched(t.job) /\ u.last = t.last
    BY <2>u, <2>2, <2>3 DEF Backup
  <2>5. RowTypes' /\ TaskTypes'
    BY <1>a, <1>b, <2>1, <2>4, SteadyRows DEF TaskTypes, AnyTask
  <2>6. OwnRow(u)' /\ OwnTargets(u)' /\ Opened(u)'
    <3>1. OwnRow(u)' /\ Opened(u)'
      BY <2>1, <2>2, <2>4 DEF OwnRow, Opened
    <3>2. OwnTargets(u)
      BY <1>a, <2>2, <2>4, FetchedFacts DEF OwnTargets
    <3>3. QED
      BY <3>1, <3>2 DEF OwnTargets
  <2>7. Aimed(u)'
    <3>1. UNCHANGED listed /\ UNCHANGED suffix /\ UNCHANGED place
      BY <1>b DEF config
    <3>2. \A x \in u.todo : /\ x.at = Location(t.job, x.dest)
                            /\ x.dest \in ToSet(listed[t.job]) /\ place[x.dest] # 0
      BY <1>a, <2>2, <2>4, FetchedFacts
    <3>3. QED
      BY <3>1, <3>2, <2>4 DEF Aimed, Location
  <2>8. Saved(u)'
    <3>1. Saved(t)'
      <4>1. RowsKept /\ CopiesKept /\ Grown /\ Noted
        BY <1>a, <1>b, <2>1, SteadyRows, SteadyStorage, SteadyConfig DEF Grown
      <4>2. QED
        BY <4>1, SoundKept, <2>2 DEF Kept, Sound, BackupInv, Backup
    <3>2. QED
      BY <3>1, <2>4 DEF Saved
  <2>9. Sound(u)'
    BY <2>4, <2>6, <2>7, <2>8 DEF Sound, BackupInv
  <2>10. QED
    BY <1>a, <1>b, <2>1, <2>5, <2>9, SteadyInv DEF HistoryTypes
<1>3. QED
  BY <1>1, <1>2

LEMMA FetchFailsInv == ASSUME Inv, NEW t \in tasks, t.kind = "backup", FetchFails(t) PROVE Inv'
  BY AbandonInv DEF FetchFails

LEMMA FailsEvents ==
  ASSUME NEW l, NEW t, Fails(l, t)
  PROVE  UNCHANGED events \/ Event
  BY DEF Fails

LEMMA CatConfigInv ==
  ASSUME Inv, NEW t \in tasks, t.kind = "backup", NEW x \in Upcoming(t), CatConfig(t, x)
  PROVE  Inv'
<1>a. Types /\ ConfigTypes /\ StorageTypes /\ RowTypes /\ TaskTypes /\ HistoryTypes /\ OwnRepositories
  BY DEF Inv, Types
<1>b. /\ t \in Backup /\ t.run \in Runs /\ t.job \in Jobs /\ x \in t.todo
      /\ t.todo \subseteq Targets
      /\ OwnRow(t) /\ OwnTargets(t) /\ Aimed(t) /\ Saved(t)
  BY BackupTask
<1>p. PICK phase \in {"save", "init"} :
        /\ tasks' = (tasks \ {t}) \cup {[t EXCEPT !.phase = phase]}
        /\ phase = "save" => Opens(x.at, t.job)
  BY DEF CatConfig, Replace
<1>u. PICK u :
        /\ u = [t EXCEPT !.phase = phase] /\ tasks' = (tasks \ {t}) \cup {u}
        /\ phase = "save" => Opens(x.at, t.job)
  BY <1>p
<1>c. /\ t.phase = "config" /\ tasks' = (tasks \ {t}) \cup {u}
      /\ UNCHANGED config /\ UNCHANGED row /\ UNCHANGED verified /\ UNCHANGED storage
      /\ UNCHANGED moved /\ UNCHANGED excused /\ (UNCHANGED events \/ Event)
  BY <1>u, FailsEvents DEF CatConfig
<1>1. /\ u \in Backup /\ u.kind = "backup" /\ u.run = t.run /\ u.job = t.job
      /\ u.todo = t.todo /\ u.sent = t.sent /\ u.last = t.last
      /\ u.phase = phase
  BY <1>u, <1>b DEF Backup
<1>2. RowTypes' /\ TaskTypes'
  BY <1>a, <1>c, <1>1, SteadyRows DEF TaskTypes, AnyTask
<1>3. OwnRow(t)' /\ OwnTargets(t)' /\ Aimed(t)' /\ Saved(t)'
  <2>1. RowsKept /\ CopiesKept /\ Grown /\ Noted
    BY <1>a, <1>c, SteadyRows, SteadyStorage, SteadyConfig DEF Grown
  <2>2. QED
    BY <2>1, SoundKept, <1>b DEF Kept, Sound, BackupInv, Backup
<1>4. OwnRow(u)' /\ OwnTargets(u)' /\ Aimed(u)' /\ Saved(u)'
  BY <1>c, <1>1, <1>3 DEF OwnRow, OwnTargets, Aimed, Saved
<1>5. Opened(u)'
  <2>1. \A y \in Upcoming(u) : y = x
    BY <1>b, <1>1, OneUpcoming
  <2>2. u.phase = "save" => <<x.at, u.job>> \in repo'
    BY <1>u, <1>c, <1>1 DEF Opens, storage
  <2>3. QED
    BY <2>1, <2>2 DEF Opened, Opens
<1>6. Sound(u)'
  BY <1>1, <1>4, <1>5 DEF Sound, BackupInv
<1>7. QED
  BY <1>a, <1>c, <1>2, <1>6, SteadyInv DEF HistoryTypes

LEMMA SaveInv ==
  ASSUME Inv, NEW t \in tasks, t.kind = "backup", NEW x \in Upcoming(t), Save(t, x)
  PROVE  Inv'
<1>a. Types /\ ConfigTypes /\ StorageTypes /\ RowTypes /\ TaskTypes /\ HistoryTypes /\ OwnRepositories
  BY DEF Inv, Types
<1>b. /\ t.run \in Runs /\ t.job \in Jobs /\ x \in Targets /\ x \in t.todo
      /\ OwnRow(t) /\ Aimed(t) /\ Opened(t)
  BY BackupTask
<1>c. /\ t.phase = "save" /\ Proceed(t, x, x.dest)
      /\ UNCHANGED config /\ UNCHANGED verified /\ UNCHANGED repo /\ UNCHANGED damaged
      /\ UNCHANGED moved /\ UNCHANGED excused /\ UNCHANGED events
  BY DEF Save
<1>d. x.dest \in Dests /\ x.at \in Locations /\ x.dest \in Results
  BY <1>b DEF Targets, Results
<1> DEFINE made == [run |-> t.run, id |-> x.dest, at |-> x.at, live |-> TRUE]
<1>1. PICK old \in SUBSET {c \in copies : c.at = x.at /\ c.live} :
        copies' = (copies \ old) \cup {[c EXCEPT !.live = FALSE] : c \in old} \cup {made}
  BY DEF Save
<1>2. made \in Copies /\ made.run = t.run /\ made.id = x.dest /\ made.at = x.at
  BY <1>b, <1>d DEF Copies
<1> HIDE DEF made
<1>3. \A c \in old : /\ [c EXCEPT !.live = FALSE] \in Copies
                     /\ [c EXCEPT !.live = FALSE].run = c.run
                     /\ [c EXCEPT !.live = FALSE].id = c.id
                     /\ [c EXCEPT !.live = FALSE].at = c.at
  BY <1>a DEF StorageTypes, Copies
<1>4. StorageTypes' /\ OwnRepositories'
  BY <1>a, <1>c, <1>1, <1>2, <1>3 DEF StorageTypes, OwnRepositories
<1>5. CopiesKept /\ Grown
  <2>1. ASSUME NEW c \in copies PROVE \E k \in copies' : k.run = c.run /\ k.id = c.id /\ k.at = c.at
    <3>1. CASE c \in old
      <4>1. [c EXCEPT !.live = FALSE] \in copies'
        BY <3>1, <1>1
      <4>2. QED
        BY <3>1, <4>1, <1>3
    <3>2. CASE c \notin old
      BY <3>2, <1>1
    <3>3. QED
      BY <3>1, <3>2
  <2>2. QED
    BY <2>1, <1>c DEF CopiesKept, Grown
<1>6. ASSUME t.run \notin moved' PROVE Stored(t.run, x.dest)'
  <2>1. RowsKept
    BY <1>a, <1>b, <1>c, <1>d, ProceedFacts
  <2>2. row'[t.run].job = t.job
    BY <1>b, <2>1 DEF RowsKept, OwnRow
  <2>3. UNCHANGED listed /\ UNCHANGED suffix /\ UNCHANGED place
    BY <1>c DEF config
  <2>4. x.at = Location(t.job, x.dest) /\ x.dest \in ToSet(listed[t.job]) /\ place[x.dest] # 0
    BY <1>6, <1>b, <1>c DEF Aimed
  <2>5. x.at = Location(t.job, x.dest)'
    BY <2>3, <2>4 DEF Location
  <2>6. Opens(x.at, t.job)'
    BY <1>b, <1>c DEF Opened, Opens
  <2>7. made \in copies'
    BY <1>1
  <2>8. QED
    BY <1>2, <2>2, <2>3, <2>4, <2>5, <2>6, <2>7 DEF Stored
<1>7. HistoryTypes'
  BY <1>a, <1>c DEF HistoryTypes
<1>8. QED
  BY <1>c, <1>d, <1>4, <1>5, <1>6, <1>7, ProceedInv DEF HistoryTypes

LEMMA StepFailsInv ==
  ASSUME Inv, NEW t \in tasks, t.kind = "backup", NEW x \in Upcoming(t), StepFails(t, x)
  PROVE  Inv'
<1>a. Types /\ StorageTypes /\ RowTypes /\ TaskTypes /\ HistoryTypes /\ OwnRepositories
  BY DEF Inv, Types
<1>u. PICK last : last = IF t.phase = "save" THEN "failed" ELSE t.last
  OBVIOUS
<1>b. /\ t.phase \in {"init", "save"} /\ Proceed(t, x, last)
      /\ excused' = excused \cup {t.run}
      /\ UNCHANGED config /\ UNCHANGED verified /\ UNCHANGED storage /\ UNCHANGED moved
      /\ UNCHANGED events \/ Event
  BY <1>u, FailsEvents DEF StepFails
<1>c. t.run \in Runs /\ last \in Results /\ OwnRow(t) /\ (last \in Dests => last = t.last)
  BY <1>u, BackupTask, RecoveryAssumption DEF Results
<1>1. StorageTypes' /\ OwnRepositories' /\ CopiesKept /\ UNCHANGED repo /\ UNCHANGED damaged
  BY <1>a, <1>b, SteadyStorage
<1>2. Grown /\ excused' \subseteq Runs /\ t.run \in excused'
  BY <1>a, <1>b, <1>c, <1>1 DEF Grown, HistoryTypes
<1>3. RowsKept
  BY <1>a, <1>b, <1>c, ProceedFacts
<1>4. (last \in Dests /\ t.run \notin moved' /\ row'[t.run].status # "deleted") => Stored(t.run, last)'
  <2> SUFFICES ASSUME last \in Dests, t.run \notin moved', row'[t.run].status # "deleted"
               PROVE  Stored(t.run, last)'
    OBVIOUS
  <2>1. Stored(t.run, t.last)'
    BY <1>b, <1>c, <1>1, <1>2, <1>3, SavedKept
  <2>2. QED
    BY <1>c, <2>1
<1>5. QED
  BY <1>b, <1>c, <1>1, <1>2, <1>4, ProceedInv

-----------------------------------------------------------------------------
(* Links, checks and the other requests.                                   *)

LEMMA CutLinksFacts ==
  ASSUME NEW rest, NEW S, CutLinks(rest, S)
  PROVE  \A u \in tasks' : \E t \in rest : u = t \/ u = [t EXCEPT !.linked = FALSE]
  BY DEF CutLinks

\* What a cut leaves of tasks is typed.
LEMMA CutTypes ==
  ASSUME TaskTypes, NEW rest \in SUBSET tasks, NEW S, CutLinks(rest, S)
  PROVE  /\ TaskTypes'
         /\ \A u \in tasks' : u \in tasks \/ \E t \in tasks : u = [t EXCEPT !.linked = FALSE]
<1>1. \A u \in tasks' : u \in tasks \/ \E t \in tasks : u = [t EXCEPT !.linked = FALSE]
  BY CutLinksFacts
<1>2. \A u \in tasks' : u \in AnyTask
  BY <1>1, UnlinkedTask DEF TaskTypes
<1>3. QED
  BY <1>1, <1>2 DEF TaskTypes

\* The task that goes on checking is as sound as it was.
LEMMA CheckTask ==
  ASSUME Inv, NEW t \in tasks, t.kind = "backup", t.phase = "check", NEW x,
         NEW u, u = [t EXCEPT !.todo = @ \ {x}], RowsKept, CopiesKept, Grown, Noted
  PROVE  u \in Backup /\ Sound(u)'
<1>1. t \in Backup /\ OwnRow(t)' /\ OwnTargets(t)' /\ Saved(t)'
  BY BackupTask, SoundKept DEF Kept, Sound, BackupInv
<1>2. /\ u \in Backup /\ u.kind = "backup" /\ u.run = t.run /\ u.job = t.job /\ u.phase = "check"
      /\ u.todo = t.todo \ {x} /\ u.sent = t.sent /\ u.last = t.last
  BY <1>1 DEF Backup
<1>3. OwnRow(u)' /\ OwnTargets(u)' /\ Saved(u)'
  BY <1>1, <1>2 DEF OwnRow, OwnTargets, Saved
<1>4. Aimed(u)' /\ Opened(u)'
  BY <1>2 DEF Aimed, Opened
<1>5. QED
  BY <1>2, <1>3, <1>4 DEF Sound, BackupInv

LEMMA CheckInv ==
  ASSUME Inv, NEW t \in tasks, t.kind = "backup", NEW x \in Upcoming(t), Check(t, x)
  PROVE  Inv'
<1>u. PICK u : u = [t EXCEPT !.todo = @ \ {x}]
  OBVIOUS
<1>l. PICK left : left = (tasks \ {t}) \cup (IF u.todo = {} THEN {} ELSE {u})
  OBVIOUS
<1>a. Types /\ ConfigTypes /\ StorageTypes /\ RowTypes /\ TaskTypes /\ HistoryTypes /\ OwnRepositories
  BY DEF Inv, Types
<1>b. /\ t.phase = "check"
      /\ UNCHANGED config /\ UNCHANGED verified /\ UNCHANGED storage /\ UNCHANGED moved
      /\ \/ CutLinks(left, left) /\ UNCHANGED row /\ UNCHANGED excused /\ UNCHANGED events
         \/ tasks' = left /\ UNCHANGED row /\ UNCHANGED excused /\ UNCHANGED events
         \/ /\ tasks' = left /\ Fails(x.at, t) /\ excused' = excused \cup {t.run}
            /\ row' = IF t.linked /\ row[t.run].status = "success"
                      THEN [row EXCEPT ![t.run].status = "warning"] ELSE row
  BY <1>u, <1>l DEF Check
<1>c. t.run \in Runs /\ row[t.run] \in Row /\ row[t.run].status # "none"
  BY <1>a, BackupTask DEF RowTypes, OwnRow
<1>1. left \subseteq tasks \cup {u}
  BY <1>l
<1>2. UNCHANGED events \/ Event
  BY <1>b, FailsEvents
<1>3. ConfigTypes' /\ Noted
  BY <1>a, <1>b, <1>2, SteadyConfig
<1>4. StorageTypes' /\ OwnRepositories' /\ CopiesKept /\ UNCHANGED repo /\ UNCHANGED damaged
  BY <1>a, <1>b, SteadyStorage
<1>5. HistoryTypes' /\ Grown
  BY <1>a, <1>b, <1>c, <1>4 DEF HistoryTypes, Grown
<1>6. /\ RowTypes' /\ RowsKept
      /\ \A r \in Runs : \/ row'[r].status = row[r].status /\ row'[r].dest = row[r].dest
                         \/ row'[r].status = "warning" /\ r \in excused'
  <2>1. CASE UNCHANGED row
    BY <1>a, <1>b, <2>1, SteadyRows
  <2>2. CASE /\ excused' = excused \cup {t.run}
             /\ row' = [row EXCEPT ![t.run].status = "warning"] /\ row[t.run].status = "success"
    <3> DEFINE new == [row[t.run] EXCEPT !.status = "warning"]
    <3>1. new \in Row /\ new.status = "warning" /\ new.job = row[t.run].job
      BY <1>c DEF Row
    <3>2. row' = [row EXCEPT ![t.run] = new]
      BY <2>2
    <3> HIDE DEF new
    <3>3. row'[t.run] = new /\ \A q \in Runs \ {t.run} : row'[q] = row[q]
      BY <1>a, <1>c, <3>2 DEF RowTypes
    <3>4. row' \in [Runs -> Row]
      BY <1>a, <3>1, <3>2 DEF RowTypes
    <3>5. RowTypes' /\ RowsKept
      BY <1>a, <1>b, <1>c, <2>2, <3>1, <3>3, <3>4 DEF RowTypes, RowsKept
    <3>6. QED
      BY <2>2, <3>1, <3>3, <3>5
  <2>3. QED
    BY <1>b, <2>1, <2>2
<1>7. u \in Backup /\ Sound(u)'
  BY <1>u, <1>b, <1>3, <1>4, <1>5, <1>6, CheckTask
<1>8. ASSUME NEW v \in tasks'
      PROVE  /\ v \in AnyTask
             /\ v \in tasks \/ (\E s \in tasks : v = [s EXCEPT !.linked = FALSE]) \/ Sound(v)'
  <2>1. (v \in tasks \/ v = u) \/ \E s \in tasks \cup {u} : v = [s EXCEPT !.linked = FALSE]
    BY <1>b, <1>1, CutLinksFacts
  <2>2. tasks \subseteq AnyTask /\ u \in AnyTask
    BY <1>a, <1>7 DEF TaskTypes, AnyTask
  <2>3. QED
    BY <1>7, <2>1, <2>2, UnlinkedTask
<1>9. TaskTypes'
  BY <1>8 DEF TaskTypes
<1>10. QED
  BY <1>b, <1>3, <1>4, <1>5, <1>6, <1>8, <1>9, StepSound DEF Types, Kept

\* The verification goes on without x; what has gone bad stays bad.
LEMMA VerifyNextInv ==
  ASSUME Inv, NEW t \in tasks, t.kind = "verify", NEW x \in Upcoming(t), VerifyNext(t, x)
  PROVE  Inv'
<1>a. Types /\ StorageTypes /\ RowTypes /\ TaskTypes /\ HistoryTypes
  BY DEF Inv, Types
<1>u. PICK u : /\ tasks' = (tasks \ {t}) \cup {u}
               /\ \/ /\ u = [t EXCEPT !.todo = @ \ {x}, !.begun = TRUE, !.bad = t.bad]
                     /\ x.at \notin damaged
                  \/ u = [t EXCEPT !.todo = @ \ {x}, !.begun = TRUE, !.bad = TRUE]
  <2> DEFINE v == [t EXCEPT !.todo = @ \ {x}, !.begun = TRUE]
  <2>1. t \in Verify
    BY <1>a, KindFacts DEF TaskTypes
  <2>2. /\ [v EXCEPT !.bad = AnyError(@, FALSE)] = [t EXCEPT !.todo = @ \ {x}, !.begun = TRUE, !.bad = t.bad]
        /\ [v EXCEPT !.bad = AnyError(@, TRUE)] = [t EXCEPT !.todo = @ \ {x}, !.begun = TRUE, !.bad = TRUE]
    BY <2>1 DEF Verify, AnyError
  <2>3. \/ /\ tasks' = (tasks \ {t}) \cup {[v EXCEPT !.bad = AnyError(@, FALSE)]} /\ x.at \notin damaged
        \/ tasks' = (tasks \ {t}) \cup {[v EXCEPT !.bad = AnyError(@, TRUE)]}
    BY DEF VerifyNext, Replace
  <2>4. QED
    BY <2>2, <2>3
<1>b. /\ UNCHANGED config /\ UNCHANGED row /\ UNCHANGED verified /\ UNCHANGED storage
      /\ UNCHANGED moved /\ UNCHANGED excused
      /\ UNCHANGED events \/ Event
  BY FailsEvents DEF VerifyNext
<1>1. t \in Verify /\ VerifyInv(t)
  BY <1>a, KindFacts DEF Inv, TaskTypes, TasksSound, Sound
<1>2. /\ u \in Verify /\ u.kind = "verify" /\ u.sick = t.sick /\ u.todo = t.todo \ {x}
      /\ (u.bad = t.bad /\ x.at \notin damaged) \/ u.bad = TRUE
  <2>1. CASE u = [t EXCEPT !.todo = @ \ {x}, !.begun = TRUE, !.bad = t.bad] /\ x.at \notin damaged
    BY <1>1, <2>1 DEF Verify
  <2>2. CASE u = [t EXCEPT !.todo = @ \ {x}, !.begun = TRUE, !.bad = TRUE]
    BY <1>1, <2>2 DEF Verify
  <2>3. QED
    BY <1>u, <2>1, <2>2
<1>3. VerifyInv(u)
  <2>1. CASE u.bad = TRUE
    BY <1>1, <1>2, <2>1 DEF VerifyInv
  <2>2. CASE u.bad = t.bad /\ x.at \notin damaged
    BY <1>1, <1>2, <2>2 DEF VerifyInv
  <2>3. QED
    BY <1>2, <2>1, <2>2
<1>4. Sound(u)'
  BY <1>b, <1>2, <1>3 DEF Sound, VerifyInv, storage
<1>5. RowTypes' /\ TaskTypes'
  BY <1>a, <1>b, <1>u, <1>2, SteadyRows DEF TaskTypes, AnyTask
<1>6. QED
  BY <1>a, <1>b, <1>u, <1>4, <1>5, SteadyInv DEF HistoryTypes

LEMMA VerifyDoneInv == ASSUME Inv, NEW t \in tasks, t.kind = "verify", VerifyDone(t) PROVE Inv'
<1>a. Types /\ RowTypes /\ TaskTypes /\ HistoryTypes
  BY DEF Inv, Types
<1>b. /\ verified' = verified \/ \E v \in {"failed", "passed"} : verified' = [verified EXCEPT ![t.job] = v]
      /\ tasks' \subseteq tasks
      /\ UNCHANGED config /\ UNCHANGED row /\ UNCHANGED storage
      /\ UNCHANGED moved /\ UNCHANGED excused /\ UNCHANGED events
  BY DEF VerifyDone, Replace
<1>1. RowTypes' /\ TaskTypes'
  BY <1>a, <1>b DEF RowTypes, TaskTypes
<1>2. QED
  BY <1>a, <1>b, <1>1, SteadyInv DEF HistoryTypes

LEMMA RestoreDoneInv == ASSUME Inv, NEW t \in tasks, RestoreDone(t) PROVE Inv'
<1>a. Types /\ RowTypes /\ TaskTypes /\ HistoryTypes
  BY DEF Inv, Types
<1>b. /\ CutLinks(tasks \ {t}, tasks \ {t}) \/ tasks' = tasks \ {t}
      /\ UNCHANGED config /\ UNCHANGED row /\ UNCHANGED verified /\ UNCHANGED storage
      /\ UNCHANGED moved /\ UNCHANGED excused /\ UNCHANGED events
  BY DEF RestoreDone, Replace
<1>1. /\ TaskTypes'
      /\ \A u \in tasks' : u \in tasks \/ \E s \in tasks : u = [s EXCEPT !.linked = FALSE]
  BY <1>a, <1>b, CutTypes DEF TaskTypes
<1>2. RowTypes'
  BY <1>a, <1>b, SteadyRows
<1>3. QED
  BY <1>a, <1>b, <1>1, <1>2, SteadyInv DEF HistoryTypes

\* A snapshot is forgotten only when its row is deleted, which frees nobody's copy.
LEMMA ForgetDoneInv == ASSUME Inv, NEW t \in tasks, t.kind = "forget", ForgetDone(t) PROVE Inv'
<1>a. Types /\ ConfigTypes /\ StorageTypes /\ RowTypes /\ TaskTypes /\ HistoryTypes /\ OwnRepositories
  BY DEF Inv, Types
<1>b. /\ copies' \subseteq copies /\ \A c \in copies : c \in copies' \/ c.run = t.run
      /\ tasks' \subseteq tasks
      /\ UNCHANGED config /\ UNCHANGED row /\ UNCHANGED verified /\ UNCHANGED repo /\ UNCHANGED damaged
      /\ UNCHANGED moved /\ UNCHANGED excused /\ UNCHANGED events
  BY DEF ForgetDone, Replace
<1>1. row[t.run].status = "deleted"
  BY DEF Inv, TasksSound, Sound, ForgetInv
<1>2. CopiesKept
  BY <1>b, <1>1 DEF CopiesKept
<1>3. ConfigTypes' /\ Noted
  BY <1>a, <1>b, SteadyConfig
<1>4. StorageTypes' /\ OwnRepositories'
  BY <1>a, <1>b DEF StorageTypes, OwnRepositories
<1>5. RowTypes' /\ RowsKept
  BY <1>a, <1>b, SteadyRows
<1>6. TaskTypes' /\ HistoryTypes' /\ Grown
  BY <1>a, <1>b DEF TaskTypes, HistoryTypes, Grown
<1>7. QED
  BY <1>b, <1>2, <1>3, <1>4, <1>5, <1>6, StepSound DEF Types, Kept

LEMMA LoseLinkInv == ASSUME Inv, NEW a \in Agents, LoseLink(a) \/ ExitAgent(a) PROVE Inv'
<1>a. Types /\ RowTypes /\ TaskTypes /\ HistoryTypes
  BY DEF Inv, Types
<1>b. /\ CutLinks(tasks, TasksOf(a)) \/ tasks' \subseteq tasks
      /\ UNCHANGED config /\ UNCHANGED row /\ UNCHANGED verified /\ UNCHANGED storage
      /\ UNCHANGED moved /\ UNCHANGED excused /\ Event
  BY DEF LoseLink, ExitAgent
<1>1. /\ TaskTypes'
      /\ \A u \in tasks' : u \in tasks \/ \E s \in tasks : u = [s EXCEPT !.linked = FALSE]
  BY <1>a, <1>b, CutTypes DEF TaskTypes
<1>2. RowTypes'
  BY <1>a, <1>b, SteadyRows
<1>3. QED
  BY <1>a, <1>b, <1>1, <1>2, SteadyInv DEF HistoryTypes

LEMMA DamageInv == ASSUME Inv, Damage PROVE Inv'
<1>a. Types /\ ConfigTypes /\ StorageTypes /\ RowTypes /\ TaskTypes /\ HistoryTypes /\ OwnRepositories
  BY DEF Inv, Types
<1>b. /\ \E x \in repo : damaged' = damaged \cup {x[1]}
      /\ UNCHANGED config /\ UNCHANGED row /\ UNCHANGED verified /\ UNCHANGED repo /\ UNCHANGED copies
      /\ UNCHANGED tasks /\ UNCHANGED moved /\ UNCHANGED excused /\ Event
  BY DEF Damage
<1>1. ConfigTypes' /\ Noted
  BY <1>a, <1>b, SteadyConfig
<1>2. StorageTypes' /\ OwnRepositories' /\ CopiesKept
  BY <1>a, <1>b DEF StorageTypes, OwnRepositories, CopiesKept
<1>3. RowTypes' /\ RowsKept
  BY <1>a, <1>b, SteadyRows
<1>4. TaskTypes' /\ HistoryTypes' /\ Grown
  BY <1>a, <1>b DEF TaskTypes, HistoryTypes, Grown
<1>5. QED
  BY <1>b, <1>1, <1>2, <1>3, <1>4, StepSound DEF Types, Kept

-----------------------------------------------------------------------------
(* The invariant.                                                          *)

LEMMA InitInv == ASSUME Init PROVE Inv
<1>1. ConfigTypes
  <2>1. listed \in [Jobs -> Lists] /\ events \in 0..MaxEvents
    BY RecoveryAssumption DEF Init
  <2>2. suffix \in [Jobs -> 0..1]
    BY RecoveryAssumption DEF Init
  <2>3. QED
    BY <2>1, <2>2 DEF Init, ConfigTypes, Counted
<1>2. StorageTypes /\ OwnRepositories
  BY DEF Init, StorageTypes, OwnRepositories
<1>3. RowTypes
  <2>1. [status |-> "none", job |-> 0, dest |-> NoDest] \in Row
    BY RecoveryAssumption DEF Row
  <2>2. QED
    BY <2>1 DEF Init, RowTypes
<1>4. TaskTypes /\ HistoryTypes /\ TasksSound
  BY DEF Init, TaskTypes, HistoryTypes, TasksSound
<1>5. RowsStored /\ FailsForAReason
  BY DEF Init, RowsStored, FailsForAReason
<1>6. QED
  BY <1>1, <1>2, <1>3, <1>4, <1>5 DEF Inv, Types

LEMMA StepInv == ASSUME Inv, NEW t \in tasks, Step(t) PROVE Inv'
<1>1. CASE /\ t.kind = "backup"
           /\ \/ FetchConfig(t) \/ FetchFails(t)
              \/ \E x \in Upcoming(t) : \/ CatConfig(t, x) \/ InitRepo(t, x) \/ Save(t, x)
                                        \/ StepFails(t, x) \/ Check(t, x)
  BY <1>1, FetchConfigInv, FetchFailsInv, CatConfigInv, InitRepoInv, SaveInv, StepFailsInv, CheckInv
<1>2. CASE t.kind = "verify" /\ ((\E x \in Upcoming(t) : VerifyNext(t, x)) \/ VerifyDone(t))
  BY <1>2, VerifyNextInv, VerifyDoneInv
<1>3. CASE t.kind = "restore" /\ RestoreDone(t)
  BY <1>3, RestoreDoneInv
<1>4. CASE t.kind = "forget" /\ ForgetDone(t)
  BY <1>4, ForgetDoneInv
<1>5. QED
  BY <1>1, <1>2, <1>3, <1>4 DEF Step

LEMMA NextInv == ASSUME Inv, [Next]_vars PROVE Inv'
<1>1. CASE \E j \in Jobs : \/ ResetJob(j) \/ RequestVerify(j)
                           \/ \E s \in Lists : EditJob(j, s)
                           \/ \E r \in Runs : RunJob(j, r)
  BY <1>1, ResetJobInv, RequestVerifyInv, EditJobInv, RunJobInv
<1>2. CASE \E d \in Dests : ResetDestination(d) \/ MoveDestination(d)
  BY <1>2, ResetDestinationInv, MoveDestinationInv
<1>3. CASE \E r \in Runs : DeleteSnapshot(r) \/ \E d \in Dests, a \in Agents : RequestRestore(r, d, a)
  BY <1>3, DeleteSnapshotInv, RequestRestoreInv
<1>4. CASE \E t \in tasks : Step(t)
  BY <1>4, StepInv
<1>5. CASE \E a \in Agents : LoseLink(a) \/ ExitAgent(a)
  BY <1>5, LoseLinkInv
<1>6. CASE Damage
  BY <1>6, DamageInv
<1>7. CASE UNCHANGED vars
  <2>1. /\ UNCHANGED config /\ UNCHANGED row /\ UNCHANGED verified /\ UNCHANGED storage
        /\ UNCHANGED tasks /\ UNCHANGED moved /\ UNCHANGED excused /\ UNCHANGED events
    BY <1>7 DEF vars
  <2>2. RowTypes' /\ TaskTypes'
    BY <2>1, SteadyRows DEF Inv, Types, TaskTypes
  <2>3. QED
    BY <2>1, <2>2, SteadyInv DEF Inv, Types, HistoryTypes
<1>8. QED
  BY <1>1, <1>2, <1>3, <1>4, <1>5, <1>6, <1>7 DEF Next

LEMMA Invariant == Spec => []Inv
  BY InitInv, NextInv, PTL DEF Spec

-----------------------------------------------------------------------------
(* The properties.                                                         *)

LEMMA InvTypeOK == ASSUME Inv PROVE TypeOK
<1>1. ConfigTypes /\ StorageTypes /\ RowTypes /\ TaskTypes /\ HistoryTypes
  BY DEF Inv, Types
<1>2. suffix \in [Jobs -> 0..(MaxEvents + 1)] /\ place \in [Dests -> 0..(MaxEvents + 1)]
  BY <1>1, RecoveryAssumption DEF ConfigTypes, Counted
<1>3. QED
  BY <1>1, <1>2
  DEF TypeOK, ConfigTypes, StorageTypes, RowTypes, TaskTypes, AnyTask, HistoryTypes, Copies

\* A stored snapshot that retention has left alone is where its job has it.
LEMMA StoredIsHeld ==
  ASSUME Types, NEW r \in Runs, NEW j, NEW d, j = row[r].job, d = row[r].dest, Stored(r, d), ~Pruned(r)
  PROVE  /\ Opens(Location(j, d), j) /\ Holds(Location(j, d), r, d)
         /\ d \in ToSet(listed[j]) /\ place[d] # 0
<1>1. PICK c \in copies : c.run = r /\ c.id = d /\ c.at = Location(j, d)
  BY DEF Stored
<1>2. c \in Copies /\ c.live = TRUE
  BY <1>1 DEF Types, StorageTypes, Copies, Pruned
<1>3. c = [run |-> r, id |-> d, at |-> Location(j, d), live |-> TRUE]
  BY <1>1, <1>2 DEF Copies
<1>4. QED
  BY <1>1, <1>3 DEF Stored, Holds

\* So it is among what the agent looks through.
LEMMA HeldIsFound ==
  ASSUME Types, NEW r \in Runs, NEW j \in Jobs, NEW d, Opens(Location(j, d), j), Holds(Location(j, d), r, d),
         d \in ToSet(listed[j]), place[d] # 0
  PROVE  Findable(r, d, JobAgent[j])
<1>1. listed[j] \in Lists /\ j \in JobsOf(JobAgent[j])
  BY DEF Types, ConfigTypes, JobsOf
<1>2. PICK i \in DOMAIN listed[j] : listed[j][i] = d
  BY <1>1, ListFacts
<1>3. PICK x : x = [pos |-> i, dest |-> d, at |-> Location(j, d)]
  OBVIOUS
<1>4. x \in Sent(j) /\ x.at = Location(j, d)
  BY <1>2, <1>3 DEF Sent
<1>5. QED
  BY <1>1, <1>4 DEF Findable

LEMMA InvBrowsable == ASSUME Inv PROVE BrowsableUntilMoved
<1> SUFFICES ASSUME NEW r \in Runs, row[r].status = "success", r \notin moved, ~Pruned(r)
             PROVE  Findable(r, row[r].dest, JobAgent[row[r].job])
  BY DEF BrowsableUntilMoved
<1>1. Types /\ row[r].job \in Jobs
  BY DEF Inv, Types, RowTypes
<1>2. Stored(r, row[r].dest)
  BY DEF Inv, RowsStored
<1>3. QED
  BY <1>1, <1>2, StoredIsHeld, HeldIsFound

LEMMA InvRestores == ASSUME Inv PROVE RestoresUnlessShared
<1> SUFFICES ASSUME NEW r \in Runs, row[r].status = "success", r \notin moved, ~Pruned(r), ~Shared(r)
             PROVE  Restores(r, row[r].dest, row[r].dest, JobAgent[row[r].job])
  BY DEF RestoresUnlessShared
<1>1. Types /\ row[r].job \in JobsOf(JobAgent[row[r].job])
  BY DEF Inv, Types, RowTypes, JobsOf
<1>2. Stored(r, row[r].dest)
  BY DEF Inv, RowsStored
<1>3. QED
  BY <1>1, <1>2, StoredIsHeld DEF Restores, Shared

LEMMA InvVerify == ASSUME Inv PROVE VerifyFindsDamage
  BY DEF Inv, TasksSound, Sound, VerifyInv, VerifyFindsDamage

\* Configuration, rows, repositories and goroutines keep their types.
THEOREM TypeCorrect == Spec => []TypeOK
  BY Invariant, InvTypeOK, PTL

\* Over every order of edits, resets, deletions, requests, backups and failures,
\* of any number of jobs that share destinations, a successful row names a
\* snapshot that the agent finds when it is browsed (main.go:586-603).
THEOREM Browsable == Spec => []BrowsableUntilMoved
  BY Invariant, InvBrowsable, PTL

\* No backup of a job that has a suffix fails because of another job's, whatever is
\* shared, edited, reset and moved, and whichever jobs have none (jobs.ts:113-115).
THEOREM FailureHasReason == Spec => []FailsForAReason
  BY Invariant, PTL DEF Inv

\* No verification overlooks a repository that was damaged when it was asked
\* for (main.go:345-357).
THEOREM VerificationFinds == Spec => []VerifyFindsDamage
  BY Invariant, InvVerify, PTL

\* What a successful row names can be restored from the destination that holds it,
\* unless an earlier job of the agent lists that destination (main.go:561-582).
THEOREM Restorable == Spec => []RestoresUnlessShared
  BY Invariant, InvRestores, PTL
=============================================================================
