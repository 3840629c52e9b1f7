----------------------------- MODULE Recovery -----------------------------
(***************************************************************************)
(* What a backup puts into the repositories, and whether it is found again:*)
(* the destinations and the repository suffix of each job, their changes   *)
(* and resets, runBackup over several destinations with the checks after   *)
(* it, deep verification, deletion of snapshots, listing and restore.      *)
(*                                                                         *)
(* restic names a snapshot by a hash: here the run and the destination that*)
(* made it. A repository is where it lies and the job whose password opens *)
(* it; a job keeps its password (KeyRotation). A message and its handler   *)
(* are one step, of a connection that is up or lost (AgentLink). Damage is *)
(* what restic check finds on every run, not bit rot outside its sample.   *)
(* Scheduled backups, whose configuration is older, are JobSync's.         *)
(*                                                                         *)
(* Jobs older than the suffixes have none until their first reset: they    *)
(* all use the path of the destination itself.                             *)
(*                                                                         *)
(* Bound: MaxEvents changes of jobs and destinations, requests other than  *)
(* backups, and failures of a process, a command, a link or a storage.     *)
(***************************************************************************)
EXTENDS Integers, FiniteSets, SequencesExt

CONSTANTS
  Agents,
  NumJobs,     \* jobs, in the order of their rows
  JobAgent,    \* backup_jobs.agent_id
  Dests,
  NoDest,
  TableOrder,  \* the place of each destination in its table
  FirstJobs,   \* the destinations of each job and its suffix, 1, or 0 if it is older
  Runs,        \* ids of snapshots rows
  MaxEvents

Jobs  == 1..NumJobs
Lists == {s \in SeqOf(Dests, Cardinality(Dests)) : s # <<>> /\ IsInjective(s)}

ASSUME RecoveryAssumption ==
  /\ NumJobs \in Nat
  /\ JobAgent \in [Jobs -> Agents]
  /\ TableOrder \in [Dests -> Nat] /\ IsInjective(TableOrder)
  /\ NoDest \notin Dests /\ {"none", "failed"} \cap Dests = {}
  /\ FirstJobs \subseteq [listed : [Jobs -> Lists], suffix : [Jobs -> 0..1]]
  /\ MaxEvents \in Nat

VARIABLES
  listed,    \* database: destination_ids of each job
  suffix,    \* database: restic_repo_suffix, numbered; 0: NULL
  place,     \* database: path of each destination, numbered; 0: deleted
  row,       \* database: snapshots; dest: whose snapshot its restic id names
  verified,  \* database: last_verify_status
  repo,      \* storage: repositories, with the job whose password opens them
  copies,    \* storage: snapshots in repositories; live: not removed by retention
  damaged,   \* storage: repositories that restic check rejects
  tasks,     \* goroutines of the agents, and requests on their way to them
  moved,     \* history: runs whose data may not be where their job looks now
  excused,   \* history: runs that met a failure, a lock, no destination, or on a path
             \* without a suffix a repository that was there already
  events     \* changes, requests and failures so far

config  == <<listed, suffix, place>>
storage == <<repo, copies, damaged>>
vars    == <<config, row, verified, storage, tasks, moved, excused, events>>

\* suffix 0: the path of the destination itself, which is no job's own.
Locations == [dest : Dests, path : 1..(MaxEvents + 1), job : 0..NumJobs, suffix : 0..(MaxEvents + 1)]

\* A destination as the server sent it, with its number in what was sent.
Targets   == [pos : Nat, dest : Dests, at : Locations]

Row == [status : {"none", "running", "success", "failed", "warning", "orphaned", "deleted"},
        job : 0..NumJobs, dest : Dests \cup {NoDest}]

\* last: lastResult of runBackup, by its destination if it is a success.
Backup  == [kind : {"backup"}, run : Runs, job : Jobs, linked : BOOLEAN,
            phase : {"fetch", "config", "init", "save", "check"},
            todo : SUBSET Targets, sent : SUBSET Targets,
            last : Dests \cup {"none", "failed"}]
Verify  == [kind : {"verify"}, job : Jobs, linked : BOOLEAN, begun : BOOLEAN, bad : BOOLEAN,
            todo : SUBSET Targets, sick : SUBSET Locations]
Restore == [kind : {"restore"}, run : Runs, id : Dests, dest : Dests, agent : Agents, linked : BOOLEAN]
Forget  == [kind : {"forget"}, run : Runs, id : Dests, agent : Agents, linked : BOOLEAN]

SharedLocation(j, d) ==     \* mutant: all jobs get one suffix
  [dest |-> d, path |-> place[d], job |-> 1, suffix |-> 1]

\* buildRepoURLAndEnv: the path of the destination and, below it, the job's suffix
\* if it has one.
Location(j, d) ==
  [dest |-> d, path |-> place[d], job |-> IF suffix[j] = 0 THEN 0 ELSE j, suffix |-> suffix[j]]

\* The destinations of a job that still exist, in the order of its list.
Sent(j) ==
  {[pos |-> i, dest |-> listed[j][i], at |-> Location(j, listed[j][i])] :
     i \in {k \in DOMAIN listed[j] : place[listed[j][k]] # 0}}

\* For a backup they are selected from the table, in its order.
Fetched(j) == {[x EXCEPT !.pos = TableOrder[x.dest]] : x \in Sent(j)}

\* The loops over the destinations take them in the order they were sent.
Upcoming(t) == {x \in t.todo : \A y \in t.todo : x.pos <= y.pos}

Opens(l, j)    == <<l, j>> \in repo
Exists(l)      == \E j \in Jobs : Opens(l, j)
Holds(l, r, d) == [run |-> r, id |-> d, at |-> l, live |-> TRUE] \in copies
AgentOf(t)     == IF t.kind \in {"backup", "verify"} THEN JobAgent[t.job] ELSE t.agent
JobsOf(a)      == {j \in Jobs : JobAgent[j] = a}

\* handleListFiles, handleForgetSnapshot: any destination of any job of the agent.
Findable(r, d, a) ==
  \E j \in JobsOf(a) : \E x \in Sent(j) : Opens(x.at, j) /\ Holds(x.at, r, d)

RestoresByLast(r, id, d, a) ==     \* mutant: the loop goes on to the last job that has it
  \E j \in JobsOf(a) :
    /\ d \in ToSet(listed[j]) /\ place[d] # 0
    /\ \A k \in JobsOf(a) : k > j => d \notin ToSet(listed[k])
    /\ Opens(Location(j, d), j) /\ Holds(Location(j, d), r, id)

\* handleRestore: the first job that has the destination, with its password and path.
Restores(r, id, d, a) ==
  \E j \in JobsOf(a) :
    /\ d \in ToSet(listed[j]) /\ place[d] # 0
    /\ \A k \in JobsOf(a) : k < j => d \notin ToSet(listed[k])
    /\ Opens(Location(j, d), j) /\ Holds(Location(j, d), r, id)

\* Another command of restic may hold a lock of the repository.
Locked(l, t) ==
  \E u \in tasks \ {t} : u.kind \in {"backup", "verify"} /\ \E x \in u.todo : x.at = l

Init ==
  /\ \E jobs \in FirstJobs : listed = jobs.listed /\ suffix = jobs.suffix
  /\ place = [d \in Dests |-> 1]
  /\ row = [r \in Runs |-> [status |-> "none", job |-> 0, dest |-> NoDest]]
  /\ verified = [j \in Jobs |-> "never"]
  /\ repo = {} /\ copies = {} /\ damaged = {}
  /\ tasks = {}
  /\ moved = {} /\ excused = {}
  /\ events = 0

Event == events < MaxEvents /\ events' = events + 1

-----------------------------------------------------------------------------
(* Changes of jobs and destinations.                                       *)

RunsOf(j)   == {r \in Runs : row[r].job = j /\ row[r].status # "deleted"}
InFlight(j) == {t.run : t \in {u \in tasks : u.kind = "backup" /\ u.job = j}}
Users(d)    == {j \in Jobs : d \in ToSet(listed[j])}

Orphan(J) == row' = [r \in Runs |-> IF r \in UNION {RunsOf(j) : j \in J}
                                    THEN [row[r] EXCEPT !.status = "orphaned"] ELSE row[r]]

\* PUT /jobs/:id with other destinations: the rows stay as they are.
EditJob(j, s) ==
  /\ Event
  /\ s # listed[j] /\ \A d \in ToSet(s) : place[d] # 0
  /\ listed' = [listed EXCEPT ![j] = s]
  /\ moved' = IF ToSet(listed[j]) \subseteq ToSet(s) THEN moved ELSE moved \cup RunsOf(j) \cup InFlight(j)
  /\ UNCHANGED <<suffix, place, row, verified, storage, tasks, excused>>

\* POST /jobs/:id/reset-repo. A backup under way still goes to the old path, and
\* its outcome overwrites the mark.
ResetUnmarked(j) ==     \* mutant: the rows are not marked
  /\ Event
  /\ suffix' = [suffix EXCEPT ![j] = @ + 1]
  /\ moved' = moved \cup InFlight(j)
  /\ UNCHANGED <<listed, place, row, verified, storage, tasks, excused>>

ResetJob(j) ==
  /\ Event
  /\ suffix' = [suffix EXCEPT ![j] = @ + 1]
  /\ Orphan({j})
  /\ moved' = moved \cup InFlight(j)
  /\ UNCHANGED <<listed, place, verified, storage, tasks, excused>>

\* POST /destinations/:id/reset-repo: the same for every job that lists it.
ResetDestination(d) ==
  /\ Event
  /\ place[d] # 0
  /\ place' = [place EXCEPT ![d] = @ + 1]
  /\ Orphan(Users(d))
  /\ moved' = moved \cup UNION {InFlight(j) : j \in Users(d)}
  /\ UNCHANGED <<listed, suffix, verified, storage, tasks, excused>>

\* PUT /destinations/:id with another path, DELETE /destinations/:id: no row is
\* marked, and the jobs go on listing the id.
MoveDestination(d) ==
  /\ Event
  /\ place[d] # 0
  /\ \E p \in {0, place[d] + 1} : place' = [place EXCEPT ![d] = p]
  /\ moved' = moved \cup UNION {RunsOf(j) \cup InFlight(j) : j \in Users(d)}
  /\ UNCHANGED <<listed, suffix, row, verified, storage, tasks, excused>>

-----------------------------------------------------------------------------
(* Requests of the web UI; sendToAgent has found the agent connected.      *)

RunJob(j, r) ==
  /\ row[r].status = "none"
  /\ row' = [row EXCEPT ![r] = [status |-> "running", job |-> j, dest |-> NoDest]]
  /\ tasks' = tasks \cup {[kind |-> "backup", run |-> r, job |-> j, linked |-> TRUE, phase |-> "fetch",
                           todo |-> {}, sent |-> {}, last |-> "none"]}
  /\ UNCHANGED <<config, verified, storage, moved, excused, events>>

\* The server sends what exists of the destinations, which may be nothing.
RequestVerify(j) ==
  /\ Event
  /\ \A t \in tasks : t.kind = "verify" => t.job # j
  /\ tasks' = tasks \cup {[kind |-> "verify", job |-> j, linked |-> TRUE, begun |-> FALSE, bad |-> FALSE,
                           todo |-> Sent(j),
                           sick |-> {x.at : x \in Sent(j)} \cap damaged]}
  /\ UNCHANGED <<config, row, verified, storage, moved, excused>>

Shown(r) == row[r].status \notin {"none", "deleted"} /\ row[r].dest # NoDest

\* The restore dialog: a destination of the job, by default the first, and an agent.
RequestRestore(r, d, a) ==
  /\ Event
  /\ Shown(r)
  /\ d \in ToSet(listed[row[r].job])
  /\ tasks' = tasks \cup {[kind |-> "restore", run |-> r, id |-> row[r].dest, dest |-> d, agent |-> a,
                           linked |-> TRUE]}
  /\ UNCHANGED <<config, row, verified, storage, moved, excused>>

\* DELETE /snapshots/:id of an unlocked row (locks are SnapshotStore's): the agent is
\* told to forget the snapshot, if it is there to be told; nothing is answered.
DeleteSnapshot(r) ==
  /\ Event
  /\ row[r].status \notin {"none", "deleted"}
  /\ row' = [row EXCEPT ![r].status = "deleted"]
  /\ tasks' \in {tasks} \cup IF Shown(r) THEN {tasks \cup {[kind |-> "forget", run |-> r, id |-> row[r].dest,
                                                 agent |-> JobAgent[row[r].job], linked |-> TRUE]}}
                             ELSE {}
  /\ UNCHANGED <<config, verified, storage, moved, excused>>

-----------------------------------------------------------------------------
(* runBackup.                                                              *)

Replace(t, new) == tasks' = (tasks \ {t}) \cup new

\* snapshot_done: the row takes status and, from a success, the restic id.
Outcome(t) ==
  row' = IF t.linked /\ row[t.run].status # "deleted"
         THEN [row EXCEPT ![t.run].status = IF t.last \in Dests THEN "success" ELSE "failed",
                          ![t.run].dest = IF t.last \in Dests THEN t.last ELSE @]
         ELSE row

\* The next destination, or the outcome: a failure only if no destination came to
\* a result or the last result is one. After a success all are checked.
Proceed(t, x, last) ==
  LET u == [t EXCEPT !.todo = @ \ {x}, !.phase = "config", !.last = last] IN
  IF u.todo # {} THEN Replace(t, {u}) /\ UNCHANGED row
  ELSE /\ Outcome(u)
       /\ Replace(t, IF last \in Dests THEN {[u EXCEPT !.phase = "check", !.todo = u.sent]} ELSE {})

FetchConfig(t) ==
  /\ t.phase = "fetch"
  /\ IF Sent(t.job) = {}
     THEN Outcome(t) /\ Replace(t, {}) /\ excused' = excused \cup {t.run}
     ELSE /\ Replace(t, {[t EXCEPT !.phase = "config", !.todo = Fetched(t.job), !.sent = Fetched(t.job)]})
          /\ UNCHANGED <<row, excused>>
  /\ UNCHANGED <<config, verified, storage, moved, events>>

\* The configuration is not fetched, or the pre-script fails.
FetchFails(t) ==
  /\ t.phase = "fetch" /\ Event
  /\ Outcome(t) /\ Replace(t, {}) /\ excused' = excused \cup {t.run}
  /\ UNCHANGED <<config, verified, storage, moved>>

\* restic does not reach the storage, or finds it locked or damaged.
Fails(l, t) ==
  \/ Event
  \/ (Locked(l, t) \/ l \in damaged) /\ UNCHANGED events

\* initRepo: cat config, and init if it fails for whatever reason.
CatConfig(t, x) ==
  /\ t.phase = "config"
  /\ \/ /\ Opens(x.at, t.job)
        /\ Replace(t, {[t EXCEPT !.phase = "save"]})
        /\ UNCHANGED events
     \/ /\ Fails(x.at, t) \/ (~Opens(x.at, t.job) /\ UNCHANGED events)
        /\ Replace(t, {[t EXCEPT !.phase = "init"]})
  /\ UNCHANGED <<config, row, verified, storage, moved, excused>>

InitRepo(t, x) ==
  /\ t.phase = "init"
  /\ IF Exists(x.at)
     THEN Proceed(t, x, t.last) /\ UNCHANGED repo
     ELSE repo' = repo \cup {<<x.at, t.job>>} /\ Replace(t, {[t EXCEPT !.phase = "save"]}) /\ UNCHANGED row
  \* Two first backups of one job may both have found nothing to open, or cat config
  \* failed on what the job can open; without a suffix another job may be there.
  /\ excused' = IF Exists(x.at) /\ (Opens(x.at, t.job) \/ x.at.suffix = 0)
                THEN excused \cup {t.run} ELSE excused
  /\ UNCHANGED <<config, verified, copies, damaged, moved, events>>

\* restic backup, then applyRetention, whose error is ignored and which may
\* remove any snapshot of the repository but the newest.
Save(t, x) ==
  /\ t.phase = "save"
  /\ \E old \in SUBSET {c \in copies : c.at = x.at /\ c.live} :
       copies' = (copies \ old) \cup {[c EXCEPT !.live = FALSE] : c \in old}
                   \cup {[run |-> t.run, id |-> x.dest, at |-> x.at, live |-> TRUE]}
  /\ Proceed(t, x, x.dest)
  /\ UNCHANGED <<config, verified, repo, damaged, moved, excused, events>>

StepFails(t, x) ==
  /\ t.phase \in {"init", "save"}
  /\ Fails(x.at, t)
  /\ Proceed(t, x, IF t.phase = "save" THEN "failed" ELSE t.last)
  /\ excused' = excused \cup {t.run}
  /\ UNCHANGED <<config, verified, storage, moved>>

\* A foreign key that finds no row ends the server's process, and with it every
\* connection; so may a link be lost. What has not been read then is lost as well.
Unread == {t \in tasks : CASE t.kind = "backup" -> t.phase = "fetch"
                           [] t.kind = "verify" -> ~t.begun
                           [] OTHER             -> TRUE}

CutLinks(rest, S) ==
  \E lost \in SUBSET (S \cap Unread) :
    tasks' = {IF t \in S THEN [t EXCEPT !.linked = FALSE] ELSE t : t \in rest \ lost}

\* restic check of the next destination, and check_result.
Check(t, x) ==
  LET u == [t EXCEPT !.todo = @ \ {x}]
      left == (tasks \ {t}) \cup (IF u.todo = {} THEN {} ELSE {u})
  IN
  /\ t.phase = "check"
  /\ IF t.linked /\ row[t.run].status = "deleted"
     THEN CutLinks(left, left) /\ UNCHANGED <<row, excused, events>>
     ELSE /\ tasks' = left
          /\ \/ x.at \notin damaged /\ UNCHANGED <<row, excused, events>>
             \/ /\ Fails(x.at, t)
                /\ excused' = excused \cup {t.run}
                /\ row' = IF t.linked /\ row[t.run].status = "success"
                          THEN [row EXCEPT ![t.run].status = "warning"] ELSE row
  /\ UNCHANGED <<config, verified, storage, moved>>

-----------------------------------------------------------------------------
(* The other requests at the agent.                                        *)

\* DeepVerify of the next destination; the error of any is kept.
LastError(bad, failed) == failed     \* mutant: the next destination's result replaces it
AnyError(bad, failed) == bad \/ failed

VerifyNext(t, x) ==
  /\ LET u == [t EXCEPT !.todo = @ \ {x}, !.begun = TRUE] IN
     \/ /\ Opens(x.at, t.job) /\ x.at \notin damaged
        /\ Replace(t, {[u EXCEPT !.bad = AnyError(@, FALSE)]})
        /\ UNCHANGED events
     \/ /\ Fails(x.at, t) \/ (~Opens(x.at, t.job) /\ UNCHANGED events)
        /\ Replace(t, {[u EXCEPT !.bad = AnyError(@, TRUE)]})
  /\ UNCHANGED <<config, row, verified, storage, moved, excused>>

\* verify_result: without a destination it says "passed".
VerifyDone(t) ==
  /\ t.todo = {}
  /\ verified' = IF t.linked THEN [verified EXCEPT ![t.job] = IF t.bad THEN "failed" ELSE "passed"] ELSE verified
  /\ Replace(t, {})
  /\ UNCHANGED <<config, row, storage, moved, excused, events>>

\* restore_result is logged under the snapshot, which must still have its row.
RestoreDone(t) ==
  /\ IF t.linked /\ row[t.run].status = "deleted"
     THEN CutLinks(tasks \ {t}, tasks \ {t})
     ELSE Replace(t, {})
  /\ UNCHANGED <<config, row, verified, storage, moved, excused, events>>

\* The first repository of the agent that has the snapshot forgets it; those of
\* the other destinations keep theirs.
ForgetDone(t) ==
  /\ copies' = IF Findable(t.run, t.id, t.agent)
               THEN {c \in copies : c.run # t.run \/ c.id # t.id} ELSE copies
  /\ Replace(t, {})
  /\ UNCHANGED <<config, row, verified, repo, damaged, moved, excused, events>>

-----------------------------------------------------------------------------
(* Failures.                                                               *)

TasksOf(a) == {t \in tasks : AgentOf(t) = a}

LoseLink(a) ==
  /\ TasksOf(a) # {} /\ Event
  /\ CutLinks(tasks, TasksOf(a))
  /\ UNCHANGED <<config, row, verified, storage, moved, excused>>

ExitAgent(a) ==
  /\ TasksOf(a) # {} /\ Event
  /\ tasks' = tasks \ TasksOf(a)
  /\ UNCHANGED <<config, row, verified, storage, moved, excused>>

Damage ==
  /\ Event
  /\ \E x \in repo : x[1] \notin damaged /\ damaged' = damaged \cup {x[1]}
  /\ UNCHANGED <<config, row, verified, repo, copies, tasks, moved, excused>>

-----------------------------------------------------------------------------
Step(t) ==
  \/ t.kind = "backup" /\ \/ FetchConfig(t) \/ FetchFails(t)
                          \/ \E x \in Upcoming(t) : \/ CatConfig(t, x) \/ InitRepo(t, x) \/ Save(t, x)
                                                   \/ StepFails(t, x) \/ Check(t, x)
  \/ t.kind = "verify" /\ ((\E x \in Upcoming(t) : VerifyNext(t, x)) \/ VerifyDone(t))
  \/ t.kind = "restore" /\ RestoreDone(t)
  \/ t.kind = "forget" /\ ForgetDone(t)

Next ==
  \/ \E j \in Jobs : \/ ResetJob(j) \/ RequestVerify(j)
                     \/ \E s \in Lists : EditJob(j, s)
                     \/ \E r \in Runs : RunJob(j, r)
  \/ \E d \in Dests : ResetDestination(d) \/ MoveDestination(d)
  \/ \E r \in Runs : DeleteSnapshot(r) \/ \E d \in Dests, a \in Agents : RequestRestore(r, d, a)
  \/ \E t \in tasks : Step(t)
  \/ \E a \in Agents : LoseLink(a) \/ ExitAgent(a)
  \/ Damage

Spec == Init /\ [][Next]_vars
-----------------------------------------------------------------------------
\* Type correctness of configuration, rows, repositories and goroutines.
TypeOK ==
  /\ listed \in [Jobs -> Lists] /\ suffix \in [Jobs -> 0..(MaxEvents + 1)]
  /\ place \in [Dests -> 0..(MaxEvents + 1)]
  /\ row \in [Runs -> Row]
  /\ verified \in [Jobs -> {"never", "passed", "failed"}]
  /\ repo \subseteq Locations \X Jobs /\ damaged \subseteq Locations
  /\ copies \subseteq [run : Runs, id : Dests, at : Locations, live : BOOLEAN]
  /\ tasks \subseteq Backup \cup Verify \cup Restore \cup Forget
  /\ moved \subseteq Runs /\ excused \subseteq Runs
  /\ events \in 0..MaxEvents

Pruned(r) == \E c \in copies : c.run = r /\ c.id = row[r].dest /\ ~c.live

\* A row that says "success" names a snapshot that the agent finds when it is
\* browsed (main.go:586-603), over resets, which must mark every row they leave
\* behind (jobs.ts:394-398, destinations.ts:365-385), failures of single
\* destinations and deletions of other rows; unless its job was edited, its
\* destination moved without a reset, a reset met the backup under way, or
\* retention has removed it.
BrowsableUntilMoved ==
  \A r \in Runs :
    (row[r].status = "success" /\ r \notin moved /\ ~Pruned(r))
      => Findable(r, row[r].dest, JobAgent[row[r].job])

\* "so they never interfere with each other" (jobs.ts:113-115), of jobs with a
\* suffix: a backup fails, or its check, only by a failure, for want of a
\* destination, or by a lock or a first backup of its own job; never because of
\* the backups of another job, however the destinations are shared, changed and
\* reset. On a path without a suffix it is FALSE: only the older job whose
\* backup came first there can back up (schema/index.ts:74-78).
FailsForAReason ==
  \A r \in Runs : row[r].status \in {"failed", "warning"} => r \in excused

\* A verification that is going to say "All destinations verified" was sent to
\* no repository that was damaged when it was asked for, whatever the order of
\* the destinations (main.go:345-357) and whatever ran in between.
VerifyFindsDamage ==
  \A t \in tasks : (t.kind = "verify" /\ t.todo = {} /\ ~t.bad) => t.sick = {}

\* A job of the agent before the row's lists the destination of its snapshot.
Shared(r) ==
  \E k \in JobsOf(JobAgent[row[r].job]) : k < row[r].job /\ row[r].dest \in ToSet(listed[k])

\* "Choose which storage destination to restore from." (Snapshots.tsx:473): what
\* is found when it is browsed can be restored, by the agent that made it, from
\* the destination that holds it, over the same changes and failures; unless an
\* earlier job of the agent also lists that destination (main.go:568).
RestoresUnlessShared ==
  \A r \in Runs :
    (row[r].status = "success" /\ r \notin moved /\ ~Pruned(r) /\ ~Shared(r))
      => Restores(r, row[r].dest, row[r].dest, JobAgent[row[r].job])

\* FALSE of the code: the same of every row. handleRestore takes the path and the
\* password of the first job that lists the destination.
RestorableFromChoice ==
  \A r \in Runs :
    (row[r].status = "success" /\ r \notin moved /\ ~Pruned(r))
      => Restores(r, row[r].dest, row[r].dest, JobAgent[row[r].job])
=============================================================================
