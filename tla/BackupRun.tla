---------------------------- MODULE BackupRun ----------------------------
(***************************************************************************)
(* The life of a backup: the run_job / snapshot_start / snapshot_done /    *)
(* check_result conversation over AgentLink, the snapshots and backup_jobs *)
(* rows it changes, the agent's scheduler entries and backup goroutines.   *)
(* Server handlers are synchronous up to their database writes, so each is *)
(* one step. A goroutine keeps writing to the connection that was current  *)
(* when it was started, and so does a scheduler entry.                     *)
(*                                                                         *)
(* Left to other parts: what a backup does to the repository, locks and    *)
(* retention, the contents of a job's configuration, deletion of agents;   *)
(* heartbeats, which write agents.status and nothing else, are AgentLink's.*)
(*                                                                         *)
(* Bounds: ManualIds are the ids POST /run may hand out, MaxMs the number  *)
(* of distinct milliseconds at which the scheduler may fire.               *)
(***************************************************************************)
EXTENDS AgentLink, FiniteSets

CONSTANTS
  Jobs,          \* backup_jobs rows at the start
  NoJob,         \* "no job"
  JobAgent,      \* backup_jobs.agent_id
  ScheduledJobs, \* enabled jobs with a cron expression the agent's parser accepts (JobSync)
  ManualIds,     \* ids drawn by nanoid() for manual runs
  MaxMs,         \* bound on the scheduler's clock
  NumDests       \* destinations of a job

ASSUME RunAssumption ==
  /\ JobAgent \in [Jobs -> Agents]
  /\ NoJob \notin Jobs
  /\ ScheduledJobs \subseteq Jobs
  /\ MaxMs \in Nat
  /\ NumDests \in Nat \ {0}
  /\ ManualIds \cap (1..MaxMs) = {}

\* sched-<UnixMilli>: a scheduled backup is named by the millisecond it fires in.
SnapIds == ManualIds \cup (1..MaxMs)

VARIABLES
  jobs,     \* database: ids in backup_jobs
  snap,     \* database: the snapshots table
  entries,  \* agent memory: connection captured by each job's scheduler entry
  syncing,  \* agents between dialling and the end of their first syncJobs
  runs,     \* agent memory: backup goroutines
  ms,       \* the agents' wall clock, in milliseconds
  fired     \* entries that have fired in this millisecond

runVars == <<jobs, snap, entries, syncing, runs, ms, fired>>
vars    == <<linkVars, runVars>>

Row == [status : {"none", "running", "success", "failed", "warning", "orphaned", "deleted"},
        finished : BOOLEAN,
        integrity : {"null", "passed", "failed"},
        job : Jobs \cup {NoJob}]

NoRow(status) == [status |-> status, finished |-> FALSE, integrity |-> "null", job |-> NoJob]
NewRow(j)     == [status |-> "running", finished |-> FALSE, integrity |-> "null", job |-> j]

Run == [id : SnapIds, job : Jobs, conn : Sockets,
        phase : {"fetch", "backup", "check"}, left : 0..NumDests]

UpMsg ==
  LinkUpMsg
    \cup [type : {"snapshot_start"}, id : SnapIds, job : Jobs]
    \cup [type : {"snapshot_done"}, id : SnapIds, status : {"success", "failed"}]
    \cup [type : {"check_result"}, id : SnapIds, status : {"passed", "failed"}]

DownMsg == [type : {"run_job"}, id : SnapIds, job : Jobs] \cup [type : {"sync_jobs"}]

Present(id)      == snap[id].status \notin {"none", "deleted"}
RowsOf(j)        == {id \in SnapIds : Present(id) /\ snap[id].job = j}

Init ==
  /\ LinkInit
  /\ jobs = Jobs
  /\ snap = [id \in SnapIds |-> NoRow("none")]
  /\ entries = [a \in Agents |-> [j \in Jobs |-> NoSocket]]
  /\ syncing = {}
  /\ runs = {}
  /\ ms = 0
  /\ fired = {}

-----------------------------------------------------------------------------
(* The REST API.                                                           *)

\* POST /jobs/:id/run with a fresh id: insert the row, hand the job to the
\* agent, or record at once that the agent is offline.
RunJob(j, id) ==
  LET a == JobAgent[j] IN
  /\ j \in jobs
  /\ snap[id] = NoRow("none")
  /\ \/ /\ MayBeUnwritable(agentConnections[a])
        /\ snap' = [snap EXCEPT ![id] = [NewRow(j) EXCEPT !.status = "failed", !.finished = TRUE]]
        /\ UNCHANGED <<agentStatus, down>>
     \/ /\ agentConnections[a] # NoSocket
        /\ snap' = [snap EXCEPT ![id] = NewRow(j)]
        /\ SendDown(agentConnections[a], [type |-> "run_job", id |-> id, job |-> j])
        /\ agentStatus' = [agentStatus EXCEPT ![a] = "busy"]
  /\ UNCHANGED <<agentConnections, socketToAgent, serverOpen, clientVars, wire, up, faults,
                 jobs, entries, syncing, runs, ms, fired>>

\* DELETE /snapshots/:id of an unlocked snapshot. (What forget_snapshot then
\* does to the repository is not part of this module; nothing is answered.)
DeleteSnapshot(id) ==
  /\ Present(id)
  /\ snap' = [snap EXCEPT ![id] = NoRow("deleted")]
  /\ UNCHANGED <<linkVars, jobs, entries, syncing, runs, ms, fired>>

\* POST /jobs/:id/reset-repo: every row of the job is marked.
ResetRepo(j) ==
  /\ j \in jobs
  /\ snap' = [id \in SnapIds |-> IF id \in RowsOf(j) THEN [snap[id] EXCEPT !.status = "orphaned"]
                                                   ELSE snap[id]]
  /\ UNCHANGED <<linkVars, jobs, entries, syncing, runs, ms, fired>>

\* DELETE /jobs/:id, refused while the job has snapshots.
DeleteJob(j) ==
  /\ j \in jobs
  /\ RowsOf(j) = {}
  /\ jobs' = jobs \ {j}
  /\ Push(JobAgent[j], [type |-> "sync_jobs"])
  /\ UNCHANGED <<serverVars, clientVars, wire, up, faults, snap, entries, syncing, runs, ms, fired>>

-----------------------------------------------------------------------------
(* The agent.                                                              *)

\* syncJobs: replace every entry by one bound to this connection, or, if the
\* job list cannot be fetched, keep the entries as they are.
SyncJobs(a) ==
  \/ entries' = [entries EXCEPT ![a] =
                   [j \in Jobs |-> IF j \in jobs \cap ScheduledJobs /\ JobAgent[j] = a
                                   THEN conn[a] ELSE NoSocket]]
  \/ UNCHANGED entries

\* handleConnection syncs before it reads its first message.
FirstSync(a) ==
  /\ a \in syncing
  /\ SyncJobs(a)
  /\ syncing' = syncing \ {a}
  /\ UNCHANGED <<linkVars, jobs, snap, runs, ms, fired>>

ReadMessage(a, type) ==
  /\ a \notin syncing
  /\ Reads(a, type)
  /\ down' = [down EXCEPT ![conn[a]] = Tail(@)]

ReceiveSyncJobs(a) ==
  /\ ReadMessage(a, "sync_jobs")
  /\ SyncJobs(a)
  /\ UNCHANGED <<serverVars, clientVars, wire, up, faults, jobs, snap, syncing, runs, ms, fired>>

\* run_job starts a goroutine that first fetches the job's configuration.
ReceiveRunJob(a) ==
  /\ ReadMessage(a, "run_job")
  /\ LET m == Head(down[conn[a]]) IN
       runs' = runs \cup {[id |-> m.id, job |-> m.job, conn |-> conn[a], phase |-> "fetch", left |-> 0]}
  /\ UNCHANGED <<serverVars, clientVars, wire, up, faults, jobs, snap, entries, syncing, ms, fired>>

SendDone(r, status) == SendUp(r.conn, [type |-> "snapshot_done", id |-> r.id, status |-> status])

\* GetJobConfig answers (the job still exists), or the run fails right here.
FetchOk(r) ==
  /\ r.phase = "fetch"
  /\ r.job \in jobs
  /\ runs' = (runs \ {r}) \cup {[r EXCEPT !.phase = "backup"]}
  /\ UNCHANGED <<linkVars, jobs, snap, entries, syncing, ms, fired>>

FetchFailsSilently(r) ==  \* mutant: the error path returns without snapshot_done
  /\ r.phase = "fetch"
  /\ runs' = runs \ {r}
  /\ UNCHANGED <<linkVars, jobs, snap, entries, syncing, ms, fired>>

FetchFails(r) ==
  /\ r.phase = "fetch"
  /\ runs' = runs \ {r}
  /\ SendDone(r, "failed")
  /\ UNCHANGED <<serverVars, clientVars, wire, down, faults, jobs, snap, entries, syncing, ms, fired>>

\* The cron entry of job j fires: announce the snapshot, then run.
FireUnannounced(a, j) ==  \* mutant: no snapshot_start, as in the Kubernetes agent
  /\ entries[a][j] # NoSocket
  /\ ms > 0
  /\ j \notin fired
  /\ fired' = fired \cup {j}
  /\ runs' = runs \cup {[id |-> ms, job |-> j, conn |-> entries[a][j], phase |-> "backup", left |-> 0]}
  /\ UNCHANGED <<linkVars, jobs, snap, entries, syncing, ms>>

FireSchedule(a, j) ==
  /\ entries[a][j] # NoSocket
  /\ ms > 0
  /\ j \notin fired
  /\ fired' = fired \cup {j}
  /\ SendUp(entries[a][j], [type |-> "snapshot_start", id |-> ms, job |-> j])
  /\ runs' = runs \cup {[id |-> ms, job |-> j, conn |-> entries[a][j], phase |-> "backup", left |-> 0]}
  /\ UNCHANGED <<serverVars, clientVars, wire, down, faults, jobs, snap, entries, syncing, ms>>

Tick ==
  /\ ms < MaxMs
  /\ ms' = ms + 1
  /\ fired' = {}
  /\ UNCHANGED <<linkVars, jobs, snap, entries, syncing, runs>>

\* runBackup ends: one snapshot_done on every path; after a success the
\* goroutine goes on to check each destination.
FinishBackup(r) ==
  /\ r.phase = "backup"
  /\ \/ /\ SendDone(r, "failed")
        /\ runs' = runs \ {r}
     \/ /\ SendDone(r, "success")
        /\ runs' = (runs \ {r}) \cup {[r EXCEPT !.phase = "check", !.left = NumDests]}
  /\ UNCHANGED <<serverVars, clientVars, wire, down, faults, jobs, snap, entries, syncing, ms, fired>>

\* restic check of the next destination is over.
CheckOneMore(r) ==      \* mutant: the loop runs past the last destination
  /\ r.phase = "check"
  /\ \E result \in {"passed", "failed"} :
       SendUp(r.conn, [type |-> "check_result", id |-> r.id, status |-> result])
  /\ runs' = (runs \ {r}) \cup (IF r.left >= 0 THEN {[r EXCEPT !.left = @ - 1]} ELSE {})
  /\ UNCHANGED <<serverVars, clientVars, wire, down, faults, jobs, snap, entries, syncing, ms, fired>>

CheckDestination(r) ==
  /\ r.phase = "check"
  /\ \E result \in {"passed", "failed"} :
       SendUp(r.conn, [type |-> "check_result", id |-> r.id, status |-> result])
  /\ runs' = (runs \ {r}) \cup (IF r.left > 1 THEN {[r EXCEPT !.left = @ - 1]} ELSE {})
  /\ UNCHANGED <<serverVars, clientVars, wire, down, faults, jobs, snap, entries, syncing, ms, fired>>

-----------------------------------------------------------------------------
(* The server's message handler. A constraint violation inside it is an    *)
(* unhandled rejection: the process ends and is started again.             *)

SnapshotStart(m, a) ==
  /\ snap' = [snap EXCEPT ![m.id] = NewRow(m.job)]
  /\ agentStatus' = [agentStatus EXCEPT ![a] = "busy"]

HandleSnapshotStart(s) ==
  LET m == Head(up[s]) IN
  /\ FromAgent(s, "snapshot_start")
  /\ ~Present(m.id)
  /\ m.job \in jobs
  /\ SnapshotStart(m, socketToAgent[s])
  /\ Consume(s)
  /\ UNCHANGED <<agentConnections, socketToAgent, serverOpen, clientVars, wire, down, faults,
                 jobs, entries, syncing, runs, ms, fired>>

\* The UPDATE of snapshot_done: status, and finished_at = now, whatever the
\* row held; no effect on a deleted or unknown row.
RecordStatusOnly(m) ==  \* mutant: finished_at is not set
  IF Present(m.id) THEN [snap EXCEPT ![m.id].status = m.status] ELSE snap

RecordOutcome(m) ==
  IF Present(m.id) THEN [snap EXCEPT ![m.id].status = m.status, ![m.id].finished = TRUE] ELSE snap

HandleSnapshotDone(s) ==
  /\ FromAgent(s, "snapshot_done")
  /\ snap' = RecordOutcome(Head(up[s]))
  /\ agentStatus' = [agentStatus EXCEPT ![socketToAgent[s]] = "online"]
  /\ Consume(s)
  /\ UNCHANGED <<agentConnections, socketToAgent, serverOpen, clientVars, wire, down, faults,
                 jobs, entries, syncing, runs, ms, fired>>

\* check_result: store the result, downgrade a success.
RecordCheckOnly(m) ==   \* mutant: the downgrade is dropped
  [snap EXCEPT ![m.id].integrity = m.status]

RecordCheck(m) ==
  [snap EXCEPT ![m.id].integrity = m.status,
               ![m.id].status = IF m.status = "failed" /\ @ = "success" THEN "warning" ELSE @]

HandleCheckResult(s) ==
  LET m == Head(up[s]) IN
  /\ FromAgent(s, "check_result")
  /\ Present(m.id)
  /\ snap' = RecordCheck(m)
  /\ Consume(s)
  /\ UNCHANGED <<serverVars, clientVars, wire, down, faults, jobs, entries, syncing, runs, ms, fired>>

\* snapshot_start for an id that exists or a job that does not, check_result
\* for a snapshot that does not: PRIMARY KEY or FOREIGN KEY error.
HandlerThrows(s) ==
  LET m == Head(up[s]) IN
  /\ \/ FromAgent(s, "snapshot_start") /\ (Present(m.id) \/ m.job \notin jobs)
     \/ FromAgent(s, "check_result") /\ ~Present(m.id)
  /\ ServerDies
  /\ UNCHANGED <<faults, runVars>>

-----------------------------------------------------------------------------
(* The link's steps. A connection that a goroutine or a scheduler entry    *)
(* still holds is not the identity of a new one.                           *)

Captured(s) == (\E r \in runs : r.conn = s) \/ (\E a \in Agents, j \in Jobs : entries[a][j] = s)

Connect(a, s) ==
  /\ ~Captured(s)
  /\ Dial(a, s)
  /\ syncing' = syncing \cup {a}
  /\ UNCHANGED <<jobs, snap, entries, runs, ms, fired>>

Disconnect(a) ==
  /\ a \notin syncing
  /\ AgentReadError(a)
  /\ UNCHANGED runVars

\* The agent's goroutines and scheduler die with its process.
ExitAgent(a) ==
  /\ AgentExit(a)
  /\ runs' = {r \in runs : JobAgent[r.job] # a}
  /\ entries' = [entries EXCEPT ![a] = [j \in Jobs |-> NoSocket]]
  /\ syncing' = syncing \ {a}
  /\ UNCHANGED <<jobs, snap, ms, fired>>

LinkStep ==
  /\ UNCHANGED runVars
  /\ \/ \E s \in Sockets : HandleAgentConnect(s) \/ ServerClose(s) \/ LoseLink(s)
     \/ ServerRestart

Api ==
  \/ \E j \in Jobs : ResetRepo(j) \/ DeleteJob(j) \/ \E id \in ManualIds : RunJob(j, id)
  \/ \E id \in SnapIds : DeleteSnapshot(id)

Goroutine(r) == FetchOk(r) \/ FetchFails(r) \/ FinishBackup(r) \/ CheckDestination(r)

Agent ==
  \/ \E a \in Agents :
       \/ FirstSync(a)
       \/ ReceiveSyncJobs(a)
       \/ ReceiveRunJob(a)
       \/ \E j \in Jobs : FireSchedule(a, j)
       \/ \E s \in Sockets : Connect(a, s)
       \/ Disconnect(a)
       \/ ExitAgent(a)
  \/ \E r \in runs : Goroutine(r)
  \/ Tick

Server ==
  \E s \in Sockets :
    HandleSnapshotStart(s) \/ HandleSnapshotDone(s) \/ HandleCheckResult(s) \/ HandlerThrows(s)

Next == Api \/ Agent \/ Server \/ LinkStep

Spec == Init /\ [][Next]_vars

\* The agent's loops and goroutines run, restic ends, the server's event loop
\* handles what arrives; users, schedules and failures promise nothing.
Fairness ==
  /\ \A a \in Agents :
       WF_vars(FirstSync(a)) /\ WF_vars(ReceiveSyncJobs(a)) /\ WF_vars(ReceiveRunJob(a))
         /\ WF_vars(\E s \in Sockets : Connect(a, s)) /\ WF_vars(Disconnect(a))
  /\ \A id \in SnapIds : WF_vars(\E r \in runs : r.id = id /\ Goroutine(r))
  /\ \A s \in Sockets :
       WF_vars(\/ HandleSnapshotStart(s) \/ HandleSnapshotDone(s) \/ HandleCheckResult(s)
               \/ HandlerThrows(s)
               \/ UNCHANGED runVars /\ (HandleAgentConnect(s) \/ ServerClose(s)))

FairSpec == Spec /\ Fairness
-----------------------------------------------------------------------------
\* Type correctness of the conversation and of the rows it writes.
TypeOK ==
  /\ LinkTypes(UpMsg, DownMsg)
  /\ jobs \subseteq Jobs
  /\ snap \in [SnapIds -> Row]
  /\ entries \in [Agents -> [Jobs -> Sockets \cup {NoSocket}]]
  /\ syncing \subseteq Agents
  /\ runs \subseteq Run
  /\ ms \in 0..MaxMs
  /\ fired \subseteq Jobs

\* Connection s carries the outcome of snapshot id: the request for it, the
\* goroutine that will send it, or the message itself.
Carries(s, id) ==
  \/ \E i \in DOMAIN down[s] : down[s][i].type = "run_job" /\ down[s][i].id = id
  \/ \E r \in runs : r.id = id /\ r.conn = s /\ r.phase # "check"
  \/ \E i \in DOMAIN up[s] : up[s][i].type = "snapshot_done" /\ up[s][i].id = id

\* snapshot_start overtakes nothing (main.go:658-664): an outcome or a check
\* result that has reached the server's queue has its row, now or deleted
\* since, or the snapshot_start that inserts it is ahead in the same queue.
OutcomeHasRow ==
  \A s \in Sockets : \A i \in DOMAIN up[s] :
    up[s][i].type \in {"snapshot_done", "check_result"} =>
      \/ snap[up[s][i].id].status # "none"
      \/ \E k \in 1..(i - 1) : up[s][k].type = "snapshot_start" /\ up[s][k].id = up[s][i].id

\* A repository that failed its check is not shown as a good backup
\* (index.ts:233-239), although outcome, checks, deletion and reset of the
\* repository interleave. As ImplementsLifecycle, it needs ids drawn once.
FailedCheckNotSuccess ==
  \A id \in SnapIds : snap[id].integrity = "failed" => snap[id].status # "success"

\* The snapshots table behaves as SnapshotLifecycle: one insert, one outcome,
\* no return from deletion, over lost connections and restarts. It holds while
\* no two schedules fire in one millisecond: two that do share one id, and the
\* second announcement brings back a row that was deleted after the first.
Lifecycle == INSTANCE SnapshotLifecycle WITH
  row <- [id \in SnapIds |-> [status |-> snap[id].status, finished |-> snap[id].finished]]

ImplementsLifecycle == Lifecycle!Spec

\* Every path through the agent reports (main.go:256-264, 432-525): a running
\* snapshot gets an outcome, as long as the connection its backup was started
\* on stays up.
RunResolves ==
  \A id \in SnapIds, s \in Sockets :
    (snap[id].status = "running" /\ Carries(s, id))
      ~> (snap[id].status # "running" \/ ~CanCarry(s))

\* "SMTP alerts on backup start, success, or failure" (README.md:24): a backup
\* that was started is reported one way or the other.
RunEnds ==
  \A id \in SnapIds : snap[id].status = "running" ~> snap[id].status # "running"

\* "Notify server to create the snapshot record before running" (main.go:658):
\* the record a scheduled backup announces can be created, its id is unused.
AnnouncedIdUnused ==
  \A s \in Sockets : FromAgent(s, "snapshot_start") => ~Present(Head(up[s]).id)
=============================================================================
