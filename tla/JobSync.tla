----------------------------- MODULE JobSync -----------------------------
(***************************************************************************)
(* How the definition of one job reaches the scheduler of its agent. The   *)
(* server announces changes of backup_jobs with sync_jobs, a message that  *)
(* says nothing else; the agent then fetches its jobs over HTTPS and       *)
(* replaces its scheduler entries. It also does so when it connects, before*)
(* the server has identified the connection. Changes of a destination, a   *)
(* repository path, a key or the licence are announced to nobody.          *)
(*                                                                         *)
(* The fetch and the message travel separately; the agent's read loop does *)
(* nothing else while it syncs. What fires from an entry is BackupRun's    *)
(* FireSchedule. Heartbeats are left out.                                  *)
(*                                                                         *)
(* Bound: MaxChanges requests that change something.                       *)
(***************************************************************************)
EXTENDS AgentLink

CONSTANTS
  JobAgent,   \* backup_jobs.agent_id
  MaxChanges  \* bound on changes; settings are numbered by the change that made them

ASSUME SyncAssumption ==
  /\ JobAgent \in Agents
  /\ MaxChanges \in Nat

VARIABLES
  job,      \* database: the backup_jobs row and the settings it leads to
  licensed, \* database: the licence has not expired
  changes,  \* changes so far
  sync,     \* agent: syncJobs, with what the server answered
  entry,    \* agent: the job's scheduler entry
  fresh,    \* agent: the last syncJobs succeeded
  unheard   \* history: a change since the last answer that no sync_jobs announces

dbVars    == <<job, licensed, changes>>
agentVars == <<sync, entry, fresh>>
syncVars  == <<dbVars, agentVars, unheard>>
vars      == <<linkVars, syncVars>>

Versions == 0..MaxChanges

\* none: disabled, or without a cron expression. The server takes any string for
\* one; the agent's parser, made with seconds, accepts six fields or a descriptor
\* and refuses the rest: each expression the CronPicker of the UI makes has five.
Schedules == {"none", "accepted", "refused"}

\* version: everything else.
Job == [state : {"none", "row", "deleted"}, schedule : Schedules, version : Versions]

\* The job as a list of jobs has it, if it does.
Listed    == [schedule : Schedules, version : Versions]
NotListed == [schedule |-> "none", version |-> 0]

Sync    == [phase : {"idle", "asked"}] \cup [phase : {"answered"}, list : Listed]
Idle    == [phase |-> "idle"]
Asked   == [phase |-> "asked"]

\* What the scheduler runs: with which settings, and on which connection.
Entry   == [version : Versions, conn : Sockets \cup {NoSocket}]
NoEntry == [version |-> 0, conn |-> NoSocket]

Init ==
  /\ LinkInit
  /\ job \in [state : {"none"}, schedule : {"none"}, version : {0}]
               \cup [state : {"row"}, schedule : {"accepted", "refused"}, version : {0}]
  /\ licensed = TRUE
  /\ changes = 0
  /\ sync = Idle
  /\ entry = NoEntry
  /\ fresh = FALSE
  /\ unheard = FALSE

-----------------------------------------------------------------------------
(* Changes. A request is handled in one step, its push included.           *)

Count == changes < MaxChanges /\ changes' = changes + 1

\* sendToAgent(agentId, sync_jobs), its result ignored.
Announce ==
  /\ Push(JobAgent, [type |-> "sync_jobs"])
  /\ unheard' = (unheard \/ ~\E s \in Sockets : agentConnections[JobAgent] = s /\ CanCarry(s))

Unannounced == unheard' = TRUE /\ UNCHANGED down

\* POST /jobs.
CreateJob(schedule) ==
  /\ job.state = "none"
  /\ Count
  /\ job' = [state |-> "row", schedule |-> schedule, version |-> changes + 1]
  /\ Announce
  /\ UNCHANGED <<serverVars, clientVars, wire, up, faults, licensed, agentVars>>

\* PUT /jobs/:id.
UpdateJob(schedule) ==
  /\ job.state = "row"
  /\ Count
  /\ job' = [job EXCEPT !.schedule = schedule, !.version = changes + 1]
  /\ Announce
  /\ UNCHANGED <<serverVars, clientVars, wire, up, faults, licensed, agentVars>>

\* DELETE /jobs/:id of a job without snapshots.
DeleteJob ==
  /\ job.state = "row"
  /\ Count
  /\ job' = [job EXCEPT !.state = "deleted"]
  /\ Announce
  /\ UNCHANGED <<serverVars, clientVars, wire, up, faults, licensed, agentVars>>

\* One of these for another job of the same agent.
ChangeOtherJob ==
  /\ Count
  /\ Announce
  /\ UNCHANGED <<serverVars, clientVars, wire, up, faults, job, licensed, agentVars>>

\* The reset of a job's or a destination's repository, a destination that is
\* updated or deleted, a key that is committed: new settings, no push.
ChangeSettings ==
  /\ job.state = "row"
  /\ Count
  /\ job' = [job EXCEPT !.version = changes + 1]
  /\ Unannounced
  /\ UNCHANGED <<serverVars, clientVars, wire, up, faults, licensed, agentVars>>

\* The licence expires or is renewed.
ChangeLicence ==
  /\ Count
  /\ licensed' = ~licensed
  /\ Unannounced
  /\ UNCHANGED <<serverVars, clientVars, wire, up, faults, job, agentVars>>

-----------------------------------------------------------------------------
(* syncJobs.                                                               *)

\* GET /internal/agents/:agentId/jobs, as far as this job is concerned.
JobList ==
  IF job.state # "row" THEN NotListed
  ELSE [schedule |-> IF licensed THEN job.schedule ELSE "none", version |-> job.version]

AnswerJobs ==
  /\ sync = Asked
  /\ sync' = [phase |-> "answered", list |-> JobList]
  /\ unheard' = FALSE
  /\ UNCHANGED <<linkVars, dbVars, entry, fresh>>

NewEntry(list) == [version |-> list.version, conn |-> conn[JobAgent]]

AddEntriesOnly(list) ==        \* mutant: existing entries are not removed first
  IF list.schedule = "accepted" THEN NewEntry(list) ELSE entry

\* The entries are removed, then those of the enabled jobs are added; they
\* write to the connection of this sync. The error of AddFunc is ignored: a job
\* whose expression is refused gets no entry, and the log says it is scheduled.
ReplaceEntries(list) == IF list.schedule = "accepted" THEN NewEntry(list) ELSE NoEntry

ApplyJobs ==
  /\ sync.phase = "answered"
  /\ entry' = ReplaceEntries(sync.list)
  /\ sync' = Idle
  /\ fresh' = TRUE
  /\ UNCHANGED <<linkVars, dbVars, unheard>>

FetchRetries ==                \* mutant: the read loop repeats a failed fetch until it succeeds
  /\ sync # Idle
  /\ sync' = Asked
  /\ fresh' = FALSE
  /\ UNCHANGED <<linkVars, dbVars, entry, unheard>>

\* The request or its answer is lost: the entries stay as they are.
FetchFails ==
  /\ sync # Idle
  /\ sync' = Idle
  /\ fresh' = FALSE
  /\ UNCHANGED <<linkVars, dbVars, entry, unheard>>

ReceiveSyncJobs ==
  LET s == conn[JobAgent] IN
  /\ sync = Idle
  /\ Reads(JobAgent, "sync_jobs")
  /\ down' = [down EXCEPT ![s] = Tail(@)]
  /\ sync' = Asked
  /\ UNCHANGED <<serverVars, clientVars, wire, up, faults, dbVars, entry, fresh, unheard>>

-----------------------------------------------------------------------------
(* The link.                                                               *)

\* handleConnection starts with a sync, and no entry holds the connection.
Connect(s) ==
  /\ entry.conn # s
  /\ Dial(JobAgent, s)
  /\ sync' = Asked
  /\ UNCHANGED <<dbVars, entry, fresh, unheard>>

\* The end of the connection is noticed between two messages.
Disconnect ==
  /\ sync = Idle
  /\ AgentReadError(JobAgent)
  /\ UNCHANGED syncVars

ExitAgent ==
  /\ AgentExit(JobAgent)
  /\ sync' = Idle
  /\ entry' = NoEntry
  /\ fresh' = FALSE
  /\ UNCHANGED <<dbVars, unheard>>

LinkStep ==
  /\ UNCHANGED syncVars
  /\ \/ \E s \in Sockets : HandleAgentConnect(s) \/ ServerClose(s) \/ LoseLink(s)
     \/ ServerRestart

Api ==
  \/ \E schedule \in Schedules : CreateJob(schedule) \/ UpdateJob(schedule)
  \/ DeleteJob
  \/ ChangeOtherJob
  \/ ChangeSettings
  \/ ChangeLicence

Next ==
  \/ Api
  \/ AnswerJobs
  \/ ApplyJobs
  \/ FetchFails
  \/ ReceiveSyncJobs
  \/ \E s \in Sockets : Connect(s)
  \/ Disconnect
  \/ ExitAgent
  \/ LinkStep

Spec == Init /\ [][Next]_vars

\* The agent's loop runs, a fetch is answered or fails, the server handles
\* what arrives. Requests and failures promise nothing.
Fairness ==
  /\ WF_vars(AnswerJobs \/ FetchFails)
  /\ WF_vars(ApplyJobs)
  /\ WF_vars(ReceiveSyncJobs)
  /\ WF_vars(Disconnect)
  /\ WF_vars(\E s \in Sockets : Connect(s))
  /\ \A s \in Sockets : WF_vars(UNCHANGED syncVars /\ (HandleAgentConnect(s) \/ ServerClose(s)))

FairSpec == Spec /\ Fairness
-----------------------------------------------------------------------------
\* Type correctness of the definitions, the fetch and the scheduler entry.
TypeOK ==
  /\ LinkTypes(LinkUpMsg, [type : {"sync_jobs"}])
  /\ job \in Job
  /\ licensed \in BOOLEAN
  /\ changes \in Versions
  /\ sync \in Sync
  /\ entry \in Entry
  /\ fresh \in BOOLEAN
  /\ unheard \in BOOLEAN

\* A job is to be run by its schedule.
Due == job.state = "row" /\ job.schedule # "none" /\ licensed

\* The entry is what the database says, and writes to the current connection:
\* as far as the agent's parser accepts what the database says.
Current ==
  IF Due /\ job.schedule = "accepted"
  THEN entry = [version |-> job.version, conn |-> conn[JobAgent]]
  ELSE entry = NoEntry

\* Nothing is under way on the agent's connection, which works.
Settled ==
  /\ conn[JobAgent] # NoSocket
  /\ CanCarry(conn[JobAgent])
  /\ down[conn[JobAgent]] = <<>>
  /\ sync = Idle

\* "Push updated job list to agent via WebSocket" (jobs.ts:139): after a sync
\* that succeeded, an entry differs from the database only by changes that
\* were not announced, and is missing only for want of a schedule the agent's
\* parser accepts; then none is left of the schedule before it. A change between
\* answer and replacement is not missed, no announcement is overtaken by the
\* fetch of an earlier one, and a new connection leaves no entry on the old one.
SettledIsCurrent == Settled /\ fresh /\ ~unheard => Current

\* The same as a promise: unless the connection fails, a fetch fails or there
\* is a change nobody announces, a connected agent's scheduler becomes what
\* the database says, but for an expression its parser refuses.
PushTakesEffect ==
  \A s \in Sockets :
    (conn[JobAgent] = s /\ CanCarry(s))
      ~> ((Settled /\ (Current \/ ~fresh \/ unheard)) \/ ~CanCarry(s))

\* FALSE of the code: "Cron expression (minute hour day month weekday)", as the
\* web UI asks for one (CronPicker.tsx:218), is a schedule: a job that has one
\* is in the scheduler once the agent has been told and has nothing under way.
\* The agent's parser wants seconds, and its error is ignored (main.go:656).
ScheduledIsInstalled == Settled /\ fresh /\ ~unheard /\ Due => entry # NoEntry
=============================================================================
