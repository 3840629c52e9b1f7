------------------------- MODULE JobSync_proofs -------------------------
(* Proofs about JobSync, for every set of agents and connections and any   *)
(* number of changes and failures.                                         *)
EXTENDS JobSync, AgentLink_proofs, SequenceTheorems

SyncMsg == [type : {"sync_jobs"}]

\* The agent has one open connection at most, the one it reads.
OneOpen == \A s \in clientOpen : s = conn[JobAgent]

\* While the agent's connection works, every change that was announced is on
\* its way, is being fetched, is in the answer, or is in the scheduler.
OnItsWay ==
  conn[JobAgent] # NoSocket /\ CanCarry(conn[JobAgent]) /\ ~unheard =>
    \/ down[conn[JobAgent]] # <<>>
    \/ sync = Asked
    \/ sync.phase = "answered" /\ sync.list = JobList
    \/ sync = Idle /\ (fresh => Current)

SyncInv == TypeOK /\ OneOpen /\ OnItsWay

-----------------------------------------------------------------------------
LEMMA Numbers ==
  /\ JobAgent \in Agents
  /\ 0 \in Versions
  /\ \A n \in Versions : n < MaxChanges => n + 1 \in Versions
  BY SyncAssumption DEF Versions

LEMMA PhaseFacts ==
  ASSUME sync \in Sync
  PROVE  /\ sync = Idle \/ sync.phase \in {"asked", "answered"}
         /\ Idle.phase = "idle" /\ Asked.phase = "asked"
         /\ sync.phase = "answered" => sync.list \in Listed
  BY DEF Sync, Idle, Asked

LEMMA ListTypes == ASSUME TypeOK PROVE JobList \in Listed
  BY Numbers DEF TypeOK, Job, JobList, Listed, NotListed, Schedules

LEMMA EntryTypes == ASSUME TypeOK, NEW list \in Listed PROVE ReplaceEntries(list) \in Entry
  BY Numbers DEF TypeOK, LinkTypes, Listed, ReplaceEntries, NewEntry, Entry, NoEntry

\* What ReplaceEntries makes of the answer is what Current asks for.
LEMMA ListIsCurrent ==
  ASSUME entry = ReplaceEntries(JobList) PROVE Current
  BY DEF ReplaceEntries, JobList, NotListed, NewEntry, Current, Due

\* A change leaves link and agent alone and is announced, or noted as unheard.
Announced == Announce \/ Unannounced

LEMMA AnnouncedStep ==
  ASSUME SyncInv, Announced, UNCHANGED <<serverVars, clientVars, wire, up, faults, agentVars>>
  PROVE  LinkTypes(LinkUpMsg, SyncMsg)' /\ unheard' \in BOOLEAN /\ OneOpen' /\ OnItsWay'
<1>1. SyncMsg = [type : {"sync_jobs"}] /\ [type |-> "sync_jobs"] \in SyncMsg
  BY DEF SyncMsg
<1>2. LinkTypes(LinkUpMsg, SyncMsg) /\ unheard \in BOOLEAN
  BY <1>1 DEF SyncInv, TypeOK
<1> DEFINE s == agentConnections[JobAgent]
<1>3. s \in Sockets \cup {NoSocket}
  BY <1>2, Numbers DEF LinkTypes
<1>4. down' \in [Sockets -> Seq(SyncMsg)]
  <2>1. CASE s = NoSocket \/ Unannounced
    BY <1>2, <2>1, LinkAssumption DEF LinkTypes, Announced, Announce, Push, Unannounced
  <2>2. CASE s # NoSocket /\ Announce
    <3>1. SendDown(s, [type |-> "sync_jobs"])
      BY <2>2 DEF Announce, Push
    <3>2. QED
      BY <1>1, <1>2, <1>3, <2>2, <3>1, SendDownTypes DEF LinkTypes
  <2>3. QED
    BY <2>1, <2>2 DEF Announced
<1>5. LinkTypes(LinkUpMsg, SyncMsg)' /\ unheard' \in BOOLEAN
  BY <1>2, <1>4 DEF LinkTypes, serverVars, clientVars, Announced, Announce, Unannounced
<1>6. OneOpen'
  BY DEF SyncInv, OneOpen, clientVars
<1>7. OnItsWay'
  <2>1. CASE unheard'
    BY <2>1 DEF OnItsWay
  <2>2. CASE ~unheard'
    <3>1. Announce /\ s \in Sockets /\ CanCarry(s)
      BY <2>2 DEF Announced, Announce, Unannounced
    <3>2. s = conn[JobAgent] /\ conn' = conn
      BY <3>1 DEF SyncInv, OneOpen, CanCarry, clientVars
    <3>3. down' = [down EXCEPT ![s] = Append(@, [type |-> "sync_jobs"])]
      BY <3>1, LinkAssumption DEF Announce, Push, SendDown
    <3>4. down'[s] = Append(down[s], [type |-> "sync_jobs"]) /\ down[s] \in Seq(SyncMsg)
      BY <1>2, <3>1, <3>3 DEF LinkTypes
    <3>5. down'[s] # <<>>
      BY <1>1, <3>4, AppendProperties
    <3>6. QED
      BY <3>2, <3>5 DEF OnItsWay
  <2>3. QED
    BY <2>1, <2>2
<1>8. QED
  BY <1>5, <1>6, <1>7

-----------------------------------------------------------------------------
(* One lemma per action.                                                   *)

LEMMA InitSyncInv == ASSUME Init PROVE SyncInv
<1>1. LinkTypes(LinkUpMsg, [type : {"sync_jobs"}])
  BY InitTypes DEF Init
<1>2. TypeOK
  <2>1. job \in Job
    <3>1. {"none"} \subseteq Schedules /\ {"accepted", "refused"} \subseteq Schedules
      BY DEF Schedules
    <3>2. QED
      BY <3>1, Numbers DEF Init, Job
  <2>2. sync \in Sync
    BY DEF Init, Sync, Idle
  <2>3. entry \in Entry
    BY Numbers DEF Init, Entry, NoEntry
  <2>4. licensed \in BOOLEAN /\ changes \in Versions /\ fresh \in BOOLEAN /\ unheard \in BOOLEAN
    BY Numbers DEF Init
  <2>5. QED
    BY <1>1, <2>1, <2>2, <2>3, <2>4 DEF TypeOK
<1>3. OneOpen /\ OnItsWay
  BY Numbers DEF Init, LinkInit, OneOpen, OnItsWay
<1>4. QED
  BY <1>2, <1>3 DEF SyncInv

LEMMA ApiStep == ASSUME SyncInv, Api PROVE SyncInv'
<1>1. changes' \in Versions
  BY Numbers DEF Api, CreateJob, UpdateJob, DeleteJob, ChangeOtherJob, ChangeSettings,
                 ChangeLicence, Count, SyncInv, TypeOK
<1>2. job' \in Job /\ licensed' \in BOOLEAN
  <2>1. changes < MaxChanges => changes + 1 \in Versions
    BY Numbers DEF SyncInv, TypeOK
  <2>2. job \in Job /\ licensed \in BOOLEAN
    BY DEF SyncInv, TypeOK
  <2>3. CASE \E schedule \in Schedules : CreateJob(schedule)
    BY <2>1, <2>2, <2>3 DEF CreateJob, Count, Job
  <2>4. CASE \E schedule \in Schedules : UpdateJob(schedule)
    BY <2>1, <2>2, <2>4 DEF UpdateJob, Count, Job
  <2>5. CASE DeleteJob
    BY <2>2, <2>5 DEF DeleteJob, Job
  <2>6. CASE ChangeSettings
    BY <2>1, <2>2, <2>6 DEF ChangeSettings, Count, Job
  <2>7. CASE ChangeOtherJob \/ ChangeLicence
    BY <2>2, <2>7 DEF ChangeOtherJob, ChangeLicence
  <2>8. QED
    BY <2>3, <2>4, <2>5, <2>6, <2>7 DEF Api
<1>3. Announced /\ UNCHANGED <<serverVars, clientVars, wire, up, faults, agentVars>>
  BY DEF Api, CreateJob, UpdateJob, DeleteJob, ChangeOtherJob, ChangeSettings,
         ChangeLicence, Announced
<1>4. LinkTypes(LinkUpMsg, SyncMsg)' /\ unheard' \in BOOLEAN /\ OneOpen' /\ OnItsWay'
  BY <1>3, AnnouncedStep
<1>5. TypeOK'
  BY <1>1, <1>2, <1>3, <1>4 DEF SyncInv, TypeOK, SyncMsg, agentVars
<1>6. QED
  BY <1>4, <1>5 DEF SyncInv

LEMMA AnswerStep == ASSUME SyncInv, AnswerJobs PROVE SyncInv'
<1>1. JobList \in Listed /\ JobList' = JobList
  BY ListTypes DEF SyncInv, AnswerJobs, dbVars, JobList
<1>2. sync' = [phase |-> "answered", list |-> JobList]
  BY DEF AnswerJobs
<1>3. sync' \in Sync
  BY <1>1, <1>2 DEF Sync
<1>4. TypeOK'
  BY <1>3 DEF SyncInv, TypeOK, AnswerJobs, LinkTypes, linkVars, serverVars, clientVars, netVars, dbVars
<1>5. OneOpen' /\ OnItsWay'
  BY <1>1, <1>2 DEF SyncInv, OneOpen, OnItsWay, AnswerJobs, linkVars, clientVars
<1>6. QED
  BY <1>4, <1>5 DEF SyncInv

LEMMA ApplyStep == ASSUME SyncInv, ApplyJobs PROVE SyncInv'
<1>1. sync.list \in Listed /\ sync # Asked /\ sync # Idle
  BY PhaseFacts DEF SyncInv, TypeOK, ApplyJobs
<1>2. entry' \in Entry
  BY <1>1, EntryTypes DEF SyncInv, ApplyJobs
<1>3. sync' \in Sync
  BY DEF ApplyJobs, Sync, Idle
<1>4. TypeOK'
  BY <1>2, <1>3 DEF SyncInv, TypeOK, ApplyJobs, LinkTypes, linkVars, serverVars, clientVars, netVars, dbVars
<1>5. OneOpen'
  BY DEF SyncInv, OneOpen, ApplyJobs, linkVars, clientVars
<1>6. ASSUME sync.list = JobList PROVE Current'
  <2>1. entry' = ReplaceEntries(JobList) /\ UNCHANGED <<job, licensed, conn>>
    BY <1>6 DEF ApplyJobs, dbVars, linkVars, clientVars
  <2>2. CASE Due /\ job.schedule = "accepted"
    BY <2>1, <2>2 DEF ReplaceEntries, JobList, NewEntry, Current, Due
  <2>3. CASE ~(Due /\ job.schedule = "accepted")
    BY <2>1, <2>3 DEF ReplaceEntries, JobList, NotListed, Current, Due
  <2>4. QED
    BY <2>2, <2>3
<1>7. OnItsWay'
  <2>1. UNCHANGED <<conn, clientOpen, serverOpen, wire, down, unheard>> /\ sync' = Idle
    BY DEF ApplyJobs, linkVars, clientVars, serverVars, netVars
  <2>2. SUFFICES ASSUME conn[JobAgent] # NoSocket, CanCarry(conn[JobAgent]), ~unheard,
                        down[conn[JobAgent]] = <<>>
                 PROVE  Current'
    BY <2>1 DEF OnItsWay, CanCarry
  <2>3. QED
    BY <1>1, <1>6, <2>2 DEF SyncInv, OnItsWay
<1>8. QED
  BY <1>4, <1>5, <1>7 DEF SyncInv

LEMMA FetchFailsStep == ASSUME SyncInv, FetchFails PROVE SyncInv'
<1>1. sync' \in Sync
  BY DEF FetchFails, Sync, Idle
<1>2. TypeOK'
  BY <1>1 DEF SyncInv, TypeOK, FetchFails, LinkTypes, linkVars, serverVars, clientVars, netVars, dbVars
<1>3. OneOpen' /\ OnItsWay'
  BY DEF SyncInv, OneOpen, OnItsWay, FetchFails, linkVars, clientVars
<1>4. QED
  BY <1>2, <1>3 DEF SyncInv

LEMMA ReceiveStep == ASSUME SyncInv, ReceiveSyncJobs PROVE SyncInv'
<1>1. LinkTypes(LinkUpMsg, [type : {"sync_jobs"}])
  BY DEF SyncInv, TypeOK
<1>2. conn[JobAgent] \in Sockets /\ down[conn[JobAgent]] # <<>>
  BY <1>1, Numbers DEF ReceiveSyncJobs, Reads, LinkTypes
<1>3. down' \in [Sockets -> Seq([type : {"sync_jobs"}])]
  BY <1>1, <1>2, QueueLemma DEF ReceiveSyncJobs, LinkTypes
<1>4. LinkTypes(LinkUpMsg, [type : {"sync_jobs"}])'
  BY <1>1, <1>3 DEF ReceiveSyncJobs, LinkTypes, serverVars, clientVars
<1>5. sync' \in Sync
  BY DEF ReceiveSyncJobs, Sync, Asked
<1>6. TypeOK'
  BY <1>4, <1>5 DEF SyncInv, TypeOK, ReceiveSyncJobs, dbVars
<1>7. OneOpen' /\ OnItsWay'
  BY DEF SyncInv, OneOpen, OnItsWay, ReceiveSyncJobs, clientVars
<1>8. QED
  BY <1>6, <1>7 DEF SyncInv

\* A step of the link that leaves the agent's connection working leaves what is
\* on its way to the agent alone.
LinkKeeps ==
  \/ conn'[JobAgent] = NoSocket
  \/ ~CanCarry(conn[JobAgent])'
  \/ /\ conn' = conn
     /\ CanCarry(conn[JobAgent])
     /\ down'[conn[JobAgent]] = down[conn[JobAgent]]

LEMMA KeptOnItsWay ==
  ASSUME SyncInv, LinkKeeps, UNCHANGED syncVars PROVE OnItsWay'
<1>1. JobList' = JobList /\ (conn' = conn => Current' = Current)
  BY DEF syncVars, dbVars, agentVars, JobList, Current, Due
<1>2. QED
  BY <1>1 DEF SyncInv, OnItsWay, LinkKeeps, syncVars, agentVars

LEMMA LinkStepKeeps ==
  ASSUME SyncInv, LinkStep PROVE LinkTypes(LinkUpMsg, SyncMsg)' /\ OneOpen' /\ LinkKeeps
<1>1. LinkTypes(LinkUpMsg, SyncMsg) /\ JobAgent \in Agents
  BY Numbers DEF SyncInv, TypeOK, SyncMsg
<1>2. ASSUME NEW s \in Sockets, HandleAgentConnect(s)
      PROVE  LinkTypes(LinkUpMsg, SyncMsg)' /\ OneOpen' /\ LinkKeeps
  <2>1. Head(up[s]) \in LinkUpMsg /\ Head(up[s]).type = "agent_connect"
    BY <1>1, <1>2, QueueLemma DEF HandleAgentConnect, Arrives, LinkTypes
  <2>2. LinkTypes(LinkUpMsg, SyncMsg)'
    BY <1>1, <1>2, <2>1, ConnectNamesAgent, HandleAgentConnectTypes
  <2>3. QED
    BY <1>2, <2>2 DEF HandleAgentConnect, SyncInv, OneOpen, LinkKeeps, CanCarry
<1>3. ASSUME NEW s \in Sockets, ServerClose(s)
      PROVE  LinkTypes(LinkUpMsg, SyncMsg)' /\ OneOpen' /\ LinkKeeps
  <2>1. LinkTypes(LinkUpMsg, SyncMsg)'
    BY <1>1, <1>3, ServerCloseTypes
  <2>2. serverOpen' = serverOpen \ {s} /\ UNCHANGED <<clientVars, wire, down>>
    BY <1>3 DEF ServerClose
  <2>3. QED
    BY <2>1, <2>2 DEF SyncInv, OneOpen, LinkKeeps, CanCarry, clientVars
<1>4. ASSUME NEW s \in Sockets, LoseLink(s)
      PROVE  LinkTypes(LinkUpMsg, SyncMsg)' /\ OneOpen' /\ LinkKeeps
  <2>1. LinkTypes(LinkUpMsg, SyncMsg)'
    BY <1>1, <1>4, LoseLinkTypes
  <2>2. /\ wire' = wire \ {s} /\ UNCHANGED <<conn, clientOpen, serverOpen>>
        /\ down' = [down EXCEPT ![s] = <<>>]
    BY <1>4 DEF LoseLink, serverVars, clientVars
  <2>3. CASE conn[JobAgent] = s
    BY <2>1, <2>2, <2>3 DEF SyncInv, OneOpen, LinkKeeps, CanCarry
  <2>4. CASE conn[JobAgent] # s
    <3>1. CASE conn[JobAgent] = NoSocket
      BY <2>1, <2>2, <3>1 DEF SyncInv, OneOpen, LinkKeeps
    <3>2. CASE conn[JobAgent] \in Sockets
      BY <1>1, <2>1, <2>2, <2>4, <3>2 DEF SyncInv, OneOpen, LinkKeeps, CanCarry, LinkTypes
    <3>3. QED
      BY <1>1, <3>1, <3>2 DEF LinkTypes
  <2>5. QED
    BY <2>3, <2>4
<1>5. CASE ServerRestart
  <2>1. LinkTypes(LinkUpMsg, SyncMsg)'
    BY <1>1, <1>5, ServerRestartTypes
  <2>2. QED
    BY <1>5, <2>1 DEF ServerRestart, ServerDies, SyncInv, OneOpen, LinkKeeps, CanCarry, clientVars
<1>6. QED
  BY <1>2, <1>3, <1>4, <1>5 DEF LinkStep

LEMMA LinkStepStep == ASSUME SyncInv, LinkStep PROVE SyncInv'
<1>1. UNCHANGED syncVars
  BY DEF LinkStep
<1>2. TypeOK'
  BY <1>1, LinkStepKeeps DEF SyncInv, TypeOK, SyncMsg, syncVars, dbVars, agentVars
<1>3. QED
  BY <1>1, <1>2, LinkStepKeeps, KeptOnItsWay DEF SyncInv

LEMMA GoneStep ==
  ASSUME SyncInv, AgentReadError(JobAgent) \/ AgentExit(JobAgent)
  PROVE  LinkTypes(LinkUpMsg, SyncMsg)' /\ OneOpen' /\ OnItsWay'
<1>1. LinkTypes(LinkUpMsg, SyncMsg) /\ JobAgent \in Agents
  BY Numbers DEF SyncInv, TypeOK, SyncMsg
<1>2. LinkTypes(LinkUpMsg, SyncMsg)'
  BY <1>1, AgentGoneTypes
<1>3. clientOpen' = clientOpen \ {conn[JobAgent]} /\ conn' = [conn EXCEPT ![JobAgent] = NoSocket]
  BY DEF AgentReadError, AgentExit
<1>4. OneOpen' /\ conn'[JobAgent] = NoSocket
  BY <1>1, <1>3 DEF SyncInv, OneOpen, LinkTypes
<1>5. QED
  BY <1>2, <1>4 DEF OnItsWay

LEMMA DisconnectStep == ASSUME SyncInv, Disconnect PROVE SyncInv'
<1>1. TypeOK'
  BY GoneStep DEF Disconnect, SyncInv, TypeOK, SyncMsg, syncVars, dbVars, agentVars
<1>2. QED
  BY <1>1, GoneStep DEF Disconnect, SyncInv

LEMMA ExitStep == ASSUME SyncInv, ExitAgent PROVE SyncInv'
<1>1. sync' \in Sync /\ entry' \in Entry
  BY Numbers DEF ExitAgent, Sync, Idle, Entry, NoEntry
<1>2. TypeOK'
  BY <1>1, GoneStep DEF ExitAgent, SyncInv, TypeOK, SyncMsg, dbVars
<1>3. QED
  BY <1>2, GoneStep DEF ExitAgent, SyncInv

LEMMA ConnectStep == ASSUME SyncInv, NEW s \in Sockets, Connect(s) PROVE SyncInv'
<1>1. LinkTypes(LinkUpMsg, SyncMsg) /\ JobAgent \in Agents
  BY Numbers DEF SyncInv, TypeOK, SyncMsg
<1>2. LinkTypes(LinkUpMsg, SyncMsg)'
  BY <1>1, DialTypes DEF Connect
<1>3. sync' \in Sync
  BY DEF Connect, Sync, Asked
<1>4. TypeOK'
  BY <1>2, <1>3 DEF Connect, SyncInv, TypeOK, SyncMsg, dbVars
<1>5. OneOpen'
  <2>1. clientOpen = {}
    BY <1>1, LinkAssumption DEF Connect, Dial, SyncInv, OneOpen, LinkTypes
  <2>2. QED
    BY <1>1, <2>1 DEF Connect, Dial, OneOpen, LinkTypes
<1>6. QED
  BY <1>4, <1>5 DEF Connect, SyncInv, OnItsWay

LEMMA SyncInvStep == ASSUME SyncInv, [Next]_vars PROVE SyncInv'
<1>1. CASE UNCHANGED vars
  BY <1>1 DEF vars, linkVars, serverVars, clientVars, netVars, syncVars, dbVars, agentVars,
              SyncInv, TypeOK, LinkTypes, OneOpen, OnItsWay, CanCarry, Current, Due, JobList
<1>2. QED
  BY <1>1, ApiStep, AnswerStep, ApplyStep, FetchFailsStep, ReceiveStep, ConnectStep,
     DisconnectStep, ExitStep, LinkStepStep DEF Next

-----------------------------------------------------------------------------
\* SyncInv holds in every state.
THEOREM SyncInvariant == Spec => []SyncInv
  BY InitSyncInv, SyncInvStep, PTL DEF Spec

\* Type correctness of definitions, fetches and entries.
THEOREM SyncTypeCorrect == Spec => []TypeOK
<1>1. SyncInv => TypeOK
  BY DEF SyncInv
<1>2. QED
  BY <1>1, SyncInvariant, PTL

\* An agent with nothing under way runs what the database says, but for changes
\* that nobody announced to it and for expressions its parser refuses, of which
\* no entry is left (jobs.ts:139, main.go:639-668).
THEOREM PushedIsCurrent == Spec => []SettledIsCurrent
<1>1. SyncInv => SettledIsCurrent
  <2>1. SUFFICES ASSUME SyncInv, Settled, fresh, ~unheard PROVE Current
    BY DEF SettledIsCurrent
  <2>2. Idle # Asked /\ Idle.phase # "answered"
    BY DEF Idle, Asked
  <2>3. QED
    BY <2>1, <2>2 DEF SyncInv, OnItsWay, Settled
<1>2. QED
  BY <1>1, SyncInvariant, PTL
=============================================================================
