------------------------- MODULE BackupRun_proofs -------------------------
(* Proofs about BackupRun, for every set of agents, jobs, connections and  *)
(* ids, and any number of destinations, milliseconds and failures.         *)
EXTENDS BackupRun, AgentLink_proofs

\* The messages are told apart by their type.
LEMMA MessageFacts ==
  /\ LinkUpMsg \subseteq UpMsg
  /\ \A id \in SnapIds, j \in Jobs :
       /\ [type |-> "snapshot_start", id |-> id, job |-> j] \in UpMsg
       /\ [type |-> "run_job", id |-> id, job |-> j] \in DownMsg
  /\ \A id \in SnapIds, status \in {"success", "failed"} :
       [type |-> "snapshot_done", id |-> id, status |-> status] \in UpMsg
  /\ \A id \in SnapIds, status \in {"passed", "failed"} :
       [type |-> "check_result", id |-> id, status |-> status] \in UpMsg
  /\ [type |-> "sync_jobs"] \in DownMsg
  /\ \A m \in UpMsg :
       /\ m.type = "agent_connect" => m.agentId \in Agents
       /\ m.type = "snapshot_start" => m.id \in SnapIds /\ m.job \in Jobs
       /\ m.type = "snapshot_done" => m.id \in SnapIds /\ m.status \in {"success", "failed"}
       /\ m.type = "check_result" => m.id \in SnapIds /\ m.status \in {"passed", "failed"}
  /\ \A m \in DownMsg : m.type = "run_job" => m.id \in SnapIds /\ m.job \in Jobs
  BY DEF UpMsg, DownMsg, LinkUpMsg, Heartbeat

LEMMA RowFacts ==
  /\ \A j \in Jobs : NewRow(j) \in Row
                     /\ [NewRow(j) EXCEPT !.status = "failed", !.finished = TRUE] \in Row
  /\ NoRow("none") \in Row /\ NoRow("deleted") \in Row
  BY DEF Row, NewRow, NoRow

\* What an outcome does to a row.
LEMMA RecordOutcomeTypes ==
  ASSUME snap \in [SnapIds -> Row], NEW m, m.id \in SnapIds, m.status \in {"success", "failed"}
  PROVE  RecordOutcome(m) \in [SnapIds -> Row]
<1> DEFINE old == snap[m.id]
           new == [old EXCEPT !.status = m.status, !.finished = TRUE]
<1>1. old \in Row
  OBVIOUS
<1>2. new \in Row
  BY <1>1 DEF Row
<1>3. RecordOutcome(m) = [snap EXCEPT ![m.id] = new] \/ RecordOutcome(m) = snap
  BY <1>1 DEF RecordOutcome, Row
<1> HIDE DEF new
<1>4. QED
  BY <1>2, <1>3

\* What a check result does to a row.
LEMMA RecordCheckTypes ==
  ASSUME snap \in [SnapIds -> Row], NEW m, m.id \in SnapIds, m.status \in {"passed", "failed"}
  PROVE  RecordCheck(m) \in [SnapIds -> Row]
<1> DEFINE old    == snap[m.id]
           status == IF m.status = "failed" /\ old.status = "success" THEN "warning" ELSE old.status
           new    == [old EXCEPT !.integrity = m.status, !.status = status]
<1>1. old \in Row
  OBVIOUS
<1>2. new \in Row
  BY <1>1 DEF Row
<1>3. RecordCheck(m) = [snap EXCEPT ![m.id] = new]
  BY <1>1 DEF RecordCheck, Row
<1> HIDE DEF new
<1>4. QED
  BY <1>2, <1>3

\* The message at the head of a queue.
LEMMA HeadTypes ==
  ASSUME TypeOK, NEW s \in Sockets
  PROVE  /\ up[s] # <<>> => Head(up[s]) \in UpMsg
         /\ down[s] # <<>> => Head(down[s]) \in DownMsg
  BY QueueLemma DEF TypeOK, LinkTypes

LEMMA ConsumeTypes ==
  ASSUME TypeOK, NEW s \in Sockets, up[s] # <<>>, Consume(s)
  PROVE  up' \in [Sockets -> Seq(UpMsg)]
  BY QueueLemma DEF TypeOK, LinkTypes, Consume

-----------------------------------------------------------------------------
(* Type correctness.                                                       *)

LEMMA InitTypeOK == ASSUME Init PROVE TypeOK
<1>1. LinkTypes(UpMsg, DownMsg)
  BY InitTypes DEF Init
<1>2. snap \in [SnapIds -> Row]
  BY RowFacts DEF Init
<1>3. QED
  BY <1>1, <1>2, RunAssumption DEF Init, TypeOK

\* What the link does keeps the link's types.
LEMMA LinkMoveTypes ==
  ASSUME TypeOK,
         \/ LinkStep
         \/ \E a \in Agents : Disconnect(a) \/ ExitAgent(a) \/ \E s \in Sockets : Connect(a, s)
         \/ \E s \in Sockets : HandlerThrows(s)
  PROVE  LinkTypes(UpMsg, DownMsg)'
<1>a. LinkTypes(UpMsg, DownMsg)
  BY DEF TypeOK
<1>1. CASE LinkStep
  <2>1. ASSUME NEW s \in Sockets, HandleAgentConnect(s) PROVE LinkTypes(UpMsg, DownMsg)'
    <3>1. Head(up[s]) \in UpMsg /\ Head(up[s]).type = "agent_connect"
      BY <2>1, HeadTypes DEF HandleAgentConnect, Arrives
    <3>2. QED
      BY <1>a, <2>1, <3>1, MessageFacts, HandleAgentConnectTypes
  <2>2. ASSUME NEW s \in Sockets, ServerClose(s) PROVE LinkTypes(UpMsg, DownMsg)'
    BY <1>a, <2>2, ServerCloseTypes
  <2>3. ASSUME NEW s \in Sockets, LoseLink(s) PROVE LinkTypes(UpMsg, DownMsg)'
    BY <1>a, <2>3, LoseLinkTypes
  <2>4. CASE ServerRestart
    BY <1>a, <2>4, ServerRestartTypes
  <2>5. QED
    BY <1>1, <2>1, <2>2, <2>3, <2>4 DEF LinkStep
<1>2. ASSUME NEW a \in Agents, Disconnect(a) \/ ExitAgent(a) PROVE LinkTypes(UpMsg, DownMsg)'
  <2>1. AgentReadError(a) \/ AgentExit(a)
    BY <1>2 DEF Disconnect, ExitAgent
  <2>2. QED
    BY <1>a, <2>1, AgentGoneTypes
<1>3. ASSUME NEW a \in Agents, NEW s \in Sockets, Connect(a, s) PROVE LinkTypes(UpMsg, DownMsg)'
  <2>1. Dial(a, s)
    BY <1>3 DEF Connect
  <2>2. QED
    BY <1>a, <2>1, MessageFacts, DialTypes
<1>4. ASSUME NEW s \in Sockets, HandlerThrows(s) PROVE LinkTypes(UpMsg, DownMsg)'
  <2>1. ServerDies /\ faults' \in Nat
    BY <1>a, <1>4 DEF HandlerThrows, LinkTypes
  <2>2. QED
    BY <1>a, <2>1, ServerDiesTypes
<1>5. QED
  BY <1>1, <1>2, <1>3, <1>4

LEMMA LinkMoveTypeOK ==
  ASSUME TypeOK,
         \/ LinkStep
         \/ \E a \in Agents : Disconnect(a) \/ ExitAgent(a) \/ \E s \in Sockets : Connect(a, s)
         \/ \E s \in Sockets : HandlerThrows(s)
  PROVE  TypeOK'
<1>1. LinkTypes(UpMsg, DownMsg)'
  BY LinkMoveTypes
<1>2. CASE UNCHANGED runVars
  BY <1>1, <1>2 DEF TypeOK, runVars
<1>3. ASSUME NEW a \in Agents, ExitAgent(a) PROVE TypeOK'
  <2>1. entries' \in [Agents -> [Jobs -> Sockets \cup {NoSocket}]]
    BY <1>3 DEF ExitAgent, TypeOK
  <2>2. QED
    BY <1>1, <1>3, <2>1 DEF ExitAgent, TypeOK
<1>4. ASSUME NEW a \in Agents, NEW s \in Sockets, Connect(a, s) PROVE TypeOK'
  BY <1>1, <1>4 DEF Connect, TypeOK
<1>5. QED
  BY <1>2, <1>3, <1>4 DEF LinkStep, Disconnect, HandlerThrows

\* Requests.
LEMMA ApiTypeOK == ASSUME TypeOK, Api PROVE TypeOK'
<1>1. ASSUME NEW j \in Jobs, NEW id \in ManualIds, RunJob(j, id) PROVE TypeOK'
  <2> DEFINE a == JobAgent[j]
             s == agentConnections[a]
             m == [type |-> "run_job", id |-> id, job |-> j]
  <2>1. a \in Agents /\ id \in SnapIds /\ s \in Sockets \cup {NoSocket} /\ m \in DownMsg
    BY RunAssumption, MessageFacts DEF SnapIds, TypeOK, LinkTypes
  <2>2. snap' \in [SnapIds -> Row]
    BY <1>1, <2>1, RowFacts DEF RunJob, TypeOK
  <2>3. down' \in [Sockets -> Seq(DownMsg)]
    <3>1. CASE UNCHANGED down
      BY <3>1 DEF TypeOK, LinkTypes
    <3>2. CASE s # NoSocket /\ SendDown(s, m)
      BY <2>1, <3>2, SendDownTypes DEF TypeOK, LinkTypes
    <3>3. QED
      BY <1>1, <3>1, <3>2 DEF RunJob
  <2>4. agentStatus' \in [Agents -> {"online", "offline", "busy"}]
    BY <1>1, <2>1 DEF RunJob, TypeOK, LinkTypes
  <2>5. QED
    BY <1>1, <2>2, <2>3, <2>4 DEF RunJob, TypeOK, LinkTypes, clientVars
<1>2. ASSUME NEW id \in SnapIds, DeleteSnapshot(id) PROVE TypeOK'
  <2>1. snap' \in [SnapIds -> Row]
    BY <1>2, RowFacts DEF DeleteSnapshot, TypeOK
  <2>2. QED
    BY <1>2, <2>1 DEF DeleteSnapshot, TypeOK, LinkTypes, linkVars, serverVars, clientVars, netVars
<1>3. ASSUME NEW j \in Jobs, ResetRepo(j) PROVE TypeOK'
  <2>1. snap' \in [SnapIds -> Row]
    BY <1>3 DEF ResetRepo, TypeOK, Row
  <2>2. QED
    BY <1>3, <2>1 DEF ResetRepo, TypeOK, LinkTypes, linkVars, serverVars, clientVars, netVars
<1>4. ASSUME NEW j \in Jobs, DeleteJob(j) PROVE TypeOK'
  <2>1. down' \in [Sockets -> Seq(DownMsg)]
    <3>1. JobAgent[j] \in Agents
      BY RunAssumption
    <3>2. agentConnections[JobAgent[j]] \in Sockets \cup {NoSocket}
      BY <3>1 DEF TypeOK, LinkTypes
    <3>3. QED
      BY <1>4, <3>2, MessageFacts, SendDownTypes DEF DeleteJob, Push, TypeOK, LinkTypes
  <2>2. QED
    BY <1>4, <2>1 DEF DeleteJob, TypeOK, LinkTypes, serverVars, clientVars
<1>5. QED
  BY <1>1, <1>2, <1>3, <1>4 DEF Api

\* The agent's message loop, scheduler and clock.
LEMMA LoopTypeOK ==
  ASSUME TypeOK, NEW a \in Agents,
         \/ FirstSync(a)
         \/ ReceiveSyncJobs(a)
         \/ ReceiveRunJob(a)
         \/ \E j \in Jobs : FireSchedule(a, j)
  PROVE  TypeOK'
<1>0. SyncJobs(a) => entries' \in [Agents -> [Jobs -> Sockets \cup {NoSocket}]]
  <2> DEFINE new == [j \in Jobs |-> IF j \in jobs \cap ScheduledJobs /\ JobAgent[j] = a
                                    THEN conn[a] ELSE NoSocket]
  <2>1. conn[a] \in Sockets \cup {NoSocket} /\ entries \in [Agents -> [Jobs -> Sockets \cup {NoSocket}]]
    BY DEF TypeOK, LinkTypes
  <2>2. new \in [Jobs -> Sockets \cup {NoSocket}]
    BY <2>1
  <2>3. SyncJobs(a) => entries' = [entries EXCEPT ![a] = new] \/ entries' = entries
    BY DEF SyncJobs
  <2> HIDE DEF new
  <2>4. QED
    BY <2>1, <2>2, <2>3
<1>1. \A type : ReadMessage(a, type) =>
         /\ conn[a] \in Sockets /\ down[conn[a]] # <<>>
         /\ Head(down[conn[a]]) \in DownMsg /\ Head(down[conn[a]]).type = type
         /\ down' \in [Sockets -> Seq(DownMsg)]
  <2>1. SUFFICES ASSUME NEW type, ReadMessage(a, type)
        PROVE /\ conn[a] \in Sockets /\ down[conn[a]] # <<>>
              /\ Head(down[conn[a]]) \in DownMsg /\ Head(down[conn[a]]).type = type
              /\ down' \in [Sockets -> Seq(DownMsg)]
    OBVIOUS
  <2>2. conn[a] \in Sockets /\ down[conn[a]] # <<>> /\ Head(down[conn[a]]).type = type
    BY <2>1 DEF ReadMessage, Reads, TypeOK, LinkTypes
  <2>3. down' = [down EXCEPT ![conn[a]] = Tail(@)] /\ down \in [Sockets -> Seq(DownMsg)]
    BY <2>1 DEF ReadMessage, TypeOK, LinkTypes
  <2>4. QED
    BY <2>2, <2>3, QueueLemma
<1>2. CASE FirstSync(a)
  BY <1>0, <1>2 DEF FirstSync, TypeOK, LinkTypes, linkVars, serverVars, clientVars, netVars
<1>3. CASE ReceiveSyncJobs(a)
  BY <1>0, <1>1, <1>3 DEF ReceiveSyncJobs, TypeOK, LinkTypes, serverVars, clientVars
<1>4. CASE ReceiveRunJob(a)
  <2> DEFINE m == Head(down[conn[a]])
             r == [id |-> m.id, job |-> m.job, conn |-> conn[a], phase |-> "fetch", left |-> 0]
  <2>1. ReadMessage(a, "run_job") /\ runs' = runs \cup {r}
    BY <1>4 DEF ReceiveRunJob
  <2>2. r \in Run
    BY <1>1, <2>1, MessageFacts, RunAssumption DEF Run
  <2>3. runs' \subseteq Run
    BY <2>1, <2>2 DEF TypeOK
  <2>4. QED
    BY <1>1, <1>4, <2>1, <2>3 DEF ReceiveRunJob, TypeOK, LinkTypes, serverVars, clientVars
<1>5. ASSUME NEW j \in Jobs, FireSchedule(a, j) PROVE TypeOK'
  <2> DEFINE s == entries[a][j]
             r == [id |-> ms, job |-> j, conn |-> s, phase |-> "backup", left |-> 0]
  <2>1. s \in Sockets /\ ms \in SnapIds
    BY <1>5, RunAssumption DEF FireSchedule, TypeOK, SnapIds
  <2>2. r \in Run
    BY <2>1, RunAssumption DEF Run
  <2>3. runs' \subseteq Run
    BY <1>5, <2>2 DEF FireSchedule, TypeOK
  <2>4. up' \in [Sockets -> Seq(UpMsg)]
    BY <1>5, <2>1, MessageFacts, SendUpTypes DEF FireSchedule, TypeOK, LinkTypes
  <2>5. QED
    BY <1>5, <2>3, <2>4 DEF FireSchedule, TypeOK, LinkTypes, serverVars, clientVars
<1>6. QED
  BY <1>2, <1>3, <1>4, <1>5

LEMMA GoroutineTypeOK == ASSUME TypeOK, NEW r \in runs, Goroutine(r) PROVE TypeOK'
<1>1. r \in Run /\ r.conn \in Sockets /\ r.id \in SnapIds /\ runs \subseteq Run
  BY DEF TypeOK, Run
<1>2. /\ \A status \in {"success", "failed"} :
           SendDone(r, status) => up' \in [Sockets -> Seq(UpMsg)]
      /\ \A result \in {"passed", "failed"} :
           SendUp(r.conn, [type |-> "check_result", id |-> r.id, status |-> result])
             => up' \in [Sockets -> Seq(UpMsg)]
  BY <1>1, MessageFacts, SendUpTypes DEF SendDone, TypeOK, LinkTypes
<1>3. CASE FetchOk(r)
  <2>1. [r EXCEPT !.phase = "backup"] \in Run
    BY <1>1 DEF Run
  <2>2. runs' \subseteq Run
    BY <1>1, <1>3, <2>1 DEF FetchOk
  <2>3. QED
    BY <1>3, <2>2 DEF FetchOk, TypeOK, LinkTypes, linkVars, serverVars, clientVars, netVars
<1>4. CASE FetchFails(r)
  <2>1. runs' \subseteq Run /\ up' \in [Sockets -> Seq(UpMsg)]
    BY <1>1, <1>2, <1>4 DEF FetchFails
  <2>2. QED
    BY <1>4, <2>1 DEF FetchFails, TypeOK, LinkTypes, serverVars, clientVars
<1>5. CASE FinishBackup(r)
  <2>0. NumDests \in 0..NumDests
    BY RunAssumption
  <2>1. [r EXCEPT !.phase = "check", !.left = NumDests] \in Run
    BY <1>1, <2>0 DEF Run
  <2>2. runs' \subseteq Run /\ up' \in [Sockets -> Seq(UpMsg)]
    BY <1>1, <1>2, <1>5, <2>1 DEF FinishBackup
  <2>3. QED
    BY <1>5, <2>2 DEF FinishBackup, TypeOK, LinkTypes, serverVars, clientVars
<1>6. CASE CheckDestination(r)
  <2>1. r.left > 1 => [r EXCEPT !.left = @ - 1] \in Run
    BY <1>1, RunAssumption DEF Run
  <2>2. runs' \subseteq Run /\ up' \in [Sockets -> Seq(UpMsg)]
    BY <1>1, <1>2, <1>6, <2>1 DEF CheckDestination
  <2>3. QED
    BY <1>6, <2>2 DEF CheckDestination, TypeOK, LinkTypes, serverVars, clientVars
<1>7. QED
  BY <1>3, <1>4, <1>5, <1>6 DEF Goroutine

\* The server's handlers.
LEMMA HandlerTypeOK ==
  ASSUME TypeOK, NEW s \in Sockets,
         HandleSnapshotStart(s) \/ HandleSnapshotDone(s) \/ HandleCheckResult(s)
  PROVE  TypeOK'
<1> DEFINE m == Head(up[s])
<1>1. up[s] # <<>> /\ m \in UpMsg /\ socketToAgent[s] \in Agents
  BY HeadTypes DEF HandleSnapshotStart, HandleSnapshotDone, HandleCheckResult, FromAgent, Arrives,
                   TypeOK, LinkTypes
<1>2. Consume(s) => up' \in [Sockets -> Seq(UpMsg)]
  BY <1>1, ConsumeTypes
<1>3. CASE HandleSnapshotStart(s)
  <2>1. m.id \in SnapIds /\ m.job \in Jobs
    BY <1>1, <1>3, MessageFacts DEF HandleSnapshotStart, FromAgent, Arrives
  <2>2. snap' \in [SnapIds -> Row]
    BY <1>3, <2>1, RowFacts DEF HandleSnapshotStart, SnapshotStart, TypeOK
  <2>3. agentStatus' \in [Agents -> {"online", "offline", "busy"}]
    BY <1>1, <1>3 DEF HandleSnapshotStart, SnapshotStart, TypeOK, LinkTypes
  <2>4. QED
    BY <1>2, <1>3, <2>2, <2>3 DEF HandleSnapshotStart, TypeOK, LinkTypes, clientVars
<1>4. CASE HandleSnapshotDone(s)
  <2>1. m.id \in SnapIds /\ m.status \in {"success", "failed"}
    BY <1>1, <1>4, MessageFacts DEF HandleSnapshotDone, FromAgent, Arrives
  <2>2. snap' \in [SnapIds -> Row]
    <3>1. snap' = RecordOutcome(Head(up[s]))
      BY <1>4 DEF HandleSnapshotDone
    <3>2. RecordOutcome(Head(up[s])) \in [SnapIds -> Row]
      BY <2>1, RecordOutcomeTypes DEF TypeOK
    <3>3. QED
      BY <3>1, <3>2
  <2>3. agentStatus' \in [Agents -> {"online", "offline", "busy"}]
    BY <1>1, <1>4 DEF HandleSnapshotDone, TypeOK, LinkTypes
  <2>4. QED
    BY <1>2, <1>4, <2>2, <2>3 DEF HandleSnapshotDone, TypeOK, LinkTypes, clientVars
<1>5. CASE HandleCheckResult(s)
  <2>1. m.id \in SnapIds /\ m.status \in {"passed", "failed"}
    BY <1>1, <1>5, MessageFacts DEF HandleCheckResult, FromAgent, Arrives
  <2>2. snap' \in [SnapIds -> Row]
    <3>1. snap' = RecordCheck(Head(up[s]))
      BY <1>5 DEF HandleCheckResult
    <3>2. RecordCheck(Head(up[s])) \in [SnapIds -> Row]
      BY <2>1, RecordCheckTypes DEF TypeOK
    <3>3. QED
      BY <3>1, <3>2
  <2>3. QED
    BY <1>2, <1>5, <2>2 DEF HandleCheckResult, TypeOK, LinkTypes, serverVars, clientVars
<1>6. QED
  BY <1>3, <1>4, <1>5

LEMMA StepTypeOK == ASSUME TypeOK, [Next]_vars PROVE TypeOK'
<1>1. CASE Tick
  BY <1>1, RunAssumption
  DEF Tick, TypeOK, LinkTypes, linkVars, serverVars, clientVars, netVars
<1>2. CASE UNCHANGED vars
  BY <1>2 DEF vars, runVars, linkVars, serverVars, clientVars, netVars, TypeOK, LinkTypes
<1>3. QED
  BY <1>1, <1>2, ApiTypeOK, LoopTypeOK, GoroutineTypeOK, HandlerTypeOK, LinkMoveTypeOK
  DEF Next, Agent, Server

LEMMA TypeInvariant == Spec => []TypeOK
  BY InitTypeOK, StepTypeOK, PTL DEF Spec

\* Rows, goroutines, scheduler entries and messages keep their types
\* (db/index.ts:84-104, main.go:251-525, 639-676).
THEOREM TypeCorrect == Spec => []TypeOK
  BY TypeInvariant

-----------------------------------------------------------------------------
(* An outcome has its row. What makes the property inductive: a goroutine   *)
(* whose connection still carries messages has been announced on that very  *)
(* connection, or its row is there already; a manual backup is announced by *)
(* the row that its request inserted; and no row returns to "none".         *)

\* The row of snapshot id exists, or its insertion is on the way on s.
Announced(s, id) ==
  \/ snap[id].status # "none"
  \/ \E k \in DOMAIN up[s] : up[s][k].type = "snapshot_start" /\ up[s][k].id = id

RunsAnnounced == \A r \in runs : CanCarry(r.conn) => Announced(r.conn, r.id)

RequestsHaveRows ==
  \A s \in Sockets : \A i \in DOMAIN down[s] :
    down[s][i].type = "run_job" => snap[down[s][i].id].status # "none"

OrderInv == TypeOK /\ OutcomeHasRow /\ RunsAnnounced /\ RequestsHaveRows

RowsKept == \A id \in SnapIds : snap[id].status # "none" => snap'[id].status # "none"

\* Positions in a queue that got longer or shorter by one.
LEMMA TailFacts ==
  ASSUME NEW M, NEW q \in Seq(M), q # <<>>
  PROVE  /\ Tail(q) \in Seq(M)
         /\ Len(q) \in Nat \ {0}
         /\ DOMAIN q = 1..Len(q)
         /\ DOMAIN Tail(q) = 1..(Len(q) - 1)
         /\ \A i \in DOMAIN Tail(q) : i + 1 \in DOMAIN q /\ Tail(q)[i] = q[i + 1]
         /\ 1 \in DOMAIN q /\ Head(q) = q[1] /\ Head(q) \in M
  OBVIOUS

LEMMA AppendFacts ==
  ASSUME NEW M, NEW q \in Seq(M), NEW m \in M
  PROVE  /\ Len(q) \in Nat
         /\ DOMAIN q = 1..Len(q)
         /\ DOMAIN Append(q, m) = 1..(Len(q) + 1)
         /\ \A i \in DOMAIN q : Append(q, m)[i] = q[i]
         /\ Append(q, m)[Len(q) + 1] = m
  OBVIOUS

\* No row that was there, or was deleted, is unheard of afterwards.
LEMMA StepRowsKept == ASSUME TypeOK, [Next]_vars PROVE RowsKept
<1>0. snap \in [SnapIds -> Row]
  BY DEF TypeOK
<1>1. CASE UNCHANGED snap
  BY <1>1 DEF RowsKept
<1>2. ASSUME NEW j \in Jobs, NEW id \in ManualIds, RunJob(j, id) PROVE RowsKept
  <2>1. snap[id].status = "none"
    BY <1>2 DEF RunJob, NoRow
  <2>2. \A x \in SnapIds : x # id => snap'[x] = snap[x]
    BY <1>0, <1>2 DEF RunJob
  <2>3. QED
    BY <2>1, <2>2 DEF RowsKept
<1>3. ASSUME NEW id \in SnapIds, DeleteSnapshot(id) PROVE RowsKept
  BY <1>0, <1>3 DEF DeleteSnapshot, NoRow, RowsKept
<1>4. ASSUME NEW j \in Jobs, ResetRepo(j) PROVE RowsKept
  BY <1>0, <1>4 DEF ResetRepo, RowsKept, Row
<1>5. ASSUME NEW s \in Sockets, HandleSnapshotStart(s) PROVE RowsKept
  BY <1>0, <1>5 DEF HandleSnapshotStart, SnapshotStart, NewRow, RowsKept
<1>6. ASSUME NEW s \in Sockets, HandleSnapshotDone(s) PROVE RowsKept
  <2> DEFINE m == Head(up[s])
  <2>1. m.id \in SnapIds /\ m.status \in {"success", "failed"}
    BY <1>6, HeadTypes, MessageFacts DEF HandleSnapshotDone, FromAgent, Arrives
  <2>2. snap' = RecordOutcome(m)
    BY <1>6 DEF HandleSnapshotDone
  <2> HIDE DEF m
  <2>3. QED
    BY <1>0, <2>1, <2>2 DEF RecordOutcome, RowsKept, Row
<1>7. ASSUME NEW s \in Sockets, HandleCheckResult(s) PROVE RowsKept
  <2> DEFINE m == Head(up[s])
  <2>1. m.id \in SnapIds
    BY <1>7, HeadTypes, MessageFacts DEF HandleCheckResult, FromAgent, Arrives
  <2>2. snap' = RecordCheck(m)
    BY <1>7 DEF HandleCheckResult
  <2> HIDE DEF m
  <2>3. QED
    BY <1>0, <2>1, <2>2 DEF RecordCheck, RowsKept, Row
<1>8. QED
  BY <1>1, <1>2, <1>3, <1>4, <1>5, <1>6, <1>7
  DEF Next, Api, DeleteJob, Agent, FirstSync, ReceiveSyncJobs, ReceiveRunJob, FireSchedule, Connect,
      Disconnect, ExitAgent, Goroutine, FetchOk, FetchFails, FinishBackup, CheckDestination, Tick,
      Server, HandlerThrows, LinkStep, runVars, vars

\* The server handles the first message of s; if that is an announcement, the
\* row is there afterwards.
LEMMA ConsumeOrder ==
  ASSUME OrderInv, RowsKept, NEW s \in Sockets, up[s] # <<>>, Consume(s),
         Head(up[s]).type = "snapshot_start" => snap'[Head(up[s]).id].status # "none"
  PROVE  /\ OutcomeHasRow'
         /\ \A t \in Sockets, id \in SnapIds : Announced(t, id) => Announced(t, id)'
<1>0. up \in [Sockets -> Seq(UpMsg)]
  BY DEF OrderInv, TypeOK, LinkTypes
<1>1. /\ up'[s] = Tail(up[s])
      /\ \A t \in Sockets : t # s => up'[t] = up[t]
  BY <1>0 DEF Consume
<1>2. /\ Len(up[s]) \in Nat \ {0}
      /\ DOMAIN up[s] = 1..Len(up[s])
      /\ DOMAIN up'[s] = 1..(Len(up[s]) - 1)
      /\ \A i \in DOMAIN up'[s] : i + 1 \in DOMAIN up[s] /\ up'[s][i] = up[s][i + 1]
      /\ Head(up[s]) = up[s][1]
  BY <1>0, <1>1, TailFacts
<1>3. ASSUME NEW t \in Sockets, NEW id \in SnapIds, Announced(t, id) PROVE Announced(t, id)'
  <2>1. CASE snap[id].status # "none"
    BY <2>1 DEF RowsKept, Announced
  <2>2. CASE t # s
    BY <1>1, <1>3, <2>2 DEF RowsKept, Announced
  <2>3. ASSUME t = s, NEW k \in DOMAIN up[s], up[s][k].type = "snapshot_start", up[s][k].id = id
        PROVE  Announced(t, id)'
    <3>1. CASE k = 1
      BY <1>2, <2>3, <3>1 DEF Announced
    <3>2. CASE k # 1
      <4>1. k - 1 \in DOMAIN up'[s] /\ up'[s][k - 1] = up[s][k]
        BY <1>2, <2>3, <3>2
      <4>2. QED
        BY <2>3, <4>1 DEF Announced
    <3>3. QED
      BY <3>1, <3>2
  <2>4. QED
    BY <1>3, <2>1, <2>2, <2>3 DEF Announced
<1>4. ASSUME NEW t \in Sockets, NEW i \in DOMAIN up'[t],
             up'[t][i].type \in {"snapshot_done", "check_result"}
      PROVE  \/ snap'[up'[t][i].id].status # "none"
             \/ \E k \in 1..(i - 1) : up'[t][k].type = "snapshot_start" /\ up'[t][k].id = up'[t][i].id
  <2>0. \A u \in Sockets : \A x \in DOMAIN up[u] : up[u][x] \in UpMsg
    BY <1>0
  <2>1. CASE t # s
    <3>1. i \in DOMAIN up[t] /\ up'[t] = up[t]
      BY <1>1, <1>4, <2>1
    <3>2. up[t][i].id \in SnapIds
      BY <1>4, <2>0, <3>1, MessageFacts
    <3>3. QED
      BY <1>4, <3>1, <3>2 DEF OrderInv, OutcomeHasRow, RowsKept
  <2>2. CASE t = s
    <3>1. i + 1 \in DOMAIN up[s] /\ up'[s][i] = up[s][i + 1] /\ i \in Nat
      BY <1>2, <1>4, <2>2
    <3>2. up[s][i + 1].id \in SnapIds
      BY <1>4, <2>0, <2>2, <3>1, MessageFacts
    <3>3. CASE snap[up[s][i + 1].id].status # "none"
      BY <2>2, <3>1, <3>2, <3>3 DEF RowsKept
    <3>4. ASSUME NEW k \in 1..i, up[s][k].type = "snapshot_start", up[s][k].id = up[s][i + 1].id
          PROVE  \/ snap'[up'[t][i].id].status # "none"
                 \/ \E n \in 1..(i - 1) : up'[t][n].type = "snapshot_start"
                                          /\ up'[t][n].id = up'[t][i].id
      <4>1. CASE k = 1
        BY <1>2, <2>2, <3>1, <3>4, <4>1
      <4>2. CASE k # 1
        <5>1. k - 1 \in 1..(i - 1) /\ k - 1 \in DOMAIN up'[s] /\ up'[s][k - 1] = up[s][k]
          <6>1. i \in DOMAIN up'[s]
            BY <1>4, <2>2
          <6>2. i \in 1..(Len(up[s]) - 1) /\ k \in 1..i /\ k # 1
            BY <1>2, <3>4, <4>2, <6>1
          <6>3. k - 1 \in 1..(Len(up[s]) - 1) /\ k - 1 \in 1..(i - 1) /\ (k - 1) + 1 = k
            BY <1>2, <6>2
          <6>4. QED
            BY <1>2, <6>3
        <5>2. QED
          BY <2>2, <3>1, <3>4, <5>1
      <4>3. QED
        BY <4>1, <4>2
    <3>5. \/ snap[up[s][i + 1].id].status # "none"
          \/ \E k \in 1..i : up[s][k].type = "snapshot_start" /\ up[s][k].id = up[s][i + 1].id
      <4>1. up[s][i + 1].type \in {"snapshot_done", "check_result"} /\ (i + 1) - 1 = i
        BY <1>4, <2>2, <3>1
      <4>2. QED
        BY <3>1, <4>1 DEF OrderInv, OutcomeHasRow
    <3>6. QED
      BY <3>3, <3>4, <3>5
  <2>3. QED
    BY <2>1, <2>2
<1>5. QED
  BY <1>3, <1>4 DEF OutcomeHasRow

\* A message is written to s: an outcome only if the snapshot is announced.
LEMMA SendOrder ==
  ASSUME OrderInv, UNCHANGED snap, NEW s \in Sockets, NEW m \in UpMsg, SendUp(s, m),
         CanCarry(s) /\ m.type \in {"snapshot_done", "check_result"} => Announced(s, m.id)
  PROVE  /\ OutcomeHasRow'
         /\ \A t \in Sockets, id \in SnapIds : Announced(t, id) => Announced(t, id)'
         /\ CanCarry(s) => \E k \in DOMAIN up'[s] : up'[s][k] = m
<1>0. up \in [Sockets -> Seq(UpMsg)]
  BY DEF OrderInv, TypeOK, LinkTypes
<1>1. CASE ~CanCarry(s)
  BY <1>1 DEF SendUp, OrderInv, OutcomeHasRow, Announced
<1>2. CASE CanCarry(s)
  <2>1. /\ up'[s] = Append(up[s], m)
        /\ \A t \in Sockets : t # s => up'[t] = up[t]
    BY <1>0, <1>2 DEF SendUp
  <2>2. /\ Len(up[s]) \in Nat
        /\ DOMAIN up[s] = 1..Len(up[s])
        /\ DOMAIN up'[s] = 1..(Len(up[s]) + 1)
        /\ \A i \in DOMAIN up[s] : up'[s][i] = up[s][i]
        /\ up'[s][Len(up[s]) + 1] = m
    BY <1>0, <2>1, AppendFacts
  <2>3. \A t \in Sockets, id \in SnapIds : Announced(t, id) => Announced(t, id)'
    BY <2>1, <2>2 DEF Announced
  <2>4. ASSUME NEW t \in Sockets, NEW i \in DOMAIN up'[t],
               up'[t][i].type \in {"snapshot_done", "check_result"}
        PROVE  \/ snap'[up'[t][i].id].status # "none"
               \/ \E k \in 1..(i - 1) : up'[t][k].type = "snapshot_start" /\ up'[t][k].id = up'[t][i].id
    <3>1. CASE t # s
      BY <2>1, <2>4, <3>1 DEF OrderInv, OutcomeHasRow
    <3>2. CASE t = s /\ i \in DOMAIN up[s]
      <4>1. \A k \in 1..(i - 1) : k \in DOMAIN up[s]
        BY <2>2, <3>2
      <4>2. QED
        BY <2>2, <2>4, <3>2, <4>1 DEF OrderInv, OutcomeHasRow
    <3>3. CASE t = s /\ i = Len(up[s]) + 1
      <4>1. up'[s][i] = m /\ (i - 1) = Len(up[s])
        BY <2>2, <3>3
      <4>2. Announced(s, m.id)
        BY <1>2, <2>4, <3>3, <4>1
      <4>3. QED
        BY <2>2, <3>3, <4>1, <4>2 DEF Announced
    <3>4. QED
      BY <2>2, <2>4, <3>1, <3>2, <3>3
  <2>5. QED
    BY <2>2, <2>3, <2>4 DEF OutcomeHasRow
<1>3. QED
  BY <1>1, <1>2

\* Queues of which each is as it was or carries nothing of a backup.
LEMMA QuietOrder ==
  ASSUME OrderInv, RowsKept,
         \A t \in Sockets : up'[t] \in {up[t], <<>>} \/ \E a \in Agents : up'[t] = <<AgentConnect(a)>>
  PROVE  OutcomeHasRow'
<1>0. /\ \A t \in Sockets : \A x \in DOMAIN up[t] : up[t][x] \in UpMsg
      /\ \A a \in Agents : \A x \in DOMAIN <<AgentConnect(a)>> :
           <<AgentConnect(a)>>[x].type = "agent_connect"
  BY DEF OrderInv, TypeOK, LinkTypes, AgentConnect
<1>1. SUFFICES ASSUME NEW t \in Sockets, NEW i \in DOMAIN up'[t],
                      up'[t][i].type \in {"snapshot_done", "check_result"}
      PROVE  \/ snap'[up'[t][i].id].status # "none"
             \/ \E k \in 1..(i - 1) : up'[t][k].type = "snapshot_start" /\ up'[t][k].id = up'[t][i].id
  BY DEF OutcomeHasRow
<1>2. up'[t] = up[t]
  <2>1. up'[t] # <<>>
    BY <1>1
  <2>2. \A a \in Agents : up'[t] # <<AgentConnect(a)>>
    BY <1>0, <1>1
  <2>3. QED
    BY <2>1, <2>2
<1>3. up[t][i].id \in SnapIds
  BY <1>0, <1>1, <1>2, MessageFacts
<1>4. QED
  BY <1>1, <1>2, <1>3 DEF OrderInv, OutcomeHasRow, RowsKept

\* Requests on their way to an agent: old ones, or one whose row is there.
LEMMA RequestsKept ==
  ASSUME OrderInv, RowsKept,
         \A t \in Sockets : \A i \in DOMAIN down'[t] :
           \/ \E k \in DOMAIN down[t] : down'[t][i] = down[t][k]
           \/ down'[t][i].type = "run_job" => snap'[down'[t][i].id].status # "none"
  PROVE  RequestsHaveRows'
<1>1. \A t \in Sockets : \A k \in DOMAIN down[t] : down[t][k] \in DownMsg
  BY DEF OrderInv, TypeOK, LinkTypes
<1>2. SUFFICES ASSUME NEW t \in Sockets, NEW i \in DOMAIN down'[t], down'[t][i].type = "run_job"
      PROVE  snap'[down'[t][i].id].status # "none"
  BY DEF RequestsHaveRows
<1>3. ASSUME NEW k \in DOMAIN down[t], down'[t][i] = down[t][k]
      PROVE  snap'[down'[t][i].id].status # "none"
  <2>1. down[t][k].id \in SnapIds /\ snap[down[t][k].id].status # "none"
    BY <1>1, <1>2, <1>3, MessageFacts DEF OrderInv, RequestsHaveRows
  <2>2. QED
    BY <1>3, <2>1 DEF RowsKept
<1>4. QED
  BY <1>2, <1>3

LEMMA SendDownRequests ==
  ASSUME OrderInv, RowsKept, NEW s \in Sockets, NEW m \in DownMsg, SendDown(s, m),
         m.type = "run_job" => snap'[m.id].status # "none"
  PROVE  RequestsHaveRows'
<1>0. down \in [Sockets -> Seq(DownMsg)]
  BY DEF OrderInv, TypeOK, LinkTypes
<1>1. CASE down' = down
  BY <1>1, RequestsKept
<1>2. CASE down' = [down EXCEPT ![s] = Append(@, m)]
  <2>1. \A t \in Sockets : t # s => down'[t] = down[t]
    BY <1>0, <1>2
  <2>2. \A i \in DOMAIN down'[s] : down'[s][i] = m \/ \E k \in DOMAIN down[s] : down'[s][i] = down[s][k]
    <3>1. down'[s] = Append(down[s], m)
      BY <1>0, <1>2
    <3>2. QED
      BY <1>0, <3>1, AppendFacts
  <2>3. QED
    BY <2>1, <2>2, RequestsKept
<1>3. QED
  BY <1>1, <1>2 DEF SendDown

LEMMA ReadRequests ==
  ASSUME OrderInv, RowsKept, NEW a \in Agents, NEW type, ReadMessage(a, type)
  PROVE  RequestsHaveRows'
<1> DEFINE s == conn[a]
<1>0. /\ down \in [Sockets -> Seq(DownMsg)] /\ s \in Sockets /\ down[s] # <<>>
      /\ down' = [down EXCEPT ![s] = Tail(@)]
  BY DEF OrderInv, TypeOK, LinkTypes, ReadMessage, Reads
<1> HIDE DEF s
<1>1. \A t \in Sockets : t # s => down'[t] = down[t]
  BY <1>0
<1>2. \A i \in DOMAIN down'[s] : \E k \in DOMAIN down[s] : down'[s][i] = down[s][k]
  <2>1. down'[s] = Tail(down[s])
    BY <1>0
  <2>2. QED
    BY <1>0, <2>1, TailFacts
<1>3. QED
  BY <1>1, <1>2, RequestsKept

\* Goroutines of before, on connections whose state did not get better.
LEMMA RunsKept ==
  ASSUME OrderInv,
         \A r \in runs : Announced(r.conn, r.id) /\ CanCarry(r.conn)' => Announced(r.conn, r.id)',
         \A r \in runs' : \/ \E q \in runs : q.id = r.id /\ q.conn = r.conn
                          \/ CanCarry(r.conn)' => Announced(r.conn, r.id)',
         \A r \in runs : CanCarry(r.conn)' => CanCarry(r.conn)
  PROVE  RunsAnnounced'
<1>1. SUFFICES ASSUME NEW r \in runs', CanCarry(r.conn)' PROVE Announced(r.conn, r.id)'
  BY DEF RunsAnnounced
<1>2. ASSUME NEW q \in runs, q.id = r.id, q.conn = r.conn PROVE Announced(r.conn, r.id)'
  <2>1. q.conn \in Sockets /\ q.id \in SnapIds
    BY DEF OrderInv, TypeOK, Run
  <2>2. CanCarry(q.conn)' /\ Announced(q.conn, q.id)
    BY <1>1, <1>2 DEF OrderInv, RunsAnnounced, CanCarry
  <2>3. QED
    BY <1>2, <2>1, <2>2 DEF Announced
<1>3. QED
  BY <1>1, <1>2

\* The link's own steps.
LEMMA LinkMoveOrder ==
  ASSUME OrderInv,
         \/ LinkStep
         \/ \E a \in Agents : Disconnect(a) \/ ExitAgent(a) \/ \E s \in Sockets : Connect(a, s)
         \/ \E s \in Sockets : HandlerThrows(s)
  PROVE  OutcomeHasRow' /\ RunsAnnounced' /\ RequestsHaveRows'
<1>0. UNCHANGED snap /\ RowsKept /\ runs' \subseteq runs
  BY DEF LinkStep, Disconnect, ExitAgent, Connect, HandlerThrows, runVars, RowsKept
<1>a. /\ up \in [Sockets -> Seq(UpMsg)] /\ down \in [Sockets -> Seq(DownMsg)]
      /\ \A r \in runs : r.conn \in Sockets /\ r.id \in SnapIds
      /\ \A a \in Agents : conn[a] \in Sockets \cup {NoSocket}
  BY DEF OrderInv, TypeOK, LinkTypes, Run
<1>b. ASSUME \A t \in Sockets : down'[t] \in {down[t], <<>>}
      PROVE  RequestsHaveRows'
  <2>1. \A t \in Sockets : \A i \in DOMAIN down'[t] : \E k \in DOMAIN down[t] : down'[t][i] = down[t][k]
    BY <1>b
  <2>2. QED
    BY <1>0, <2>1, RequestsKept
<1>c. ASSUME \A r \in runs : CanCarry(r.conn)' => CanCarry(r.conn) /\ up'[r.conn] = up[r.conn]
      PROVE  RunsAnnounced'
  <2>1. \A r \in runs : Announced(r.conn, r.id) /\ CanCarry(r.conn)' => Announced(r.conn, r.id)'
    BY <1>0, <1>c DEF Announced
  <2>2. QED
    BY <1>0, <1>c, <2>1, RunsKept
<1>1. ASSUME NEW s \in Sockets, HandleAgentConnect(s), runs' = runs
      PROVE  OutcomeHasRow' /\ RunsAnnounced' /\ RequestsHaveRows'
  <2>1. up[s] # <<>> /\ Head(up[s]).type = "agent_connect" /\ Consume(s)
    BY <1>1 DEF HandleAgentConnect, Arrives
  <2>2. /\ OutcomeHasRow'
        /\ \A t \in Sockets, id \in SnapIds : Announced(t, id) => Announced(t, id)'
    BY <1>0, <2>1, ConsumeOrder
  <2>3. UNCHANGED <<serverOpen, clientOpen, wire, down>>
    BY <1>1 DEF HandleAgentConnect
  <2>4. RunsAnnounced'
    BY <1>1, <1>a, <2>2, <2>3, RunsKept DEF CanCarry
  <2>5. QED
    BY <1>b, <2>2, <2>3, <2>4
<1>2. ASSUME NEW s \in Sockets, ServerClose(s) PROVE OutcomeHasRow' /\ RunsAnnounced' /\ RequestsHaveRows'
  <2>1. /\ \A t \in Sockets : up'[t] \in {up[t], <<>>}
        /\ \A t \in Sockets : CanCarry(t)' => CanCarry(t) /\ up'[t] = up[t]
        /\ down' = down
    BY <1>2, <1>a DEF ServerClose, CanCarry, clientVars
  <2>2. QED
    BY <1>0, <1>a, <1>b, <1>c, <2>1, QuietOrder
<1>3. ASSUME NEW s \in Sockets, LoseLink(s) PROVE OutcomeHasRow' /\ RunsAnnounced' /\ RequestsHaveRows'
  <2>1. /\ \A t \in Sockets : up'[t] \in {up[t], <<>>}
        /\ \A t \in Sockets : CanCarry(t)' => CanCarry(t) /\ up'[t] = up[t]
        /\ \A t \in Sockets : down'[t] \in {down[t], <<>>}
    BY <1>3, <1>a DEF LoseLink, CanCarry, clientVars, serverVars
  <2>2. QED
    BY <1>0, <1>a, <1>b, <1>c, <2>1, QuietOrder
<1>4. ASSUME ServerDies PROVE OutcomeHasRow' /\ RunsAnnounced' /\ RequestsHaveRows'
  <2>1. /\ \A t \in Sockets : up'[t] = <<>>
        /\ \A t \in Sockets : ~CanCarry(t)'
        /\ \A t \in Sockets : down'[t] = <<>>
    BY <1>4 DEF ServerDies, CanCarry
  <2>2. QED
    BY <1>0, <1>a, <1>b, <1>c, <2>1, QuietOrder
<1>5. ASSUME NEW a \in Agents, AgentReadError(a) \/ AgentExit(a)
      PROVE  OutcomeHasRow' /\ RunsAnnounced' /\ RequestsHaveRows'
  <2>1. conn[a] \in Sockets
    BY <1>5, <1>a DEF AgentReadError, AgentExit
  <2>2. /\ up' = up
        /\ UNCHANGED <<serverOpen, wire>>
        /\ clientOpen' = clientOpen \ {conn[a]}
        /\ down' = [down EXCEPT ![conn[a]] = <<>>]
    BY <1>5 DEF AgentReadError, AgentExit, serverVars
  <2>3. /\ \A t \in Sockets : CanCarry(t)' => CanCarry(t)
        /\ \A t \in Sockets : down'[t] \in {down[t], <<>>}
    BY <1>a, <2>1, <2>2 DEF CanCarry
  <2>4. QED
    BY <1>0, <1>a, <1>b, <1>c, <2>2, <2>3, QuietOrder
<1>6. ASSUME NEW a \in Agents, NEW s \in Sockets, Connect(a, s)
      PROVE  OutcomeHasRow' /\ RunsAnnounced' /\ RequestsHaveRows'
  <2>1. \A r \in runs : r.conn # s
    BY <1>6 DEF Connect, Captured
  <2>2. /\ \A t \in Sockets : t # s => up'[t] = up[t] /\ down'[t] = down[t]
        /\ up'[s] = <<AgentConnect(a)>> /\ down'[s] = <<>>
        /\ \A t \in Sockets : t # s /\ CanCarry(t)' => CanCarry(t)
    BY <1>6, <1>a DEF Connect, Dial, CanCarry
  <2>3. QED
    BY <1>0, <1>a, <1>b, <1>c, <2>1, <2>2, QuietOrder
<1>7. QED
  BY <1>1, <1>2, <1>3, <1>4, <1>5, <1>6
  DEF LinkStep, ServerRestart, Disconnect, ExitAgent, HandlerThrows, runVars

\* A step that leaves the upward queues and the ends of the connections alone.
LEMMA UpQuietOrder ==
  ASSUME OrderInv, RowsKept, UNCHANGED <<up, serverOpen, clientOpen, wire>>,
         \A r \in runs' : \/ \E q \in runs : q.id = r.id /\ q.conn = r.conn
                          \/ snap'[r.id].status # "none"
  PROVE  OutcomeHasRow' /\ RunsAnnounced'
<1>1. OutcomeHasRow'
  BY QuietOrder
<1>2. \A r \in runs : r.id \in SnapIds
  BY DEF OrderInv, TypeOK, Run
<1>3. RunsAnnounced'
  BY <1>2, RunsKept DEF Announced, RowsKept, CanCarry
<1>4. QED
  BY <1>1, <1>3

LEMMA ApiOrder ==
  ASSUME OrderInv, RowsKept, Api PROVE OutcomeHasRow' /\ RunsAnnounced' /\ RequestsHaveRows'
<1>1. UNCHANGED <<up, serverOpen, clientOpen, wire, runs>>
  BY DEF Api, RunJob, DeleteSnapshot, ResetRepo, DeleteJob, linkVars, serverVars, clientVars, netVars
<1>2. OutcomeHasRow' /\ RunsAnnounced'
  BY <1>1, UpQuietOrder
<1>3. UNCHANGED down => RequestsHaveRows'
  BY RequestsKept
<1>4. ASSUME NEW j \in Jobs, NEW id \in ManualIds, RunJob(j, id) PROVE RequestsHaveRows'
  <2> DEFINE s == agentConnections[JobAgent[j]]
             m == [type |-> "run_job", id |-> id, job |-> j]
  <2>1. CASE UNCHANGED down
    BY <1>3, <2>1
  <2>2. CASE s # NoSocket /\ snap' = [snap EXCEPT ![id] = NewRow(j)] /\ SendDown(s, m)
    <3>1. id \in SnapIds /\ JobAgent[j] \in Agents
      BY RunAssumption DEF SnapIds
    <3>2. s \in Sockets /\ m \in DownMsg
      BY <2>2, <3>1, MessageFacts DEF OrderInv, TypeOK, LinkTypes
    <3>3. snap'[id].status # "none"
      BY <2>2, <3>1 DEF OrderInv, TypeOK, NewRow
    <3>4. QED
      BY <2>2, <3>2, <3>3, SendDownRequests
  <2>3. QED
    BY <1>4, <2>1, <2>2 DEF RunJob
<1>5. ASSUME NEW j \in Jobs, DeleteJob(j) PROVE RequestsHaveRows'
  <2> DEFINE s == agentConnections[JobAgent[j]]
  <2>1. CASE UNCHANGED down
    BY <1>3, <2>1
  <2>2. CASE s # NoSocket /\ SendDown(s, [type |-> "sync_jobs"])
    <3>1. JobAgent[j] \in Agents
      BY RunAssumption
    <3>2. s \in Sockets
      BY <2>2, <3>1 DEF OrderInv, TypeOK, LinkTypes
    <3>3. QED
      BY <2>2, <3>2, MessageFacts, SendDownRequests
  <2>3. QED
    BY <1>5, <2>1, <2>2 DEF DeleteJob, Push
<1>6. QED
  BY <1>2, <1>3, <1>4, <1>5 DEF Api, DeleteSnapshot, ResetRepo, linkVars, netVars
LEMMA LoopOrder ==
  ASSUME OrderInv, RowsKept, NEW a \in Agents,
         \/ FirstSync(a)
         \/ ReceiveSyncJobs(a)
         \/ ReceiveRunJob(a)
         \/ \E j \in Jobs : FireSchedule(a, j)
  PROVE  OutcomeHasRow' /\ RunsAnnounced' /\ RequestsHaveRows'
<1>1. CASE FirstSync(a)
  <2>1. UNCHANGED <<up, serverOpen, clientOpen, wire, down, runs>>
    BY <1>1 DEF FirstSync, linkVars, serverVars, clientVars, netVars
  <2>2. QED
    BY <2>1, UpQuietOrder, RequestsKept
<1>2. CASE ReceiveSyncJobs(a)
  <2>1. UNCHANGED <<up, serverOpen, clientOpen, wire, runs>> /\ ReadMessage(a, "sync_jobs")
    BY <1>2 DEF ReceiveSyncJobs, serverVars, clientVars
  <2>2. QED
    BY <2>1, UpQuietOrder, ReadRequests
<1>3. CASE ReceiveRunJob(a)
  <2> DEFINE s == conn[a]
             m == Head(down[s])
             r == [id |-> m.id, job |-> m.job, conn |-> s, phase |-> "fetch", left |-> 0]
  <2>1. /\ UNCHANGED <<up, serverOpen, clientOpen, wire, snap>>
        /\ ReadMessage(a, "run_job")
        /\ runs' = runs \cup {r}
    BY <1>3 DEF ReceiveRunJob, serverVars, clientVars
  <2>2. s \in Sockets /\ down[s] # <<>> /\ m.type = "run_job" /\ down[s] \in Seq(DownMsg)
    BY <2>1 DEF ReadMessage, Reads, OrderInv, TypeOK, LinkTypes
  <2>3. snap[m.id].status # "none"
    BY <2>2, TailFacts DEF OrderInv, RequestsHaveRows
  <2>4. r.id = m.id
    OBVIOUS
  <2> HIDE DEF r
  <2>5. \A q \in runs' : q \in runs \/ snap'[q.id].status # "none"
    BY <2>1, <2>3, <2>4
  <2>6. OutcomeHasRow' /\ RunsAnnounced'
    BY <2>1, <2>5, UpQuietOrder
  <2>7. QED
    BY <2>1, <2>6, ReadRequests
<1>4. ASSUME NEW j \in Jobs, FireSchedule(a, j)
      PROVE  OutcomeHasRow' /\ RunsAnnounced' /\ RequestsHaveRows'
  <2> DEFINE s == entries[a][j]
             m == [type |-> "snapshot_start", id |-> ms, job |-> j]
             r == [id |-> ms, job |-> j, conn |-> s, phase |-> "backup", left |-> 0]
  <2>1. s \in Sockets /\ ms \in SnapIds
    BY <1>4, RunAssumption DEF FireSchedule, OrderInv, TypeOK, SnapIds
  <2>2. m \in UpMsg /\ m.type = "snapshot_start" /\ m.id = ms
    BY <2>1, MessageFacts
  <2>3. /\ UNCHANGED <<serverOpen, clientOpen, wire, down, snap>>
        /\ SendUp(s, m)
        /\ runs' = runs \cup {r}
    BY <1>4 DEF FireSchedule, serverVars, clientVars
  <2>4. r.id = ms /\ r.conn = s
    OBVIOUS
  <2>a. ms' = ms /\ s' = s
    BY <1>4 DEF FireSchedule
  <2> HIDE DEF m, r, s
  <2>5. /\ OutcomeHasRow'
        /\ \A t \in Sockets, id \in SnapIds : Announced(t, id) => Announced(t, id)'
        /\ CanCarry(s) => \E k \in DOMAIN up'[s] : up'[s][k] = m
    BY <2>1, <2>2, <2>3, SendOrder
  <2>6. CanCarry(s)' => Announced(s, ms)'
    BY <2>2, <2>3, <2>5, <2>a DEF Announced, CanCarry
  <2>7. \A q \in runs : q.conn \in Sockets /\ q.id \in SnapIds
    BY DEF OrderInv, TypeOK, Run
  <2>8. \A q \in runs' : q \in runs \/ (CanCarry(q.conn)' => Announced(q.conn, q.id)')
    BY <2>3, <2>4, <2>6, <2>a DEF CanCarry, Announced
  <2>9. \A q \in runs : CanCarry(q.conn)' => CanCarry(q.conn)
    BY <2>3 DEF CanCarry
  <2>10. RunsAnnounced'
    BY <2>5, <2>7, <2>8, <2>9, RunsKept
  <2>11. QED
    BY <2>3, <2>5, <2>10, RequestsKept
<1>5. QED
  BY <1>1, <1>2, <1>3, <1>4

LEMMA GoroutineOrder ==
  ASSUME OrderInv, RowsKept, NEW r \in runs, Goroutine(r)
  PROVE  OutcomeHasRow' /\ RunsAnnounced' /\ RequestsHaveRows'
<1>0. UNCHANGED <<snap, down, serverOpen, clientOpen, wire>>
  BY DEF Goroutine, FetchOk, FetchFails, FinishBackup, CheckDestination, linkVars, serverVars,
         clientVars, netVars
<1>1. r \in Run /\ r.id \in SnapIds /\ r.conn \in Sockets
      /\ \A q \in runs : q.conn \in Sockets /\ q.id \in SnapIds
  BY DEF OrderInv, TypeOK, Run
<1>2. \A q \in runs' : \E p \in runs : p.id = q.id /\ p.conn = q.conn
  BY <1>1 DEF Goroutine, FetchOk, FetchFails, FinishBackup, CheckDestination, Run
<1>3. CASE up' = up
  BY <1>0, <1>2, <1>3, UpQuietOrder, RequestsKept
<1>4. ASSUME NEW m \in UpMsg, m.id = r.id, SendUp(r.conn, m)
      PROVE  OutcomeHasRow' /\ RunsAnnounced' /\ RequestsHaveRows'
  <2>1. CanCarry(r.conn) => Announced(r.conn, m.id)
    BY <1>4 DEF OrderInv, RunsAnnounced
  <2>2. /\ OutcomeHasRow'
        /\ \A t \in Sockets, id \in SnapIds : Announced(t, id) => Announced(t, id)'
    BY <1>0, <1>1, <1>4, <2>1, SendOrder
  <2>3. RunsAnnounced'
    BY <1>0, <1>1, <1>2, <2>2, RunsKept DEF CanCarry
  <2>4. QED
    BY <1>0, <2>2, <2>3, RequestsKept
<1>5. \/ up' = up
      \/ \E m \in UpMsg : m.id = r.id /\ SendUp(r.conn, m)
  <2>1. CASE FetchOk(r)
    BY <2>1 DEF FetchOk, linkVars, netVars
  <2>2. ASSUME NEW status \in {"success", "failed"}, SendDone(r, status)
        PROVE  \E m \in UpMsg : m.id = r.id /\ SendUp(r.conn, m)
    <3> DEFINE m == [type |-> "snapshot_done", id |-> r.id, status |-> status]
    <3>1. m \in UpMsg /\ m.id = r.id /\ SendUp(r.conn, m)
      BY <1>1, <2>2, MessageFacts DEF SendDone
    <3>2. QED
      BY <3>1
  <2>3. ASSUME NEW result \in {"passed", "failed"},
               SendUp(r.conn, [type |-> "check_result", id |-> r.id, status |-> result])
        PROVE  \E m \in UpMsg : m.id = r.id /\ SendUp(r.conn, m)
    <3> DEFINE m == [type |-> "check_result", id |-> r.id, status |-> result]
    <3>1. m \in UpMsg /\ m.id = r.id /\ SendUp(r.conn, m)
      BY <1>1, <2>3, MessageFacts
    <3>2. QED
      BY <3>1
  <2>4. QED
    BY <2>1, <2>2, <2>3 DEF Goroutine, FetchFails, FinishBackup, CheckDestination
<1>6. QED
  BY <1>3, <1>4, <1>5

LEMMA HandlerOrder ==
  ASSUME OrderInv, RowsKept, NEW s \in Sockets,
         HandleSnapshotStart(s) \/ HandleSnapshotDone(s) \/ HandleCheckResult(s)
  PROVE  OutcomeHasRow' /\ RunsAnnounced' /\ RequestsHaveRows'
<1> DEFINE m == Head(up[s])
<1>1. /\ UNCHANGED <<down, serverOpen, clientOpen, wire, runs>>
      /\ Consume(s) /\ up[s] # <<>>
  BY DEF HandleSnapshotStart, HandleSnapshotDone, HandleCheckResult, FromAgent, Arrives,
         serverVars, clientVars
<1>2. m.type = "snapshot_start" => snap'[m.id].status # "none"
  <2>1. m.type = "snapshot_start" => HandleSnapshotStart(s)
    BY DEF HandleSnapshotStart, HandleSnapshotDone, HandleCheckResult, FromAgent, Arrives
  <2>2. m.type = "snapshot_start" => m.id \in SnapIds
    BY <1>1, HeadTypes, MessageFacts DEF OrderInv
  <2>3. QED
    BY <2>1, <2>2 DEF HandleSnapshotStart, SnapshotStart, NewRow, OrderInv, TypeOK
<1>3. /\ OutcomeHasRow'
      /\ \A t \in Sockets, id \in SnapIds : Announced(t, id) => Announced(t, id)'
  BY <1>1, <1>2, ConsumeOrder
<1>4. \A r \in runs : r.conn \in Sockets /\ r.id \in SnapIds
  BY DEF OrderInv, TypeOK, Run
<1>5. RunsAnnounced'
  BY <1>1, <1>3, <1>4, RunsKept DEF CanCarry
<1>6. QED
  BY <1>1, <1>3, <1>5, RequestsKept

LEMMA InitOrder == ASSUME Init PROVE OrderInv
  BY InitTypeOK DEF Init, LinkInit, OrderInv, OutcomeHasRow, RunsAnnounced, RequestsHaveRows

LEMMA StepOrder == ASSUME OrderInv, [Next]_vars PROVE OrderInv'
<1>1. TypeOK' /\ RowsKept
  BY StepTypeOK, StepRowsKept DEF OrderInv
<1>2. CASE Tick \/ UNCHANGED vars
  <2>1. UNCHANGED <<up, serverOpen, clientOpen, wire, down, runs>>
    BY <1>2 DEF Tick, vars, runVars, linkVars, serverVars, clientVars, netVars
  <2>2. QED
    BY <1>1, <2>1, UpQuietOrder, RequestsKept DEF OrderInv
<1>3. QED
  BY <1>1, <1>2, ApiOrder, LoopOrder, GoroutineOrder, HandlerOrder, LinkMoveOrder
  DEF Next, Agent, Server, OrderInv

LEMMA OrderInvariant == Spec => []OrderInv
  BY InitOrder, StepOrder, PTL DEF Spec

\* No outcome and no check result is handled before the row it belongs to was
\* inserted (main.go:658-664, index.ts:215-243, 379-411), for any number of connections,
\* agents, schedules and failures, and even if two schedules draw one id.
THEOREM OutcomesHaveRows == Spec => []OutcomeHasRow
  BY OrderInvariant, PTL DEF OrderInv
-----------------------------------------------------------------------------
(* One outcome per snapshot. Ids are drawn once as long as no two schedules *)
(* fire in one millisecond. A drawn id is then at one place at most: in a   *)
(* request, in a goroutine, or in an outcome on its way; while it is there  *)
(* the row has no outcome and no check; and checks follow the outcome in    *)
(* the queue of the same connection.                                        *)

\* No two schedules fire in one millisecond (main.go:657): what the snapshots
\* that are numbered by the clock need, and the code does not ensure.
OnePerMs == \A i, j \in fired : i = j

RequestAt(s, i, id) == i \in DOMAIN down[s] /\ down[s][i].type = "run_job" /\ down[s][i].id = id
StartAt(s, i, id)   == i \in DOMAIN up[s] /\ up[s][i].type = "snapshot_start" /\ up[s][i].id = id
DoneAt(s, i, id)    == i \in DOMAIN up[s] /\ up[s][i].type = "snapshot_done" /\ up[s][i].id = id
CheckAt(s, i, id)   == i \in DOMAIN up[s] /\ up[s][i].type = "check_result" /\ up[s][i].id = id

NoRequest(id) == \A s \in Sockets, i \in Nat : ~RequestAt(s, i, id)
NoStart(id)   == \A s \in Sockets, i \in Nat : ~StartAt(s, i, id)
NoDone(id)    == \A s \in Sockets, i \in Nat : ~DoneAt(s, i, id)
NoCheck(id)   == \A s \in Sockets, i \in Nat : ~CheckAt(s, i, id)
NoWork(id)    == \A r \in runs : r.id = id => r.phase = "check"

Idle(id)   == NoRequest(id) /\ NoWork(id) /\ NoDone(id)
Silent(id) == Idle(id) /\ NoStart(id) /\ NoCheck(id) /\ \A r \in runs : r.id # id

AtMostOne(id) ==
  /\ \A s, t \in Sockets, i, k \in Nat :
       /\ RequestAt(s, i, id) /\ RequestAt(t, k, id) => s = t /\ i = k
       /\ StartAt(s, i, id) /\ StartAt(t, k, id) => s = t /\ i = k
       /\ DoneAt(s, i, id) /\ DoneAt(t, k, id) => s = t /\ i = k
  /\ \A q, r \in runs : q.id = id /\ r.id = id /\ q.phase # "check" /\ r.phase # "check" => q = r
  /\ NoRequest(id) \/ NoWork(id)
  /\ NoRequest(id) \/ NoDone(id)
  /\ NoWork(id) \/ NoDone(id)

ChecksLast(id) ==
  /\ \A s \in Sockets, i \in Nat : CheckAt(s, i, id) =>
       /\ NoRequest(id) /\ NoWork(id)
       /\ \A t \in Sockets, k \in Nat : DoneAt(t, k, id) => t = s /\ k < i
  /\ \A r \in runs : r.id = id /\ r.phase = "check" =>
       /\ NoRequest(id) /\ NoWork(id)
       /\ \A t \in Sockets, k \in Nat : DoneAt(t, k, id) => t = r.conn

\* The id has been given to a snapshot.
Drawn(id) == IF id \in 1..MaxMs THEN id < ms \/ (id = ms /\ fired # {})
                                ELSE snap[id].status # "none"

Talk(id) == AtMostOne(id) /\ ChecksLast(id) /\ (Drawn(id) \/ (Silent(id) /\ snap[id].status = "none"))

RowOpen(id) ==
  /\ snap[id].status = "none" => snap[id].finished = FALSE /\ snap[id].integrity = "null"
  /\ NoStart(id) \/ snap[id].status = "none"
  /\ Idle(id) \/ (snap[id].finished = FALSE /\ snap[id].integrity = "null")
  /\ snap[id].integrity = "failed" => snap[id].status # "success"

OutcomeInv == TypeOK /\ \A id \in SnapIds : Talk(id) /\ RowOpen(id)

\* Every message about id in the new queues is an old one that moved up, and
\* every goroutine that works on it is an old one.
Shift(id, n, d) ==
  \A t \in Sockets, i \in Nat :
    /\ StartAt(t, i, id)' => StartAt(t, i + n[t], id)
    /\ DoneAt(t, i, id)' => DoneAt(t, i + n[t], id)
    /\ CheckAt(t, i, id)' => CheckAt(t, i + n[t], id)
    /\ RequestAt(t, i, id)' => RequestAt(t, i + d[t], id)

Fewer(id) ==
  /\ \E n, d \in [Sockets -> Nat] : Shift(id, n, d)
  /\ \A r \in runs' : r.id = id => r \in runs

LEMMA FewerStays ==
  ASSUME NEW id \in SnapIds, AtMostOne(id), ChecksLast(id), Fewer(id)
  PROVE  /\ AtMostOne(id)' /\ ChecksLast(id)'
         /\ Silent(id) => Silent(id)'
         /\ Idle(id) => Idle(id)'
         /\ NoStart(id) => NoStart(id)'
<1>0. PICK n \in [Sockets -> Nat], d \in [Sockets -> Nat] : Shift(id, n, d)
  BY DEF Fewer
<1>a. \A t \in Sockets, i \in Nat :
        /\ StartAt(t, i, id)' => StartAt(t, i + n[t], id)
        /\ DoneAt(t, i, id)' => DoneAt(t, i + n[t], id)
        /\ CheckAt(t, i, id)' => CheckAt(t, i + n[t], id)
        /\ RequestAt(t, i, id)' => RequestAt(t, i + d[t], id)
        /\ i + n[t] \in Nat /\ i + d[t] \in Nat
  BY <1>0 DEF Shift
<1>b. \A r \in runs' : r.id = id => r \in runs
  BY DEF Fewer
<1>c. \A i, k, x \in Nat : (i + x = k + x => i = k) /\ (i + x < k + x => i < k)
  OBVIOUS
<1>1. /\ NoRequest(id) => NoRequest(id)'
      /\ NoStart(id) => NoStart(id)'
      /\ NoDone(id) => NoDone(id)'
      /\ NoCheck(id) => NoCheck(id)'
      /\ NoWork(id) => NoWork(id)'
  <2>1. NoRequest(id) => NoRequest(id)'
    BY <1>a DEF NoRequest
  <2>2. NoStart(id) => NoStart(id)'
    BY <1>a DEF NoStart
  <2>3. NoDone(id) => NoDone(id)'
    BY <1>a DEF NoDone
  <2>4. NoCheck(id) => NoCheck(id)'
    BY <1>a DEF NoCheck
  <2>5. NoWork(id) => NoWork(id)'
    BY <1>b DEF NoWork
  <2>6. QED
    BY <2>1, <2>2, <2>3, <2>4, <2>5
<1>2. AtMostOne(id)'
  <2>1. ASSUME NEW s \in Sockets, NEW t \in Sockets, NEW i \in Nat, NEW k \in Nat
        PROVE  /\ RequestAt(s, i, id)' /\ RequestAt(t, k, id)' => s = t /\ i = k
               /\ StartAt(s, i, id)' /\ StartAt(t, k, id)' => s = t /\ i = k
               /\ DoneAt(s, i, id)' /\ DoneAt(t, k, id)' => s = t /\ i = k
    <3>1. RequestAt(s, i, id)' /\ RequestAt(t, k, id)' => s = t /\ i = k
      BY <1>a, <1>c DEF AtMostOne
    <3>2. StartAt(s, i, id)' /\ StartAt(t, k, id)' => s = t /\ i = k
      BY <1>a, <1>c DEF AtMostOne
    <3>3. DoneAt(s, i, id)' /\ DoneAt(t, k, id)' => s = t /\ i = k
      BY <1>a, <1>c DEF AtMostOne
    <3>4. QED
      BY <3>1, <3>2, <3>3
  <2>2. QED
    BY <1>b, <1>1, <2>1 DEF AtMostOne
<1>3. ChecksLast(id)'
  <2>1. ASSUME NEW s \in Sockets, NEW i \in Nat, CheckAt(s, i, id)'
        PROVE  /\ NoRequest(id)' /\ NoWork(id)'
               /\ \A t \in Sockets, k \in Nat : DoneAt(t, k, id)' => t = s /\ k < i
    BY <1>a, <1>c, <1>1, <2>1 DEF ChecksLast
  <2>2. ASSUME NEW r \in runs', r.id = id, r.phase = "check"
        PROVE  /\ NoRequest(id)' /\ NoWork(id)'
               /\ \A t \in Sockets, k \in Nat : DoneAt(t, k, id)' => t = r.conn
    BY <1>a, <1>b, <1>1, <2>2 DEF ChecksLast
  <2>3. QED
    BY <2>1, <2>2 DEF ChecksLast
<1>4. QED
  BY <1>b, <1>1, <1>2, <1>3 DEF Silent, Idle

\* An id nobody has heard of is trivially at one place at most.
LEMMA SilentTalk ==
  ASSUME NEW id \in SnapIds, Silent(id) PROVE AtMostOne(id) /\ ChecksLast(id)
  BY DEF Silent, Idle, AtMostOne, ChecksLast, NoRequest, NoStart, NoDone, NoCheck, NoWork
-----------------------------------------------------------------------------
(* What the steps do to the queues, in these terms.                         *)

UpShift(id) ==
  \E n \in [Sockets -> Nat] : \A t \in Sockets, i \in Nat :
    /\ StartAt(t, i, id)' => StartAt(t, i + n[t], id)
    /\ DoneAt(t, i, id)' => DoneAt(t, i + n[t], id)
    /\ CheckAt(t, i, id)' => CheckAt(t, i + n[t], id)

DownShift(id) ==
  \E d \in [Sockets -> Nat] : \A t \in Sockets, i \in Nat :
    RequestAt(t, i, id)' => RequestAt(t, i + d[t], id)

LEMMA ShiftsMakeFewer ==
  ASSUME NEW id \in SnapIds, UpShift(id), DownShift(id), \A r \in runs' : r.id = id => r \in runs
  PROVE  Fewer(id)
<1>1. PICK n \in [Sockets -> Nat] : \A t \in Sockets, i \in Nat :
        /\ StartAt(t, i, id)' => StartAt(t, i + n[t], id)
        /\ DoneAt(t, i, id)' => DoneAt(t, i + n[t], id)
        /\ CheckAt(t, i, id)' => CheckAt(t, i + n[t], id)
  BY DEF UpShift
<1>2. PICK d \in [Sockets -> Nat] : \A t \in Sockets, i \in Nat :
        RequestAt(t, i, id)' => RequestAt(t, i + d[t], id)
  BY DEF DownShift
<1>3. Shift(id, n, d)
  BY <1>1, <1>2 DEF Shift
<1>4. QED
  BY <1>3 DEF Fewer

LEMMA UpSame ==
  ASSUME NEW id \in SnapIds,
         \A t \in Sockets : up'[t] \in {up[t], <<>>} \/ \E a \in Agents : up'[t] = <<AgentConnect(a)>>
  PROVE  UpShift(id)
<1> DEFINE n == [t \in Sockets |-> 0]
<1>1. ASSUME NEW t \in Sockets, NEW i \in Nat
      PROVE  /\ StartAt(t, i, id)' => StartAt(t, i, id)
             /\ DoneAt(t, i, id)' => DoneAt(t, i, id)
             /\ CheckAt(t, i, id)' => CheckAt(t, i, id)
  <2>1. CASE up'[t] = up[t]
    BY <2>1 DEF StartAt, DoneAt, CheckAt
  <2>2. CASE up'[t] = <<>>
    BY <2>2 DEF StartAt, DoneAt, CheckAt
  <2>3. ASSUME NEW a \in Agents, up'[t] = <<AgentConnect(a)>>
        PROVE  ~StartAt(t, i, id)' /\ ~DoneAt(t, i, id)' /\ ~CheckAt(t, i, id)'
    <3>1. \A k \in DOMAIN up'[t] : up'[t][k].type = "agent_connect"
      BY <2>3 DEF AgentConnect
    <3>2. QED
      BY <3>1 DEF StartAt, DoneAt, CheckAt
  <2>4. QED
    BY <2>1, <2>2, <2>3
<1>2. n \in [Sockets -> Nat] /\ \A t \in Sockets, i \in Nat : i + n[t] = i
  OBVIOUS
<1> HIDE DEF n
<1>3. QED
  BY <1>1, <1>2 DEF UpShift

LEMMA UpConsume ==
  ASSUME TypeOK, NEW id \in SnapIds, NEW s \in Sockets, up[s] # <<>>, Consume(s)
  PROVE  /\ UpShift(id)
         /\ \A t \in Sockets, i \in Nat :
              /\ StartAt(t, i, id)' => StartAt(t, IF t = s THEN i + 1 ELSE i, id)
              /\ DoneAt(t, i, id)' => i > 0 /\ DoneAt(t, IF t = s THEN i + 1 ELSE i, id)
              /\ StartAt(t, i, id)' => i > 0
<1> DEFINE n == [t \in Sockets |-> IF t = s THEN 1 ELSE 0]
<1>0. up \in [Sockets -> Seq(UpMsg)]
  BY DEF TypeOK, LinkTypes
<1>1. /\ up'[s] = Tail(up[s])
      /\ \A t \in Sockets : t # s => up'[t] = up[t]
      /\ \A t \in Sockets : DOMAIN up[t] = 1..Len(up[t])
  BY <1>0 DEF Consume
<1>2. \A i \in DOMAIN up'[s] : i + 1 \in DOMAIN up[s] /\ up'[s][i] = up[s][i + 1] /\ i > 0
  BY <1>0, <1>1, TailFacts
<1>3. ASSUME NEW t \in Sockets, NEW i \in Nat
      PROVE  /\ StartAt(t, i, id)' => i > 0 /\ StartAt(t, IF t = s THEN i + 1 ELSE i, id)
             /\ DoneAt(t, i, id)' => i > 0 /\ DoneAt(t, IF t = s THEN i + 1 ELSE i, id)
             /\ CheckAt(t, i, id)' => CheckAt(t, IF t = s THEN i + 1 ELSE i, id)
  <2>1. CASE t = s
    BY <1>2, <2>1 DEF StartAt, DoneAt, CheckAt
  <2>2. CASE t # s
    BY <1>1, <2>2 DEF StartAt, DoneAt, CheckAt
  <2>3. QED
    BY <2>1, <2>2
<1>4. n \in [Sockets -> Nat]
      /\ \A t \in Sockets, i \in Nat : i + n[t] = IF t = s THEN i + 1 ELSE i
  OBVIOUS
<1> HIDE DEF n
<1>5. UpShift(id)
  BY <1>3, <1>4 DEF UpShift
<1>6. QED
  BY <1>3, <1>5

\* A message is written: what is in the queues afterwards.
LEMMA UpSend ==
  ASSUME TypeOK, NEW id \in SnapIds, NEW s \in Sockets, NEW m \in UpMsg, SendUp(s, m)
  PROVE  \A t \in Sockets, i \in Nat :
           /\ StartAt(t, i, id)' => \/ StartAt(t, i, id)
                                    \/ t = s /\ i = Len(up[s]) + 1 /\ m.type = "snapshot_start" /\ m.id = id
           /\ DoneAt(t, i, id)' => \/ DoneAt(t, i, id)
                                   \/ t = s /\ i = Len(up[s]) + 1 /\ m.type = "snapshot_done" /\ m.id = id
           /\ CheckAt(t, i, id)' => \/ CheckAt(t, i, id)
                                    \/ t = s /\ i = Len(up[s]) + 1 /\ m.type = "check_result" /\ m.id = id
<1>0. up \in [Sockets -> Seq(UpMsg)]
  BY DEF TypeOK, LinkTypes
<1>1. CASE up' = up
  BY <1>1 DEF StartAt, DoneAt, CheckAt
<1>2. CASE up' = [up EXCEPT ![s] = Append(@, m)]
  <2>1. /\ up'[s] = Append(up[s], m)
        /\ \A t \in Sockets : t # s => up'[t] = up[t]
    BY <1>0, <1>2
  <2>2. \A i \in DOMAIN up'[s] : \/ i \in DOMAIN up[s] /\ up'[s][i] = up[s][i]
                                 \/ i = Len(up[s]) + 1 /\ up'[s][i] = m
    BY <1>0, <2>1, AppendFacts
  <2>3. SUFFICES ASSUME NEW t \in Sockets, NEW i \in Nat
        PROVE  /\ StartAt(t, i, id)' => \/ StartAt(t, i, id)
                                        \/ t = s /\ i = Len(up[s]) + 1 /\ m.type = "snapshot_start" /\ m.id = id
               /\ DoneAt(t, i, id)' => \/ DoneAt(t, i, id)
                                       \/ t = s /\ i = Len(up[s]) + 1 /\ m.type = "snapshot_done" /\ m.id = id
               /\ CheckAt(t, i, id)' => \/ CheckAt(t, i, id)
                                        \/ t = s /\ i = Len(up[s]) + 1 /\ m.type = "check_result" /\ m.id = id
    OBVIOUS
  <2>4. CASE t = s
    BY <2>2, <2>4 DEF StartAt, DoneAt, CheckAt
  <2>5. CASE t # s
    BY <2>1, <2>5 DEF StartAt, DoneAt, CheckAt
  <2>6. QED
    BY <2>4, <2>5
<1>3. QED
  BY <1>1, <1>2 DEF SendUp

LEMMA DownSame ==
  ASSUME NEW id \in SnapIds, \A t \in Sockets : down'[t] \in {down[t], <<>>}
  PROVE  DownShift(id)
<1> DEFINE n == [t \in Sockets |-> 0]
<1>1. ASSUME NEW t \in Sockets, NEW i \in Nat PROVE RequestAt(t, i, id)' => RequestAt(t, i, id)
  BY DEF RequestAt
<1>2. n \in [Sockets -> Nat] /\ \A t \in Sockets, i \in Nat : i + n[t] = i
  OBVIOUS
<1> HIDE DEF n
<1>3. QED
  BY <1>1, <1>2 DEF DownShift

LEMMA DownSend ==
  ASSUME TypeOK, NEW id \in SnapIds, NEW s \in Sockets, NEW m \in DownMsg, SendDown(s, m)
  PROVE  \A t \in Sockets, i \in Nat :
           RequestAt(t, i, id)' => \/ RequestAt(t, i, id)
                                   \/ t = s /\ i = Len(down[s]) + 1 /\ m.type = "run_job" /\ m.id = id
<1>0. down \in [Sockets -> Seq(DownMsg)]
  BY DEF TypeOK, LinkTypes
<1>1. CASE down' = down
  BY <1>1 DEF RequestAt
<1>2. CASE down' = [down EXCEPT ![s] = Append(@, m)]
  <2>1. /\ down'[s] = Append(down[s], m)
        /\ \A t \in Sockets : t # s => down'[t] = down[t]
    BY <1>0, <1>2
  <2>2. \A i \in DOMAIN down'[s] : \/ i \in DOMAIN down[s] /\ down'[s][i] = down[s][i]
                                   \/ i = Len(down[s]) + 1 /\ down'[s][i] = m
    BY <1>0, <2>1, AppendFacts
  <2>3. QED
    BY <2>1, <2>2 DEF RequestAt
<1>3. QED
  BY <1>1, <1>2 DEF SendDown

\* A message of the agent's queue is read.
LEMMA DownRead ==
  ASSUME TypeOK, NEW id \in SnapIds, NEW a \in Agents, NEW type, ReadMessage(a, type)
  PROVE  /\ DownShift(id)
         /\ \A t \in Sockets, i \in Nat :
              RequestAt(t, i, id)' => i > 0 /\ RequestAt(t, IF t = conn[a] THEN i + 1 ELSE i, id)
<1> DEFINE s == conn[a]
           n == [t \in Sockets |-> IF t = s THEN 1 ELSE 0]
<1>0. /\ down \in [Sockets -> Seq(DownMsg)] /\ s \in Sockets /\ down[s] # <<>>
      /\ down' = [down EXCEPT ![s] = Tail(@)]
  BY DEF TypeOK, LinkTypes, ReadMessage, Reads
<1>4. n \in [Sockets -> Nat]
      /\ \A t \in Sockets, i \in Nat : i + n[t] = IF t = s THEN i + 1 ELSE i
  OBVIOUS
<1> HIDE DEF s, n
<1>1. /\ down'[s] = Tail(down[s])
      /\ \A t \in Sockets : t # s => down'[t] = down[t]
      /\ \A t \in Sockets : DOMAIN down[t] = 1..Len(down[t])
  BY <1>0
<1>2. \A i \in DOMAIN down'[s] : i + 1 \in DOMAIN down[s] /\ down'[s][i] = down[s][i + 1] /\ i > 0
  BY <1>0, <1>1, TailFacts
<1>3. \A t \in Sockets, i \in Nat :
        RequestAt(t, i, id)' => i > 0 /\ RequestAt(t, IF t = s THEN i + 1 ELSE i, id)
  <2>1. ASSUME NEW t \in Sockets, NEW i \in Nat, RequestAt(t, i, id)', t = s
        PROVE  i > 0 /\ RequestAt(t, i + 1, id)
    BY <1>2, <2>1 DEF RequestAt
  <2>2. ASSUME NEW t \in Sockets, NEW i \in Nat, RequestAt(t, i, id)', t # s
        PROVE  i > 0 /\ RequestAt(t, i, id)
    BY <1>1, <2>2 DEF RequestAt
  <2>3. QED
    BY <2>1, <2>2
<1>5. DownShift(id)
  BY <1>3, <1>4 DEF DownShift
<1>6. QED
  BY <1>3, <1>5 DEF s
LEMMA NoShift ==
  ASSUME NEW id \in SnapIds
  PROVE  /\ (\A t \in Sockets, i \in Nat :
               /\ StartAt(t, i, id)' => StartAt(t, i, id)
               /\ DoneAt(t, i, id)' => DoneAt(t, i, id)
               /\ CheckAt(t, i, id)' => CheckAt(t, i, id)) => UpShift(id)
         /\ (\A t \in Sockets, i \in Nat : RequestAt(t, i, id)' => RequestAt(t, i, id)) => DownShift(id)
<1> DEFINE n == [t \in Sockets |-> 0]
<1>1. n \in [Sockets -> Nat] /\ \A t \in Sockets, i \in Nat : i + n[t] = i
  OBVIOUS
<1> HIDE DEF n
<1>2. QED
  BY <1>1 DEF UpShift, DownShift

-----------------------------------------------------------------------------
(* Each step keeps Talk and RowOpen, for each id.                           *)

\* Once drawn, an id stays drawn.
LEMMA DrawnStays ==
  ASSUME TypeOK, RowsKept, [Next]_vars, NEW id \in SnapIds PROVE Drawn(id) => Drawn(id)'
<1>0. ms \in Nat
  BY RunAssumption DEF TypeOK
<1>1. CASE Tick
  BY <1>0, <1>1 DEF Tick, Drawn, RowsKept
<1>2. CASE ms' = ms /\ fired \subseteq fired'
  BY <1>2 DEF Drawn, RowsKept
<1>3. (ms' = ms /\ fired \subseteq fired') \/ Tick
  BY DEF Next, Api, RunJob, DeleteSnapshot, ResetRepo, DeleteJob, Agent, FirstSync, ReceiveSyncJobs,
         ReceiveRunJob, FireSchedule, Connect, Disconnect, ExitAgent, Goroutine, FetchOk, FetchFails,
         FinishBackup, CheckDestination, Server, HandleSnapshotStart, HandleSnapshotDone,
         HandleCheckResult, HandlerThrows, LinkStep, runVars, vars
<1>4. QED
  BY <1>1, <1>2, <1>3

LEMMA FewerTalk ==
  ASSUME NEW id \in SnapIds, Talk(id), Fewer(id), Drawn(id) => Drawn(id)',
         Silent(id) /\ snap[id].status = "none" => snap'[id].status = "none" \/ Drawn(id)'
  PROVE  Talk(id)'
<1>1. /\ AtMostOne(id)' /\ ChecksLast(id)'
      /\ Silent(id) => Silent(id)'
  BY FewerStays DEF Talk
<1>2. QED
  BY <1>1 DEF Talk

LEMMA FewerRow ==
  ASSUME NEW id \in SnapIds, Talk(id), RowOpen(id), Fewer(id), snap'[id] = snap[id]
  PROVE  RowOpen(id)'
<1>1. (Idle(id) => Idle(id)') /\ (NoStart(id) => NoStart(id)')
  BY FewerStays DEF Talk
<1>2. QED
  BY <1>1 DEF RowOpen

\* Steps that leave rows alone and put nothing new on its way.
LEMMA FewerKeeps ==
  ASSUME NEW id \in SnapIds, Talk(id), RowOpen(id), Fewer(id), Drawn(id) => Drawn(id)',
         snap'[id] = snap[id]
  PROVE  Talk(id)' /\ RowOpen(id)'
  BY FewerTalk, FewerRow

LEMMA LinkMoveFewer ==
  ASSUME TypeOK, NEW id \in SnapIds,
         \/ LinkStep
         \/ \E a \in Agents : Disconnect(a) \/ ExitAgent(a) \/ \E s \in Sockets : Connect(a, s)
         \/ \E s \in Sockets : HandlerThrows(s)
  PROVE  Fewer(id) /\ UNCHANGED snap
<1>0. UNCHANGED snap /\ runs' \subseteq runs
  BY DEF LinkStep, Disconnect, ExitAgent, Connect, HandlerThrows, runVars
<1>a. /\ up \in [Sockets -> Seq(UpMsg)] /\ down \in [Sockets -> Seq(DownMsg)]
      /\ \A a \in Agents : conn[a] \in Sockets \cup {NoSocket}
  BY DEF TypeOK, LinkTypes
<1>1. ASSUME NEW s \in Sockets, HandleAgentConnect(s) PROVE UpShift(id) /\ DownShift(id)
  <2>1. up[s] # <<>> /\ Consume(s) /\ down' = down
    BY <1>1 DEF HandleAgentConnect, Arrives
  <2>2. QED
    BY <2>1, UpConsume, DownSame
<1>2. ASSUME NEW s \in Sockets, ServerClose(s) PROVE UpShift(id) /\ DownShift(id)
  <2>1. /\ \A t \in Sockets : up'[t] \in {up[t], <<>>}
        /\ down' = down
    BY <1>2, <1>a DEF ServerClose
  <2>2. QED
    BY <2>1, UpSame, DownSame
<1>3. ASSUME NEW s \in Sockets, LoseLink(s) PROVE UpShift(id) /\ DownShift(id)
  <2>1. \A t \in Sockets : up'[t] \in {up[t], <<>>} /\ down'[t] \in {down[t], <<>>}
    BY <1>3, <1>a DEF LoseLink
  <2>2. QED
    BY <2>1, UpSame, DownSame
<1>4. ASSUME ServerDies PROVE UpShift(id) /\ DownShift(id)
  <2>1. \A t \in Sockets : up'[t] = <<>> /\ down'[t] = <<>>
    BY <1>4 DEF ServerDies
  <2>2. QED
    BY <2>1, UpSame, DownSame
<1>5. ASSUME NEW a \in Agents, AgentReadError(a) \/ AgentExit(a) PROVE UpShift(id) /\ DownShift(id)
  <2>1. conn[a] \in Sockets
    BY <1>5, <1>a DEF AgentReadError, AgentExit
  <2>2. up' = up /\ down' = [down EXCEPT ![conn[a]] = <<>>]
    BY <1>5 DEF AgentReadError, AgentExit
  <2>3. \A t \in Sockets : down'[t] \in {down[t], <<>>}
    BY <1>a, <2>1, <2>2
  <2>4. QED
    BY <2>2, <2>3, UpSame, DownSame
<1>6. ASSUME NEW a \in Agents, NEW s \in Sockets, Connect(a, s) PROVE UpShift(id) /\ DownShift(id)
  <2>1. /\ \A t \in Sockets : t # s => up'[t] = up[t] /\ down'[t] = down[t]
        /\ up'[s] = <<AgentConnect(a)>> /\ down'[s] = <<>>
    BY <1>6, <1>a DEF Connect, Dial
  <2>2. QED
    BY <2>1, UpSame, DownSame
<1>7. UpShift(id) /\ DownShift(id)
  BY <1>1, <1>2, <1>3, <1>4, <1>5, <1>6
  DEF LinkStep, ServerRestart, Disconnect, ExitAgent, HandlerThrows
<1>8. QED
  BY <1>0, <1>7, ShiftsMakeFewer

\* Nothing on its way about id changes.
LEMMA SameFewer ==
  ASSUME NEW id \in SnapIds, UNCHANGED <<up, down, runs>> PROVE Fewer(id)
<1>1. UpShift(id) /\ DownShift(id)
  BY UpSame, DownSame
<1>2. QED
  BY <1>1, ShiftsMakeFewer

\* Deletion and reset change rows that are there.
LEMMA RowRequests ==
  ASSUME OutcomeInv, RowsKept, [Next]_vars, NEW id \in SnapIds,
         (\E x \in SnapIds : DeleteSnapshot(x)) \/ \E j \in Jobs : ResetRepo(j)
  PROVE  Talk(id)' /\ RowOpen(id)'
<1>0. snap \in [SnapIds -> Row] /\ Talk(id) /\ RowOpen(id) /\ (Drawn(id) => Drawn(id)')
  BY DrawnStays DEF OutcomeInv, TypeOK
<1>1. Fewer(id)
  BY SameFewer DEF DeleteSnapshot, ResetRepo, linkVars, netVars
<1>2. \/ snap'[id] = snap[id]
      \/ Present(id) /\ snap'[id] = NoRow("deleted")
      \/ Present(id) /\ snap'[id] = [snap[id] EXCEPT !.status = "orphaned"]
  BY <1>0 DEF DeleteSnapshot, ResetRepo, RowsOf
<1>3. CASE snap'[id] = snap[id]
  BY <1>0, <1>1, <1>3, FewerKeeps
<1>4. CASE Present(id) /\ (snap'[id] = NoRow("deleted") \/ snap'[id] = [snap[id] EXCEPT !.status = "orphaned"])
  <2>1. Talk(id)'
    BY <1>0, <1>1, <1>4, FewerTalk DEF Present
  <2>2. (Idle(id) => Idle(id)') /\ NoStart(id)'
    BY <1>0, <1>1, <1>4, FewerStays DEF Talk, RowOpen, Present
  <2>3. /\ snap'[id].status \in {"deleted", "orphaned"}
        /\ snap'[id].finished = FALSE \/ snap'[id].finished = snap[id].finished
        /\ snap'[id].integrity = "null" \/ snap'[id].integrity = snap[id].integrity
    BY <1>0, <1>4 DEF NoRow, Row
  <2>4. QED
    BY <1>0, <2>1, <2>2, <2>3 DEF RowOpen
<1>5. QED
  BY <1>2, <1>3, <1>4
\* A manual run: its id is fresh, so the request is the only thing about it.
LEMMA RunJobKeeps ==
  ASSUME OutcomeInv, RowsKept, [Next]_vars, NEW id \in SnapIds,
         NEW j \in Jobs, NEW x \in ManualIds, RunJob(j, x)
  PROVE  Talk(id)' /\ RowOpen(id)'
<1> DEFINE s == agentConnections[JobAgent[j]]
           m == [type |-> "run_job", id |-> x, job |-> j]
<1>0. /\ TypeOK /\ snap \in [SnapIds -> Row]
      /\ Talk(id) /\ RowOpen(id) /\ (Drawn(id) => Drawn(id)')
      /\ x \in SnapIds /\ JobAgent[j] \in Agents
  BY DrawnStays, RunAssumption DEF OutcomeInv, TypeOK, SnapIds
<1>1. UNCHANGED <<up, runs, ms, fired>> /\ snap[x] = NoRow("none")
  BY <1>0 DEF RunJob
<1>2. x \notin 1..MaxMs /\ ~Drawn(x)
  BY <1>1, RunAssumption DEF Drawn, NoRow
<1>3. \/ UNCHANGED down /\ snap'[x].status = "failed" /\ snap'[x].integrity = "null"
      \/ /\ s \in Sockets /\ SendDown(s, m)
         /\ snap'[x] = NewRow(j)
  BY <1>0 DEF RunJob, NewRow, Row, TypeOK, LinkTypes
<1>4. CASE id # x
  <2>1. snap'[id] = snap[id]
    BY <1>0, <1>4 DEF RunJob
  <2>2. UpShift(id)
    BY <1>1, UpSame
  <2>3. DownShift(id)
    <3>1. CASE UNCHANGED down
      BY <3>1, DownSame
    <3>2. CASE s \in Sockets /\ SendDown(s, m)
      <4>1. m \in DownMsg
        BY <1>0, MessageFacts
      <4>2. \A t \in Sockets, i \in Nat :
              RequestAt(t, i, id)' => RequestAt(t, i, id) \/ m.id = id
        BY <1>0, <3>2, <4>1, DownSend
      <4>3. QED
        BY <1>4, <4>2, NoShift
    <3>3. QED
      BY <1>3, <3>1, <3>2
  <2>4. Fewer(id)
    BY <1>1, <2>2, <2>3, ShiftsMakeFewer
  <2>5. QED
    BY <1>0, <2>1, <2>4, FewerKeeps
<1>5. CASE id = x
  <2>1. Silent(id)
    BY <1>0, <1>2, <1>5 DEF Talk
  <2>2. Drawn(id)'
    BY <1>2, <1>3, <1>5 DEF Drawn, NewRow
  <2>3. NoStart(id)' /\ NoDone(id)' /\ NoCheck(id)' /\ \A r \in runs' : r.id # id
    BY <1>1, <2>1 DEF Silent, Idle, NoStart, NoDone, NoCheck, StartAt, DoneAt, CheckAt
  <2>4. CASE UNCHANGED down /\ snap'[x].status = "failed" /\ snap'[x].integrity = "null"
    <3>1. NoRequest(id)'
      BY <2>1, <2>4 DEF Silent, Idle, NoRequest, RequestAt
    <3>2. Silent(id)'
      BY <2>3, <3>1 DEF Silent, Idle, NoWork
    <3>3. AtMostOne(id)' /\ ChecksLast(id)'
      BY <2>3, <3>1 DEF AtMostOne, ChecksLast, NoRequest, NoStart, NoDone, NoCheck, NoWork
    <3>4. QED
      BY <1>5, <2>2, <2>3, <2>4, <3>2, <3>3 DEF Talk, RowOpen, Silent
  <2>5. CASE s \in Sockets /\ SendDown(s, m) /\ snap'[x] = NewRow(j)
    <3>1. m \in DownMsg
      BY <1>0, MessageFacts
    <3>2. \A t \in Sockets, i \in Nat : RequestAt(t, i, id)' => t = s /\ i = Len(down[s]) + 1
      BY <1>0, <2>1, <2>5, <3>1, DownSend DEF Silent, Idle, NoRequest
    <3>3. NoWork(id)'
      BY <2>3 DEF NoWork
    <3>4. AtMostOne(id)'
      BY <2>3, <3>2, <3>3 DEF AtMostOne, NoStart, NoDone
    <3>5. ChecksLast(id)'
      BY <2>3 DEF ChecksLast, NoCheck
    <3>6. QED
      BY <1>5, <2>2, <2>3, <2>5, <3>4, <3>5 DEF Talk, RowOpen, NewRow
  <2>6. QED
    BY <1>3, <2>4, <2>5
<1>6. QED
  BY <1>4, <1>5

\* The request becomes a goroutine.
LEMMA ReceiveRunJobKeeps ==
  ASSUME OutcomeInv, RowsKept, [Next]_vars, NEW id \in SnapIds, NEW a \in Agents, ReceiveRunJob(a)
  PROVE  Talk(id)' /\ RowOpen(id)'
<1> DEFINE s == conn[a]
           m == Head(down[s])
           r == [id |-> m.id, job |-> m.job, conn |-> s, phase |-> "fetch", left |-> 0]
<1>0. TypeOK /\ Talk(id) /\ RowOpen(id) /\ (Drawn(id) => Drawn(id)')
  BY DrawnStays DEF OutcomeInv
<1>1. /\ UNCHANGED <<up, snap>> /\ ReadMessage(a, "run_job")
      /\ runs' = runs \cup {r}
  BY DEF ReceiveRunJob
<1>2. r.id = m.id /\ r.phase = "fetch"
  OBVIOUS
<1>3. s \in Sockets /\ RequestAt(s, 1, m.id)
  <2>1. s \in Sockets /\ down[s] # <<>> /\ m.type = "run_job" /\ down[s] \in Seq(DownMsg)
    BY <1>0, <1>1 DEF ReadMessage, Reads, TypeOK, LinkTypes
  <2>2. QED
    BY <2>1, TailFacts DEF RequestAt
<1> HIDE DEF r
<1>4. /\ DownShift(id)
      /\ \A t \in Sockets, i \in Nat :
           RequestAt(t, i, id)' => i > 0 /\ RequestAt(t, IF t = s THEN i + 1 ELSE i, id)
  BY <1>0, <1>1, DownRead
<1>5. UpShift(id)
  BY <1>1, UpSame
<1> HIDE DEF s, m
<1>6. CASE id # m.id
  <2>1. Fewer(id)
    BY <1>1, <1>2, <1>4, <1>5, <1>6, ShiftsMakeFewer
  <2>2. QED
    BY <1>0, <1>1, <2>1, FewerKeeps
<1>7. CASE id = m.id
  <2>1. RequestAt(s, 1, id) /\ ~NoRequest(id)
    BY <1>3, <1>7 DEF NoRequest
  <2>2. NoWork(id) /\ NoDone(id) /\ NoCheck(id) /\ \A q \in runs : q.id # id
    BY <1>0, <2>1 DEF Talk, AtMostOne, ChecksLast, NoCheck, NoWork
  <2>3. NoRequest(id)'
    <3>1. SUFFICES ASSUME NEW t \in Sockets, NEW i \in Nat, RequestAt(t, i, id)' PROVE FALSE
      BY DEF NoRequest
    <3>2. i > 0 /\ RequestAt(t, IF t = s THEN i + 1 ELSE i, id)
      BY <1>4, <3>1
    <3>3. t = s /\ (IF t = s THEN i + 1 ELSE i) = 1
      BY <1>0, <1>3, <2>1, <3>2 DEF Talk, AtMostOne
    <3>4. QED
      BY <3>2, <3>3
  <2>4. NoDone(id)' /\ NoCheck(id)' /\ (NoStart(id) => NoStart(id)')
    BY <1>1, <2>2 DEF NoDone, NoCheck, NoStart, DoneAt, CheckAt, StartAt
  <2>5. \A q \in runs' : q.id = id => q = r
    BY <1>1, <2>2
  <2>6. AtMostOne(id)'
    <3>1. \A t, u \in Sockets, i, k \in Nat :
            StartAt(t, i, id)' /\ StartAt(u, k, id)' => t = u /\ i = k
      BY <1>0, <1>1 DEF Talk, AtMostOne, StartAt
    <3>2. QED
      BY <2>3, <2>4, <2>5, <3>1 DEF AtMostOne, NoRequest, NoDone
  <2>7. ChecksLast(id)'
    BY <1>2, <2>4, <2>5 DEF ChecksLast, NoCheck
  <2>8. Drawn(id)'
    BY <1>0, <2>1 DEF Talk, Silent, Idle
  <2>9. RowOpen(id)'
    BY <1>0, <1>1, <2>1, <2>4 DEF RowOpen, Idle
  <2>10. QED
    BY <2>6, <2>7, <2>8, <2>9 DEF Talk
<1>8. QED
  BY <1>6, <1>7

\* A schedule fires, alone in its millisecond.
LEMMA FireScheduleKeeps ==
  ASSUME OutcomeInv, RowsKept, [Next]_vars, NEW id \in SnapIds, OnePerMs',
         NEW a \in Agents, NEW j \in Jobs, FireSchedule(a, j)
  PROVE  Talk(id)' /\ RowOpen(id)'
<1> DEFINE s == entries[a][j]
           m == [type |-> "snapshot_start", id |-> ms, job |-> j]
           r == [id |-> ms, job |-> j, conn |-> s, phase |-> "backup", left |-> 0]
<1>0. TypeOK /\ Talk(id) /\ RowOpen(id) /\ (Drawn(id) => Drawn(id)')
  BY DrawnStays DEF OutcomeInv
<1>1. /\ UNCHANGED <<down, snap, ms>> /\ SendUp(s, m) /\ runs' = runs \cup {r}
      /\ s \in Sockets /\ ms \in 1..MaxMs /\ ms \in SnapIds
      /\ fired' = fired \cup {j} /\ j \notin fired
  BY <1>0, RunAssumption DEF FireSchedule, TypeOK, SnapIds
<1>2. fired = {} /\ ~Drawn(ms) /\ (id = ms => Drawn(id)')
  BY <1>1 DEF OnePerMs, Drawn
<1>3. m \in UpMsg /\ m.type = "snapshot_start" /\ m.id = ms /\ r.id = ms /\ r.phase = "backup"
  BY <1>1, MessageFacts
<1> HIDE DEF r, m, s
<1>4. \A t \in Sockets, i \in Nat :
        /\ StartAt(t, i, id)' => StartAt(t, i, id) \/ (t = s /\ i = Len(up[s]) + 1 /\ id = ms)
        /\ DoneAt(t, i, id)' => DoneAt(t, i, id)
        /\ CheckAt(t, i, id)' => CheckAt(t, i, id)
  BY <1>0, <1>1, <1>3, UpSend
<1>5. DownShift(id)
  BY <1>1, DownSame
<1>6. CASE id # ms
  <2>1. UpShift(id)
    BY <1>4, <1>6, NoShift
  <2>2. Fewer(id)
    BY <1>1, <1>3, <1>5, <1>6, <2>1, ShiftsMakeFewer
  <2>3. QED
    BY <1>0, <1>1, <2>2, FewerKeeps
<1>7. CASE id = ms
  <2>1. Silent(id) /\ snap[id].status = "none"
    BY <1>0, <1>2, <1>7 DEF Talk
  <2>2. NoRequest(id)' /\ NoDone(id)' /\ NoCheck(id)'
    BY <1>1, <1>4, <2>1 DEF Silent, Idle, NoRequest, NoDone, NoCheck, RequestAt
  <2>3. \A t \in Sockets, i \in Nat : StartAt(t, i, id)' => t = s /\ i = Len(up[s]) + 1
    BY <1>4, <2>1 DEF Silent, NoStart
  <2>4. \A q \in runs' : q.id = id => q = r
    BY <1>1, <2>1 DEF Silent
  <2>5. AtMostOne(id)'
    BY <2>2, <2>3, <2>4 DEF AtMostOne, NoRequest, NoDone
  <2>6. ChecksLast(id)'
    BY <1>3, <2>2, <2>4 DEF ChecksLast, NoCheck
  <2>7. RowOpen(id)'
    <3>1. snap[id].integrity = "null"
      BY <1>0, <2>1 DEF RowOpen
    <3>2. QED
      BY <1>0, <1>1, <2>1, <3>1 DEF RowOpen
  <2>8. QED
    BY <1>2, <1>7, <2>5, <2>6, <2>7 DEF Talk
<1>8. QED
  BY <1>6, <1>7
\* What goroutine r sends is about its own snapshot only.
LEMMA GoroutineSends ==
  ASSUME TypeOK, NEW r \in runs, NEW m \in UpMsg, m.id = r.id, SendUp(r.conn, m), NEW id \in SnapIds
  PROVE  /\ id # r.id => UpShift(id)
         /\ m.type # "snapshot_start" =>
              \A t \in Sockets, i \in Nat : StartAt(t, i, id)' => StartAt(t, i, id)
         /\ \A t \in Sockets, i \in Nat :
              /\ DoneAt(t, i, id)' => \/ DoneAt(t, i, id)
                                      \/ t = r.conn /\ i = Len(up[r.conn]) + 1 /\ m.type = "snapshot_done"
              /\ CheckAt(t, i, id)' => \/ CheckAt(t, i, id)
                                       \/ t = r.conn /\ i = Len(up[r.conn]) + 1 /\ m.type = "check_result"
<1>1. r.conn \in Sockets
  BY DEF TypeOK, Run
<1>2. QED
  BY <1>1, UpSend, NoShift

LEMMA GoroutineKeeps ==
  ASSUME OutcomeInv, RowsKept, [Next]_vars, NEW id \in SnapIds, NEW r \in runs, Goroutine(r)
  PROVE  Talk(id)' /\ RowOpen(id)'
<1>0. TypeOK /\ Talk(id) /\ RowOpen(id) /\ (Drawn(id) => Drawn(id)')
  BY DrawnStays DEF OutcomeInv
<1>1. /\ UNCHANGED <<down, snap>>
      /\ r \in Run /\ r.id \in SnapIds /\ r.conn \in Sockets
  BY <1>0 DEF Goroutine, FetchOk, FetchFails, FinishBackup, CheckDestination, linkVars, netVars,
              TypeOK, Run
<1>2. DownShift(id) /\ (NoRequest(id) => NoRequest(id)')
  BY <1>1, DownSame DEF NoRequest, RequestAt
\* The step by what it sends and what becomes of the goroutine.
<1>3. \/ /\ up' = up /\ r.phase # "check"
         /\ \E n : n.id = r.id /\ n.phase # "check" /\ runs' = (runs \ {r}) \cup {n}
      \/ /\ r.phase # "check"
         /\ \E m \in UpMsg : m.id = r.id /\ m.type = "snapshot_done" /\ SendUp(r.conn, m)
         /\ \/ runs' = runs \ {r}
            \/ \E n : n.id = r.id /\ n.conn = r.conn /\ n.phase = "check" /\ runs' = (runs \ {r}) \cup {n}
      \/ /\ r.phase = "check"
         /\ \E m \in UpMsg : m.id = r.id /\ m.type = "check_result" /\ SendUp(r.conn, m)
         /\ \/ runs' = runs \ {r}
            \/ \E n : n.id = r.id /\ n.conn = r.conn /\ n.phase = "check" /\ runs' = (runs \ {r}) \cup {n}
  <2>1. ASSUME NEW status \in {"success", "failed"}, SendDone(r, status)
        PROVE  \E m \in UpMsg : m.id = r.id /\ m.type = "snapshot_done" /\ SendUp(r.conn, m)
    <3> DEFINE m == [type |-> "snapshot_done", id |-> r.id, status |-> status]
    <3>1. m \in UpMsg /\ m.id = r.id /\ m.type = "snapshot_done" /\ SendUp(r.conn, m)
      BY <1>1, <2>1, MessageFacts DEF SendDone
    <3>2. QED
      BY <3>1
  <2>2. ASSUME NEW result \in {"passed", "failed"},
               SendUp(r.conn, [type |-> "check_result", id |-> r.id, status |-> result])
        PROVE  \E m \in UpMsg : m.id = r.id /\ m.type = "check_result" /\ SendUp(r.conn, m)
    <3> DEFINE m == [type |-> "check_result", id |-> r.id, status |-> result]
    <3>1. m \in UpMsg /\ m.id = r.id /\ m.type = "check_result" /\ SendUp(r.conn, m)
      BY <1>1, <2>2, MessageFacts
    <3>2. QED
      BY <3>1
  <2>3. CASE FetchOk(r)
    <3> DEFINE n == [r EXCEPT !.phase = "backup"]
    <3>1. n.id = r.id /\ n.phase # "check"
      BY <1>1 DEF Run
    <3>2. runs' = (runs \ {r}) \cup {n} /\ up' = up /\ r.phase # "check"
      BY <2>3 DEF FetchOk, linkVars, netVars
    <3>3. QED
      BY <3>1, <3>2
  <2>4. CASE FetchFails(r)
    BY <2>1, <2>4 DEF FetchFails
  <2>5. CASE FinishBackup(r)
    <3> DEFINE n == [r EXCEPT !.phase = "check", !.left = NumDests]
    <3>1. n.id = r.id /\ n.phase = "check" /\ n.conn = r.conn
      BY <1>1 DEF Run
    <3>2. r.phase # "check" /\ (runs' = runs \ {r} \/ runs' = (runs \ {r}) \cup {n})
      BY <2>5 DEF FinishBackup
    <3>3. \E m \in UpMsg : m.id = r.id /\ m.type = "snapshot_done" /\ SendUp(r.conn, m)
      BY <2>1, <2>5 DEF FinishBackup
    <3>4. QED
      BY <3>1, <3>2, <3>3
  <2>6. CASE CheckDestination(r)
    <3> DEFINE n == [r EXCEPT !.left = @ - 1]
    <3>1. r.phase = "check" /\ n.id = r.id /\ n.phase = "check" /\ n.conn = r.conn
      BY <1>1, <2>6 DEF Run, CheckDestination
    <3>2. runs' = runs \ {r} \/ runs' = (runs \ {r}) \cup {n}
      BY <2>6 DEF CheckDestination
    <3>3. \E m \in UpMsg : m.id = r.id /\ m.type = "check_result" /\ SendUp(r.conn, m)
      BY <2>2, <2>6 DEF CheckDestination
    <3>4. QED
      BY <3>1, <3>2, <3>3
  <2>7. QED
    BY <2>3, <2>4, <2>5, <2>6 DEF Goroutine
<1>4. \A q \in runs' : q \in runs \/ q.id = r.id
  BY <1>3
<1>5. CASE id # r.id
  <2>1. UpShift(id)
    <3>1. CASE up' = up
      BY <3>1, UpSame
    <3>2. ASSUME NEW m \in UpMsg, m.id = r.id, SendUp(r.conn, m) PROVE UpShift(id)
      BY <1>0, <1>5, <3>2, GoroutineSends
    <3>3. QED
      BY <1>3, <3>1, <3>2
  <2>2. Fewer(id)
    BY <1>2, <1>4, <1>5, <2>1, ShiftsMakeFewer
  <2>3. QED
    BY <1>0, <1>1, <2>2, FewerKeeps
<1>6. CASE id = r.id
  <2>1. NoRequest(id) /\ NoRequest(id)'
    BY <1>0, <1>2, <1>6 DEF Talk, AtMostOne, ChecksLast, NoWork
  <2>2. Drawn(id)'
    BY <1>0, <1>6 DEF Talk, Silent
  <2>3. r.phase # "check" =>
          /\ NoDone(id) /\ NoCheck(id) /\ ~NoWork(id)
          /\ \A q \in runs : q.id = id => q = r
    BY <1>0, <1>6 DEF Talk, AtMostOne, ChecksLast, NoWork, NoCheck
  <2>4. r.phase = "check" =>
          /\ NoWork(id)
          /\ \A t \in Sockets, k \in Nat : DoneAt(t, k, id) => t = r.conn
    BY <1>0, <1>6 DEF Talk, ChecksLast
  <2>5. \A t \in Sockets, i \in Nat : StartAt(t, i, id)' => StartAt(t, i, id)
    <3>1. CASE up' = up
      BY <3>1 DEF StartAt
    <3>2. ASSUME NEW m \in UpMsg, m.id = r.id, m.type # "snapshot_start", SendUp(r.conn, m)
          PROVE  \A t \in Sockets, i \in Nat : StartAt(t, i, id)' => StartAt(t, i, id)
      BY <1>0, <3>2, GoroutineSends
    <3>3. QED
      BY <1>3, <3>1, <3>2
  <2>6. /\ NoStart(id) => NoStart(id)'
        /\ \A t, u \in Sockets, i, k \in Nat :
             StartAt(t, i, id)' /\ StartAt(u, k, id)' => t = u /\ i = k
    BY <1>0, <2>5 DEF NoStart, Talk, AtMostOne
  <2>7. ASSUME up' = up, r.phase # "check", NEW n, n.id = r.id, n.phase # "check",
               runs' = (runs \ {r}) \cup {n}
        PROVE  Talk(id)' /\ RowOpen(id)'
    <3>1. NoDone(id)' /\ NoCheck(id)'
      BY <2>3, <2>7 DEF NoDone, NoCheck, DoneAt, CheckAt
    <3>2. \A q \in runs' : q.id = id => q = n
      BY <2>3, <2>7
    <3>3. AtMostOne(id)' /\ ChecksLast(id)'
      BY <2>1, <2>6, <2>7, <3>1, <3>2 DEF AtMostOne, ChecksLast, NoRequest, NoDone, NoCheck
    <3>4. RowOpen(id)'
      BY <1>0, <1>1, <2>3, <2>6, <2>7 DEF RowOpen, Idle
    <3>5. QED
      BY <2>2, <3>3, <3>4 DEF Talk
  <2>8. ASSUME r.phase # "check", NEW m \in UpMsg, m.id = r.id, m.type = "snapshot_done",
               SendUp(r.conn, m),
               \/ runs' = runs \ {r}
               \/ \E n : n.id = r.id /\ n.conn = r.conn /\ n.phase = "check"
                         /\ runs' = (runs \ {r}) \cup {n}
        PROVE  Talk(id)' /\ RowOpen(id)'
    <3>1. \A t \in Sockets, i \in Nat :
            /\ DoneAt(t, i, id)' => t = r.conn /\ i = Len(up[r.conn]) + 1
            /\ ~CheckAt(t, i, id)'
      BY <1>0, <2>3, <2>8, GoroutineSends DEF NoDone, NoCheck
    <3>2. \A q \in runs' : q.id = id => q.phase = "check" /\ q.conn = r.conn
      BY <2>3, <2>8
    <3>3. NoWork(id)'
      BY <3>2 DEF NoWork
    <3>4. AtMostOne(id)'
      BY <2>1, <2>6, <3>1, <3>2, <3>3 DEF AtMostOne, NoRequest
    <3>5. ChecksLast(id)'
      BY <2>1, <3>1, <3>2, <3>3 DEF ChecksLast
    <3>6. RowOpen(id)'
      BY <1>0, <1>1, <2>3, <2>6, <2>8 DEF RowOpen, Idle
    <3>7. QED
      BY <2>2, <3>4, <3>5, <3>6 DEF Talk
  <2>9. ASSUME r.phase = "check", NEW m \in UpMsg, m.id = r.id, m.type = "check_result",
               SendUp(r.conn, m),
               \/ runs' = runs \ {r}
               \/ \E n : n.id = r.id /\ n.conn = r.conn /\ n.phase = "check"
                         /\ runs' = (runs \ {r}) \cup {n}
        PROVE  Talk(id)' /\ RowOpen(id)'
    <3>1. \A t \in Sockets, i \in Nat :
            /\ DoneAt(t, i, id)' => DoneAt(t, i, id) /\ t = r.conn
            /\ CheckAt(t, i, id)' => CheckAt(t, i, id) \/ (t = r.conn /\ i = Len(up[r.conn]) + 1)
      BY <1>0, <2>4, <2>9, GoroutineSends
    <3>2. \A q \in runs' : q.id = id => q.phase = "check" /\ (q \in runs \/ q.conn = r.conn)
      BY <2>4, <2>9 DEF NoWork
    <3>3. NoWork(id)'
      BY <3>2 DEF NoWork
    <3>4. NoDone(id) => NoDone(id)'
      BY <3>1 DEF NoDone
    <3>5. AtMostOne(id)'
      <4>1. \A t, u \in Sockets, i, k \in Nat :
              DoneAt(t, i, id)' /\ DoneAt(u, k, id)' => t = u /\ i = k
        BY <1>0, <3>1 DEF Talk, AtMostOne
      <4>2. QED
        BY <2>1, <2>6, <3>2, <3>3, <4>1 DEF AtMostOne, NoRequest
    <3>6. ChecksLast(id)'
      <4>1. ASSUME NEW t \in Sockets, NEW i \in Nat, CheckAt(t, i, id)',
                   NEW u \in Sockets, NEW k \in Nat, DoneAt(u, k, id)'
            PROVE  u = t /\ k < i
        <5>1. DoneAt(u, k, id) /\ u = r.conn
          BY <3>1, <4>1
        <5>2. CASE CheckAt(t, i, id)
          BY <1>0, <5>1, <5>2 DEF Talk, ChecksLast
        <5>3. CASE t = r.conn /\ i = Len(up[r.conn]) + 1
          <6>1. DOMAIN up[r.conn] = 1..Len(up[r.conn]) /\ Len(up[r.conn]) \in Nat
            BY <1>0, <1>1 DEF TypeOK, LinkTypes
          <6>2. k \in 1..Len(up[r.conn])
            BY <5>1, <6>1 DEF DoneAt
          <6>3. QED
            BY <5>1, <5>3, <6>1, <6>2
        <5>4. QED
          BY <3>1, <4>1, <5>2, <5>3
      <4>2. ASSUME NEW q \in runs', q.id = id, NEW u \in Sockets, NEW k \in Nat, DoneAt(u, k, id)'
            PROVE  u = q.conn
        <5>1. DoneAt(u, k, id) /\ u = r.conn
          BY <3>1, <4>2
        <5>2. QED
          BY <1>0, <3>2, <4>2, <5>1 DEF Talk, ChecksLast
      <4>3. QED
        BY <2>1, <3>3, <4>1, <4>2 DEF ChecksLast
    <3>7. Idle(id) => Idle(id)'
      BY <2>1, <3>3, <3>4 DEF Idle
    <3>8. RowOpen(id)'
      BY <1>0, <1>1, <2>6, <3>7 DEF RowOpen
    <3>9. QED
      BY <2>2, <3>5, <3>6, <3>8 DEF Talk
  <2>10. QED
    BY <1>3, <2>7, <2>8, <2>9
<1>7. QED
  BY <1>5, <1>6
\* The message that the server handles, and what it leaves behind.
LEMMA HandlerFacts ==
  ASSUME OutcomeInv, RowsKept, [Next]_vars, NEW id \in SnapIds, NEW s \in Sockets,
         HandleSnapshotStart(s) \/ HandleSnapshotDone(s) \/ HandleCheckResult(s)
  PROVE  /\ Fewer(id) /\ Talk(id) /\ RowOpen(id) /\ (Drawn(id) => Drawn(id)')
         /\ Head(up[s]).id \in SnapIds
         /\ HandleSnapshotStart(s) => StartAt(s, 1, Head(up[s]).id)
         /\ HandleSnapshotDone(s) => DoneAt(s, 1, Head(up[s]).id)
         /\ HandleCheckResult(s) => CheckAt(s, 1, Head(up[s]).id)
         /\ \A t \in Sockets, i \in Nat :
              /\ StartAt(t, i, id)' => i > 0 /\ StartAt(t, IF t = s THEN i + 1 ELSE i, id)
              /\ DoneAt(t, i, id)' => i > 0 /\ DoneAt(t, IF t = s THEN i + 1 ELSE i, id)
<1>0. TypeOK /\ Talk(id) /\ RowOpen(id) /\ (Drawn(id) => Drawn(id)')
  BY DrawnStays DEF OutcomeInv
<1>1. up[s] # <<>> /\ Consume(s) /\ UNCHANGED <<down, runs>>
  BY DEF HandleSnapshotStart, HandleSnapshotDone, HandleCheckResult, FromAgent, Arrives
<1>2. /\ HandleSnapshotStart(s) => Head(up[s]).type = "snapshot_start"
      /\ HandleSnapshotDone(s) => Head(up[s]).type = "snapshot_done"
      /\ HandleCheckResult(s) => Head(up[s]).type = "check_result"
  BY DEF HandleSnapshotStart, HandleSnapshotDone, HandleCheckResult, FromAgent, Arrives
<1>3. Head(up[s]) \in UpMsg /\ Head(up[s]) = up[s][1] /\ 1 \in DOMAIN up[s]
  <2>1. up[s] \in Seq(UpMsg)
    BY <1>0 DEF TypeOK, LinkTypes
  <2>2. QED
    BY <1>1, <2>1, TailFacts
<1>4. Head(up[s]).id \in SnapIds
  BY <1>2, <1>3, MessageFacts
<1>5. UpShift(id) /\ DownShift(id)
      /\ \A t \in Sockets, i \in Nat :
           /\ StartAt(t, i, id)' => i > 0 /\ StartAt(t, IF t = s THEN i + 1 ELSE i, id)
           /\ DoneAt(t, i, id)' => i > 0 /\ DoneAt(t, IF t = s THEN i + 1 ELSE i, id)
  BY <1>0, <1>1, UpConsume, DownSame
<1>6. Fewer(id)
  BY <1>1, <1>5, ShiftsMakeFewer
<1>7. QED
  BY <1>0, <1>2, <1>3, <1>4, <1>5, <1>6 DEF StartAt, DoneAt, CheckAt

LEMMA HandlerKeeps ==
  ASSUME OutcomeInv, RowsKept, [Next]_vars, NEW id \in SnapIds, NEW s \in Sockets,
         HandleSnapshotStart(s) \/ HandleSnapshotDone(s) \/ HandleCheckResult(s)
  PROVE  Talk(id)' /\ RowOpen(id)'
<1> DEFINE m == Head(up[s])
<1>0. /\ Fewer(id) /\ Talk(id) /\ RowOpen(id) /\ (Drawn(id) => Drawn(id)')
      /\ m.id \in SnapIds
      /\ HandleSnapshotStart(s) => StartAt(s, 1, m.id)
      /\ HandleSnapshotDone(s) => DoneAt(s, 1, m.id)
      /\ HandleCheckResult(s) => CheckAt(s, 1, m.id)
      /\ \A t \in Sockets, i \in Nat :
           /\ StartAt(t, i, id)' => i > 0 /\ StartAt(t, IF t = s THEN i + 1 ELSE i, id)
           /\ DoneAt(t, i, id)' => i > 0 /\ DoneAt(t, IF t = s THEN i + 1 ELSE i, id)
  BY HandlerFacts
<1>1. /\ snap \in [SnapIds -> Row]
      /\ HandleSnapshotStart(s) => snap' = [snap EXCEPT ![m.id] = NewRow(m.job)]
      /\ HandleSnapshotDone(s) => snap' = RecordOutcome(m) /\ m.status \in {"success", "failed"}
      /\ HandleCheckResult(s) => snap' = RecordCheck(m) /\ Present(m.id)
  <2>1. HandleSnapshotDone(s) => m.status \in {"success", "failed"}
    BY HeadTypes, MessageFacts DEF HandleSnapshotDone, FromAgent, Arrives, OutcomeInv
  <2>2. QED
    BY <2>1 DEF OutcomeInv, TypeOK, HandleSnapshotStart, SnapshotStart, HandleSnapshotDone, HandleCheckResult
<1>2. /\ Idle(id) => Idle(id)'
      /\ NoStart(id) => NoStart(id)'
      /\ NoRequest(id) /\ NoWork(id) => NoRequest(id)' /\ NoWork(id)'
  <2>1. NoWork(id) => NoWork(id)'
    BY <1>0 DEF Fewer, NoWork
  <2>2. NoRequest(id) => NoRequest(id)'
    <3>1. PICK n \in [Sockets -> Nat], d \in [Sockets -> Nat] : Shift(id, n, d)
      BY <1>0 DEF Fewer
    <3>2. \A t \in Sockets, i \in Nat : i + d[t] \in Nat
      OBVIOUS
    <3>3. QED
      BY <3>1, <3>2 DEF Shift, NoRequest
  <2>3. QED
    BY <1>0, <2>1, <2>2, FewerStays DEF Talk
<1> HIDE DEF m
<1>3. CASE snap'[id] = snap[id]
  BY <1>0, <1>3, FewerKeeps
<1>4. CASE id = m.id /\ HandleSnapshotStart(s)
  <2>1. StartAt(s, 1, id) /\ ~NoStart(id) /\ snap'[id] = NewRow(m.job)
    BY <1>0, <1>1, <1>4 DEF NoStart
  <2>2. Talk(id)'
    BY <1>0, <2>1, FewerTalk DEF Talk, Silent
  <2>3. NoStart(id)'
    <3>1. SUFFICES ASSUME NEW t \in Sockets, NEW i \in Nat, StartAt(t, i, id)' PROVE FALSE
      BY DEF NoStart
    <3>2. i > 0 /\ StartAt(t, IF t = s THEN i + 1 ELSE i, id)
      BY <1>0, <3>1
    <3>3. t = s /\ (IF t = s THEN i + 1 ELSE i) = 1
      BY <1>0, <2>1, <3>2 DEF Talk, AtMostOne
    <3>4. QED
      BY <3>2, <3>3
  <2>4. QED
    BY <2>1, <2>2, <2>3 DEF RowOpen, NewRow
<1>5. CASE id = m.id /\ HandleSnapshotDone(s) /\ Present(id)
  <2>1. DoneAt(s, 1, id) /\ ~NoDone(id) /\ NoStart(id) /\ snap[id].integrity = "null"
    BY <1>0, <1>5 DEF NoDone, RowOpen, Idle, Present
  <2>2. Talk(id)'
    BY <1>0, <1>5, FewerTalk DEF Present
  <2>3. NoDone(id)'
    <3>1. SUFFICES ASSUME NEW t \in Sockets, NEW i \in Nat, DoneAt(t, i, id)' PROVE FALSE
      BY DEF NoDone
    <3>2. i > 0 /\ DoneAt(t, IF t = s THEN i + 1 ELSE i, id)
      BY <1>0, <3>1
    <3>3. t = s /\ (IF t = s THEN i + 1 ELSE i) = 1
      BY <1>0, <2>1, <3>2 DEF Talk, AtMostOne
    <3>4. QED
      BY <3>2, <3>3
  <2>4. Idle(id)'
    BY <1>0, <1>2, <2>1, <2>3 DEF Talk, AtMostOne, Idle
  <2>5. snap'[id].integrity = "null" /\ snap'[id].status = m.status
    BY <1>1, <1>5, <2>1 DEF RecordOutcome, Row
  <2>6. QED
    BY <1>1, <1>2, <1>5, <2>1, <2>2, <2>4, <2>5 DEF RowOpen
<1>6. CASE id = m.id /\ HandleCheckResult(s)
  <2>1. CheckAt(s, 1, id) /\ NoRequest(id) /\ NoWork(id)
    BY <1>0, <1>6 DEF Talk, ChecksLast
  <2>2. NoDone(id)
    <3>1. SUFFICES ASSUME NEW t \in Sockets, NEW k \in Nat, DoneAt(t, k, id) PROVE FALSE
      BY DEF NoDone
    <3>2. t = s /\ k < 1
      BY <1>0, <2>1, <3>1 DEF Talk, ChecksLast
    <3>3. DOMAIN up[s] = 1..Len(up[s])
      BY DEF OutcomeInv, TypeOK, LinkTypes
    <3>4. QED
      BY <3>1, <3>2, <3>3 DEF DoneAt
  <2>3. Idle(id)' /\ NoStart(id)'
    BY <1>0, <1>1, <1>2, <1>6, <2>1, <2>2 DEF Idle, RowOpen, Present
  <2>4. Talk(id)'
    BY <1>0, <1>1, <1>6, FewerTalk DEF Present
  <2>5. /\ snap'[id].status # "none"
        /\ snap'[id].integrity = "failed" => snap'[id].status # "success"
    BY <1>1, <1>6 DEF RecordCheck, Row, Present
  <2>6. QED
    BY <2>3, <2>4, <2>5 DEF RowOpen
<1>7. QED
  BY <1>1, <1>3, <1>4, <1>5, <1>6 DEF RecordOutcome, RecordCheck

LEMMA InitOutcome == ASSUME Init PROVE OutcomeInv
<1>1. ASSUME NEW id \in SnapIds PROVE Talk(id) /\ RowOpen(id)
  <2>1. Silent(id) /\ snap[id] = NoRow("none")
    BY DEF Init, LinkInit, Silent, Idle, NoRequest, NoStart, NoDone, NoCheck, NoWork, RequestAt,
           StartAt, DoneAt, CheckAt
  <2>2. QED
    BY <2>1, SilentTalk DEF Talk, RowOpen, NoRow, Silent
<1>2. QED
  BY <1>1, InitTypeOK DEF OutcomeInv

LEMMA StepOutcome == ASSUME OutcomeInv, OnePerMs', [Next]_vars PROVE OutcomeInv'
<1>0. TypeOK /\ TypeOK' /\ RowsKept
  BY StepTypeOK, StepRowsKept DEF OutcomeInv
<1>1. SUFFICES ASSUME NEW id \in SnapIds PROVE Talk(id)' /\ RowOpen(id)'
  BY <1>0 DEF OutcomeInv
<1>2. Talk(id) /\ RowOpen(id) /\ (Drawn(id) => Drawn(id)')
  BY <1>0, DrawnStays DEF OutcomeInv
<1>3. CASE UNCHANGED snap /\ Fewer(id)
  BY <1>2, <1>3, FewerKeeps
<1>4. CASE UNCHANGED <<snap, up, down, runs>>
  BY <1>3, <1>4, SameFewer
<1>5. ASSUME NEW j \in Jobs, DeleteJob(j) PROVE Talk(id)' /\ RowOpen(id)'
  <2> DEFINE s == agentConnections[JobAgent[j]]
  <2>1. CASE UNCHANGED down
    BY <1>4, <1>5, <2>1 DEF DeleteJob
  <2>2. CASE s # NoSocket /\ SendDown(s, [type |-> "sync_jobs"])
    <3>1. JobAgent[j] \in Agents
      BY RunAssumption
    <3>2. s \in Sockets
      BY <1>0, <2>2, <3>1 DEF TypeOK, LinkTypes
    <3>3. \A t \in Sockets, i \in Nat : RequestAt(t, i, id)' => RequestAt(t, i, id)
      BY <1>0, <2>2, <3>2, MessageFacts, DownSend
    <3>4. UNCHANGED <<snap, up, runs>>
      BY <1>5 DEF DeleteJob
    <3>5. Fewer(id)
      BY <3>3, <3>4, NoShift, UpSame, ShiftsMakeFewer
    <3>6. QED
      BY <1>3, <3>4, <3>5
  <2>3. QED
    BY <1>5, <2>1, <2>2 DEF DeleteJob, Push
<1>6. ASSUME NEW a \in Agents, ReceiveSyncJobs(a) PROVE Talk(id)' /\ RowOpen(id)'
  <2>1. ReadMessage(a, "sync_jobs") /\ UNCHANGED <<snap, up, runs>>
    BY <1>6 DEF ReceiveSyncJobs
  <2>2. Fewer(id)
    BY <1>0, <2>1, DownRead, UpSame, ShiftsMakeFewer
  <2>3. QED
    BY <1>3, <2>1, <2>2
<1>7. CASE Api
  BY <1>0, <1>5, <1>7, RowRequests, RunJobKeeps DEF Api
<1>8. CASE Agent
  <2>1. ASSUME NEW a \in Agents, FirstSync(a) PROVE Talk(id)' /\ RowOpen(id)'
    BY <1>4, <2>1 DEF FirstSync, linkVars, netVars
  <2>2. ASSUME NEW a \in Agents, Disconnect(a) \/ ExitAgent(a) \/ \E s \in Sockets : Connect(a, s)
        PROVE  Talk(id)' /\ RowOpen(id)'
    BY <1>0, <1>3, <2>2, LinkMoveFewer
  <2>3. CASE Tick
    BY <1>4, <2>3 DEF Tick, linkVars, netVars
  <2>4. QED
    BY <1>0, <1>6, <1>8, <2>1, <2>2, <2>3, ReceiveRunJobKeeps, FireScheduleKeeps, GoroutineKeeps DEF Agent
<1>9. CASE Server
  <2>1. ASSUME NEW s \in Sockets, HandlerThrows(s) PROVE Talk(id)' /\ RowOpen(id)'
    BY <1>0, <1>3, <2>1, LinkMoveFewer
  <2>2. QED
    BY <1>0, <1>9, <2>1, HandlerKeeps DEF Server
<1>10. CASE LinkStep
  BY <1>0, <1>3, <1>10, LinkMoveFewer
<1>11. CASE UNCHANGED vars
  BY <1>4, <1>11 DEF vars, runVars, linkVars, netVars
<1>12. QED
  BY <1>7, <1>8, <1>9, <1>10, <1>11 DEF Next

LEMMA OutcomeInvariant == Spec /\ []OnePerMs => []OutcomeInv
<1>1. OutcomeInv /\ OnePerMs' /\ [Next]_vars => OutcomeInv'
  BY StepOutcome
<1>2. QED
  BY <1>1, InitOutcome, PTL DEF Spec

\* A repository that failed its check is not shown as a good backup
\* (index.ts:233-239), as long as no two schedules fire in one millisecond:
\* the two would share one row.
THEOREM FailedCheckShows == Spec /\ []OnePerMs => []FailedCheckNotSuccess
<1>1. OutcomeInv => FailedCheckNotSuccess
  BY DEF OutcomeInv, RowOpen, FailedCheckNotSuccess
<1>2. QED
  BY <1>1, OutcomeInvariant, PTL
-----------------------------------------------------------------------------
(* BackupRun implements SnapshotLifecycle: what a step does to one row is   *)
(* a step of the lifecycle, or nothing.                                     *)

bar == [id \in SnapIds |-> [status |-> snap[id].status, finished |-> snap[id].finished]]

\* A step that changes the row of one id, seen through the mapping.
LEMMA BarChange ==
  ASSUME snap \in [SnapIds -> Row], NEW id \in SnapIds, NEW r, snap' = [snap EXCEPT ![id] = r]
  PROVE  bar' = [bar EXCEPT ![id] = [status |-> r.status, finished |-> r.finished]]
  BY DEF bar

LEMMA BarStep ==
  ASSUME OutcomeInv, [Next]_vars PROVE [Lifecycle!Next]_bar
<1>0. TypeOK /\ snap \in [SnapIds -> Row]
  BY DEF OutcomeInv, TypeOK
<1>a. \A id \in SnapIds : bar[id] = [status |-> snap[id].status, finished |-> snap[id].finished]
  BY DEF bar
<1>1. CASE UNCHANGED snap
  BY <1>1 DEF bar
<1>2. ASSUME NEW j \in Jobs, NEW id \in ManualIds, RunJob(j, id) PROVE Lifecycle!Next
  <2>1. id \in SnapIds /\ snap[id] = NoRow("none")
    BY <1>2 DEF RunJob, SnapIds
  <2>2. bar[id] = [status |-> "none", finished |-> FALSE]
    <3>1. snap[id].status = "none" /\ snap[id].finished = FALSE
      BY <2>1 DEF NoRow
    <3>2. QED
      BY <1>a, <2>1, <3>1
  <2>3. \/ bar' = [bar EXCEPT ![id] = [status |-> "failed", finished |-> TRUE]]
        \/ bar' = [bar EXCEPT ![id] = [status |-> "running", finished |-> FALSE]]
    BY <1>0, <1>2, <2>1, BarChange DEF RunJob, NewRow
  <2>4. Lifecycle!Refuse(id) \/ Lifecycle!Start(id)
    BY <2>2, <2>3 DEF Lifecycle!Refuse, Lifecycle!Start, Lifecycle!NoRow, Lifecycle!Running, bar
  <2>5. QED
    BY <2>1, <2>4 DEF Lifecycle!Next
<1>3. ASSUME NEW id \in SnapIds, DeleteSnapshot(id) PROVE Lifecycle!Next
  <2>1. bar' = [bar EXCEPT ![id] = [status |-> "deleted", finished |-> FALSE]]
    BY <1>0, <1>3, BarChange DEF DeleteSnapshot, NoRow
  <2>2. Lifecycle!Delete(id)
    BY <1>a, <1>3, <2>1 DEF Lifecycle!Delete, Lifecycle!Present, Lifecycle!Gone, DeleteSnapshot, Present, bar
  <2>3. QED
    BY <2>2 DEF Lifecycle!Next
<1>4. ASSUME NEW j \in Jobs, ResetRepo(j) PROVE Lifecycle!Next
  <2>1. \A id \in SnapIds : snap'[id] = IF id \in RowsOf(j) THEN [snap[id] EXCEPT !.status = "orphaned"]
                                                          ELSE snap[id]
    BY <1>4 DEF ResetRepo
  <2>2. bar' = [id \in SnapIds |-> IF id \in RowsOf(j) THEN [bar[id] EXCEPT !.status = "orphaned"]
                                                      ELSE bar[id]]
    BY <1>0, <2>1 DEF bar, Row
  <2>3. PICK S \in SUBSET SnapIds : S = RowsOf(j)
    BY DEF RowsOf
  <2>4. Lifecycle!Orphan(S)
    BY <1>a, <2>2, <2>3 DEF Lifecycle!Orphan, Lifecycle!Present, RowsOf, Present, bar
  <2>5. QED
    BY <2>4 DEF Lifecycle!Next
<1>5. ASSUME NEW s \in Sockets,
             HandleSnapshotStart(s) \/ HandleSnapshotDone(s) \/ HandleCheckResult(s)
      PROVE  [Lifecycle!Next]_bar
  <2> DEFINE m == Head(up[s])
  <2>1. up[s] # <<>> /\ m \in UpMsg /\ m = up[s][1] /\ 1 \in DOMAIN up[s]
    <3>1. up[s] \in Seq(UpMsg) /\ up[s] # <<>>
      BY <1>0, <1>5 DEF HandleSnapshotStart, HandleSnapshotDone, HandleCheckResult, FromAgent, Arrives,
                        TypeOK, LinkTypes
    <3>2. QED
      BY <3>1, TailFacts
  <2>a. PICK x : x = m.id
    OBVIOUS
  <2>b. PICK outcome : outcome = m.status
    OBVIOUS
  <2>2. CASE HandleSnapshotStart(s)
    <3>1. x \in SnapIds /\ m.type = "snapshot_start" /\ snap' = [snap EXCEPT ![x] = NewRow(m.job)]
      BY <2>1, <2>2, <2>a, MessageFacts DEF HandleSnapshotStart, SnapshotStart, FromAgent, Arrives
    <3>2. ~NoStart(x)
      BY <2>1, <2>a, <3>1 DEF NoStart, StartAt
    <3>3. bar[x] = [status |-> "none", finished |-> FALSE]
      BY <1>a, <3>1, <3>2 DEF OutcomeInv, RowOpen
    <3>4. bar' = [bar EXCEPT ![x] = [status |-> "running", finished |-> FALSE]]
      BY <1>0, <3>1, BarChange DEF NewRow
    <3>5. Lifecycle!Start(x)
      BY <3>3, <3>4 DEF Lifecycle!Start, Lifecycle!NoRow, Lifecycle!Running, bar
    <3>6. QED
      BY <3>1, <3>5 DEF Lifecycle!Next
  <2>3. CASE HandleSnapshotDone(s) /\ Present(m.id)
    <3>1. x \in SnapIds /\ m.type = "snapshot_done" /\ outcome \in {"success", "failed"}
      BY <2>1, <2>3, <2>a, <2>b, MessageFacts DEF HandleSnapshotDone, FromAgent, Arrives
    <3>2. ~NoDone(x)
      BY <2>1, <2>a, <3>1 DEF NoDone, DoneAt
    <3>3. bar[x].finished = FALSE /\ bar[x].status \notin {"none", "deleted"}
      <4>1. snap[x].finished = FALSE
        BY <3>1, <3>2 DEF OutcomeInv, RowOpen, Idle
      <4>2. snap[x].status \notin {"none", "deleted"}
        BY <2>3, <2>a DEF Present
      <4>3. bar[x].finished = snap[x].finished /\ bar[x].status = snap[x].status
        BY <3>1 DEF bar
      <4>4. QED
        BY <4>1, <4>2, <4>3
    <3>4. snap' = [snap EXCEPT ![x] = [snap[x] EXCEPT !.status = outcome, !.finished = TRUE]]
      <4>1. snap' = RecordOutcome(m)
        BY <2>3 DEF HandleSnapshotDone
      <4>2. QED
        BY <1>0, <2>3, <2>a, <2>b, <3>1, <4>1 DEF RecordOutcome, Row
    <3>5. bar' = [bar EXCEPT ![x] = [status |-> outcome, finished |-> TRUE]]
      <4> DEFINE r == [snap[x] EXCEPT !.status = outcome, !.finished = TRUE]
      <4>1. r.status = outcome /\ r.finished = TRUE
        BY <1>0, <3>1 DEF Row
      <4>2. snap' = [snap EXCEPT ![x] = r]
        BY <3>4
      <4> HIDE DEF r
      <4>3. QED
        BY <1>0, <3>1, <4>1, <4>2 DEF bar
    <3>6. Lifecycle!Finish(x, outcome)
      BY <3>3, <3>5 DEF Lifecycle!Finish, Lifecycle!Present, bar
    <3>7. QED
      BY <3>1, <3>6 DEF Lifecycle!Next
  <2>4. CASE HandleSnapshotDone(s) /\ ~Present(m.id)
    <3>1. snap' = RecordOutcome(m)
      BY <2>4 DEF HandleSnapshotDone
    <3>2. QED
      BY <1>1, <2>4, <3>1 DEF RecordOutcome
  <2>5. CASE HandleCheckResult(s)
    <3> DEFINE st == IF m.status = "failed" /\ snap[x].status = "success" THEN "warning"
                     ELSE snap[x].status
    <3>1. x \in SnapIds
      BY <2>1, <2>5, <2>a, MessageFacts DEF HandleCheckResult, FromAgent, Arrives
    <3>2. snap' = [snap EXCEPT ![x] = [snap[x] EXCEPT !.integrity = m.status, !.status = st]]
      <4>1. snap' = RecordCheck(m)
        BY <2>5 DEF HandleCheckResult
      <4>2. QED
        BY <1>0, <2>a, <3>1, <4>1 DEF RecordCheck, Row
    <3>3. bar' = [bar EXCEPT ![x] = [status |-> st, finished |-> snap[x].finished]]
      <4> DEFINE r == [snap[x] EXCEPT !.integrity = m.status, !.status = st]
      <4>1. r.status = st /\ r.finished = snap[x].finished
        BY <1>0, <3>1 DEF Row
      <4>2. snap' = [snap EXCEPT ![x] = r]
        BY <3>2
      <4> HIDE DEF r, st
      <4>3. QED
        BY <1>0, <3>1, <4>1, <4>2 DEF bar
    <3>4. CASE st = snap[x].status
      BY <1>a, <3>1, <3>3, <3>4 DEF bar
    <3>5. CASE snap[x].status = "success" /\ st = "warning"
      <4>1. Lifecycle!Downgrade(x)
        BY <1>a, <3>1, <3>3, <3>5 DEF Lifecycle!Downgrade, bar
      <4>2. QED
        BY <3>1, <4>1 DEF Lifecycle!Next
    <3>6. QED
      BY <3>4, <3>5
  <2>6. QED
    BY <1>5, <2>2, <2>3, <2>4, <2>5
<1>6. QED
  BY <1>1, <1>2, <1>3, <1>4, <1>5
  DEF Next, Api, DeleteJob, Agent, FirstSync, ReceiveSyncJobs, ReceiveRunJob, FireSchedule, Connect,
      Disconnect, ExitAgent, Goroutine, FetchOk, FetchFails, FinishBackup, CheckDestination, Tick,
      Server, HandlerThrows, LinkStep, runVars, vars

\* A snapshot's row is inserted once, gets one outcome, is at most downgraded
\* or orphaned after it and does not come back once deleted (jobs.ts:222-292,
\* 383-404, index.ts:131-147, 215-243, 379-411), over any number of connections,
\* restarts and failures, as long as no two schedules fire in one millisecond.
THEOREM BackupsFollowLifecycle == Spec /\ []OnePerMs => ImplementsLifecycle
<1>1. Init => Lifecycle!Init
  BY DEF Init, Lifecycle!Init, Lifecycle!NoRow, NoRow
<1>2. OutcomeInv /\ [Next]_vars => [Lifecycle!Next]_bar
  BY BarStep
<1>3. QED
  BY <1>1, <1>2, OutcomeInvariant, PTL DEF Spec, ImplementsLifecycle, Lifecycle!Spec, bar
=============================================================================
