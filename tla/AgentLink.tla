---------------------------- MODULE AgentLink ----------------------------
(***************************************************************************)
(* The WebSocket link between the agents and the server: the two lookup    *)
(* maps of server/src/websocket/index.ts, the agents.status column they    *)
(* keep up to date, and the connect loop of agent/cmd/agent/main.go.       *)
(*                                                                         *)
(* A connection has two ends that learn of its death separately, so the    *)
(* server's "close" event may come long after the agent has dialled again. *)
(* Messages travel in order and are lost only with their connection.       *)
(*                                                                         *)
(* Bounds: Sockets is the set of connections that may exist at once (one   *)
(* is used again when both its ends are closed), MaxFaults the number of   *)
(* failures, and at most one heartbeat per connection is in flight.        *)
(***************************************************************************)
EXTENDS Naturals, Sequences

CONSTANTS
  Agents,     \* registered agents
  Sockets,    \* connection identities
  NoAgent,    \* "not identified"
  NoSocket,   \* "not connected"
  MaxFaults   \* bound on link losses, agent exits and server restarts

ASSUME LinkAssumption ==
  /\ NoAgent \notin Agents
  /\ NoSocket \notin Sockets
  /\ MaxFaults \in Nat

VARIABLES
  agentConnections, \* server memory: agentId -> WebSocket
  socketToAgent,    \* server memory: WebSocket -> agentId
  agentStatus,      \* database: agents.status
  serverOpen,       \* connections whose "close" event the server has not seen
  conn,             \* agent memory: the connection handleConnection reads
  clientOpen,       \* connections the agent has not closed
  wire,             \* connections whose network path still works
  up,               \* messages in flight, agent to server
  down,             \* messages in flight, server to agent
  faults            \* failures so far

serverVars == <<agentConnections, socketToAgent, agentStatus, serverOpen>>
clientVars == <<conn, clientOpen>>
netVars    == <<wire, up, down, faults>>
linkVars   == <<serverVars, clientVars, netVars>>

AgentConnect(a) == [type |-> "agent_connect", agentId |-> a]
Heartbeat       == [type |-> "heartbeat"]

LinkUpMsg == [type : {"agent_connect"}, agentId : Agents] \cup {Heartbeat}

-----------------------------------------------------------------------------
\* A message written to s arrives only if both ends and the path are alive;
\* a write to a dead connection is lost without the writer being told.
CanCarry(s) == s \in clientOpen \cap serverOpen \cap wire

SendUp(s, m)   == up' = IF CanCarry(s) THEN [up EXCEPT ![s] = Append(@, m)] ELSE up
SendDown(s, m) == down' = IF CanCarry(s) THEN [down EXCEPT ![s] = Append(@, m)] ELSE down

\* sendToAgent whose result the caller ignores.
Push(a, m) == IF agentConnections[a] = NoSocket THEN UNCHANGED down
              ELSE SendDown(agentConnections[a], m)

\* sendToAgent returns false: there is no connection, or the server has noticed
\* that this one is closing although its "close" event has not run.
MayBeUnwritable(s) == s = NoSocket \/ s \notin clientOpen \cap wire

\* The next message the server's "message" handler sees on s.
Arrives(s, type) == s \in serverOpen /\ up[s] # <<>> /\ Head(up[s]).type = type

\* The same for a connection that has been identified as an agent's.
FromAgent(s, type) == Arrives(s, type) /\ socketToAgent[s] # NoAgent

\* The next message the agent's read loop sees.
Reads(a, type) ==
  /\ conn[a] # NoSocket
  /\ down[conn[a]] # <<>>
  /\ Head(down[conn[a]]).type = type

Consume(s) == up' = [up EXCEPT ![s] = Tail(@)]

-----------------------------------------------------------------------------
LinkInit ==
  /\ agentConnections = [a \in Agents |-> NoSocket]
  /\ socketToAgent = [s \in Sockets |-> NoAgent]
  /\ agentStatus = [a \in Agents |-> "offline"]
  /\ serverOpen = {}
  /\ conn = [a \in Agents |-> NoSocket]
  /\ clientOpen = {}
  /\ wire = {}
  /\ up = [s \in Sockets |-> <<>>]
  /\ down = [s \in Sockets |-> <<>>]
  /\ faults = 0

\* connectWithRetry succeeds: the agent dials and writes agent_connect.
Dial(a, s) ==
  /\ conn[a] = NoSocket
  /\ s \notin clientOpen \cup serverOpen
  /\ conn' = [conn EXCEPT ![a] = s]
  /\ clientOpen' = clientOpen \cup {s}
  /\ serverOpen' = serverOpen \cup {s}
  /\ wire' = wire \cup {s}
  /\ up' = [up EXCEPT ![s] = <<AgentConnect(a)>>]
  /\ down' = [down EXCEPT ![s] = <<>>]
  /\ UNCHANGED <<agentConnections, socketToAgent, agentStatus, faults>>

\* What identification does once token and certificate are accepted.
RejectSecond(a, s) ==     \* mutant: an agent that is already registered is not registered again
  IF agentConnections[a] # NoSocket
  THEN UNCHANGED <<agentConnections, socketToAgent, agentStatus>>
  ELSE /\ agentConnections' = [agentConnections EXCEPT ![a] = s]
       /\ socketToAgent' = [socketToAgent EXCEPT ![s] = a]
       /\ agentStatus' = [agentStatus EXCEPT ![a] = "online"]

WrongStatus(a, s) ==      \* mutant: a status the schema's comment does not list
  /\ agentConnections' = [agentConnections EXCEPT ![a] = s]
  /\ socketToAgent' = [socketToAgent EXCEPT ![s] = a]
  /\ agentStatus' = [agentStatus EXCEPT ![a] = "connected"]

\* Both maps are set: an older connection of the agent is simply replaced.
Register(a, s) ==
  /\ agentConnections' = [agentConnections EXCEPT ![a] = s]
  /\ socketToAgent' = [socketToAgent EXCEPT ![s] = a]
  /\ agentStatus' = [agentStatus EXCEPT ![a] = "online"]

HandleAgentConnect(s) ==
  /\ Arrives(s, "agent_connect")
  /\ socketToAgent[s] = NoAgent
  /\ Register(Head(up[s]).agentId, s)
  /\ Consume(s)
  /\ UNCHANGED <<serverOpen, conn, clientOpen, wire, down, faults>>

\* The heartbeat goroutine's ticker.
SendHeartbeat(a) ==
  LET s == conn[a] IN
  /\ s # NoSocket
  /\ \A i \in DOMAIN up[s] : up[s][i] # Heartbeat
  /\ SendUp(s, Heartbeat)
  /\ UNCHANGED <<serverVars, clientVars, wire, down, faults>>

HandleHeartbeat(s) ==
  /\ FromAgent(s, "heartbeat")
  /\ agentStatus' = [agentStatus EXCEPT ![socketToAgent[s]] = "online"]
  /\ Consume(s)
  /\ UNCHANGED <<agentConnections, socketToAgent, serverOpen, clientVars, wire, down, faults>>

\* What the "close" handler does for the connection of agent a.
KeepConnection(a, s) ==   \* mutant: agentConnections.delete is forgotten
  /\ socketToAgent' = [socketToAgent EXCEPT ![s] = NoAgent]
  /\ agentStatus' = [agentStatus EXCEPT ![a] = "offline"]
  /\ UNCHANGED agentConnections

GuardedDelete(a, s) ==    \* mutant: delete only the connection's own entry, still set offline
  /\ agentConnections' = [agentConnections EXCEPT ![a] = IF @ = s THEN NoSocket ELSE @]
  /\ socketToAgent' = [socketToAgent EXCEPT ![s] = NoAgent]
  /\ agentStatus' = [agentStatus EXCEPT ![a] = "offline"]

Deregister(a, s) ==
  /\ agentConnections' = [agentConnections EXCEPT ![a] = NoSocket]
  /\ socketToAgent' = [socketToAgent EXCEPT ![s] = NoAgent]
  /\ agentStatus' = [agentStatus EXCEPT ![a] = "offline"]

\* The server's "close" event.
ServerClose(s) ==
  /\ s \in serverOpen
  /\ s \notin wire \/ (s \notin clientOpen /\ up[s] = <<>>)
  /\ serverOpen' = serverOpen \ {s}
  /\ up' = [up EXCEPT ![s] = <<>>]
  /\ IF socketToAgent[s] = NoAgent
     THEN UNCHANGED <<agentConnections, socketToAgent, agentStatus>>
     ELSE Deregister(socketToAgent[s], s)
  /\ UNCHANGED <<clientVars, wire, down, faults>>

\* handleConnection returns on a read error and closes its connection.
AgentReadError(a) ==
  LET s == conn[a] IN
  /\ s # NoSocket
  /\ s \notin wire \/ s \notin serverOpen
  /\ conn' = [conn EXCEPT ![a] = NoSocket]
  /\ clientOpen' = clientOpen \ {s}
  /\ down' = [down EXCEPT ![s] = <<>>]
  /\ UNCHANGED <<serverVars, wire, up, faults>>

\* The network path of s dies with everything in flight on it.
LoseLink(s) ==
  /\ faults < MaxFaults
  /\ s \in wire
  /\ wire' = wire \ {s}
  /\ up' = [up EXCEPT ![s] = <<>>]
  /\ down' = [down EXCEPT ![s] = <<>>]
  /\ faults' = faults + 1
  /\ UNCHANGED <<serverVars, clientVars>>

\* The agent process ends (crash, reboot, service stop) and is started again
\* by its service manager; what it had already sent still arrives.
AgentExit(a) ==
  LET s == conn[a] IN
  /\ faults < MaxFaults
  /\ s # NoSocket
  /\ conn' = [conn EXCEPT ![a] = NoSocket]
  /\ clientOpen' = clientOpen \ {s}
  /\ down' = [down EXCEPT ![s] = <<>>]
  /\ faults' = faults + 1
  /\ UNCHANGED <<serverVars, wire, up>>

\* The server process ends: its memory and every connection are gone, the
\* database is not; initDb does not touch agents.status.
ServerDies ==
  /\ agentConnections' = [a \in Agents |-> NoSocket]
  /\ socketToAgent' = [s \in Sockets |-> NoAgent]
  /\ serverOpen' = {}
  /\ wire' = {}
  /\ up' = [s \in Sockets |-> <<>>]
  /\ down' = [s \in Sockets |-> <<>>]
  /\ UNCHANGED <<agentStatus, clientVars>>

ServerRestart ==
  /\ faults < MaxFaults
  /\ faults' = faults + 1
  /\ ServerDies

LinkNext ==
  \/ \E a \in Agents :
       \/ \E s \in Sockets : Dial(a, s)
       \/ SendHeartbeat(a)
       \/ AgentReadError(a)
       \/ AgentExit(a)
  \/ \E s \in Sockets :
       \/ HandleAgentConnect(s)
       \/ HandleHeartbeat(s)
       \/ ServerClose(s)
       \/ LoseLink(s)
  \/ ServerRestart

LinkSpec == LinkInit /\ [][LinkNext]_linkVars

\* The agent retries for ever, the server's event loop runs every handler,
\* and both ends eventually learn that a path is dead; failures and heartbeats
\* are not promised.
LinkFairness ==
  /\ \A a \in Agents : WF_linkVars(\E s \in Sockets : Dial(a, s)) /\ WF_linkVars(AgentReadError(a))
  /\ \A s \in Sockets :
       WF_linkVars(HandleAgentConnect(s)) /\ WF_linkVars(HandleHeartbeat(s)) /\ WF_linkVars(ServerClose(s))

FairLinkSpec == LinkSpec /\ LinkFairness
-----------------------------------------------------------------------------
\* The types of the link's variables for the message sets U and D.
LinkTypes(U, D) ==
  /\ agentConnections \in [Agents -> Sockets \cup {NoSocket}]
  /\ socketToAgent \in [Sockets -> Agents \cup {NoAgent}]
  /\ agentStatus \in [Agents -> {"online", "offline", "busy"}]
  /\ conn \in [Agents -> Sockets \cup {NoSocket}]
  /\ serverOpen \subseteq Sockets
  /\ clientOpen \subseteq Sockets
  /\ wire \subseteq Sockets
  /\ up \in [Sockets -> Seq(U)]
  /\ down \in [Sockets -> Seq(D)]
  /\ faults \in Nat

\* Type correctness of the link on its own (index.ts:37-40, main.go:140-206).
LinkTypeOK == LinkTypes(LinkUpMsg, {})

\* The two maps of index.ts:37-40 describe one relation: a registered
\* connection is open and maps back to its agent, and no entry of the reverse
\* map outlives its "close" event, whatever the order of connects and closes.
RegistryConsistent ==
  /\ \A a \in Agents : agentConnections[a] # NoSocket =>
       /\ agentConnections[a] \in serverOpen
       /\ socketToAgent[agentConnections[a]] = a
  /\ \A s \in Sockets : socketToAgent[s] # NoAgent => s \in serverOpen

\* sendToAgent and the status shown to users agree in one direction: an agent
\* that can be sent a command is never shown as offline (index.ts:103-110 and
\* 525-531 set the map and the column together, over any restart).
ReachableNotOffline ==
  \A a \in Agents : agentConnections[a] # NoSocket => agentStatus[a] # "offline"

\* The agent is connected and the server has identified that connection.
Identified(a) == conn[a] # NoSocket /\ socketToAgent[conn[a]] = a

\* "Agent is offline" (jobs.ts:250) is answered only for an agent without an
\* identified connection: once the server has closed every older connection of
\* an agent, the one that is left is the one sendToAgent finds.
IdentifiedIsReachable ==
  \A a \in Agents :
    Identified(a) /\ (\A s \in serverOpen : socketToAgent[s] \in {a, NoAgent} => s = conn[a])
      => agentConnections[a] = conn[a]

\* After the last failure every agent ends up identified for good: the retry
\* loop of main.go:157-206 needs no help from an operator.
AgentsComeBack == \A a \in Agents : <>[]Identified(a)
=============================================================================
