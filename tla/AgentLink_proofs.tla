------------------------- MODULE AgentLink_proofs -------------------------
(* Proofs about AgentLink, for every set of agents and connections and any *)
(* bound on failures. The typing lemmas are stated for any sets of         *)
(* messages, so that the modules that add messages of their own cite them. *)
EXTENDS AgentLink, TLAPS

\* What one message more, or one less, does to queues of messages of M.
LEMMA QueueLemma ==
  ASSUME NEW M, NEW q \in [Sockets -> Seq(M)], NEW s \in Sockets
  PROVE  /\ \A m \in M : [q EXCEPT ![s] = Append(@, m)] \in [Sockets -> Seq(M)]
         /\ \A m \in M : [q EXCEPT ![s] = <<m>>] \in [Sockets -> Seq(M)]
         /\ [q EXCEPT ![s] = <<>>] \in [Sockets -> Seq(M)]
         /\ [t \in Sockets |-> <<>>] \in [Sockets -> Seq(M)]
         /\ q[s] # <<>> => /\ Head(q[s]) \in M
                           /\ [q EXCEPT ![s] = Tail(@)] \in [Sockets -> Seq(M)]
  OBVIOUS

\* An agent_connect message names an agent.
LEMMA ConnectNamesAgent ==
  ASSUME NEW m \in LinkUpMsg, m.type = "agent_connect" PROVE m.agentId \in Agents
<1>1. m # Heartbeat
  BY DEF Heartbeat
<1>2. QED
  BY <1>1 DEF LinkUpMsg

-----------------------------------------------------------------------------
(* Every step of the link keeps the types, one lemma per action.           *)

LEMMA InitTypes ==
  ASSUME NEW U, NEW D, LinkInit PROVE LinkTypes(U, D)
  BY LinkAssumption DEF LinkInit, LinkTypes

LEMMA SendUpTypes ==
  ASSUME NEW U, NEW m \in U, NEW s \in Sockets, up \in [Sockets -> Seq(U)], SendUp(s, m)
  PROVE  up' \in [Sockets -> Seq(U)]
  BY QueueLemma DEF SendUp

LEMMA SendDownTypes ==
  ASSUME NEW D, NEW m \in D, NEW s \in Sockets, down \in [Sockets -> Seq(D)], SendDown(s, m)
  PROVE  down' \in [Sockets -> Seq(D)]
  BY QueueLemma DEF SendDown

LEMMA DialTypes ==
  ASSUME NEW U, NEW D, LinkUpMsg \subseteq U, LinkTypes(U, D),
         NEW a \in Agents, NEW s \in Sockets, Dial(a, s)
  PROVE  LinkTypes(U, D)'
<1>1. AgentConnect(a) \in U
  BY DEF AgentConnect, LinkUpMsg
<1>2. QED
  BY <1>1, QueueLemma DEF Dial, LinkTypes

LEMMA HandleAgentConnectTypes ==
  ASSUME NEW U, NEW D, LinkTypes(U, D), NEW s \in Sockets, HandleAgentConnect(s),
         Head(up[s]).agentId \in Agents
  PROVE  LinkTypes(U, D)'
  BY QueueLemma DEF HandleAgentConnect, Register, Consume, Arrives, LinkTypes

LEMMA SendHeartbeatTypes ==
  ASSUME NEW U, NEW D, LinkUpMsg \subseteq U, LinkTypes(U, D), NEW a \in Agents, SendHeartbeat(a)
  PROVE  LinkTypes(U, D)'
<1>1. conn[a] \in Sockets /\ Heartbeat \in U
  BY DEF SendHeartbeat, LinkTypes, LinkUpMsg
<1>2. up' \in [Sockets -> Seq(U)]
  BY <1>1, SendUpTypes DEF SendHeartbeat, LinkTypes
<1>3. QED
  BY <1>2 DEF SendHeartbeat, LinkTypes, serverVars, clientVars

LEMMA HandleHeartbeatTypes ==
  ASSUME NEW U, NEW D, LinkTypes(U, D), NEW s \in Sockets, HandleHeartbeat(s)
  PROVE  LinkTypes(U, D)'
<1>1. socketToAgent[s] \in Agents
  BY DEF HandleHeartbeat, FromAgent, LinkTypes
<1>2. agentStatus' = [agentStatus EXCEPT ![socketToAgent[s]] = "online"]
  BY DEF HandleHeartbeat
<1>3. up' \in [Sockets -> Seq(U)]
  BY QueueLemma DEF HandleHeartbeat, FromAgent, Arrives, Consume, LinkTypes
<1>4. QED
  BY <1>1, <1>2, <1>3 DEF HandleHeartbeat, LinkTypes, clientVars

LEMMA ServerCloseTypes ==
  ASSUME NEW U, NEW D, LinkTypes(U, D), NEW s \in Sockets, ServerClose(s)
  PROVE  LinkTypes(U, D)'
<1>1. up' \in [Sockets -> Seq(U)]
  BY QueueLemma DEF ServerClose, LinkTypes
<1>2. CASE socketToAgent[s] = NoAgent
  BY <1>1, <1>2 DEF ServerClose, LinkTypes, clientVars
<1>3. CASE socketToAgent[s] # NoAgent
  <2>1. socketToAgent[s] \in Agents /\ Deregister(socketToAgent[s], s)
    BY <1>3 DEF ServerClose, LinkTypes
  <2>2. QED
    BY <1>1, <2>1 DEF ServerClose, Deregister, LinkTypes, clientVars
<1>4. QED
  BY <1>2, <1>3

LEMMA AgentGoneTypes ==
  ASSUME NEW U, NEW D, LinkTypes(U, D), NEW a \in Agents, AgentReadError(a) \/ AgentExit(a)
  PROVE  LinkTypes(U, D)'
<1>1. conn[a] \in Sockets
  BY DEF AgentReadError, AgentExit, LinkTypes
<1>2. down' \in [Sockets -> Seq(D)]
  <2>1. down \in [Sockets -> Seq(D)] /\ down' = [down EXCEPT ![conn[a]] = <<>>]
    BY DEF AgentReadError, AgentExit, LinkTypes
  <2>2. QED
    BY <1>1, <2>1
<1>3. /\ conn' \in [Agents -> Sockets \cup {NoSocket}]
      /\ clientOpen' \subseteq Sockets
      /\ faults' \in Nat
  <2>1. CASE AgentReadError(a)
    BY <2>1 DEF AgentReadError, LinkTypes
  <2>2. CASE AgentExit(a)
    BY <2>2 DEF AgentExit, LinkTypes
  <2>3. QED
    BY <2>1, <2>2
<1>4. UNCHANGED <<serverVars, wire, up>>
  BY DEF AgentReadError, AgentExit
<1>5. QED
  BY <1>2, <1>3, <1>4 DEF LinkTypes, serverVars

LEMMA LoseLinkTypes ==
  ASSUME NEW U, NEW D, LinkTypes(U, D), NEW s \in Sockets, LoseLink(s)
  PROVE  LinkTypes(U, D)'
  BY QueueLemma DEF LoseLink, LinkTypes, serverVars, clientVars

LEMMA ServerDiesTypes ==
  ASSUME NEW U, NEW D, LinkTypes(U, D), ServerDies, faults' \in Nat
  PROVE  LinkTypes(U, D)'
  BY DEF ServerDies, LinkTypes, clientVars

LEMMA ServerRestartTypes ==
  ASSUME NEW U, NEW D, LinkTypes(U, D), ServerRestart
  PROVE  LinkTypes(U, D)'
<1>1. ServerDies
  BY DEF ServerRestart
<1>2. faults' \in Nat
  BY DEF ServerRestart, LinkTypes
<1>3. QED
  BY <1>1, <1>2, ServerDiesTypes

-----------------------------------------------------------------------------
\* The invariant that is inductive: each conjunct is a property of its own,
\* and a late close keeps the last one only because of the other two.
LinkInv == LinkTypeOK /\ RegistryConsistent /\ ReachableNotOffline

LEMMA InitLinkInv == ASSUME LinkInit PROVE LinkInv
<1>1. LinkTypeOK
  BY InitTypes DEF LinkTypeOK
<1>2. RegistryConsistent
  BY DEF LinkInit, RegistryConsistent
<1>3. ReachableNotOffline
  BY DEF LinkInit, ReachableNotOffline
<1>4. QED
  BY <1>1, <1>2, <1>3 DEF LinkInv

LEMMA StepLinkInv == ASSUME LinkInv, [LinkNext]_linkVars PROVE LinkInv'
<1>a. /\ LinkTypes(LinkUpMsg, {})
      /\ RegistryConsistent
      /\ ReachableNotOffline
  BY DEF LinkInv, LinkTypeOK
<1>b. ASSUME LinkTypes(LinkUpMsg, {})', RegistryConsistent', ReachableNotOffline' PROVE LinkInv'
  BY <1>b DEF LinkInv, LinkTypeOK
<1>1. ASSUME NEW a \in Agents, NEW s \in Sockets, Dial(a, s) PROVE LinkInv'
  <2>1. RegistryConsistent'
    BY <1>a, <1>1 DEF Dial, RegistryConsistent, LinkTypes
  <2>2. ReachableNotOffline'
    BY <1>a, <1>1 DEF Dial, ReachableNotOffline
  <2>3. QED
    BY <1>a, <1>1, <1>b, <2>1, <2>2, DialTypes
<1>2. ASSUME NEW s \in Sockets, HandleAgentConnect(s) PROVE LinkInv'
  <2> DEFINE a == Head(up[s]).agentId
  <2>1. a \in Agents
    <3>1. Head(up[s]) \in LinkUpMsg /\ Head(up[s]).type = "agent_connect"
      BY <1>a, <1>2, QueueLemma DEF HandleAgentConnect, Arrives, LinkTypes
    <3>2. QED
      BY <3>1, ConnectNamesAgent
  <2>2. RegistryConsistent'
    BY <1>a, <1>2, <2>1, LinkAssumption
    DEF HandleAgentConnect, Register, Arrives, RegistryConsistent, LinkTypes
  <2>3. ReachableNotOffline'
    BY <1>a, <1>2, <2>1 DEF HandleAgentConnect, Register, ReachableNotOffline, LinkTypes
  <2>4. QED
    BY <1>a, <1>2, <1>b, <2>1, <2>2, <2>3, HandleAgentConnectTypes
<1>3. ASSUME NEW a \in Agents, SendHeartbeat(a) PROVE LinkInv'
  <2>1. RegistryConsistent' /\ ReachableNotOffline'
    BY <1>a, <1>3 DEF SendHeartbeat, RegistryConsistent, ReachableNotOffline, serverVars
  <2>2. QED
    BY <1>a, <1>3, <1>b, <2>1, SendHeartbeatTypes
<1>4. ASSUME NEW s \in Sockets, HandleHeartbeat(s) PROVE LinkInv'
  <2>1. RegistryConsistent'
    BY <1>a, <1>4 DEF HandleHeartbeat, RegistryConsistent
  <2>2. ReachableNotOffline'
    BY <1>a, <1>4 DEF HandleHeartbeat, ReachableNotOffline, LinkTypes
  <2>3. QED
    BY <1>a, <1>4, <1>b, <2>1, <2>2, HandleHeartbeatTypes
<1>5. ASSUME NEW s \in Sockets, ServerClose(s) PROVE LinkInv'
  <2>1. RegistryConsistent' /\ ReachableNotOffline'
    <3>1. CASE socketToAgent[s] = NoAgent
      BY <1>a, <1>5, <3>1, LinkAssumption
      DEF ServerClose, RegistryConsistent, ReachableNotOffline, LinkTypes
    <3>2. CASE socketToAgent[s] # NoAgent
      <4>1. /\ agentConnections' = [agentConnections EXCEPT ![socketToAgent[s]] = NoSocket]
            /\ socketToAgent' = [socketToAgent EXCEPT ![s] = NoAgent]
            /\ agentStatus' = [agentStatus EXCEPT ![socketToAgent[s]] = "offline"]
            /\ serverOpen' = serverOpen \ {s}
        BY <1>5, <3>2 DEF ServerClose, Deregister
      <4>2. RegistryConsistent'
        BY <1>a, <3>2, <4>1, LinkAssumption DEF RegistryConsistent, LinkTypes
      <4>3. ReachableNotOffline'
        BY <1>a, <3>2, <4>1 DEF ReachableNotOffline, LinkTypes
      <4>4. QED
        BY <4>2, <4>3
    <3>3. QED
      BY <3>1, <3>2
  <2>2. QED
    BY <1>a, <1>5, <1>b, <2>1, ServerCloseTypes
<1>6. ASSUME NEW a \in Agents, AgentReadError(a) \/ AgentExit(a) PROVE LinkInv'
  <2>1. RegistryConsistent' /\ ReachableNotOffline'
    BY <1>a, <1>6
    DEF AgentReadError, AgentExit, RegistryConsistent, ReachableNotOffline, serverVars
  <2>2. QED
    BY <1>a, <1>6, <1>b, <2>1, AgentGoneTypes
<1>7. ASSUME NEW s \in Sockets, LoseLink(s) PROVE LinkInv'
  <2>1. RegistryConsistent' /\ ReachableNotOffline'
    BY <1>a, <1>7 DEF LoseLink, RegistryConsistent, ReachableNotOffline, serverVars
  <2>2. QED
    BY <1>a, <1>7, <1>b, <2>1, LoseLinkTypes
<1>8. ASSUME ServerRestart PROVE LinkInv'
  <2>1. RegistryConsistent' /\ ReachableNotOffline'
    BY <1>a, <1>8 DEF ServerRestart, ServerDies, RegistryConsistent, ReachableNotOffline
  <2>2. QED
    BY <1>a, <1>8, <1>b, <2>1, ServerRestartTypes
<1>9. ASSUME UNCHANGED linkVars PROVE LinkInv'
  BY <1>a, <1>b, <1>9
  DEF linkVars, serverVars, clientVars, netVars, LinkTypes, RegistryConsistent, ReachableNotOffline
<1>10. QED
  BY <1>1, <1>2, <1>3, <1>4, <1>5, <1>6, <1>7, <1>8, <1>9 DEF LinkNext

LEMMA LinkInvariant == LinkSpec => []LinkInv
  BY InitLinkInv, StepLinkInv, PTL DEF LinkSpec

\* The link's variables keep their types (index.ts:37-40, main.go:140-206).
THEOREM LinkTypeCorrect == LinkSpec => []LinkTypeOK
  BY LinkInvariant, PTL DEF LinkInv

\* agentConnections and socketToAgent describe one relation over connections
\* that are open, over any order of connects, closes, losses and restarts.
THEOREM RegistryIsConsistent == LinkSpec => []RegistryConsistent
  BY LinkInvariant, PTL DEF LinkInv

\* An agent the server can send to is never shown as offline
\* (index.ts:103-110, 162 and 525-531).
THEOREM ReachableIsNotOffline == LinkSpec => []ReachableNotOffline
  BY LinkInvariant, PTL DEF LinkInv
=============================================================================
