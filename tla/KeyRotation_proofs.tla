------------------------ MODULE KeyRotation_proofs ------------------------
(* Proofs about KeyRotation, for every number of destinations, rotations,  *)
(* edits, connections and failures.                                        *)
EXTENDS KeyRotation, AgentLink_proofs, SequenceTheorems

\* Passwords and path versions are numbered without gaps.
LEMMA NumberFacts ==
  /\ 0 \in Passwords /\ 1 \in Dests
  /\ \A n \in Passwords, e \in Nat : n + e < MaxRequests => n + 1 \in Passwords
  /\ \A n \in Nat, e \in 0..MaxRequests : n + e < MaxRequests => e + 1 \in 0..MaxRequests
  BY RotationAssumption DEF Passwords, Dests

\* The messages of the rotation and of the link are told apart by their type.
LEMMA MessageFacts ==
  /\ LinkUpMsg \subseteq UpMsg
  /\ \A status \in {"success", "failed"} :
       [type |-> "rotate_key_result", status |-> status] \in UpMsg
  /\ \A m \in UpMsg : m.type = "agent_connect" => m.agentId \in Agents
  /\ \A m \in UpMsg : m.type = "rotate_key_result" => m.status \in {"success", "failed"}
  BY DEF UpMsg, LinkUpMsg, Heartbeat

\* A list of destinations is a sequence that names none twice.
LEMMA ListFacts ==
  ASSUME NEW l \in Lists
  PROVE  l \in Seq(Dests) /\ \A i, j \in 1..Len(l) : l[i] = l[j] => i = j
<1>1. PICK n \in 0..NumDests : l \in [1..n -> Dests] /\ IsInjective(l)
  BY DEF Lists, Injection
<1>2. l \in Seq(Dests) /\ Len(l) = n
  BY <1>1, RotationAssumption
<1>3. QED
  BY <1>1, <1>2 DEF IsInjective

\* Where a destination's repository lies.
LEMMA PlaceFacts ==
  ASSUME path \in [Dests -> 0..MaxRequests], suffix \in 0..MaxRequests, NEW d \in Dests
  PROVE  At(d) \in Locations /\ At(d).dest = d
  BY DEF At, Locations

\* Replacing a goroutine by its next state keeps the type of the set.
LEMMA BecomeTypes ==
  ASSUME NEW r, NEW rs, rots \subseteq Rotation, rs \subseteq Rotation, Become(r, rs)
  PROVE  rots' \subseteq Rotation
  BY DEF Become

LEMMA AnswerTypes ==
  ASSUME TypeOK, NEW r \in rots, NEW status \in {"success", "failed"}, Answer(r, status)
  PROVE  up' \in [Sockets -> Seq(UpMsg)]
<1>1. r.conn \in Sockets /\ up \in [Sockets -> Seq(UpMsg)]
  BY DEF TypeOK, LinkTypes, Rotation
<1>2. [type |-> "rotate_key_result", status |-> status] \in UpMsg
  BY MessageFacts
<1>3. QED
  BY <1>1, <1>2, SendUpTypes DEF Answer

-----------------------------------------------------------------------------
\* Inductive: a goroutine that removes keys spares the one it holds, and one
\* that has added a key is at a repository of its list.
Spares(r) == /\ r.phase = "remove" => r.new \notin r.todo
             /\ r.phase # "add" => r.dest \in 1..Len(r.list)
NewSpared == \A r \in rots : Spares(r)
KeyInv    == TypeOK /\ NewSpared

LEMMA HereType ==
  ASSUME NEW r \in Rotation, r.dest \in 1..Len(r.list) PROVE Here(r) \in Locations
  BY DEF Rotation, Here

LEMMA InitPlaces == ASSUME Init PROVE destinationIds \in Lists /\ Configured \subseteq Locations
<1>1. PICK n \in Dests : destinationIds = [i \in 1..n |-> i]
  BY DEF Init
<1>2. n \in 0..NumDests /\ destinationIds \in [1..n -> Dests] /\ IsInjective(destinationIds)
  BY <1>1, RotationAssumption DEF Dests, IsInjective
<1>3. destinationIds \in Lists
  BY <1>2 DEF Lists, Injection
<1>4. path \in [Dests -> 0..MaxRequests] /\ suffix \in 0..MaxRequests
  BY RotationAssumption DEF Init
<1>5. \A d \in Range(destinationIds) : d \in Dests
  BY <1>2 DEF Range
<1>6. QED
  BY <1>3, <1>4, <1>5, PlaceFacts DEF Configured

LEMMA InitKeyInv == ASSUME Init PROVE KeyInv
<1>1. LinkTypes(UpMsg, DownMsg)
  BY InitTypes DEF Init
<1>2. /\ path \in [Dests -> 0..MaxRequests] /\ suffix \in 0..MaxRequests /\ edits \in 0..MaxRequests
      /\ keys \in [Locations -> SUBSET Passwords]
  BY RotationAssumption, NumberFacts DEF Init
<1>3. offered \subseteq Locations \X Passwords
  BY InitPlaces, NumberFacts DEF Init
<1>4. asked \in Seq(Locations)
  BY DEF Init
<1>5. QED
  BY <1>1, <1>2, <1>3, <1>4, NumberFacts, InitPlaces DEF Init, KeyInv, TypeOK, NewSpared

\* What the link does keeps the link's types, whatever messages it carries.
LEMMA LinkMoveTypes ==
  ASSUME NEW U, NEW D, LinkTypes(U, D), LinkUpMsg \subseteq U,
         \A m \in U : m.type = "agent_connect" => m.agentId \in Agents,
         \/ LinkStep
         \/ ExitAgent
         \/ \E s \in Sockets : Connect(s)
  PROVE  LinkTypes(U, D)'
<1>1. JobAgent \in Agents
  BY RotationAssumption
<1>2. CASE LinkStep
  <2>1. CASE AgentReadError(JobAgent)
    BY <1>1, <2>1, AgentGoneTypes
  <2>2. ASSUME NEW s \in Sockets, HandleAgentConnect(s) PROVE LinkTypes(U, D)'
    <3>1. Head(up[s]) \in U /\ Head(up[s]).type = "agent_connect"
      BY <2>2, QueueLemma DEF HandleAgentConnect, Arrives, LinkTypes
    <3>2. QED
      BY <2>2, <3>1, HandleAgentConnectTypes
  <2>3. ASSUME NEW s \in Sockets, ServerClose(s) PROVE LinkTypes(U, D)'
    BY <2>3, ServerCloseTypes
  <2>4. ASSUME NEW s \in Sockets, LoseLink(s) PROVE LinkTypes(U, D)'
    BY <2>4, LoseLinkTypes
  <2>5. CASE ServerRestart
    BY <2>5, ServerRestartTypes
  <2>6. QED
    BY <1>2, <2>1, <2>2, <2>3, <2>4, <2>5 DEF LinkStep
<1>3. CASE ExitAgent
  BY <1>1, <1>3, AgentGoneTypes DEF ExitAgent
<1>4. ASSUME NEW s \in Sockets, Connect(s) PROVE LinkTypes(U, D)'
  BY <1>1, <1>4, DialTypes DEF Connect
<1>5. QED
  BY <1>2, <1>3, <1>4

-----------------------------------------------------------------------------
(* The steps of the protocol keep the invariant.                           *)

\* The variables that only the steps of the administrator change.
PlaceTypes ==
  /\ destinationIds \in Lists
  /\ gone \subseteq Dests
  /\ path \in [Dests -> 0..MaxRequests]
  /\ suffix \in 0..MaxRequests
  /\ edits \in 0..MaxRequests

LEMMA RangeFacts == ASSUME NEW l \in Lists, NEW d \in Range(l) PROVE d \in Dests
  BY ListFacts DEF Range

LEMMA OfferTypes ==
  ASSUME TypeOK, PlaceTypes', current' \in Passwords, Offer
  PROVE  offered' \subseteq Locations \X Passwords
<1>1. ASSUME NEW d \in Range(destinationIds') \ gone' PROVE At(d)' \in Locations
  <2>1. d \in Dests
    BY RangeFacts DEF PlaceTypes
  <2>2. QED
    BY <2>1 DEF PlaceTypes, At, Locations
<1>2. Configured' \subseteq Locations
  BY <1>1 DEF Configured
<1>3. QED
  BY <1>2 DEF Offer, TypeOK

LEMMA RotateKeyKeeps == ASSUME KeyInv, RotateKey PROVE KeyInv'
<1> DEFINE s == agentConnections[JobAgent]
           m == [type |-> "rotate_key", old |-> current, new |-> drawn + 1, list |-> asked']
<1>1. asked' \in Seq(Locations)
  <2>1. PICK l \in Lists : asked' = [i \in DOMAIN l |-> At(l[i])]
    BY DEF RotateKey
  <2>2. l \in Seq(Dests)
    BY ListFacts
  <2>3. \A i \in 1..Len(l) : At(l[i]) \in Locations
    BY <2>2, PlaceFacts DEF KeyInv, TypeOK
  <2>4. QED
    BY <2>1, <2>2, <2>3
<1>2. s \in Sockets \cup {NoSocket} /\ drawn + 1 \in Passwords /\ m \in DownMsg
  <2>1. drawn + 1 \in Passwords
    BY NumberFacts DEF KeyInv, TypeOK, RotateKey
  <2>2. QED
    BY <1>1, <2>1, RotationAssumption DEF KeyInv, TypeOK, LinkTypes, DownMsg
<1>3. pending' \in Passwords \cup {NoPw} /\ drawn' \in Passwords
  BY <1>2 DEF RotateKey
<1>4. down' \in [Sockets -> Seq(DownMsg)]
  <2>1. CASE UNCHANGED down
    BY <2>1 DEF KeyInv, TypeOK, LinkTypes
  <2>2. CASE s # NoSocket /\ SendDown(s, m)
    BY <1>2, <2>2, SendDownTypes DEF KeyInv, TypeOK, LinkTypes
  <2>3. QED
    BY <2>1, <2>2 DEF RotateKey
<1>5. UNCHANGED <<serverVars, clientVars, wire, up, faults, current, placeVars, keys, rots, offered>>
  BY DEF RotateKey
<1>6. QED
  BY <1>1, <1>3, <1>4, <1>5
  DEF KeyInv, TypeOK, NewSpared, Spares, LinkTypes, serverVars, clientVars, placeVars

\* The steps of the administrator that change where repositories are.
Edits == \/ EditDestinations
         \/ ResetRepo
         \/ \E d \in Dests : DeleteDestination(d) \/ MoveDestination(d)

LEMMA EditsAre == ASSUME Edits PROVE Edit
  BY DEF Edits, EditDestinations, ResetRepo, DeleteDestination, MoveDestination

LEMMA EditsKeep == ASSUME KeyInv, Edits PROVE KeyInv'
<1>1. Edit
  BY EditsAre
<1>2. PlaceTypes /\ drawn \in Nat
  BY DEF KeyInv, TypeOK, PlaceTypes, Passwords
<1>3. edits + 1 \in 0..MaxRequests /\ edits' = edits + 1
  BY <1>1, <1>2, NumberFacts DEF Edit, PlaceTypes
<1>4. PlaceTypes'
  BY <1>2, <1>3
  DEF PlaceTypes, Edits, EditDestinations, ResetRepo, DeleteDestination, MoveDestination
<1>5. offered' \subseteq Locations \X Passwords
  BY <1>1, <1>4, OfferTypes DEF Edit, dbVars, KeyInv, TypeOK
<1>6. QED
  BY <1>1, <1>4, <1>5
  DEF Edit, PlaceTypes, KeyInv, TypeOK, NewSpared, Spares, LinkTypes, linkVars, serverVars,
      clientVars, netVars, dbVars

LEMMA ReceiveRotateKeyKeeps == ASSUME KeyInv, ReceiveRotateKey PROVE KeyInv'
<1> DEFINE s == conn[JobAgent]
           m == Head(down[s])
           r == [old |-> m.old, new |-> m.new, list |-> m.list, conn |-> s, dest |-> 1,
                 phase |-> "add", todo |-> {}]
<1>1. s \in Sockets /\ m \in DownMsg /\ down' \in [Sockets -> Seq(DownMsg)]
  <2>1. s \in Sockets
    BY RotationAssumption DEF ReceiveRotateKey, Reads, KeyInv, TypeOK, LinkTypes
  <2>2. down[s] # <<>> /\ down \in [Sockets -> Seq(DownMsg)] /\ down' = [down EXCEPT ![s] = Tail(@)]
    BY DEF ReceiveRotateKey, Reads, KeyInv, TypeOK, LinkTypes
  <2>3. QED
    BY <2>1, <2>2, QueueLemma
<1>2. r \in Rotation /\ r.phase = "add"
  BY <1>1 DEF DownMsg, Rotation
<1>3. rots' = rots \cup {r}
  BY DEF ReceiveRotateKey
<1> HIDE DEF r
<1>4. rots' \subseteq Rotation /\ NewSpared'
  BY <1>2, <1>3 DEF KeyInv, TypeOK, NewSpared, Spares
<1>5. UNCHANGED <<serverVars, clientVars, wire, up, faults, dbVars, placeVars, keys, asked, offered>>
  BY DEF ReceiveRotateKey
<1>6. QED
  BY <1>1, <1>4, <1>5 DEF KeyInv, TypeOK, LinkTypes, serverVars, clientVars, dbVars, placeVars

LEMMA FirstBackupKeeps ==
  ASSUME KeyInv, NEW o \in offered, FirstBackup(o[1], o[2]) PROVE KeyInv'
<1>1. o[1] \in Locations /\ o[2] \in Passwords
  BY DEF KeyInv, TypeOK
<1>2. keys' \in [Locations -> SUBSET Passwords]
  BY <1>1 DEF KeyInv, TypeOK, FirstBackup
<1>3. QED
  BY <1>2 DEF FirstBackup, KeyInv, TypeOK, NewSpared, Spares, LinkTypes, linkVars, serverVars,
              clientVars, netVars, dbVars, placeVars

\* Steps that change only a repository and its goroutine.
LEMMA ResticStepKeeps ==
  ASSUME KeyInv, OnlyRepository,
         keys' \in [Locations -> SUBSET Passwords], rots' \subseteq Rotation, NewSpared'
  PROVE  KeyInv'
  BY DEF OnlyRepository, KeyInv, TypeOK, LinkTypes, linkVars, serverVars, clientVars, netVars,
         dbVars, placeVars

\* Steps that end the work on a destination or the whole goroutine.
LEMMA ReportStepKeeps ==
  ASSUME KeyInv, OnlyGoroutine,
         up' \in [Sockets -> Seq(UpMsg)], rots' \subseteq Rotation, NewSpared'
  PROVE  KeyInv'
  BY DEF OnlyGoroutine, KeyInv, TypeOK, LinkTypes, serverVars, clientVars, dbVars, placeVars

LEMMA GoroutineKeeps ==
  ASSUME KeyInv, NEW r \in rots, Goroutine(r) PROVE KeyInv'
<1>1. /\ r \in Rotation /\ TypeOK /\ NewSpared /\ Spares(r)
      /\ keys \in [Locations -> SUBSET Passwords] /\ up \in [Sockets -> Seq(UpMsg)]
  BY DEF KeyInv, TypeOK, LinkTypes, NewSpared
<1>2. CASE KeyAdd(r)
  <2> DEFINE n == [r EXCEPT !.phase = "list"]
  <2>1. n \in Rotation /\ Spares(n) /\ Here(r) \in Locations
    <3>1. r.dest \in 1..Len(r.list)
      BY <1>1, <1>2 DEF KeyAdd, Rotation
    <3>2. QED
      BY <1>1, <3>1, HereType DEF Rotation, Spares
  <2>2. rots' = (rots \ {r}) \cup {n}
    BY <1>2 DEF KeyAdd, Become
  <2>3. keys' \in [Locations -> SUBSET Passwords]
    BY <1>1, <1>2 DEF KeyAdd, Rotation
  <2> HIDE DEF n
  <2>4. rots' \subseteq Rotation /\ NewSpared'
    BY <1>1, <2>1, <2>2 DEF NewSpared, Spares, TypeOK
  <2>5. QED
    BY <1>2, <2>3, <2>4, ResticStepKeeps DEF KeyAdd
<1>3. CASE KeyAddFails(r) \/ RotationDone(r)
  <2>1. PICK status \in {"success", "failed"} : Answer(r, status)
    BY <1>3 DEF KeyAddFails, RotationDone
  <2>2. up' \in [Sockets -> Seq(UpMsg)]
    BY <1>1, <2>1, AnswerTypes
  <2>3. rots' = rots \ {r} /\ OnlyGoroutine
    BY <1>3 DEF KeyAddFails, RotationDone, Become
  <2>4. rots' \subseteq Rotation /\ NewSpared'
    BY <1>1, <2>3 DEF NewSpared, Spares, TypeOK
  <2>5. QED
    BY <2>2, <2>3, <2>4, ReportStepKeeps
<1>4. CASE KeyList(r)
  <2> DEFINE n == [r EXCEPT !.phase = "remove", !.todo = keys[Here(r)] \ {r.new}]
  <2>1. n \in Rotation /\ Spares(n)
    <3>1. r.dest \in 1..Len(r.list)
      BY <1>1, <1>4 DEF KeyList, Spares
    <3>2. QED
      BY <1>1, <3>1, HereType DEF Rotation, Spares
  <2>2. rots' = (rots \ {r}) \cup {n}
    BY <1>4 DEF KeyList, Become
  <2> HIDE DEF n
  <2>3. rots' \subseteq Rotation /\ NewSpared'
    BY <1>1, <2>1, <2>2 DEF NewSpared, Spares, TypeOK
  <2>4. QED
    BY <1>1, <1>4, <2>3, ResticStepKeeps DEF KeyList
<1>5. CASE KeyListFails(r) \/ RemovesDone(r)
  <2> DEFINE n == [r EXCEPT !.dest = @ + 1, !.phase = "add", !.todo = {}]
  <2>1. n \in Rotation /\ Spares(n)
    <3>1. r.dest + 1 \in Nat \ {0}
      BY <1>1 DEF Rotation
    <3>2. n \in Rotation
      BY <1>1, <3>1 DEF Rotation
    <3>3. n.phase = "add"
      BY <1>1 DEF Rotation
    <3>4. QED
      BY <3>2, <3>3 DEF Spares
  <2>2. rots' = (rots \ {r}) \cup {n} /\ up' = up /\ OnlyGoroutine
    BY <1>5 DEF KeyListFails, RemovesDone, NextDest, Become
  <2> HIDE DEF n
  <2>3. rots' \subseteq Rotation /\ NewSpared'
    BY <1>1, <2>1, <2>2 DEF NewSpared, Spares, TypeOK
  <2>4. QED
    BY <1>1, <2>2, <2>3, ReportStepKeeps
<1>6. CASE KeyRemove(r)
  <2>1. PICK k \in r.todo :
          /\ \/ r.new \in keys[Here(r)] /\ keys' = [keys EXCEPT ![Here(r)] = @ \ {k}]
             \/ UNCHANGED keys
          /\ Become(r, {[r EXCEPT !.todo = @ \ {k}]})
    BY <1>6 DEF KeyRemove
  <2> DEFINE n == [r EXCEPT !.todo = @ \ {k}]
  <2>2. n \in Rotation /\ Spares(n) /\ Here(r) \in Locations
    <3>1. r.new \notin r.todo /\ r.dest \in 1..Len(r.list)
      BY <1>1, <1>6 DEF Spares, KeyRemove
    <3>2. QED
      BY <1>1, <3>1, HereType DEF Rotation, Spares
  <2>3. rots' = (rots \ {r}) \cup {n}
    BY <2>1 DEF Become
  <2>4. keys' \in [Locations -> SUBSET Passwords]
    BY <1>1, <2>1, <2>2
  <2> HIDE DEF n
  <2>5. rots' \subseteq Rotation /\ NewSpared'
    BY <1>1, <2>2, <2>3 DEF NewSpared, Spares, TypeOK
  <2>6. QED
    BY <1>6, <2>4, <2>5, ResticStepKeeps DEF KeyRemove
<1>7. QED
  BY <1>2, <1>3, <1>4, <1>5, <1>6 DEF Goroutine

LEMMA HandleRotateResultKeeps ==
  ASSUME KeyInv, NEW s \in Sockets, HandleRotateResult(s) PROVE KeyInv'
<1>1. up' \in [Sockets -> Seq(UpMsg)]
  BY QueueLemma DEF HandleRotateResult, FromAgent, Arrives, Consume, KeyInv, TypeOK, LinkTypes
<1>2. current' \in Passwords /\ pending' \in Passwords \cup {NoPw}
  BY DEF HandleRotateResult, Settle, KeyInv, TypeOK
<1>3. /\ UNCHANGED <<serverVars, clientVars, wire, down, faults, drawn, placeVars, keys, rots, asked>>
      /\ Offer
  BY DEF HandleRotateResult
<1>4. PlaceTypes'
  BY <1>3 DEF KeyInv, TypeOK, PlaceTypes, placeVars
<1>5. offered' \subseteq Locations \X Passwords
  BY <1>2, <1>3, <1>4, OfferTypes DEF KeyInv
<1>6. QED
  BY <1>1, <1>2, <1>3, <1>5
  DEF KeyInv, TypeOK, NewSpared, Spares, LinkTypes, serverVars, clientVars, placeVars

LEMMA StepKeyInv == ASSUME KeyInv, [Next]_vars PROVE KeyInv'
<1>1. CASE LinkStep \/ ExitAgent \/ \E s \in Sockets : Connect(s)
  <2>1. LinkTypes(UpMsg, DownMsg)'
    BY <1>1, LinkMoveTypes, MessageFacts DEF KeyInv, TypeOK
  <2>2. UNCHANGED <<dbVars, placeVars, keys, asked, offered>> /\ rots' \subseteq rots
    BY <1>1 DEF LinkStep, ExitAgent, Connect, keyVars
  <2>3. QED
    BY <2>1, <2>2 DEF KeyInv, TypeOK, NewSpared, Spares, dbVars, placeVars
<1>2. CASE UNCHANGED vars
  BY <1>2 DEF vars, keyVars, dbVars, placeVars, linkVars, serverVars, clientVars, netVars, KeyInv,
              TypeOK, NewSpared, Spares, LinkTypes
<1>3. QED
  BY <1>1, <1>2, RotateKeyKeeps, EditsKeep, ReceiveRotateKeyKeeps, FirstBackupKeeps, GoroutineKeeps,
     HandleRotateResultKeeps DEF Next, Edits

LEMMA KeyInvariant == Spec => []KeyInv
  BY InitKeyInv, StepKeyInv, PTL DEF Spec

\* Passwords, goroutines and messages keep their types (jobs.ts:332-381,
\* main.go:369-398).
THEOREM RotationTypeCorrect == Spec => []TypeOK
  BY KeyInvariant, PTL DEF KeyInv

-----------------------------------------------------------------------------
\* One step of the rotation removes no repository's last key.
LEMMA StepKeepsAKey ==
  ASSUME KeyInv, [Next]_vars, NEW d \in Locations, keys[d] # {} PROVE keys'[d] # {}
<1>1. keys \in [Locations -> SUBSET Passwords]
  BY DEF KeyInv, TypeOK
<1>2. CASE UNCHANGED keys
  BY <1>2
<1>3. ASSUME NEW o \in offered, FirstBackup(o[1], o[2]) PROVE keys'[d] # {}
  BY <1>1, <1>3 DEF FirstBackup
<1>4. ASSUME NEW r \in rots, KeyAdd(r) PROVE keys'[d] # {}
  BY <1>1, <1>4 DEF KeyAdd
<1>5. ASSUME NEW r \in rots, KeyRemove(r) PROVE keys'[d] # {}
  <2>1. r.new \notin r.todo
    BY <1>5 DEF KeyInv, NewSpared, Spares, KeyRemove
  <2>2. PICK k \in r.todo :
          \/ r.new \in keys[Here(r)] /\ keys' = [keys EXCEPT ![Here(r)] = @ \ {k}]
          \/ UNCHANGED keys
    BY <1>5 DEF KeyRemove
  <2>3. CASE UNCHANGED keys
    BY <2>3
  <2>4. CASE r.new \in keys[Here(r)] /\ keys' = [keys EXCEPT ![Here(r)] = @ \ {k}]
    BY <1>1, <2>1, <2>2, <2>4
  <2>5. QED
    BY <2>2, <2>3, <2>4
<1>6. QED
  BY <1>2, <1>3, <1>4, <1>5
  DEF Next, RotateKey, EditDestinations, ResetRepo, DeleteDestination, MoveDestination, Edit,
      ReceiveRotateKey, Goroutine, KeyAddFails, KeyList, KeyListFails, RemovesDone, RotationDone,
      OnlyGoroutine, HandleRotateResult, Connect, ExitAgent, LinkStep, keyVars, vars

\* However rotations, failures of restic and restarts interleave, and over any
\* number of destinations, requests and edits, a repository that had a key keeps
\* one (restic.go:423-428).
THEOREM RepositoryKeepsAKey == Spec => RepoKeepsAKey
<1>1. KeyInv /\ [Next]_vars => [\A l \in Locations : keys[l] # {} => keys'[l] # {}]_vars
  BY StepKeepsAKey
<1>2. QED
  BY <1>1, KeyInvariant, PTL DEF Spec, RepoKeepsAKey

-----------------------------------------------------------------------------
(* Before the first request nothing knows another password than 0.          *)

NoResult  == {m \in UpMsg : m.type # "rotate_key_result"}
NoFailed  == {m \in UpMsg : m.type = "rotate_key_result" => m.status # "failed"}
NoSuccess == {m \in UpMsg : m.type = "rotate_key_result" => m.status # "success"}
UpIs(U)   == up \in [Sockets -> Seq(U)]

LEMMA ResultFacts ==
  /\ LinkUpMsg \subseteq NoResult
  /\ NoResult \subseteq NoSuccess /\ NoResult \subseteq NoFailed
  /\ [type |-> "rotate_key_result", status |-> "success"] \in NoFailed
  /\ [type |-> "rotate_key_result", status |-> "failed"] \in NoSuccess
  /\ \A m \in UpMsg \cup NoResult \cup NoFailed \cup NoSuccess :
       m.type = "agent_connect" => m.agentId \in Agents
  BY MessageFacts DEF NoResult, NoFailed, NoSuccess, LinkUpMsg, Heartbeat

\* A queue of fewer kinds of messages is a queue of more.
LEMMA UpWider ==
  ASSUME UpIs(NoResult) PROVE UpIs(NoSuccess) /\ UpIs(NoFailed)
  BY ResultFacts DEF UpIs

\* What is sent upward stays of its kind.
Kinds   == {UpMsg, NoResult, NoFailed, NoSuccess}
UpKeeps == \A U \in Kinds : UpIs(U) => up' \in [Sockets -> Seq(U)]

\* The link passes messages on, whatever they are, or loses them.
LEMMA LinkMoveQueues ==
  ASSUME KeyInv, LinkStep \/ ExitAgent \/ \E s \in Sockets : Connect(s)
  PROVE  /\ UpKeeps
         /\ \A s \in Sockets : down'[s] \in {down[s], <<>>}
         /\ UNCHANGED <<dbVars, placeVars, keys, asked, offered>> /\ rots' \subseteq rots
<1>1. UpKeeps
  <2>1. SUFFICES ASSUME NEW U \in Kinds, UpIs(U) PROVE up' \in [Sockets -> Seq(U)]
    BY DEF UpKeeps
  <2>2. LinkUpMsg \subseteq U /\ \A m \in U : m.type = "agent_connect" => m.agentId \in Agents
    BY ResultFacts, MessageFacts DEF Kinds
  <2>3. LinkTypes(U, DownMsg)
    BY <2>1 DEF UpIs, KeyInv, TypeOK, LinkTypes
  <2>4. QED
    BY <2>2, <2>3, LinkMoveTypes DEF LinkTypes
<1>2. \A s \in Sockets : down'[s] \in {down[s], <<>>}
  <2>1. down \in [Sockets -> Seq(DownMsg)]
    BY DEF KeyInv, TypeOK, LinkTypes
  <2>2. QED
    BY <2>1 DEF LinkStep, ExitAgent, Connect, AgentReadError, AgentExit, Dial, HandleAgentConnect,
                ServerClose, LoseLink, ServerRestart, ServerDies
<1>3. UNCHANGED <<dbVars, placeVars, keys, asked, offered>> /\ rots' \subseteq rots
  BY DEF LinkStep, ExitAgent, Connect, keyVars
<1>4. QED
  BY <1>1, <1>2, <1>3

\* Stuttering, and what a backup or an edit leaves alone.
LEMMA AsideQueues ==
  ASSUME UNCHANGED vars \/ Edits \/ \E o \in offered : FirstBackup(o[1], o[2])
  PROVE  UpKeeps /\ UNCHANGED <<up, down, rots, dbVars, asked>>
<1>1. Edits => Edit
  BY EditsAre
<1>2. UNCHANGED <<up, down, rots, dbVars, asked>>
  BY <1>1 DEF Edit, FirstBackup, vars, keyVars, linkVars, netVars
<1>3. QED
  BY <1>2 DEF UpKeeps, UpIs

NoRequest == \A s \in Sockets : down[s] = <<>>

ZeroInv ==
  /\ KeyInv
  /\ drawn = 0 /\ current = 0 /\ pending = NoPw
  /\ \A l \in Locations : keys[l] \subseteq {0}
  /\ \A o \in offered : o[2] = 0
  /\ rots = {} /\ NoRequest /\ UpIs(NoResult)

LEMMA InitZeroInv == ASSUME Init PROVE ZeroInv
<1>1. LinkTypes(NoResult, {})
  BY InitTypes DEF Init
<1>2. NoRequest /\ UpIs(NoResult)
  BY <1>1 DEF Init, LinkInit, LinkTypes, NoRequest, UpIs
<1>3. \A o \in offered : o[2] = 0
  BY DEF Init
<1>4. \A l \in Locations : keys[l] \subseteq {0}
  BY DEF Init
<1>5. QED
  BY <1>2, <1>3, <1>4, InitKeyInv DEF Init, ZeroInv

\* Only rotate_key_result changes a password, and only a request draws one.
LEMMA DrawnSteps ==
  ASSUME [Next]_vars, drawn \in Nat
  PROVE  \/ drawn' = drawn /\ asked' = asked
         \/ drawn' = drawn + 1 /\ RotateKey
<1>1. Edits => Edit
  BY EditsAre
<1>2. QED
  BY <1>1
  DEF Next, Edits, Edit, RotateKey, ReceiveRotateKey, FirstBackup, Goroutine, KeyAdd, KeyAddFails,
      KeyList, KeyListFails, KeyRemove, RemovesDone, RotationDone, OnlyRepository, OnlyGoroutine,
      HandleRotateResult, Connect, ExitAgent, LinkStep, keyVars, dbVars, vars

LEMMA StepZeroInv == ASSUME ZeroInv, [Next]_vars, ~RotateKey PROVE ZeroInv'
<1>1. KeyInv' /\ drawn' = 0
  BY StepKeyInv, DrawnSteps DEF ZeroInv
<1>2. CASE LinkStep \/ ExitAgent \/ \E s \in Sockets : Connect(s)
  <2>1. UpIs(NoResult)' /\ NoRequest' /\ rots' = {}
    BY <1>2, LinkMoveQueues DEF ZeroInv, UpKeeps, UpIs, Kinds, NoRequest
  <2>2. UNCHANGED <<dbVars, keys, offered>>
    BY <1>2, LinkMoveQueues DEF ZeroInv
  <2>3. QED
    BY <1>1, <2>1, <2>2 DEF ZeroInv, dbVars
<1>3. CASE UNCHANGED vars \/ Edits \/ \E o \in offered : FirstBackup(o[1], o[2])
  <2>1. UpIs(NoResult)' /\ NoRequest' /\ rots' = {} /\ UNCHANGED dbVars
    BY <1>3, AsideQueues DEF ZeroInv, UpKeeps, UpIs, Kinds, NoRequest
  <2>2. \A o \in offered' : o[2] = 0
    <3>1. Edits => offered' = offered \cup (Configured' \X {current'})
      BY EditsAre DEF Edit, Offer
    <3>2. current' = 0
      BY <2>1 DEF dbVars, ZeroInv
    <3>3. QED
      BY <1>3, <3>1, <3>2 DEF FirstBackup, vars, keyVars, ZeroInv
  <2>3. \A l \in Locations : keys'[l] \subseteq {0}
    <3>1. CASE \E o \in offered : FirstBackup(o[1], o[2])
      <4>1. PICK o \in offered : FirstBackup(o[1], o[2])
        BY <3>1
      <4>2. o[2] = 0 /\ keys \in [Locations -> SUBSET Passwords]
        BY DEF ZeroInv, KeyInv, TypeOK
      <4>3. QED
        BY <4>1, <4>2 DEF FirstBackup, ZeroInv
    <3>2. CASE UNCHANGED vars \/ Edits
      BY <3>2, EditsAre DEF Edit, vars, keyVars, ZeroInv
    <3>3. QED
      BY <1>3, <3>1, <3>2
  <2>4. QED
    BY <1>1, <2>1, <2>2, <2>3 DEF ZeroInv, dbVars
<1>4. ASSUME ReceiveRotateKey PROVE FALSE
  <2>1. conn[JobAgent] \in Sockets
    BY <1>4, RotationAssumption DEF ReceiveRotateKey, Reads, ZeroInv, KeyInv, TypeOK, LinkTypes
  <2>2. QED
    BY <1>4, <2>1 DEF ReceiveRotateKey, Reads, ZeroInv, NoRequest
<1>5. ASSUME NEW s \in Sockets, HandleRotateResult(s) PROVE FALSE
  <2>1. Head(up[s]) \in NoResult
    BY <1>5, QueueLemma DEF HandleRotateResult, FromAgent, Arrives, ZeroInv, UpIs
  <2>2. QED
    BY <1>5, <2>1 DEF HandleRotateResult, FromAgent, Arrives, NoResult
<1>6. QED
  BY <1>2, <1>3, <1>4, <1>5 DEF Next, Edits, ZeroInv

-----------------------------------------------------------------------------
(* As long as there has been a single request, which named the repositories *)
(* a, a password is committed only when each of them has it. The argument:  *)
(* the request carries password 1, which no goroutine removes; a goroutine  *)
(* has added it to the repositories before its current one; so they all     *)
(* have it when a goroutine reports success, and keep it.                   *)

AllHaveNew(a) == \A i \in 1..Len(a) : 1 \in keys[a[i]]

\* The requests that can be on their way.
Ours(a) == {m \in DownMsg : m.new = 1 /\ m.list = a}

\* How far a goroutine has come.
Progress(a, r) ==
  /\ r.new = 1 /\ r.list = a
  /\ \A i \in 1..Len(a) : i < r.dest => 1 \in keys[a[i]]
  /\ r.phase # "add" => 1 \in keys[a[r.dest]]

OneInv(a) ==
  /\ KeyInv
  /\ drawn = 1 /\ asked = a
  /\ pending \in {NoPw, 1}
  /\ down \in [Sockets -> Seq(Ours(a))]
  /\ \A r \in rots : Progress(a, r)
  /\ AllHaveNew(a) \/ UpIs(NoSuccess)

\* No repository loses password 1.
NoLoss == \A l \in Locations : 1 \in keys[l] => 1 \in keys'[l]

LEMMA StepNoLoss == ASSUME NEW a, OneInv(a), [Next]_vars PROVE NoLoss
<1>1. keys \in [Locations -> SUBSET Passwords]
  BY DEF OneInv, KeyInv, TypeOK
<1>2. CASE UNCHANGED keys
  BY <1>2 DEF NoLoss
<1>3. ASSUME NEW o \in offered, FirstBackup(o[1], o[2]) PROVE NoLoss
  BY <1>1, <1>3 DEF FirstBackup, NoLoss
<1>4. ASSUME NEW r \in rots, KeyAdd(r) PROVE NoLoss
  BY <1>1, <1>4 DEF KeyAdd, NoLoss
<1>5. ASSUME NEW r \in rots, KeyRemove(r) PROVE NoLoss
  <2>1. 1 \notin r.todo
    BY <1>5 DEF OneInv, KeyInv, NewSpared, Spares, KeyRemove, Progress
  <2>2. PICK k \in r.todo : keys' = [keys EXCEPT ![Here(r)] = @ \ {k}] \/ UNCHANGED keys
    BY <1>5 DEF KeyRemove
  <2>3. QED
    BY <1>1, <2>1, <2>2 DEF NoLoss
<1>6. QED
  BY <1>2, <1>3, <1>4, <1>5
  DEF Next, RotateKey, EditDestinations, ResetRepo, DeleteDestination, MoveDestination, Edit,
      ReceiveRotateKey, Goroutine, KeyAddFails, KeyList, KeyListFails, RemovesDone, RotationDone,
      OnlyGoroutine, HandleRotateResult, Connect, ExitAgent, LinkStep, keyVars, vars

\* The goroutines that a step leaves alone are as far as they were.
LEMMA ProgressStays ==
  ASSUME NEW a \in Seq(Locations), KeyInv, NEW r \in rots, Progress(a, r), NoLoss
  PROVE  Progress(a, r)'
<1>1. \A i \in 1..Len(a) : a[i] \in Locations
  OBVIOUS
<1>2. r.phase # "add" => r.dest \in 1..Len(a)
  BY DEF KeyInv, NewSpared, Spares, Progress
<1>3. QED
  BY <1>1, <1>2 DEF Progress, NoLoss

LEMMA UpAfter ==
  ASSUME NEW a \in Seq(Locations), OneInv(a), NoLoss, UpIs(NoSuccess) => UpIs(NoSuccess)'
  PROVE  AllHaveNew(a)' \/ UpIs(NoSuccess)'
<1>1. \A i \in 1..Len(a) : a[i] \in Locations
  OBVIOUS
<1>2. QED
  BY <1>1 DEF OneInv, NoLoss, AllHaveNew

\* Goroutine r is replaced by n, which has come as far, or ends.
LEMMA RotsAfter ==
  ASSUME NEW a \in Seq(Locations), OneInv(a), NoLoss, NEW r \in rots, NEW n,
         rots' = rots \ {r} \/ (rots' = (rots \ {r}) \cup {n} /\ Progress(a, n)')
  PROVE  \A q \in rots' : Progress(a, q)'
<1>1. \A q \in rots : Progress(a, q)'
  BY ProgressStays DEF OneInv
<1>2. QED
  BY <1>1

\* The first request.
LEMMA RotateKeyOne ==
  ASSUME ZeroInv, RotateKey, KeyInv', NEW a \in Seq(Locations), asked' = a
  PROVE  OneInv(a)'
<1> DEFINE s == agentConnections[JobAgent]
           m == [type |-> "rotate_key", old |-> current, new |-> drawn + 1, list |-> asked']
<1>1. drawn' = 1 /\ s \in Sockets \cup {NoSocket}
  BY RotationAssumption DEF RotateKey, ZeroInv, KeyInv, TypeOK, LinkTypes
<1>2. m \in Ours(a)
  <2>1. current \in Passwords /\ 1 \in Passwords /\ drawn + 1 = 1
    BY <1>1 DEF RotateKey, ZeroInv, KeyInv, TypeOK
  <2>2. QED
    BY <2>1 DEF Ours, DownMsg
<1>3. down \in [Sockets -> Seq(Ours(a))]
  BY DEF ZeroInv, KeyInv, TypeOK, LinkTypes, NoRequest
<1>4. down' \in [Sockets -> Seq(Ours(a))] /\ pending' \in {NoPw, 1}
  <2>1. CASE UNCHANGED down /\ pending' = NoPw
    BY <1>3, <2>1
  <2>2. CASE s # NoSocket /\ SendDown(s, m) /\ pending' = drawn + 1
    BY <1>1, <1>2, <1>3, <2>2, SendDownTypes DEF ZeroInv
  <2>3. QED
    BY <2>1, <2>2 DEF RotateKey
<1>5. rots' = {} /\ UpIs(NoSuccess)'
  BY UpWider DEF RotateKey, ZeroInv, UpIs
<1>6. QED
  BY <1>1, <1>4, <1>5 DEF OneInv

LEMMA ReceiveRotateKeyOne ==
  ASSUME NEW a \in Seq(Locations), OneInv(a), ReceiveRotateKey, KeyInv', NoLoss PROVE OneInv(a)'
<1> DEFINE s == conn[JobAgent]
           m == Head(down[s])
<1>1. s \in Sockets /\ m \in Ours(a) /\ down' \in [Sockets -> Seq(Ours(a))]
  <2>1. s \in Sockets
    BY RotationAssumption DEF ReceiveRotateKey, Reads, OneInv, KeyInv, TypeOK, LinkTypes
  <2>2. down[s] # <<>> /\ down' = [down EXCEPT ![s] = Tail(@)] /\ down \in [Sockets -> Seq(Ours(a))]
    BY DEF ReceiveRotateKey, Reads, OneInv
  <2>3. QED
    BY <2>1, <2>2, QueueLemma
<1>2. PICK n : n.new = 1 /\ n.list = a /\ n.dest = 1 /\ n.phase = "add" /\ rots' = rots \cup {n}
  BY <1>1 DEF Ours, ReceiveRotateKey
<1>3. Progress(a, n)'
  BY <1>2 DEF Progress
<1>4. \A r \in rots' : Progress(a, r)'
  BY <1>2, <1>3, ProgressStays DEF OneInv
<1>5. UNCHANGED <<pending, drawn, asked, up>>
  BY DEF ReceiveRotateKey, dbVars
<1>6. AllHaveNew(a)' \/ UpIs(NoSuccess)'
  BY <1>5, UpAfter DEF UpIs
<1>7. QED
  BY <1>1, <1>4, <1>5, <1>6 DEF OneInv

\* The goroutine r comes as far as its next state n.
LEMMA GoroutineOne ==
  ASSUME NEW a \in Seq(Locations), OneInv(a), NEW r \in rots, Goroutine(r), KeyInv', NoLoss
  PROVE  OneInv(a)'
<1>1. /\ r \in Rotation /\ Progress(a, r) /\ Spares(r) /\ keys \in [Locations -> SUBSET Passwords]
      /\ \A i \in 1..Len(a) : a[i] \in Locations
  BY DEF OneInv, KeyInv, TypeOK, NewSpared
<1>2. UNCHANGED <<pending, drawn, asked, down>>
  BY DEF Goroutine, KeyAdd, KeyAddFails, KeyList, KeyListFails, KeyRemove, RemovesDone, RotationDone,
         OnlyRepository, OnlyGoroutine, linkVars, netVars, dbVars
<1>3. r.conn \in Sockets /\ r.list = a /\ r.dest \in Nat \ {0} /\ r.new = 1
  BY <1>1 DEF Rotation, Progress
<1>4. CASE KeyAddFails(r)
  <2>1. rots' = rots \ {r} /\ Answer(r, "failed")
    BY <1>4 DEF KeyAddFails, Become
  <2>2. UpIs(NoSuccess) => UpIs(NoSuccess)'
    BY <1>3, <2>1, ResultFacts, SendUpTypes DEF UpIs, Answer
  <2>3. QED
    BY <1>2, <2>1, <2>2, RotsAfter, UpAfter DEF OneInv
<1>5. CASE RotationDone(r)
  <2>1. rots' = rots \ {r} /\ r.dest > Len(a) /\ UNCHANGED keys
    BY <1>3, <1>5 DEF RotationDone, Become, OnlyGoroutine
  <2>2. AllHaveNew(a)'
    BY <1>1, <1>3, <2>1 DEF Progress, AllHaveNew
  <2>3. QED
    BY <1>2, <2>1, <2>2, RotsAfter DEF OneInv
<1>6. CASE KeyListFails(r) \/ RemovesDone(r)
  <2> DEFINE n == [r EXCEPT !.dest = @ + 1, !.phase = "add", !.todo = {}]
  <2>1. n.new = 1 /\ n.list = a /\ n.dest = r.dest + 1 /\ n.phase = "add"
    BY <1>1, <1>3 DEF Rotation
  <2>2. rots' = (rots \ {r}) \cup {n} /\ UNCHANGED <<up, keys>> /\ r.phase # "add"
    BY <1>6 DEF KeyListFails, RemovesDone, NextDest, Become, OnlyGoroutine
  <2> HIDE DEF n
  <2>3. \A i \in 1..Len(a) : i < r.dest + 1 => i < r.dest \/ i = r.dest
    BY <1>3
  <2>4. Progress(a, n)'
    BY <1>1, <2>1, <2>2, <2>3 DEF Progress
  <2>5. QED
    BY <1>2, <2>2, <2>4, RotsAfter, UpAfter DEF OneInv, UpIs
<1>7. CASE KeyAdd(r) \/ KeyList(r) \/ KeyRemove(r)
  <2>1. UNCHANGED up
    BY <1>7 DEF KeyAdd, KeyList, KeyRemove, OnlyRepository, linkVars, netVars
  <2>2. r.dest \in 1..Len(a) /\ Here(r) = a[r.dest]
    BY <1>1, <1>3, <1>7 DEF KeyAdd, KeyList, KeyRemove, Spares, Here
  <2>3. 1 \in keys'[a[r.dest]]
    <3>1. CASE KeyAdd(r)
      BY <1>1, <1>3, <2>2, <3>1 DEF KeyAdd
    <3>2. CASE KeyList(r) \/ KeyRemove(r)
      BY <1>1, <2>2, <3>2 DEF KeyList, KeyRemove, Progress, NoLoss
    <3>3. QED
      BY <1>7, <3>1, <3>2
  <2>4. PICK n : rots' = (rots \ {r}) \cup {n} /\ n.new = 1 /\ n.dest = r.dest /\ n.list = a
    <3>1. CASE KeyAdd(r)
      <4> DEFINE n == [r EXCEPT !.phase = "list"]
      <4>1. n.new = 1 /\ n.dest = r.dest /\ n.list = a
        BY <1>1, <1>3 DEF Rotation
      <4>2. rots' = (rots \ {r}) \cup {n}
        BY <3>1 DEF KeyAdd, Become
      <4>3. QED
        BY <4>1, <4>2
    <3>2. CASE KeyList(r)
      <4> DEFINE n == [r EXCEPT !.phase = "remove", !.todo = keys[Here(r)] \ {r.new}]
      <4>1. n.new = 1 /\ n.dest = r.dest /\ n.list = a
        BY <1>1, <1>3 DEF Rotation
      <4>2. rots' = (rots \ {r}) \cup {n}
        BY <3>2 DEF KeyList, Become
      <4>3. QED
        BY <4>1, <4>2
    <3>3. CASE KeyRemove(r)
      <4>1. PICK k \in r.todo : rots' = (rots \ {r}) \cup {[r EXCEPT !.todo = @ \ {k}]}
        BY <3>3 DEF KeyRemove, Become
      <4> DEFINE n == [r EXCEPT !.todo = @ \ {k}]
      <4>2. n.new = 1 /\ n.dest = r.dest /\ n.list = a
        BY <1>1, <1>3 DEF Rotation
      <4>3. QED
        BY <4>1, <4>2
    <3>4. QED
      BY <1>7, <3>1, <3>2, <3>3
  <2>5. Progress(a, n)'
    <3>1. \A i \in 1..Len(a) : i < r.dest => 1 \in keys'[a[i]]
      BY <1>1 DEF Progress, NoLoss
    <3>2. QED
      BY <2>3, <2>4, <3>1 DEF Progress
  <2>6. QED
    BY <1>2, <2>1, <2>4, <2>5, RotsAfter, UpAfter DEF OneInv, UpIs
<1>8. QED
  BY <1>4, <1>5, <1>6, <1>7 DEF Goroutine

LEMMA HandleRotateResultOne ==
  ASSUME NEW a \in Seq(Locations), OneInv(a), NEW s \in Sockets, HandleRotateResult(s), KeyInv', NoLoss
  PROVE  OneInv(a)'
<1>1. UpIs(NoSuccess) => UpIs(NoSuccess)'
  BY QueueLemma DEF HandleRotateResult, FromAgent, Arrives, Consume, UpIs
<1>2. UNCHANGED <<keys, rots, down, drawn, asked>> /\ pending' = NoPw
  BY DEF HandleRotateResult, Settle
<1>3. \A q \in rots' : Progress(a, q)'
  BY <1>2, ProgressStays DEF OneInv
<1>4. QED
  BY <1>1, <1>2, <1>3, UpAfter DEF OneInv

LEMMA StepOneInv ==
  ASSUME NEW a \in Seq(Locations), OneInv(a), [Next]_vars, drawn' = 1 PROVE OneInv(a)'
<1>1. KeyInv' /\ NoLoss /\ asked' = asked /\ ~RotateKey
  <2>1. ~RotateKey
    BY DEF RotateKey, OneInv
  <2>2. QED
    BY <2>1, StepKeyInv, StepNoLoss, DrawnSteps DEF OneInv
<1>2. CASE LinkStep \/ ExitAgent \/ \E s \in Sockets : Connect(s)
  <2>1. UpIs(NoSuccess) => UpIs(NoSuccess)'
    BY <1>2, LinkMoveQueues DEF OneInv, UpKeeps, UpIs, Kinds
  <2>2. down' \in [Sockets -> Seq(Ours(a))]
    <3>1. LinkTypes(UpMsg, Ours(a))
      BY DEF OneInv, KeyInv, TypeOK, LinkTypes
    <3>2. LinkTypes(UpMsg, Ours(a))'
      BY <1>2, <3>1, LinkMoveTypes, MessageFacts
    <3>3. QED
      BY <3>2 DEF LinkTypes
  <2>3. pending' = pending /\ rots' \subseteq rots
    BY <1>2, LinkMoveQueues DEF dbVars, OneInv
  <2>4. \A q \in rots' : Progress(a, q)'
    BY <1>1, <2>3, ProgressStays DEF OneInv
  <2>5. QED
    BY <1>1, <2>1, <2>2, <2>3, <2>4, UpAfter DEF OneInv
<1>3. CASE UNCHANGED vars \/ Edits \/ \E o \in offered : FirstBackup(o[1], o[2])
  <2>1. UpKeeps /\ UNCHANGED <<up, down, pending, rots>>
    BY <1>3, AsideQueues DEF dbVars
  <2>2. \A q \in rots' : Progress(a, q)'
    BY <1>1, <2>1, ProgressStays DEF OneInv
  <2>3. QED
    BY <1>1, <2>1, <2>2, UpAfter DEF OneInv, UpIs
<1>4. QED
  BY <1>1, <1>2, <1>3, ReceiveRotateKeyOne, GoroutineOne, HandleRotateResultOne DEF Next, Edits

\* Only rotate_key_result changes the password, and only on "success".
LEMMA StepCommitOpens ==
  ASSUME NEW a, OneInv(a), [Next]_vars, current' # current
  PROVE  \A l \in Range(asked) : current' \in keys[l]
<1>1. PICK s \in Sockets : HandleRotateResult(s)
  BY EditsAre
  DEF Next, Edits, Edit, RotateKey, ReceiveRotateKey, FirstBackup, Goroutine, KeyAdd, KeyAddFails,
      KeyList, KeyListFails, KeyRemove, RemovesDone, RotationDone, OnlyRepository, OnlyGoroutine,
      Connect, ExitAgent, LinkStep, keyVars, dbVars, vars
<1>2. Head(up[s]).status = "success" /\ current' = 1
  BY <1>1 DEF HandleRotateResult, Settle, OneInv
<1>3. Head(up[s]).type = "rotate_key_result" /\ up[s] # <<>>
  BY <1>1 DEF HandleRotateResult, FromAgent, Arrives
<1>4. ~UpIs(NoSuccess)
  <2>1. ASSUME UpIs(NoSuccess) PROVE FALSE
    <3>1. Head(up[s]) \in NoSuccess
      BY <1>3, <2>1, QueueLemma DEF UpIs
    <3>2. QED
      BY <1>2, <1>3, <3>1 DEF NoSuccess
  <2>2. QED
    BY <2>1
<1>5. AllHaveNew(a) /\ asked = a /\ a \in Seq(Locations)
  BY <1>4 DEF OneInv, KeyInv, TypeOK
<1>6. QED
  BY <1>2, <1>5 DEF AllHaveNew, Range

\* The invariant for any number of requests: it speaks of the first only.
FirstInv ==
  /\ KeyInv
  /\ drawn = 0 => ZeroInv
  /\ drawn = 1 => \E a \in Seq(Locations) : OneInv(a)

LEMMA StepFirstInv == ASSUME FirstInv, [Next]_vars PROVE FirstInv'
<1>1. KeyInv' /\ drawn \in Nat
  BY StepKeyInv DEF FirstInv, KeyInv, TypeOK, Passwords
<1>2. CASE drawn' = 0
  <2>1. drawn = 0 /\ ~RotateKey
    BY <1>1, <1>2, DrawnSteps DEF RotateKey
  <2>2. QED
    BY <1>1, <1>2, <2>1, StepZeroInv DEF FirstInv
<1>3. CASE drawn' = 1
  <2>1. CASE drawn = 1
    BY <1>1, <1>3, <2>1, StepOneInv DEF FirstInv
  <2>2. CASE drawn = 0
    <3>1. RotateKey /\ asked' \in Seq(Locations)
      BY <1>1, <1>3, <2>2, DrawnSteps DEF KeyInv, TypeOK
    <3>2. PICK a \in Seq(Locations) : asked' = a
      BY <3>1
    <3>3. OneInv(a)'
      BY <1>1, <2>2, <3>1, <3>2, RotateKeyOne DEF FirstInv
    <3>4. QED
      BY <1>1, <1>3, <3>3 DEF FirstInv
  <2>3. QED
    BY <1>1, <1>3, <2>1, <2>2, DrawnSteps
<1>4. QED
  BY <1>1, <1>2, <1>3 DEF FirstInv

\* "WS handler commits it on agent success" (jobs.ts:345), over any number of
\* destinations, edits, failures of restic, losses and restarts: the password
\* that a single rotation commits opens every repository its request named.
THEOREM SingleRotationCommits == Spec => CommitOpens
<1>1. Init => FirstInv
  BY InitZeroInv DEF FirstInv, ZeroInv
<1>2. FirstInv /\ [Next]_vars => FirstInv'
  BY StepFirstInv
<1>3. FirstInv /\ [Next]_vars
        => [drawn = 1 /\ current' # current => \A l \in Range(asked) : current' \in keys[l]]_vars
  <2>1. ASSUME FirstInv, [Next]_vars, drawn = 1, current' # current
        PROVE  \A l \in Range(asked) : current' \in keys[l]
    BY <2>1, StepCommitOpens DEF FirstInv
  <2>2. QED
    BY <2>1
<1>4. QED
  BY <1>1, <1>2, <1>3, PTL DEF Spec, CommitOpens

-----------------------------------------------------------------------------
(* The last repository of the request. A single rotation is at one place at *)
(* a time: asked for, in a goroutine, or answered. That repository gets     *)
(* password 1 only from a goroutine that will report success if it reports  *)
(* at all, so the pending password is dropped only while it lacks it.       *)

LastKeys(a) == keys[a[Len(a)]]

OneRequest == \A s, t \in Sockets : down[s] # <<>> /\ down[t] # <<>> => s = t /\ Len(down[s]) = 1

Asked(a)     == rots = {} /\ OneRequest /\ 1 \notin LastKeys(a) /\ UpIs(NoResult) /\ pending = 1
AtWork(a)    == /\ NoRequest /\ UpIs(NoResult) /\ pending = 1
                /\ \A q, r \in rots : q = r
                /\ \A r \in rots : 1 \in LastKeys(a) =>
                     r.dest > Len(a) \/ (r.dest = Len(a) /\ r.phase # "add")
Succeeded(a) == rots = {} /\ NoRequest /\ 1 \in LastKeys(a) /\ UpIs(NoFailed)
Failed(a)    == rots = {} /\ NoRequest /\ 1 \notin LastKeys(a) /\ UpIs(NoSuccess)

Stage(a) == Asked(a) \/ AtWork(a) \/ Succeeded(a) \/ Failed(a)

DbHasLast(a) ==
  /\ current \in {0, 1}
  /\ LastKeys(a) \subseteq {0, 1}
  /\ 1 \in LastKeys(a) => pending = 1 \/ current = 1
  /\ 1 \notin LastKeys(a) => current = 0
  /\ \A o \in offered : o[2] = 0 \/ (o[2] = 1 /\ current = 1)

LastInv(a) == OneInv(a) /\ DbHasLast(a) /\ Stage(a)

\* The lists whose last repository is no other one of them.
Named == {a \in Seq(Locations) : a # <<>> /\ \A i, j \in 1..Len(a) : a[i] = a[j] => i = j}

LEMMA NamedLast ==
  ASSUME NEW a \in Named
  PROVE  /\ a \in Seq(Locations) /\ Len(a) \in 1..Len(a) /\ a[Len(a)] \in Locations
         /\ \A i \in 1..Len(a) : a[i] = a[Len(a)] => i = Len(a)
<1>1. a \in Seq(Locations) /\ a # <<>>
  BY DEF Named
<1>2. Len(a) \in Nat /\ Len(a) # 0
  BY <1>1, EmptySeq
<1>3. Len(a) \in 1..Len(a) /\ a[Len(a)] \in Locations
  BY <1>1, <1>2
<1>4. QED
  BY <1>1, <1>3 DEF Named

\* A step that leaves passwords and repositories alone, and at most loses
\* requests and goroutines.
LEMMA LastStays ==
  ASSUME NEW a, LastInv(a), OneInv(a)', UpKeeps, UNCHANGED <<current, pending, keys, offered>>,
         rots' \subseteq rots, \A s \in Sockets : down'[s] \in {down[s], <<>>}
  PROVE  LastInv(a)'
<1>1. DbHasLast(a)' /\ LastKeys(a)' = LastKeys(a)
  BY DEF LastInv, DbHasLast, LastKeys
<1>2. /\ UpIs(NoResult) => UpIs(NoResult)'
      /\ UpIs(NoFailed) => UpIs(NoFailed)'
      /\ UpIs(NoSuccess) => UpIs(NoSuccess)'
  BY DEF UpKeeps, UpIs, Kinds
<1>3. NoRequest => NoRequest'
  BY DEF NoRequest
<1>4. OneRequest => OneRequest'
  BY DEF OneRequest
<1>5. Stage(a)'
  <2>1. CASE Asked(a)
    BY <1>1, <1>2, <1>4, <2>1 DEF Asked, Stage
  <2>2. CASE AtWork(a)
    BY <1>1, <1>2, <1>3, <2>2 DEF AtWork, Stage
  <2>3. CASE Succeeded(a)
    BY <1>1, <1>2, <1>3, <2>3 DEF Succeeded, Stage
  <2>4. CASE Failed(a)
    BY <1>1, <1>2, <1>3, <2>4 DEF Failed, Stage
  <2>5. QED
    BY <2>1, <2>2, <2>3, <2>4 DEF LastInv, Stage
<1>6. QED
  BY <1>1, <1>5 DEF LastInv

LEMMA LinkMoveLast ==
  ASSUME NEW a, LastInv(a), OneInv(a)', LinkStep \/ ExitAgent \/ \E s \in Sockets : Connect(s)
  PROVE  LastInv(a)'
  BY LinkMoveQueues, LastStays DEF LastInv, OneInv, dbVars

\* The first request, which finds a list that is not empty.
LEMMA RotateKeyLast ==
  ASSUME ZeroInv, RotateKey, NEW a \in Named, OneInv(a)' PROVE LastInv(a)'
<1> DEFINE s == agentConnections[JobAgent]
           m == [type |-> "rotate_key", old |-> current, new |-> drawn + 1, list |-> asked']
<1>1. UNCHANGED <<up, current, keys, rots, offered>> /\ LastKeys(a)' = LastKeys(a)
  BY DEF RotateKey, LastKeys
<1>2. LastKeys(a) \subseteq {0}
  BY NamedLast DEF ZeroInv, LastKeys
<1>3. DbHasLast(a)'
  BY <1>1, <1>2 DEF ZeroInv, DbHasLast
<1>4. CASE UNCHANGED down
  <2>1. UpIs(NoSuccess)
    BY UpWider DEF ZeroInv
  <2>2. Failed(a)'
    BY <1>1, <1>2, <1>4, <2>1 DEF ZeroInv, Failed, NoRequest, UpIs
  <2>3. QED
    BY <1>3, <2>2 DEF LastInv, Stage
<1>5. CASE s # NoSocket /\ SendDown(s, m) /\ pending' = drawn + 1
  <2>1. \A t \in Sockets : down'[t] = <<>> \/ (t = s /\ Len(down'[t]) = 1)
    <3>1. down \in [Sockets -> Seq(DownMsg)] /\ \A t \in Sockets : down[t] = <<>>
      BY DEF ZeroInv, KeyInv, TypeOK, LinkTypes, NoRequest
    <3>2. CASE down' = down
      BY <3>1, <3>2
    <3>3. CASE down' = [down EXCEPT ![s] = Append(@, m)]
      <4> HIDE DEF m
      <4>1. \A t \in Sockets : t # s => down'[t] = <<>>
        BY <3>1, <3>3
      <4>2. s \in Sockets => down'[s] = Append(<<>>, m)
        BY <3>1, <3>3
      <4>3. Len(Append(<<>>, m)) = 1
        OBVIOUS
      <4>4. QED
        BY <4>1, <4>2, <4>3
    <3>4. QED
      BY <1>5, <3>2, <3>3 DEF SendDown
  <2>2. OneRequest'
    BY <2>1 DEF OneRequest
  <2>3. Asked(a)'
    BY <1>1, <1>2, <1>5, <2>2 DEF ZeroInv, Asked, UpIs
  <2>4. QED
    BY <1>3, <2>3 DEF LastInv, Stage
<1>6. QED
  BY <1>4, <1>5 DEF RotateKey

LEMMA ReceiveRotateKeyLast ==
  ASSUME NEW a, LastInv(a), ReceiveRotateKey, OneInv(a)' PROVE LastInv(a)'
<1> DEFINE s == conn[JobAgent]
<1>1. s \in Sockets /\ down[s] # <<>> /\ down' = [down EXCEPT ![s] = Tail(@)]
      /\ down \in [Sockets -> Seq(DownMsg)]
  BY RotationAssumption
  DEF ReceiveRotateKey, Reads, LastInv, OneInv, KeyInv, TypeOK, LinkTypes
<1>2. Asked(a)
  BY <1>1 DEF LastInv, Stage, Asked, AtWork, Succeeded, Failed, NoRequest
<1>3. NoRequest'
  <2>1. Len(down[s]) = 1 /\ \A t \in Sockets : t # s => down[t] = <<>>
    BY <1>1, <1>2 DEF Asked, OneRequest
  <2>2. Tail(down[s]) = <<>>
    <3>1. Tail(down[s]) \in Seq(DownMsg) /\ Len(Tail(down[s])) = 0
      BY <1>1, <2>1
    <3>2. QED
      BY <3>1, EmptySeq
  <2>3. QED
    BY <1>1, <2>1, <2>2 DEF NoRequest
<1>4. PICK n : rots' = rots \cup {n}
  BY DEF ReceiveRotateKey
<1>5. UNCHANGED <<up, current, pending, keys, offered>> /\ LastKeys(a)' = LastKeys(a)
  BY DEF ReceiveRotateKey, dbVars, LastKeys
<1>6. AtWork(a)'
  BY <1>2, <1>3, <1>4, <1>5 DEF Asked, AtWork, UpIs
<1>7. DbHasLast(a)'
  BY <1>5 DEF LastInv, DbHasLast
<1>8. QED
  BY <1>6, <1>7 DEF LastInv, Stage

\* A backup that initialises a repository, and an edit, which only offers more.
LEMMA AsideLast ==
  ASSUME NEW a \in Named, LastInv(a), OneInv(a)',
         UNCHANGED vars \/ Edits \/ \E o \in offered : FirstBackup(o[1], o[2])
  PROVE  LastInv(a)'
<1>1. UpKeeps /\ UNCHANGED <<up, down, rots, current, pending>>
  BY AsideQueues DEF dbVars
<1>2. \A o \in offered' : o[2] = 0 \/ (o[2] = 1 /\ current' = 1)
  <2>1. Edits => offered' = offered \cup (Configured' \X {current'})
    BY EditsAre DEF Edit, Offer
  <2>2. QED
    BY <1>1, <2>1 DEF FirstBackup, vars, keyVars, LastInv, DbHasLast
<1>3. CASE UNCHANGED keys
  <2>1. DbHasLast(a)' /\ LastKeys(a)' = LastKeys(a)
    BY <1>1, <1>2, <1>3 DEF LastInv, DbHasLast, LastKeys
  <2>2. Stage(a)'
    BY <1>1, <2>1 DEF LastInv, Stage, Asked, AtWork, Succeeded, Failed, NoRequest, OneRequest, UpIs
  <2>3. QED
    BY <2>1, <2>2 DEF LastInv
<1>4. CASE \E o \in offered : FirstBackup(o[1], o[2])
  <2>1. PICK o \in offered : FirstBackup(o[1], o[2])
    BY <1>4
  <2>2. keys \in [Locations -> SUBSET Passwords] /\ a[Len(a)] \in Locations
    BY NamedLast DEF LastInv, OneInv, KeyInv, TypeOK
  <2>3. CASE LastKeys(a)' = LastKeys(a)
    <3>1. DbHasLast(a)'
      BY <1>1, <1>2, <2>3 DEF LastInv, DbHasLast
    <3>2. Stage(a)'
      BY <1>1, <2>3 DEF LastInv, Stage, Asked, AtWork, Succeeded, Failed, NoRequest, OneRequest, UpIs
    <3>3. QED
      BY <3>1, <3>2 DEF LastInv
  <2>4. CASE LastKeys(a) = {} /\ LastKeys(a)' = {o[2]}
    <3>1. o[2] = 0 /\ current = 0
      BY <2>1, <2>4 DEF LastInv, DbHasLast
    <3>2. DbHasLast(a)'
      BY <1>1, <1>2, <2>4, <3>1 DEF LastInv, DbHasLast
    <3>3. Stage(a)'
      BY <1>1, <2>4, <3>1
      DEF LastInv, Stage, Asked, AtWork, Succeeded, Failed, NoRequest, OneRequest, UpIs
    <3>4. QED
      BY <3>2, <3>3 DEF LastInv
  <2>5. QED
    BY <2>1, <2>2, <2>3, <2>4 DEF FirstBackup, LastKeys
<1>5. QED
  BY <1>3, <1>4, EditsAre DEF Edit, vars, keyVars

LEMMA GoroutineLast ==
  ASSUME NEW a \in Named, LastInv(a), NEW r \in rots, Goroutine(r), OneInv(a)' PROVE LastInv(a)'
<1>1. AtWork(a) /\ rots = {r}
  BY DEF LastInv, Stage, Asked, AtWork, Succeeded, Failed
<1>2. /\ r \in Rotation /\ Progress(a, r) /\ Spares(r) /\ keys \in [Locations -> SUBSET Passwords]
      /\ r.list = a /\ r.dest \in Nat \ {0} /\ r.conn \in Sockets /\ r.new = 1
  BY DEF LastInv, OneInv, KeyInv, TypeOK, NewSpared, Rotation, Progress
<1>3. UNCHANGED <<down, current, pending, offered>>
  BY DEF Goroutine, KeyAdd, KeyAddFails, KeyList, KeyListFails, KeyRemove, RemovesDone, RotationDone,
         OnlyRepository, OnlyGoroutine, linkVars, netVars, dbVars
<1>4. NoRequest' /\ Len(a) \in 1..Len(a) /\ a[Len(a)] \in Locations /\ Len(a) \in Nat
  <2>1. Len(a) \in 1..Len(a) /\ a[Len(a)] \in Locations
    BY NamedLast
  <2>2. QED
    BY <1>1, <1>3, <2>1 DEF AtWork, NoRequest
<1>5. CASE KeyAdd(r)
  <2> DEFINE n == [r EXCEPT !.phase = "list"]
  <2>1. rots' = {n} /\ n.dest = r.dest /\ n.phase = "list" /\ up' = up
    BY <1>1, <1>2, <1>5 DEF KeyAdd, Become, Rotation, OnlyRepository, linkVars, netVars
  <2> HIDE DEF n
  <2>2. r.dest \in 1..Len(a) /\ keys' = [keys EXCEPT ![a[r.dest]] = @ \cup {1}]
    BY <1>2, <1>4, <1>5 DEF KeyAdd, Here
  <2>3. \/ r.dest = Len(a) /\ LastKeys(a)' = LastKeys(a) \cup {1}
        \/ r.dest # Len(a) /\ LastKeys(a)' = LastKeys(a)
    BY <1>2, <1>4, <2>2, NamedLast DEF LastKeys
  <2>4. DbHasLast(a)'
    BY <1>1, <1>3, <2>3 DEF LastInv, DbHasLast, AtWork
  <2>5. AtWork(a)'
    BY <1>1, <1>3, <1>4, <2>1, <2>3 DEF AtWork, UpIs
  <2>6. QED
    BY <2>4, <2>5 DEF LastInv, Stage
<1>6. CASE KeyAddFails(r)
  <2>1. rots' = {} /\ Answer(r, "failed") /\ r.phase = "add" /\ r.dest <= Len(a) /\ UNCHANGED keys
    BY <1>1, <1>2, <1>6 DEF KeyAddFails, Become, OnlyGoroutine
  <2>2. LastKeys(a)' = LastKeys(a) /\ 1 \notin LastKeys(a)
    BY <1>1, <1>2, <1>4, <2>1 DEF AtWork, LastKeys
  <2>3. UpIs(NoSuccess)'
    <3>1. UpIs(NoSuccess)
      BY <1>1, UpWider DEF AtWork
    <3>2. QED
      BY <1>2, <2>1, <3>1, ResultFacts, SendUpTypes DEF UpIs, Answer
  <2>4. Failed(a)' /\ DbHasLast(a)'
    BY <1>3, <1>4, <2>1, <2>2, <2>3 DEF Failed, LastInv, DbHasLast
  <2>5. QED
    BY <2>4 DEF LastInv, Stage
<1>7. CASE RotationDone(r)
  <2>1. rots' = {} /\ Answer(r, "success") /\ r.dest > Len(a) /\ UNCHANGED keys
    BY <1>1, <1>2, <1>7 DEF RotationDone, Become, OnlyGoroutine
  <2>2. LastKeys(a)' = LastKeys(a) /\ 1 \in LastKeys(a)
    BY <1>2, <1>4, <2>1 DEF Progress, LastKeys
  <2>3. UpIs(NoFailed)'
    <3>1. UpIs(NoFailed)
      BY <1>1, UpWider DEF AtWork
    <3>2. QED
      BY <1>2, <2>1, <3>1, ResultFacts, SendUpTypes DEF UpIs, Answer
  <2>4. Succeeded(a)' /\ DbHasLast(a)'
    BY <1>3, <1>4, <2>1, <2>2, <2>3 DEF Succeeded, LastInv, DbHasLast
  <2>5. QED
    BY <2>4 DEF LastInv, Stage
<1>8. CASE KeyListFails(r) \/ RemovesDone(r)
  <2> DEFINE n == [r EXCEPT !.dest = @ + 1, !.phase = "add", !.todo = {}]
  <2>1. rots' = {n} /\ UNCHANGED <<up, keys>> /\ r.phase # "add"
    BY <1>1, <1>8 DEF KeyListFails, RemovesDone, NextDest, Become, OnlyGoroutine
  <2>2. n.dest = r.dest + 1
    BY <1>2 DEF Rotation
  <2> HIDE DEF n
  <2>3. 1 \in LastKeys(a) => n.dest > Len(a)
    BY <1>1, <1>2, <1>4, <2>2 DEF AtWork
  <2>4. AtWork(a)' /\ DbHasLast(a)'
    BY <1>1, <1>3, <1>4, <2>1, <2>3 DEF AtWork, UpIs, LastInv, DbHasLast, LastKeys
  <2>5. QED
    BY <2>4 DEF LastInv, Stage
<1>9. CASE KeyList(r)
  <2> DEFINE n == [r EXCEPT !.phase = "remove", !.todo = keys[Here(r)] \ {r.new}]
  <2>1. rots' = {n} /\ n.dest = r.dest /\ n.phase = "remove" /\ UNCHANGED <<up, keys>>
    BY <1>1, <1>2, <1>9 DEF KeyList, Become, Rotation, OnlyRepository, linkVars, netVars
  <2> HIDE DEF n
  <2>2. AtWork(a)' /\ DbHasLast(a)'
    BY <1>1, <1>3, <1>4, <1>9, <2>1 DEF KeyList, AtWork, UpIs, LastInv, DbHasLast, LastKeys
  <2>3. QED
    BY <2>2 DEF LastInv, Stage
<1>10. CASE KeyRemove(r)
  <2>1. PICK k \in r.todo :
          /\ keys' = [keys EXCEPT ![Here(r)] = @ \ {k}] \/ UNCHANGED keys
          /\ Become(r, {[r EXCEPT !.todo = @ \ {k}]})
    BY <1>10 DEF KeyRemove
  <2> DEFINE n == [r EXCEPT !.todo = @ \ {k}]
  <2>2. rots' = {n} /\ n.dest = r.dest /\ n.phase = "remove" /\ r.phase = "remove" /\ up' = up
    BY <1>1, <1>2, <1>10, <2>1 DEF KeyRemove, Become, Rotation, OnlyRepository, linkVars, netVars
  <2> HIDE DEF n
  <2>3. k # 1
    BY <1>2, <1>10 DEF KeyRemove, Spares
  <2>4. LastKeys(a)' \subseteq LastKeys(a) /\ (1 \in LastKeys(a)' <=> 1 \in LastKeys(a))
    BY <1>2, <1>4, <2>1, <2>3 DEF LastKeys
  <2>5. AtWork(a)' /\ DbHasLast(a)'
    BY <1>1, <1>3, <1>4, <2>2, <2>4 DEF AtWork, UpIs, LastInv, DbHasLast
  <2>6. QED
    BY <2>5 DEF LastInv, Stage
<1>11. QED
  BY <1>5, <1>6, <1>7, <1>8, <1>9, <1>10 DEF Goroutine

LEMMA HandleRotateResultLast ==
  ASSUME NEW a \in Named, LastInv(a), NEW s \in Sockets, HandleRotateResult(s), OneInv(a)'
  PROVE  LastInv(a)'
<1>1. /\ up[s] # <<>> /\ Head(up[s]).type = "rotate_key_result"
      /\ up' = [up EXCEPT ![s] = Tail(@)]
  BY DEF HandleRotateResult, FromAgent, Arrives, Consume
<1>2. UNCHANGED <<keys, rots, down>> /\ LastKeys(a)' = LastKeys(a) /\ pending' = NoPw
  BY DEF HandleRotateResult, Settle, LastKeys
<1>3. \A U \in {NoResult, NoFailed, NoSuccess} :
        UpIs(U) => Head(up[s]) \in U /\ up' \in [Sockets -> Seq(U)]
  BY <1>1, QueueLemma DEF UpIs
<1>4. offered' = offered \cup (Configured' \X {current'})
  BY DEF HandleRotateResult, Offer
<1>5. CASE Succeeded(a)
  <2>1. Head(up[s]).status = "success" /\ UpIs(NoFailed)'
    <3>1. Head(up[s]) \in NoFailed /\ UpIs(NoFailed)'
      BY <1>3, <1>5 DEF Succeeded, UpIs
    <3>2. QED
      BY <1>1, <3>1, MessageFacts DEF NoFailed
  <2>2. current' = 1
    BY <1>5, <2>1, RotationAssumption
    DEF HandleRotateResult, Settle, LastInv, DbHasLast, OneInv, Succeeded
  <2>3. \A o \in offered' : o[2] = 0 \/ o[2] = 1
    BY <1>4, <2>2 DEF LastInv, DbHasLast
  <2>4. Succeeded(a)' /\ DbHasLast(a)'
    BY <1>2, <1>5, <2>1, <2>2, <2>3 DEF Succeeded, NoRequest, LastInv, DbHasLast
  <2>5. QED
    BY <2>4 DEF LastInv, Stage
<1>6. CASE Failed(a)
  <2>1. Head(up[s]).status # "success" /\ UpIs(NoSuccess)'
    BY <1>1, <1>3, <1>6 DEF Failed, UpIs, NoSuccess
  <2>2. current' = current /\ current = 0
    BY <1>6, <2>1 DEF HandleRotateResult, Settle, LastInv, DbHasLast, Failed
  <2>3. \A o \in offered' : o[2] = 0
    BY <1>4, <2>2 DEF LastInv, DbHasLast
  <2>4. Failed(a)' /\ DbHasLast(a)'
    BY <1>2, <1>6, <2>1, <2>2, <2>3 DEF Failed, NoRequest, LastInv, DbHasLast
  <2>5. QED
    BY <2>4 DEF LastInv, Stage
<1>7. CASE Asked(a) \/ AtWork(a)
  <2>1. Head(up[s]) \in NoResult
    BY <1>3, <1>7 DEF Asked, AtWork
  <2>2. QED
    BY <1>1, <2>1 DEF NoResult
<1>8. QED
  BY <1>5, <1>6, <1>7 DEF LastInv, Stage

LEMMA StepLastInv ==
  ASSUME NEW a \in Named, LastInv(a), [Next]_vars, drawn' = 1 PROVE LastInv(a)'
<1>1. OneInv(a)' /\ ~RotateKey
  BY StepOneInv, NamedLast DEF LastInv, OneInv, RotateKey
<1>2. QED
  BY <1>1, LinkMoveLast, AsideLast, ReceiveRotateKeyLast, GoroutineLast, HandleRotateResultLast
  DEF Next, Edits

\* A request names no repository twice: its destinations differ.
LEMMA RotateKeyNames == ASSUME KeyInv, RotateKey PROVE asked' = <<>> \/ asked' \in Named
<1>1. PICK l \in Lists : asked' = [i \in DOMAIN l |-> At(l[i])]
  BY DEF RotateKey
<1>2. l \in Seq(Dests) /\ \A i, j \in 1..Len(l) : l[i] = l[j] => i = j
  BY ListFacts
<1>3. \A i \in 1..Len(l) : At(l[i]) \in Locations /\ At(l[i]).dest = l[i]
  BY <1>2, PlaceFacts DEF KeyInv, TypeOK
<1>4. asked' \in Seq(Locations) /\ Len(asked') = Len(l)
  BY <1>1, <1>2, <1>3
<1>5. \A i, j \in 1..Len(asked') : asked'[i] = asked'[j] => i = j
  BY <1>1, <1>2, <1>3, <1>4
<1>6. QED
  BY <1>4, <1>5 DEF Named

\* The invariant for any number of requests: it speaks of the first only.
FirstLastInv ==
  /\ KeyInv
  /\ drawn = 0 => ZeroInv
  /\ drawn = 1 => asked = <<>> \/ \E a \in Named : LastInv(a)

LEMMA StepFirstLastInv == ASSUME FirstLastInv, [Next]_vars PROVE FirstLastInv'
<1>1. KeyInv' /\ drawn \in Nat
  BY StepKeyInv DEF FirstLastInv, KeyInv, TypeOK, Passwords
<1>2. CASE drawn' = 0
  <2>1. drawn = 0 /\ ~RotateKey
    BY <1>1, <1>2, DrawnSteps DEF RotateKey
  <2>2. QED
    BY <1>1, <1>2, <2>1, StepZeroInv DEF FirstLastInv
<1>3. CASE drawn' = 1 /\ drawn = 1
  BY <1>1, <1>3, StepLastInv, DrawnSteps DEF FirstLastInv
<1>4. CASE drawn' = 1 /\ drawn = 0
  <2>1. RotateKey /\ KeyInv /\ ZeroInv
    BY <1>1, <1>4, DrawnSteps DEF FirstLastInv
  <2>2. CASE asked' = <<>>
    BY <1>1, <1>4, <2>2 DEF FirstLastInv
  <2>3. CASE asked' \in Named
    <3>1. PICK a \in Named : asked' = a
      BY <2>3
    <3>2. LastInv(a)'
      BY <1>1, <2>1, <3>1, RotateKeyOne, RotateKeyLast, NamedLast
    <3>3. QED
      BY <1>1, <1>4, <3>2 DEF FirstLastInv
  <2>4. QED
    BY <2>1, <2>2, <2>3, RotateKeyNames
<1>5. QED
  BY <1>1, <1>2, <1>3, <1>4, DrawnSteps DEF FirstLastInv

\* A single rotation never costs the database the last password that opens the
\* last repository it asks for (main.go:377-384, index.ts:355-372), over any number of
\* destinations, edits, failures of restic, lost answers and restarts.
THEOREM LastDestinationOpens == Spec => []LastHoldsKey
<1>1. Init => FirstLastInv
  BY InitZeroInv DEF FirstLastInv, ZeroInv
<1>2. FirstLastInv /\ [Next]_vars => FirstLastInv'
  BY StepFirstLastInv
<1>3. FirstLastInv => LastHoldsKey
  <2>1. ASSUME FirstLastInv, drawn = 1, asked # <<>>, keys[asked[Len(asked)]] # {}
        PROVE  keys[asked[Len(asked)]] \cap {current, pending} # {}
    <3>1. PICK a \in Named : LastInv(a)
      BY <2>1 DEF FirstLastInv
    <3>2. asked = a
      BY <3>1 DEF LastInv, OneInv
    <3>3. QED
      BY <2>1, <3>1, <3>2 DEF LastInv, DbHasLast, LastKeys
  <2>2. QED
    BY <2>1 DEF LastHoldsKey
<1>4. QED
  BY <1>1, <1>2, <1>3, PTL DEF Spec
=============================================================================
