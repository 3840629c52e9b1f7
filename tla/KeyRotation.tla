--------------------------- MODULE KeyRotation ---------------------------
(***************************************************************************)
(* Rotation of the encryption key of one job: POST /jobs/:id/rotate-key    *)
(* stores the new password as pending and asks the agent, the agent adds   *)
(* the new key to the repository of each destination in turn and removes   *)
(* the others, and rotate_key_result commits or drops the pending          *)
(* password. Neither message says which rotation it belongs to.            *)
(*                                                                         *)
(* A repository is the set of passwords that open it; it is empty until    *)
(* the first backup. It lies at the path of its destination, below the     *)
(* suffix of the job, and no other job uses it. The list of destinations,  *)
(* their paths and the suffix may change at any time. restic fails without *)
(* the right password, and may fail, without effect, for any other reason. *)
(* The agent's syncJobs and heartbeats are left out: they delay the read   *)
(* loop and refresh agents.status. The job is not deleted.                 *)
(*                                                                         *)
(* Bound: MaxRequests requests of the administrator, each a rotation with  *)
(* a fresh password or a change of the list, a path or the suffix.         *)
(***************************************************************************)
EXTENDS AgentLink, FiniteSets, Functions

CONSTANTS
  JobAgent,     \* backup_jobs.agent_id
  NumDests,     \* destinations, numbered as the job first lists them
  MaxRequests,  \* bound on rotations, edits, deletions and resets
  NoPw          \* null

ASSUME RotationAssumption ==
  /\ JobAgent \in Agents
  /\ NumDests \in Nat \ {0}
  /\ MaxRequests \in Nat
  /\ NoPw \notin Nat

Dests     == 1..NumDests
Passwords == 0..MaxRequests   \* 0 is the password the job was created with
Locations == [dest : Dests, path : 0..MaxRequests, suffix : 0..MaxRequests]

\* Lists of destinations: the form of a job names none twice.
Lists == UNION {Injection(1..n, Dests) : n \in 0..NumDests}

VARIABLES
  current,        \* database: resticPasswordEncrypted
  pending,        \* database: resticPasswordPending
  drawn,          \* passwords drawn so far
  destinationIds, \* database: the job's destinations, in their order
  gone,           \* database: destinations that no longer have a row
  path,           \* database: destination -> the path in its config
  suffix,         \* database: resticRepoSuffix
  edits,          \* changes of these four so far
  keys,           \* repositories: location -> passwords that open it
  rots,           \* agent memory: rotation goroutines
  asked,          \* history: the repositories the latest request named
  offered         \* history: location and password of every configuration

dbVars    == <<current, pending, drawn>>
placeVars == <<destinationIds, gone, path, suffix, edits>>
keyVars   == <<dbVars, placeVars, keys, rots, asked, offered>>
vars      == <<linkVars, keyVars>>

Rotation == [old : Passwords, new : Passwords, list : Seq(Locations), conn : Sockets,
             dest : Nat \ {0}, phase : {"add", "list", "remove"}, todo : SUBSET Passwords]

UpMsg   == LinkUpMsg \cup [type : {"rotate_key_result"}, status : {"success", "failed"}]
DownMsg == [type : {"rotate_key"}, old : Passwords, new : Passwords, list : Seq(Locations)]

\* buildRepoURLAndEnv: where the job's repository at destination d lies.
At(d) == [dest |-> d, path |-> path[d], suffix |-> suffix]

\* The repositories that a configuration of the job names.
Configured == {At(d) : d \in Range(destinationIds) \ gone}

\* destIds.map(...).filter(Boolean): l is the list without the destinations that are gone.
Finds(l) ==
  /\ Range(l) = Range(destinationIds) \ gone
  /\ \A p, q \in DOMAIN destinationIds, i, j \in DOMAIN l :
       p < q /\ l[i] = destinationIds[p] /\ l[j] = destinationIds[q] => i < j

\* Every backup begins with a configuration, which may be an old one.
Offer == offered' = offered \cup (Configured' \X {current'})

Init ==
  /\ LinkInit
  /\ current = 0
  /\ pending = NoPw
  /\ drawn = 0
  /\ destinationIds \in {[i \in 1..n |-> i] : n \in Dests}
  /\ gone = {}
  /\ path = [d \in Dests |-> 0]
  /\ suffix = 0
  /\ edits = 0
  /\ keys \in {k \in [Locations -> {{}, {0}}] : \A l \in Locations : k[l] # {} => l.path = 0 /\ l.suffix = 0}
  /\ rots = {}
  /\ asked = <<>>
  /\ offered = Configured \X {0}

-----------------------------------------------------------------------------
\* POST /jobs/:id/rotate-key: store the new password as pending, whatever was
\* pending before, and roll back to null if the agent cannot be reached. The
\* list may be empty.
RotateKey ==
  LET s == agentConnections[JobAgent]
      new == drawn + 1 IN
  /\ drawn + edits < MaxRequests
  /\ drawn' = new
  /\ \E l \in Lists : Finds(l) /\ asked' = [i \in DOMAIN l |-> At(l[i])]
  /\ \/ MayBeUnwritable(s) /\ pending' = NoPw /\ UNCHANGED down
     \/ /\ s # NoSocket
        /\ pending' = new
        /\ SendDown(s, [type |-> "rotate_key", old |-> current, new |-> new, list |-> asked'])
  /\ UNCHANGED <<serverVars, clientVars, wire, up, faults, current, placeVars, keys, rots, offered>>

-----------------------------------------------------------------------------
(* The administrator changes where the job's repositories are.             *)

Edit ==
  /\ drawn + edits < MaxRequests
  /\ edits' = edits + 1
  /\ UNCHANGED <<linkVars, dbVars, keys, rots, asked>>
  /\ Offer

\* PUT /jobs/:id; the destinations it names need not exist.
EditDestinations ==
  /\ destinationIds' \in Lists \ {<<>>, destinationIds}
  /\ UNCHANGED <<gone, path, suffix>>
  /\ Edit

\* DELETE /destinations/:id, whatever jobs name it.
DeleteDestination(d) ==
  /\ d \notin gone
  /\ gone' = gone \cup {d}
  /\ UNCHANGED <<destinationIds, path, suffix>>
  /\ Edit

\* PUT /destinations/:id with any path, or POST /destinations/:id/reset-repo.
MoveDestination(d) ==
  /\ d \notin gone
  /\ \E p \in 0..MaxRequests : path' = [path EXCEPT ![d] = p]
  /\ UNCHANGED <<destinationIds, gone, suffix>>
  /\ Edit

\* POST /jobs/:id/reset-repo draws a new suffix.
ResetRepo ==
  /\ suffix' = edits + 1
  /\ UNCHANGED <<destinationIds, gone, path>>
  /\ Edit

-----------------------------------------------------------------------------

\* The agent starts a goroutine per request.
ReceiveRotateKey ==
  LET s == conn[JobAgent]
      m == Head(down[s]) IN
  /\ Reads(JobAgent, "rotate_key")
  /\ down' = [down EXCEPT ![s] = Tail(@)]
  /\ rots' = rots \cup {[old |-> m.old, new |-> m.new, list |-> m.list, conn |-> s, dest |-> 1,
                         phase |-> "add", todo |-> {}]}
  /\ UNCHANGED <<serverVars, clientVars, wire, up, faults, dbVars, placeVars, keys, asked, offered>>

\* A backup that finds no repository initialises it, with the location and the
\* password of its configuration, which may be an old one.
FirstBackup(l, p) ==
  /\ keys[l] = {}
  /\ keys' = [keys EXCEPT ![l] = {p}]
  /\ UNCHANGED <<linkVars, dbVars, placeVars, rots, asked, offered>>

-----------------------------------------------------------------------------
(* RotateKey of restic.go, one restic command per step.                    *)

Become(r, rs) == rots' = (rots \ {r}) \cup rs

Answer(r, status) == SendUp(r.conn, [type |-> "rotate_key_result", status |-> status])

Here(r) == r.list[r.dest]

\* What a step of the goroutine on its repository leaves alone.
OnlyRepository == UNCHANGED <<linkVars, dbVars, placeVars, asked, offered>>

\* What a step leaves alone that is no change of a repository.
OnlyGoroutine ==
  UNCHANGED <<serverVars, clientVars, wire, down, faults, dbVars, placeVars, keys, asked, offered>>

FirstDestOnly(r) ==     \* mutant: success is reported from inside the loop
  Become(r, {}) /\ Answer(r, "success")

\* RotateKey returned nil: on to the next destination.
NextDest(r) ==
  Become(r, {[r EXCEPT !.dest = @ + 1, !.phase = "add", !.todo = {}]}) /\ UNCHANGED up

\* The loop is over, and so it is at once when the list is empty.
RotationDone(r) ==
  /\ r.dest > Len(r.list)
  /\ Become(r, {})
  /\ Answer(r, "success")
  /\ OnlyGoroutine

\* restic key add, opened with the old password.
KeyAdd(r) ==
  /\ r.phase = "add" /\ r.dest <= Len(r.list)
  /\ r.old \in keys[Here(r)]
  /\ keys' = [keys EXCEPT ![Here(r)] = @ \cup {r.new}]
  /\ Become(r, {[r EXCEPT !.phase = "list"]})
  /\ OnlyRepository

KeyAddFailsSilently(r) == \* mutant: the goroutine returns before it reports
  /\ r.phase = "add" /\ r.dest <= Len(r.list)
  /\ Become(r, {})
  /\ UNCHANGED up
  /\ OnlyGoroutine

\* The first failure ends the rotation; destinations already done stay done.
KeyAddFails(r) ==
  /\ r.phase = "add" /\ r.dest <= Len(r.list)
  /\ Become(r, {})
  /\ Answer(r, "failed")
  /\ OnlyGoroutine

\* restic key list, opened with the new password: all but the current key go.
ListAll(r) ==           \* mutant: the key in use is not skipped
  /\ r.phase = "list"
  /\ r.new \in keys[Here(r)]
  /\ Become(r, {[r EXCEPT !.phase = "remove", !.todo = keys[Here(r)]]})
  /\ UNCHANGED keys
  /\ OnlyRepository

KeyList(r) ==
  /\ r.phase = "list"
  /\ r.new \in keys[Here(r)]
  /\ Become(r, {[r EXCEPT !.phase = "remove", !.todo = keys[Here(r)] \ {r.new}]})
  /\ UNCHANGED keys
  /\ OnlyRepository

\* A list that fails counts as success: the old keys stay.
KeyListFails(r) ==
  /\ r.phase = "list"
  /\ NextDest(r)
  /\ OnlyGoroutine

\* restic key remove, opened with the new password; its failure is ignored.
KeyRemove(r) ==
  /\ r.phase = "remove"
  /\ \E k \in r.todo :
       /\ \/ r.new \in keys[Here(r)] /\ keys' = [keys EXCEPT ![Here(r)] = @ \ {k}]
          \/ UNCHANGED keys
       /\ Become(r, {[r EXCEPT !.todo = @ \ {k}]})
  /\ OnlyRepository

RemovesDone(r) ==
  /\ r.phase = "remove"
  /\ r.todo = {}
  /\ NextDest(r)
  /\ OnlyGoroutine

-----------------------------------------------------------------------------
\* rotate_key_result: commit what is pending now, or drop it.
SettleNever(status) ==  \* mutant: compared with the status word of verify_result
  /\ current' = IF status = "passed" /\ pending # NoPw THEN pending ELSE current
  /\ pending' = NoPw

Settle(status) ==
  /\ current' = IF status = "success" /\ pending # NoPw THEN pending ELSE current
  /\ pending' = NoPw

HandleRotateResult(s) ==
  /\ FromAgent(s, "rotate_key_result")
  /\ Settle(Head(up[s]).status)
  /\ Consume(s)
  /\ UNCHANGED <<serverVars, clientVars, wire, down, faults, drawn, placeVars, keys, rots, asked>>
  /\ Offer

\* A goroutine still holds its connection: a new one has another identity.
Connect(s) ==
  /\ \A r \in rots : r.conn # s
  /\ Dial(JobAgent, s)
  /\ UNCHANGED keyVars

ExitAgent ==
  /\ AgentExit(JobAgent)
  /\ rots' = {}
  /\ UNCHANGED <<dbVars, placeVars, keys, asked, offered>>

LinkStep ==
  /\ UNCHANGED keyVars
  /\ \/ AgentReadError(JobAgent)
     \/ \E s \in Sockets : HandleAgentConnect(s) \/ ServerClose(s) \/ LoseLink(s)
     \/ ServerRestart

Goroutine(r) ==
  \/ KeyAdd(r) \/ KeyAddFails(r) \/ KeyList(r) \/ KeyListFails(r) \/ KeyRemove(r) \/ RemovesDone(r)
  \/ RotationDone(r)

Next ==
  \/ RotateKey
  \/ ReceiveRotateKey
  \/ EditDestinations
  \/ ResetRepo
  \/ \E d \in Dests : DeleteDestination(d) \/ MoveDestination(d)
  \/ \E o \in offered : FirstBackup(o[1], o[2])
  \/ \E r \in rots : Goroutine(r)
  \/ \E s \in Sockets : HandleRotateResult(s) \/ Connect(s)
  \/ ExitAgent
  \/ LinkStep

Spec == Init /\ [][Next]_vars

\* The agent's read loop and goroutines run, restic ends, the server handles
\* what arrives. Requests, backups and failures promise nothing.
Fairness ==
  /\ WF_vars(ReceiveRotateKey)
  /\ \A p \in Passwords : WF_vars(\E r \in rots : r.new = p /\ Goroutine(r))
  /\ \A s \in Sockets :
       WF_vars(\/ HandleRotateResult(s)
               \/ UNCHANGED keyVars /\ (HandleAgentConnect(s) \/ ServerClose(s)))

FairSpec == Spec /\ Fairness
-----------------------------------------------------------------------------
\* Type correctness of the rotation.
TypeOK ==
  /\ LinkTypes(UpMsg, DownMsg)
  /\ current \in Passwords
  /\ pending \in Passwords \cup {NoPw}
  /\ drawn \in Passwords
  /\ destinationIds \in Lists
  /\ gone \subseteq Dests
  /\ path \in [Dests -> 0..MaxRequests]
  /\ suffix \in 0..MaxRequests
  /\ edits \in 0..MaxRequests
  /\ keys \in [Locations -> SUBSET Passwords]
  /\ rots \subseteq Rotation
  /\ asked \in Seq(Locations)
  /\ offered \subseteq Locations \X Passwords

\* However rotations, failures of restic and restarts interleave, a repository
\* that had a key keeps one: restic.go:423-428 removes keys only while it can
\* open the repository with another.
RepoKeepsAKey == [][\A l \in Locations : keys[l] # {} => keys'[l] # {}]_vars

\* "WS handler commits it on agent success" (jobs.ts:345): the password that a
\* single rotation makes the job's opens every repository its request named,
\* whatever was edited, deleted or reset meanwhile.
CommitOpens ==
  [][drawn = 1 /\ current' # current => \A l \in Range(asked) : current' \in keys[l]]_vars

\* FALSE of the code: it also opens whatever other repository the job has by
\* then. The list of the request may lack one that is deleted, moved or not in
\* the job's list (jobs.ts:352-359), and an empty one is a success.
CommitOpensAll ==
  [][drawn = 1 /\ current' # current
       => \A l \in Configured : keys[l] # {} => current' \in keys[l]]_vars

\* FALSE of the code: the password of the database opens something.
CommitOpensSome ==
  [][drawn = 1 /\ current' # current => \E l \in Locations : current' \in keys[l]]_vars

\* FALSE of the code: the database never loses the last password that opens a
\* repository, whatever is lost in between ("stores new encrypted password
\* until agent confirms success", schema/index.ts:82).
DbHoldsKey == \A l \in Configured : keys[l] # {} => keys[l] \cap {current, pending} # {}

\* A single rotation (main.go:377-384, index.ts:355-372) never costs the
\* database the last password that opens the last repository it asks for, the
\* only one of a job that has one: its failure or success is what the result tells.
LastHoldsKey ==
  LET last == asked[Len(asked)] IN
  drawn = 1 /\ asked # <<>> /\ keys[last] # {} => keys[last] \cap {current, pending} # {}

\* Nothing is under way: no request, no goroutine, no result.
Idle ==
  /\ rots = {}
  /\ \A s \in Sockets : \A i \in DOMAIN up[s] : up[s][i].type # "rotate_key_result"
  /\ \A s \in Sockets : down[s] = <<>>

\* FALSE of the code: "abort on first failure — DB keeps old password"
\* (main.go:383): when a rotation has been settled, the password of the
\* database opens every repository, failed or not.
OpensWhenSettled ==
  Idle /\ pending = NoPw => \A l \in Configured : keys[l] # {} => current \in keys[l]

\* The result of a rotation is on its way on connection s.
Carries(s) ==
  \/ down[s] # <<>>
  \/ \E r \in rots : r.conn = s
  \/ \E i \in DOMAIN up[s] : up[s][i].type = "rotate_key_result"

\* Every path of the rotation goroutine reports (main.go:375-397, restic.go:385-436):
\* a pending password is settled as long as the connection stays up.
PendingSettles ==
  \A s \in Sockets : (pending # NoPw /\ Carries(s)) ~> (pending = NoPw \/ ~CanCarry(s))
=============================================================================
