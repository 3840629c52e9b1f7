---------------------------- MODULE Enrollment ----------------------------
(***************************************************************************)
(* How a machine becomes an agent and ceases to be one: the rows of agents,*)
(* their one-time registration tokens and the credentials that replace     *)
(* them, the seats of the licence, the server's CA key pair on disk, and on*)
(* each host install.sh, agent.yaml and the service.                       *)
(*                                                                         *)
(* The server's handlers are one step each, but POST /register, which waits*)
(* for the certificate's key pair between its checks and its UPDATE. A     *)
(* token belongs to one id and is not told apart from it; credentials (API *)
(* token and certificate) are numbered as they are issued.                 *)
(*                                                                         *)
(* Bounds: MaxCreds credentials, MaxFaults failures: the end of a process  *)
(* of either side, a lost link or answer, a config that cannot be saved.   *)
(***************************************************************************)
EXTENDS Naturals, FiniteSets

CONSTANTS
  Ids,       \* ids that POST /agents/token may draw
  NoId,
  Hosts,
  NoHost,
  Licences,  \* seats of the licences that may be uploaded, 0: unlimited
  MaxCreds,
  MaxFaults

ASSUME EnrollmentAssumption ==
  /\ NoId \notin Ids
  /\ NoHost \notin Hosts
  /\ Licences \subseteq Nat
  /\ MaxCreds \in Nat /\ MaxFaults \in Nat

VARIABLES
  row,       \* database: agents
  lastCred,  \* credentials issued so far
  issuer,    \* history: the CA that signed each credential
  seats,     \* database: seats of the licence
  server,    \* server process: down, between the two writes of initCA, or up
  caKey,     \* server disk: ca_private.pem, numbered, 0 for no file
  caCert,    \* server disk: ca_cert.pem, by the key it was made with
  agentConn, \* server memory: agentConnections
  linked,    \* hosts whose service has an identified connection
  told,      \* hosts with an uninstall message on its way
  disk,      \* host: agent.yaml
  unit,      \* host: the service's unit; stopped: by hand, until the next boot
  proc,      \* host: the agent's process
  faults

serverVars == <<lastCred, issuer, seats, server, caKey, caCert>>
linkVars   == <<agentConn, linked, told>>
hostVars   == <<disk, unit, proc>>
vars       == <<row, serverVars, linkVars, hostVars, faults>>

Creds     == 1..MaxCreds
Community == 1      \* seats without a licence

Row == [state : {"unused", "present", "deleted"}, token : BOOLEAN, cred : 0..MaxCreds]

\* asking: the request is on its way. issuing: it has passed the checks; cred is then what the
\* row held at that moment. answered: so it is, with credentials. running: as a service.
Proc == [phase : {"off", "asking", "issuing", "answered", "running"},
         id : Ids \cup {NoId}, cred : 0..MaxCreds]

NoProc   == [phase |-> "off", id |-> NoId, cred |-> 0]
NoConfig == [id |-> NoId, cred |-> 0]

Present == {id \in Ids : row[id].state = "present"}

Init ==
  /\ row = [id \in Ids |-> [state |-> "unused", token |-> FALSE, cred |-> 0]]
  /\ lastCred = 0
  /\ issuer = [c \in Creds |-> 0]
  /\ seats = Community
  /\ server = "down" /\ caKey = 0 /\ caCert = 0
  /\ agentConn = [id \in Ids |-> NoHost] /\ linked = {} /\ told = {}
  /\ disk = [h \in Hosts |-> NoConfig]
  /\ unit = [h \in Hosts |-> "none"]
  /\ proc = [h \in Hosts |-> NoProc]
  /\ faults = 0

-----------------------------------------------------------------------------
(* The server's process.                                                   *)

\* main(): nothing is answered before initCA has loaded or written both files.
StartAfresh ==      \* mutant: a key pair is generated at every start
  /\ server = "down"
  /\ caKey' = caKey + 1 /\ server' = "keyed"
  /\ UNCHANGED <<row, lastCred, issuer, seats, caCert, linkVars, hostVars, faults>>

StartServer ==
  /\ server = "down"
  /\ \/ caKey # 0 /\ caCert # 0 /\ server' = "up" /\ UNCHANGED caKey
     \/ (caKey = 0 \/ caCert = 0) /\ server' = "keyed" /\ caKey' = caKey + 1
  /\ UNCHANGED <<row, lastCred, issuer, seats, caCert, linkVars, hostVars, faults>>

WriteCert ==
  /\ server = "keyed"
  /\ caCert' = caKey /\ server' = "up"
  /\ UNCHANGED <<row, lastCred, issuer, seats, caKey, linkVars, hostVars, faults>>

Dies ==
  /\ faults < MaxFaults /\ faults' = faults + 1
  /\ server' = "down"
  /\ agentConn' = [id \in Ids |-> NoHost] /\ linked' = {} /\ told' = {}
  /\ proc' = [h \in Hosts |-> IF proc[h].phase \in {"asking", "issuing"} THEN NoProc ELSE proc[h]]
  /\ UNCHANGED <<row, lastCred, issuer, caKey, caCert, disk, unit>>

ServerDies == server # "down" /\ Dies /\ UNCHANGED seats

-----------------------------------------------------------------------------
(* Licence, tokens, deletion.                                              *)

\* POST /license, which deletes the old row and inserts the new one, and DELETE.
ChangeLicence ==
  /\ server = "up"
  /\ seats' \in Licences \cup {Community}
  /\ UNCHANGED <<row, lastCred, issuer, server, caKey, caCert, linkVars, hostVars, faults>>

DiesInUpload == server = "up" /\ seats' = Community /\ Dies

\* requireSeat counts every row, registered or not.
SeatFree == seats = 0 \/ Cardinality(Present) < seats

MakeToken(id) ==
  /\ server = "up"
  /\ row[id].state = "unused" /\ SeatFree
  /\ row' = [row EXCEPT ![id] = [state |-> "present", token |-> TRUE, cred |-> 0]]
  /\ UNCHANGED <<serverVars, linkVars, hostVars, faults>>

\* DELETE /agents/:id: a connected agent is told to uninstall itself.
DeleteAgent(id) ==
  /\ server = "up"
  /\ id \in Present
  /\ row' = [row EXCEPT ![id] = [state |-> "deleted", token |-> FALSE, cred |-> 0]]
  /\ told' = told \cup ({agentConn[id]} \ {NoHost})
  /\ UNCHANGED <<serverVars, agentConn, linked, hostVars, faults>>

-----------------------------------------------------------------------------
(* Registration.                                                           *)

\* The connection of h is closed; the map entry of its id goes, whosever it is.
Unlink(h) ==
  /\ linked' = linked \ {h}
  /\ told' = told \ {h}
  /\ agentConn' = IF h \in linked THEN [agentConn EXCEPT ![proc[h].id] = NoHost] ELSE agentConn

TokenValid(id) == id \in Present /\ row[id].token

\* install.sh: it is served for a valid token, stops a service that is there
\* and starts the agent with id and token, which discards another id's config.
RunInstaller(h, id) ==
  /\ server = "up" /\ TokenValid(id)
  /\ proc[h].phase \in {"off", "running"}
  /\ unit' = [unit EXCEPT ![h] = IF @ = "enabled" THEN "stopped" ELSE @]
  /\ proc' = [proc EXCEPT ![h] = [phase |-> "asking", id |-> id, cred |-> 0]]
  /\ Unlink(h)
  /\ UNCHANGED <<row, serverVars, disk, faults>>

\* POST /register up to the await; a refusal is fatal to the agent and the script.
CheckRegistration(h) ==
  /\ server = "up"
  /\ proc[h].phase = "asking"
  /\ LET id == proc[h].id IN
       proc' = [proc EXCEPT ![h] = IF TokenValid(id)
                                   THEN [phase |-> "issuing", id |-> id, cred |-> row[id].cred]
                                   ELSE NoProc]
  /\ UNCHANGED <<row, serverVars, linkVars, disk, unit, faults>>

\* The UPDATE after it, which checks nothing again and finds no row that is deleted.
RegisteredRow(id, c) == IF id \in Present THEN [row[id] EXCEPT !.token = FALSE, !.cred = c] ELSE row[id]

KeptTokenRow(id, c)  == IF id \in Present THEN [row[id] EXCEPT !.cred = c] ELSE row[id]

Finish(h, new) ==
  /\ proc[h].phase = "issuing"
  /\ lastCred < MaxCreds
  /\ lastCred' = lastCred + 1
  /\ issuer' = [issuer EXCEPT ![lastCred'] = caKey]
  /\ row' = [row EXCEPT ![proc[h].id] = new]
  /\ proc' = [proc EXCEPT ![h].phase = "answered", ![h].cred = lastCred']
  /\ UNCHANGED <<seats, server, caKey, caCert, linkVars, disk, unit, faults>>

FinishKeepingToken(h) == Finish(h, KeptTokenRow(proc[h].id, lastCred + 1))  \* mutant: not revoked

FinishRegistration(h) == Finish(h, RegisteredRow(proc[h].id, lastCred + 1))

\* The agent saves its config and exits; the script installs and starts the service.
SaveConfig(h) ==
  /\ proc[h].phase = "answered"
  /\ disk' = [disk EXCEPT ![h] = [id |-> proc[h].id, cred |-> proc[h].cred]]
  /\ unit' = [unit EXCEPT ![h] = "enabled"]
  /\ proc' = [proc EXCEPT ![h] = NoProc]
  /\ UNCHANGED <<row, serverVars, linkVars, faults>>

\* The answer is lost; or the config cannot be saved, of which the agent only
\* warns; or the script ends before it has written the unit.
RegistrationCutShort(h) ==
  /\ proc[h].phase = "answered"
  /\ faults < MaxFaults /\ faults' = faults + 1
  /\ proc' = [proc EXCEPT ![h] = NoProc]
  /\ \/ UNCHANGED <<disk, unit>>
     \/ unit' = [unit EXCEPT ![h] = "enabled"] /\ UNCHANGED disk
     \/ disk' = [disk EXCEPT ![h] = [id |-> proc[h].id, cred |-> proc[h].cred]] /\ UNCHANGED unit
  /\ UNCHANGED <<row, serverVars, linkVars>>

-----------------------------------------------------------------------------
(* The service.                                                            *)

\* Restart=always. Without saved credentials and without a token the agent ends at once.
StartService(h) ==
  /\ unit[h] = "enabled" /\ proc[h].phase = "off"
  /\ disk[h] # NoConfig
  /\ proc' = [proc EXCEPT ![h] = [phase |-> "running", id |-> disk[h].id, cred |-> disk[h].cred]]
  /\ UNCHANGED <<row, serverVars, linkVars, disk, unit, faults>>

\* agent_connect. Unauthorized connections are closed and tried again for ever.
Accepted(h) == proc[h].id \in Present /\ row[proc[h].id].cred = proc[h].cred

ConnectFirst(h) ==      \* mutant: an agent that is in the map is not registered again
  /\ server = "up" /\ proc[h].phase = "running" /\ h \notin linked
  /\ Accepted(h) /\ agentConn[proc[h].id] = NoHost
  /\ linked' = linked \cup {h}
  /\ agentConn' = [agentConn EXCEPT ![proc[h].id] = h]
  /\ UNCHANGED <<row, serverVars, told, hostVars, faults>>

Connect(h) ==
  /\ server = "up" /\ proc[h].phase = "running" /\ h \notin linked
  /\ Accepted(h)
  /\ linked' = linked \cup {h}
  /\ agentConn' = [agentConn EXCEPT ![proc[h].id] = h]
  /\ UNCHANGED <<row, serverVars, told, hostVars, faults>>

LoseLink(h) ==
  /\ h \in linked
  /\ faults < MaxFaults /\ faults' = faults + 1
  /\ Unlink(h)
  /\ UNCHANGED <<row, serverVars, hostVars>>

ExitService(h) ==
  /\ proc[h].phase = "running"
  /\ faults < MaxFaults /\ faults' = faults + 1
  /\ proc' = [proc EXCEPT ![h] = NoProc]
  /\ Unlink(h)
  /\ UNCHANGED <<row, serverVars, disk, unit>>

\* uninstallSelf: systemctl stop ends the process that called it, before it has
\* disabled and removed the unit or after. The config of install.sh is not in
\* the directory that is removed.
Uninstall(h) ==
  /\ h \in told
  /\ \E u \in {"none", "stopped"} : unit' = [unit EXCEPT ![h] = u]
  /\ proc' = [proc EXCEPT ![h] = NoProc]
  /\ Unlink(h)
  /\ UNCHANGED <<row, serverVars, disk, faults>>

Boot(h) ==
  /\ unit[h] = "stopped" /\ proc[h].phase = "off"
  /\ unit' = [unit EXCEPT ![h] = "enabled"]
  /\ UNCHANGED <<row, serverVars, linkVars, disk, proc, faults>>

-----------------------------------------------------------------------------
Process(h) ==
  \/ CheckRegistration(h) \/ FinishRegistration(h) \/ SaveConfig(h)
  \/ StartService(h) \/ Connect(h) \/ Uninstall(h)

Next ==
  \/ StartServer \/ WriteCert \/ ServerDies \/ ChangeLicence \/ DiesInUpload
  \/ \E id \in Ids : MakeToken(id) \/ DeleteAgent(id) \/ \E h \in Hosts : RunInstaller(h, id)
  \/ \E h \in Hosts :
       Process(h) \/ RegistrationCutShort(h) \/ LoseLink(h) \/ ExitService(h) \/ Boot(h)

Spec == Init /\ [][Next]_vars

\* The service managers start what they are to start, main() and the handlers
\* run, an agent connects as often as it must.
Fairness ==
  /\ WF_vars(StartServer) /\ WF_vars(WriteCert)
  /\ \A h \in Hosts :
       WF_vars(CheckRegistration(h) \/ FinishRegistration(h) \/ SaveConfig(h))
         /\ WF_vars(StartService(h)) /\ WF_vars(Connect(h))

FairSpec == Spec /\ Fairness
-----------------------------------------------------------------------------
\* Type correctness of rows, files, units and processes.
TypeOK ==
  /\ row \in [Ids -> Row]
  /\ lastCred \in 0..MaxCreds /\ issuer \in [Creds -> Nat]
  /\ seats \in Nat
  /\ server \in {"down", "keyed", "up"} /\ caKey \in Nat /\ caCert \in Nat
  /\ agentConn \in [Ids -> Hosts \cup {NoHost}]
  /\ linked \subseteq Hosts /\ told \subseteq Hosts
  /\ disk \in [Hosts -> [id : Ids \cup {NoId}, cred : 0..MaxCreds]]
  /\ unit \in [Hosts -> {"none", "enabled", "stopped"}]
  /\ proc \in [Hosts -> Proc]
  /\ faults \in 0..MaxFaults

\* Whatever start of the server wrote the CA, and however many of them ended
\* between the key and the certificate (certs.ts:22-61), all agents that hold
\* credentials hold them, and the CA certificate that came along, from the CA
\* the server has on disk; a server that is up has a matching pair.
IssuedByCurrentCA ==
  /\ \A h \in Hosts : disk[h] # NoConfig => issuer[disk[h].cred] = caCert
  /\ server = "up" => caKey = caCert

\* "revoke registration token after use" (agents.ts:103): credentials in use
\* are replaced only by a registration that had passed its checks before they
\* were issued, and a deleted row stays so, whatever was under way.
RegisterOnce ==
  [][\A id \in Ids : row'[id] # row[id] =>
       /\ row[id].state # "deleted"
       /\ row[id].cred # 0 => \/ row'[id].state = "deleted"
                              \/ \E h \in Hosts : /\ proc[h].phase = "issuing" /\ proc[h].id = id
                                                  /\ proc[h].cred = 0]_vars

Usable(h) == disk[h] # NoConfig /\ disk[h].id \in Present /\ row[disk[h].id].cred = disk[h].cred

\* A host with an enabled service and credentials that are the row's comes
\* online without help, over restarts of both sides (main.go:140-206), even
\* when another host holds the connection of the same id.
ServiceComesOnline ==
  \A h \in Hosts :
    (unit[h] = "enabled" /\ Usable(h)) ~> (h \in linked \/ unit[h] # "enabled" \/ ~Usable(h))
=============================================================================
