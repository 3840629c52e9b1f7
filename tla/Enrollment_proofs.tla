-------------------------- MODULE Enrollment_proofs --------------------------
(* Proofs about Enrollment, for every number of ids, hosts, credentials    *)
(* and failures, and every licence.                                        *)
EXTENDS Enrollment, TLAPS

-----------------------------------------------------------------------------
(* Inductive invariant.                                                    *)

\* The certificate is written last: where there is one, it is the key's, and
\* only a server that has none is between the two files.
CaInOrder ==
  /\ caCert # 0 => caKey = caCert
  /\ server = "up" => caCert # 0
  /\ server = "keyed" => caCert = 0 /\ caKey # 0

\* A token is valid until the first credentials of its row.
TokenFirst ==
  \A id \in Ids : /\ row[id].token => row[id].cred = 0
                  /\ row[id].state = "unused" => row[id].cred = 0

\* A request that has passed its checks found no credentials, and ends with the server.
IssuingFirst ==
  \A h \in Hosts : proc[h].phase = "issuing" => server = "up" /\ proc[h].cred = 0

Given(c) == c \in 1..lastCred

\* Credentials come from the CA there is, and nobody holds others.
CredsGiven ==
  /\ \A c \in Creds : Given(c) => issuer[c] = caCert /\ caCert # 0
  /\ \A h \in Hosts : /\ proc[h].phase = "answered" => Given(proc[h].cred)
                      /\ disk[h] # NoConfig => Given(disk[h].cred)

EnrollInv == TypeOK /\ CaInOrder /\ TokenFirst /\ IssuingFirst /\ CredsGiven

LEMMA InitInv == ASSUME Init PROVE EnrollInv
<1>1. 0 \in 0..MaxCreds /\ 0 \in 0..MaxFaults
  BY EnrollmentAssumption
<1>2. NoProc \in Proc /\ NoConfig \in [id : Ids \cup {NoId}, cred : 0..MaxCreds]
  BY <1>1 DEF NoProc, NoConfig, Proc
<1>3. TypeOK
  BY <1>1, <1>2 DEF Init, TypeOK, Row, Community
<1>4. CaInOrder /\ TokenFirst /\ IssuingFirst
  BY DEF Init, CaInOrder, TokenFirst, IssuingFirst, NoProc
<1>5. CredsGiven
  BY DEF Init, CredsGiven, Given, NoProc
<1>6. QED
  BY <1>3, <1>4, <1>5 DEF EnrollInv

-----------------------------------------------------------------------------
(* Types.                                                                  *)

LEMMA UnlinkTypes ==
  ASSUME TypeOK, NEW h \in Hosts, Unlink(h)
  PROVE  /\ agentConn' \in [Ids -> Hosts \cup {NoHost}]
         /\ linked' \subseteq Hosts /\ told' \subseteq Hosts
  BY DEF TypeOK, Unlink

\* A host's process, unit or config is replaced by one of its type.
LEMMA HostTypes ==
  ASSUME TypeOK, NEW h \in Hosts
  PROVE  /\ \A q \in Proc : [proc EXCEPT ![h] = q] \in [Hosts -> Proc]
         /\ \A u \in {"none", "enabled", "stopped"} :
              [unit EXCEPT ![h] = u] \in [Hosts -> {"none", "enabled", "stopped"}]
         /\ \A c \in [id : Ids \cup {NoId}, cred : 0..MaxCreds] :
              [disk EXCEPT ![h] = c] \in [Hosts -> [id : Ids \cup {NoId}, cred : 0..MaxCreds]]
         /\ proc[h].id \in Ids \cup {NoId} /\ proc[h].cred \in 0..MaxCreds
         /\ disk[h].id \in Ids \cup {NoId} /\ disk[h].cred \in 0..MaxCreds
         /\ NoProc \in Proc /\ unit[h] \in {"none", "enabled", "stopped"}
<1>1. proc[h] \in Proc /\ disk[h] \in [id : Ids \cup {NoId}, cred : 0..MaxCreds]
  BY DEF TypeOK
<1>2. NoProc \in Proc
  BY EnrollmentAssumption DEF NoProc, Proc
<1>3. QED
  BY <1>1, <1>2 DEF TypeOK, Proc

LEMMA DiesTypes ==
  ASSUME TypeOK, Dies, seats' \in Nat PROVE TypeOK'
<1>1. proc' \in [Hosts -> Proc]
  BY HostTypes DEF Dies, TypeOK
<1>2. faults' \in 0..MaxFaults
  BY EnrollmentAssumption DEF Dies, TypeOK
<1>3. QED
  BY <1>1, <1>2 DEF Dies, TypeOK

LEMMA ServerTypes ==
  ASSUME TypeOK,
         \/ StartServer
         \/ WriteCert
         \/ ServerDies
         \/ ChangeLicence
         \/ DiesInUpload
         \/ \E id \in Ids : MakeToken(id) \/ DeleteAgent(id)
  PROVE  TypeOK'
<1>1. CASE StartServer \/ WriteCert
  BY <1>1 DEF StartServer, WriteCert, TypeOK, linkVars, hostVars
<1>2. CASE ServerDies
  BY <1>2, DiesTypes DEF ServerDies, TypeOK
<1>3. CASE DiesInUpload
  BY <1>3, DiesTypes DEF DiesInUpload, Community
<1>4. CASE ChangeLicence
  BY <1>4, EnrollmentAssumption DEF ChangeLicence, TypeOK, Community, linkVars, hostVars
<1>5. ASSUME NEW id \in Ids, MakeToken(id) PROVE TypeOK'
  <2>1. [state |-> "present", token |-> TRUE, cred |-> 0] \in Row
    BY EnrollmentAssumption DEF Row
  <2>2. QED
    BY <1>5, <2>1 DEF MakeToken, TypeOK, serverVars, linkVars, hostVars
<1>6. ASSUME NEW id \in Ids, DeleteAgent(id) PROVE TypeOK'
  <2>1. [state |-> "deleted", token |-> FALSE, cred |-> 0] \in Row
    BY EnrollmentAssumption DEF Row
  <2>2. told' \subseteq Hosts
    BY <1>6 DEF DeleteAgent, TypeOK
  <2>3. QED
    BY <1>6, <2>1, <2>2 DEF DeleteAgent, TypeOK, serverVars, hostVars
<1>7. QED
  BY <1>1, <1>2, <1>3, <1>4, <1>5, <1>6

LEMMA RegistrationTypes ==
  ASSUME TypeOK, NEW h \in Hosts,
         \/ \E id \in Ids : RunInstaller(h, id)
         \/ CheckRegistration(h)
         \/ FinishRegistration(h)
         \/ SaveConfig(h)
         \/ RegistrationCutShort(h)
  PROVE  TypeOK'
<1>1. ASSUME NEW id \in Ids, RunInstaller(h, id) PROVE TypeOK'
  <2>1. [phase |-> "asking", id |-> id, cred |-> 0] \in Proc
    BY EnrollmentAssumption DEF Proc
  <2>2. proc' \in [Hosts -> Proc] /\ unit' \in [Hosts -> {"none", "enabled", "stopped"}]
    BY <1>1, <2>1, HostTypes DEF RunInstaller, TypeOK
  <2>3. QED
    BY <1>1, <2>2, UnlinkTypes DEF RunInstaller, TypeOK, serverVars
<1>2. CASE CheckRegistration(h)
  <2>1. ASSUME TokenValid(proc[h].id)
        PROVE  [phase |-> "issuing", id |-> proc[h].id, cred |-> row[proc[h].id].cred] \in Proc
    BY <2>1 DEF TokenValid, Present, TypeOK, Row, Proc
  <2>2. proc' \in [Hosts -> Proc]
    BY <1>2, <2>1, HostTypes DEF CheckRegistration
  <2>3. QED
    BY <1>2, <2>2 DEF CheckRegistration, TypeOK, serverVars, linkVars
<1>3. CASE FinishRegistration(h)
  <2>1. lastCred' \in 0..MaxCreds /\ lastCred' \in Creds /\ lastCred' = lastCred + 1
    BY <1>3, EnrollmentAssumption DEF FinishRegistration, Finish, TypeOK, Creds
  <2>2. issuer' \in [Creds -> Nat]
    BY <1>3, <2>1 DEF FinishRegistration, Finish, TypeOK
  <2>3. ASSUME proc[h].id \in Ids PROVE RegisteredRow(proc[h].id, lastCred + 1) \in Row
    <3>1. row[proc[h].id] \in Row
      BY <2>3 DEF TypeOK
    <3>2. QED
      BY <2>1, <3>1 DEF RegisteredRow, Row
  <2>4. row' \in [Ids -> Row]
    BY <1>3, <2>3 DEF FinishRegistration, Finish, TypeOK
  <2>5. [proc[h] EXCEPT !.phase = "answered", !.cred = lastCred'] \in Proc
    <3>1. proc[h] \in Proc
      BY DEF TypeOK
    <3>2. QED
      BY <2>1, <3>1 DEF Proc
  <2>6. proc' = [proc EXCEPT ![h] = [proc[h] EXCEPT !.phase = "answered", !.cred = lastCred']]
    BY <1>3 DEF FinishRegistration, Finish, TypeOK
  <2>7. proc' \in [Hosts -> Proc]
    BY <2>5, <2>6, HostTypes
  <2>8. QED
    BY <1>3, <2>1, <2>2, <2>4, <2>7 DEF FinishRegistration, Finish, TypeOK, linkVars
<1>4. ASSUME NEW c, c = [id |-> proc[h].id, cred |-> proc[h].cred]
      PROVE  c \in [id : Ids \cup {NoId}, cred : 0..MaxCreds]
  BY <1>4, HostTypes
<1>5. CASE SaveConfig(h)
  BY <1>4, <1>5, HostTypes DEF SaveConfig, TypeOK, serverVars, linkVars
<1>6. CASE RegistrationCutShort(h)
  <2>1. faults' \in 0..MaxFaults
    BY <1>6, EnrollmentAssumption DEF RegistrationCutShort, TypeOK
  <2>2. /\ disk' \in [Hosts -> [id : Ids \cup {NoId}, cred : 0..MaxCreds]]
        /\ unit' \in [Hosts -> {"none", "enabled", "stopped"}] /\ proc' \in [Hosts -> Proc]
    BY <1>4, <1>6, HostTypes DEF RegistrationCutShort, TypeOK
  <2>3. QED
    BY <1>6, <2>1, <2>2 DEF RegistrationCutShort, TypeOK, serverVars, linkVars
<1>7. QED
  BY <1>1, <1>2, <1>3, <1>5, <1>6

LEMMA ServiceTypes ==
  ASSUME TypeOK, NEW h \in Hosts,
         \/ StartService(h)
         \/ Connect(h)
         \/ LoseLink(h)
         \/ ExitService(h)
         \/ Uninstall(h)
         \/ Boot(h)
  PROVE  TypeOK'
<1>1. CASE StartService(h)
  <2>1. [phase |-> "running", id |-> disk[h].id, cred |-> disk[h].cred] \in Proc
    BY HostTypes DEF Proc
  <2>2. QED
    BY <1>1, <2>1, HostTypes DEF StartService, TypeOK, serverVars, linkVars
<1>2. CASE Connect(h)
  BY <1>2 DEF Connect, TypeOK, serverVars, hostVars
<1>3. CASE LoseLink(h)
  <2>1. faults' \in 0..MaxFaults
    BY <1>3, EnrollmentAssumption DEF LoseLink, TypeOK
  <2>2. QED
    BY <1>3, <2>1, UnlinkTypes DEF LoseLink, TypeOK, serverVars, hostVars
<1>4. CASE ExitService(h)
  <2>1. faults' \in 0..MaxFaults
    BY <1>4, EnrollmentAssumption DEF ExitService, TypeOK
  <2>2. QED
    BY <1>4, <2>1, UnlinkTypes, HostTypes DEF ExitService, TypeOK, serverVars
<1>5. CASE Uninstall(h)
  <2>1. unit' \in [Hosts -> {"none", "enabled", "stopped"}] /\ proc' \in [Hosts -> Proc]
    BY <1>5, HostTypes DEF Uninstall
  <2>2. QED
    BY <1>5, <2>1, UnlinkTypes DEF Uninstall, TypeOK, serverVars
<1>6. CASE Boot(h)
  BY <1>6, HostTypes DEF Boot, TypeOK, serverVars, linkVars
<1>7. QED
  BY <1>1, <1>2, <1>3, <1>4, <1>5, <1>6

LEMMA NextTypes ==
  ASSUME TypeOK, [Next]_vars PROVE TypeOK'
<1>1. CASE UNCHANGED vars
  BY <1>1 DEF vars, serverVars, linkVars, hostVars, TypeOK
<1>2. QED
  BY <1>1, ServerTypes, RegistrationTypes, ServiceTypes DEF Next, Process

-----------------------------------------------------------------------------
(* The CA and the credentials.                                             *)

\* Steps that leave the CA and the credentials given as they are: no process begins
\* to issue or is answered, no config appears but from an answer.
LEMMA CredsStay ==
  ASSUME EnrollInv, UNCHANGED <<lastCred, issuer, caKey, caCert>>,
         CaInOrder',
         \A h \in Hosts :
           /\ proc'[h].phase = "issuing" => server' = "up" /\ proc'[h].cred = 0
           /\ proc'[h].phase = "answered"
                => proc[h].phase = "answered" /\ proc'[h].cred = proc[h].cred
           /\ disk'[h] # NoConfig => \/ disk'[h] = disk[h]
                                     \/ proc[h].phase = "answered" /\ disk'[h].cred = proc[h].cred,
         TokenFirst', TypeOK'
  PROVE  EnrollInv'
<1>1. IssuingFirst'
  BY DEF IssuingFirst
<1>2. CredsGiven'
  BY DEF EnrollInv, CredsGiven, Given
<1>3. QED
  BY <1>1, <1>2 DEF EnrollInv

LEMMA DiesInv ==
  ASSUME EnrollInv, Dies, TypeOK' PROVE EnrollInv'
<1>1. CaInOrder'
  BY DEF Dies, EnrollInv, CaInOrder
<1>2. TokenFirst'
  BY DEF Dies, EnrollInv, TokenFirst
<1>3. ASSUME NEW h \in Hosts
      PROVE  /\ proc'[h].phase # "issuing"
             /\ proc'[h].phase = "answered" => proc'[h] = proc[h]
  BY DEF Dies, NoProc
<1>4. UNCHANGED <<lastCred, issuer, caKey, caCert, disk>>
  BY DEF Dies
<1>5. QED
  BY <1>1, <1>2, <1>3, <1>4, CredsStay

\* A start of the server makes a new key only while there is no certificate, and
\* then no credentials were given.
LEMMA StartInv ==
  ASSUME EnrollInv, StartServer \/ WriteCert, TypeOK' PROVE EnrollInv'
<1>1. /\ UNCHANGED <<row, lastCred, issuer, proc, disk>>
      /\ server \in {"down", "keyed"}
  BY DEF StartServer, WriteCert, hostVars
<1>2. caKey \in Nat /\ caCert \in Nat
  BY DEF EnrollInv, TypeOK
<1>3. CaInOrder' /\ (caCert # 0 => caCert' = caCert)
  BY <1>2 DEF StartServer, WriteCert, EnrollInv, CaInOrder
<1>4. TokenFirst' /\ IssuingFirst'
  BY <1>1 DEF EnrollInv, TokenFirst, IssuingFirst
<1>5. CredsGiven'
  BY <1>1, <1>3 DEF EnrollInv, CredsGiven, Given
<1>6. QED
  BY <1>3, <1>4, <1>5 DEF EnrollInv

\* The rows of MakeToken and DeleteAgent hold no credentials.
LEMMA RowsInv ==
  ASSUME EnrollInv, NEW id \in Ids, MakeToken(id) \/ DeleteAgent(id), TypeOK' PROVE EnrollInv'
<1>1. row \in [Ids -> Row]
  BY DEF EnrollInv, TypeOK
<1>2. \A i \in Ids : row'[i] = row[i] \/ row'[i].cred = 0
  BY <1>1 DEF MakeToken, DeleteAgent
<1>3. TokenFirst'
  BY <1>2 DEF EnrollInv, TokenFirst
<1>4. UNCHANGED <<lastCred, issuer, server, caKey, caCert, proc, disk>>
  BY DEF MakeToken, DeleteAgent, serverVars, hostVars
<1>5. CaInOrder' /\ (\A h \in Hosts : proc[h].phase = "issuing" => server = "up" /\ proc[h].cred = 0)
  BY <1>4 DEF EnrollInv, CaInOrder, IssuingFirst
<1>6. QED
  BY <1>3, <1>4, <1>5, CredsStay

\* Steps of a host that write no row and no CA.
LEMMA HostInv ==
  ASSUME EnrollInv, NEW h \in Hosts, TypeOK',
         UNCHANGED <<row, lastCred, issuer, server, caKey, caCert>>,
         \A g \in Hosts : g # h => proc'[g] = proc[g] /\ disk'[g] = disk[g],
         proc'[h].phase = "issuing" => server = "up" /\ proc'[h].cred = 0,
         proc'[h].phase = "answered" => proc'[h] = proc[h],
         \/ disk'[h] = disk[h]
         \/ proc[h].phase = "answered" /\ disk'[h].cred = proc[h].cred
  PROVE  EnrollInv'
<1>1. CaInOrder' /\ TokenFirst'
  BY DEF EnrollInv, CaInOrder, TokenFirst
<1>2. ASSUME NEW g \in Hosts
      PROVE  /\ proc'[g].phase = "issuing" => server' = "up" /\ proc'[g].cred = 0
             /\ proc'[g].phase = "answered"
                  => proc[g].phase = "answered" /\ proc'[g].cred = proc[g].cred
             /\ disk'[g] # NoConfig => \/ disk'[g] = disk[g]
                                       \/ proc[g].phase = "answered" /\ disk'[g].cred = proc[g].cred
  <2>1. CASE g = h
    BY <2>1
  <2>2. CASE g # h
    BY <2>2 DEF EnrollInv, IssuingFirst
  <2>3. QED
    BY <2>1, <2>2
<1>3. QED
  BY <1>1, <1>2, CredsStay

LEMMA CheckInv ==
  ASSUME EnrollInv, NEW h \in Hosts, CheckRegistration(h), TypeOK' PROVE EnrollInv'
<1>1. proc \in [Hosts -> Proc]
  BY DEF EnrollInv, TypeOK
<1>2. ASSUME TokenValid(proc[h].id) PROVE row[proc[h].id].cred = 0
  BY <1>2 DEF TokenValid, Present, EnrollInv, TokenFirst
<1>3. /\ proc'[h].phase = "issuing" => server = "up" /\ proc'[h].cred = 0
      /\ proc'[h].phase # "answered"
  BY <1>1, <1>2 DEF CheckRegistration, NoProc
<1>4. QED
  BY <1>1, <1>3, HostInv DEF CheckRegistration, serverVars

LEMMA FinishInv ==
  ASSUME EnrollInv, NEW h \in Hosts, FinishRegistration(h), TypeOK' PROVE EnrollInv'
<1>1. /\ proc \in [Hosts -> Proc] /\ row \in [Ids -> Row] /\ issuer \in [Creds -> Nat]
      /\ lastCred \in 0..MaxCreds
  BY DEF EnrollInv, TypeOK
<1>2. proc[h].phase = "issuing" /\ server = "up" /\ caKey = caCert /\ caCert # 0
  BY DEF FinishRegistration, Finish, EnrollInv, IssuingFirst, CaInOrder
<1>3. /\ lastCred' = lastCred + 1 /\ issuer' = [issuer EXCEPT ![lastCred'] = caKey]
      /\ UNCHANGED <<server, caKey, caCert, disk>>
  BY DEF FinishRegistration, Finish
<1>4. /\ \A g \in Hosts : g # h => proc'[g] = proc[g]
      /\ proc'[h].phase = "answered" /\ proc'[h].cred = lastCred'
  <2>1. proc[h] \in Proc
    BY <1>1
  <2>2. QED
    BY <1>1, <2>1 DEF FinishRegistration, Finish, Proc
<1>5. CaInOrder' /\ IssuingFirst'
  BY <1>3, <1>4 DEF EnrollInv, CaInOrder, IssuingFirst
<1>6. TokenFirst'
  <2>1. ASSUME NEW id \in Ids, row'[id] # row[id]
        PROVE  row'[id].token = FALSE /\ row'[id].state = "present"
    <3>1. row[id] \in Row
      BY <1>1
    <3>2. id \in Present /\ row'[id] = [row[id] EXCEPT !.token = FALSE, !.cred = lastCred + 1]
      BY <1>1, <2>1 DEF FinishRegistration, Finish, RegisteredRow
    <3>3. row[id].state = "present"
      BY <3>2 DEF Present
    <3>4. QED
      BY <3>1, <3>2, <3>3 DEF Row
  <2>2. QED
    BY <2>1 DEF EnrollInv, TokenFirst
<1>7. CredsGiven'
  <2>1. ASSUME NEW c \in Creds, c \in 1..lastCred' PROVE issuer'[c] = caCert
    <3>1. CASE c = lastCred'
      <4>1. issuer'[lastCred'] = caKey
        BY <1>1, <1>3, <3>1
      <4>2. QED
        BY <1>2, <3>1, <4>1
    <3>2. CASE c # lastCred'
      <4>1. c \in 1..lastCred
        BY <1>1, <1>3, <2>1, <3>2 DEF Creds
      <4>2. QED
        BY <1>1, <1>3, <3>2, <4>1 DEF EnrollInv, CredsGiven, Given
    <3>3. QED
      BY <3>1, <3>2
  <2>2. \A c \in 1..lastCred : c \in 1..lastCred'
    BY <1>1, <1>3
  <2>3. lastCred' \in 1..lastCred'
    BY <1>1, <1>3
  <2>4. \A g \in Hosts : /\ proc'[g].phase = "answered" => proc'[g].cred \in 1..lastCred'
                         /\ disk'[g] # NoConfig => disk'[g].cred \in 1..lastCred'
    BY <1>3, <1>4, <2>2, <2>3 DEF EnrollInv, CredsGiven, Given
  <2>5. QED
    BY <1>2, <1>3, <2>1, <2>4 DEF CredsGiven, Given
<1>8. QED
  BY <1>5, <1>6, <1>7 DEF EnrollInv

LEMMA StepsOfHost ==
  ASSUME EnrollInv, NEW h \in Hosts, TypeOK',
         \/ \E id \in Ids : RunInstaller(h, id)
         \/ SaveConfig(h)
         \/ RegistrationCutShort(h)
         \/ StartService(h)
         \/ Connect(h)
         \/ LoseLink(h)
         \/ ExitService(h)
         \/ Uninstall(h)
         \/ Boot(h)
  PROVE  EnrollInv'
<1>1. proc \in [Hosts -> Proc] /\ disk \in [Hosts -> [id : Ids \cup {NoId}, cred : 0..MaxCreds]]
  BY DEF EnrollInv, TypeOK
<1>2. UNCHANGED <<row, lastCred, issuer, server, caKey, caCert>>
  BY DEF RunInstaller, SaveConfig, RegistrationCutShort, StartService, Connect, LoseLink,
         ExitService, Uninstall, Boot, serverVars
<1>3. /\ \A g \in Hosts : g # h => proc'[g] = proc[g]
      /\ proc'[h] = proc[h] \/ proc'[h].phase \in {"off", "asking", "running"}
  BY <1>1 DEF RunInstaller, SaveConfig, RegistrationCutShort, StartService, Connect, LoseLink,
              ExitService, Uninstall, Boot, hostVars, NoProc
<1>4. /\ \A g \in Hosts : g # h => disk'[g] = disk[g]
      /\ \/ disk'[h] = disk[h]
         \/ proc[h].phase = "answered" /\ disk'[h].cred = proc[h].cred
  BY <1>1 DEF RunInstaller, SaveConfig, RegistrationCutShort, StartService, Connect, LoseLink,
              ExitService, Uninstall, Boot, hostVars
<1>5. proc'[h].phase = "issuing" => server = "up" /\ proc'[h].cred = 0
  BY <1>3 DEF EnrollInv, IssuingFirst
<1>6. proc'[h].phase = "answered" => proc'[h] = proc[h]
  BY <1>3
<1>7. QED
  BY <1>2, <1>3, <1>4, <1>5, <1>6, HostInv

LEMMA NextInv ==
  ASSUME EnrollInv, [Next]_vars PROVE EnrollInv'
<1>1. TypeOK'
  BY NextTypes DEF EnrollInv
<1>2. CASE UNCHANGED vars
  BY <1>1, <1>2, CredsStay DEF vars, serverVars, linkVars, hostVars, EnrollInv, CaInOrder, TokenFirst,
                               IssuingFirst
<1>3. CASE ChangeLicence
  BY <1>1, <1>3, CredsStay DEF ChangeLicence, linkVars, hostVars, EnrollInv, CaInOrder, TokenFirst,
                               IssuingFirst
<1>4. CASE ServerDies \/ DiesInUpload
  BY <1>1, <1>4, DiesInv DEF ServerDies, DiesInUpload
<1>5. QED
  BY <1>1, <1>2, <1>3, <1>4, StartInv, RowsInv, CheckInv, FinishInv, StepsOfHost DEF Next, Process

-----------------------------------------------------------------------------
(* A token registers once.                                                 *)

Replaced(id) ==
  row'[id] # row[id] =>
    /\ row[id].state # "deleted"
    /\ row[id].cred # 0 => \/ row'[id].state = "deleted"
                           \/ \E h \in Hosts : /\ proc[h].phase = "issuing" /\ proc[h].id = id
                                               /\ proc[h].cred = 0

LEMMA StepReplaces ==
  ASSUME EnrollInv, [Next]_vars, NEW id \in Ids PROVE Replaced(id)
<1>1. row \in [Ids -> Row]
  BY DEF EnrollInv, TypeOK
<1>2. CASE row' = row
  BY <1>2 DEF Replaced
<1>3. ASSUME NEW i \in Ids, MakeToken(i) PROVE Replaced(id)
  <2>1. row[i].state = "unused" /\ row[i].cred = 0
    BY <1>3 DEF MakeToken, EnrollInv, TokenFirst
  <2>2. QED
    BY <1>1, <1>3, <2>1 DEF MakeToken, Replaced
<1>4. ASSUME NEW i \in Ids, DeleteAgent(i) PROVE Replaced(id)
  BY <1>1, <1>4 DEF DeleteAgent, Present, Replaced
<1>5. ASSUME NEW h \in Hosts, FinishRegistration(h) PROVE Replaced(id)
  <2>1. proc[h].phase = "issuing" /\ proc[h].cred = 0
    BY <1>5 DEF FinishRegistration, Finish, EnrollInv, IssuingFirst
  <2>2. row'[id] # row[id] => id = proc[h].id /\ row[id].state = "present"
    BY <1>1, <1>5 DEF FinishRegistration, Finish, RegisteredRow, Present
  <2>3. QED
    BY <2>1, <2>2 DEF Replaced
<1>6. ASSUME NEW h \in Hosts, RegistrationCutShort(h) \/ LoseLink(h) \/ ExitService(h) \/ Boot(h)
      PROVE  row' = row
  BY <1>6 DEF RegistrationCutShort, LoseLink, ExitService, Boot
<1>7. ASSUME NEW h \in Hosts, Process(h), ~FinishRegistration(h) PROVE row' = row
  BY <1>7 DEF Process, CheckRegistration, SaveConfig, StartService, Connect, Uninstall
<1>8. ASSUME NEW i \in Ids, NEW h \in Hosts, RunInstaller(h, i) PROVE row' = row
  BY <1>8 DEF RunInstaller
<1>9. CASE StartServer \/ WriteCert \/ ServerDies \/ ChangeLicence \/ DiesInUpload \/ UNCHANGED vars
  BY <1>2, <1>9 DEF StartServer, WriteCert, ServerDies, ChangeLicence, DiesInUpload, Dies, vars
<1>10. QED
  BY <1>2, <1>3, <1>4, <1>5, <1>6, <1>7, <1>8, <1>9 DEF Next

-----------------------------------------------------------------------------
\* Rows, files, units and processes keep their types, over every registration,
\* deletion, installation and failure (agents.ts, certs.ts, install.ts, main.go).
THEOREM TypeCorrect == Spec => []TypeOK
<1>1. Init => TypeOK
  BY InitInv DEF EnrollInv
<1>2. QED
  BY <1>1, NextTypes, PTL DEF Spec

\* All credentials that an agent holds come from the CA the server has on disk,
\* wherever a start of the server was cut short (certs.ts:22-61).
THEOREM OneCA == Spec => []IssuedByCurrentCA
<1>1. EnrollInv => IssuedByCurrentCA
  BY DEF EnrollInv, TypeOK, CaInOrder, CredsGiven, Given, Creds, IssuedByCurrentCA
<1>2. QED
  BY <1>1, InitInv, NextInv, PTL DEF Spec

\* A registration token replaces credentials in use only if its registration had
\* passed the checks before they were issued (agents.ts:87-106), and a deleted row
\* stays so.
THEOREM TokenUsedOnce == Spec => RegisterOnce
<1>1. EnrollInv /\ [Next]_vars =>
        [\A id \in Ids : row'[id] # row[id] =>
           /\ row[id].state # "deleted"
           /\ row[id].cred # 0 => \/ row'[id].state = "deleted"
                                  \/ \E h \in Hosts : /\ proc[h].phase = "issuing" /\ proc[h].id = id
                                                      /\ proc[h].cred = 0]_vars
  BY StepReplaces DEF Replaced
<1>2. QED
  BY <1>1, InitInv, NextInv, PTL DEF Spec, RegisterOnce
=============================================================================
