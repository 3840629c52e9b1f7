----------------------------- MODULE K8sAgent -----------------------------
(***************************************************************************)
(* The agent for Kubernetes: its registration and the four files that keep *)
(* its credentials over restarts, its connection, its copy of the jobs,    *)
(* and its backups, each to the first destination of the job.              *)
(*                                                                         *)
(* It ignores every message but run_job and sync_jobs, and answers restore *)
(* for no job, as the server names none. The connection is up or lost for  *)
(* both sides at once, and a message and its handler are one step          *)
(* (AgentLink). Every job has a schedule and is enabled; which schedules   *)
(* the agent's parser accepts may be another set at each fetch (JobSync).  *)
(* The repository of a destination is shared by its jobs: the suffix of a  *)
(* job is not looked at. Retention, never passed on, removes nothing.      *)
(*                                                                         *)
(* Bounds: MaxFires backups by schedule; MaxFaults edits of jobs, deaths,  *)
(* lost links and answers, failures of a disk, of a fetch or of restic.    *)
(***************************************************************************)
EXTENDS Integers, Sequences, FiniteSets

CONSTANTS Jobs, Dests, NoDest, Snaps, MaxFires, MaxFaults

ASSUME K8sAssumption ==
  NoDest \notin Dests /\ Jobs # {} /\ "none" \notin Jobs /\ MaxFires \in Nat /\ MaxFaults \in Nat

VARIABLES
  regToken,  \* database: the registration token of the secret is still valid
  dest,      \* database: first destination of each job; "gone": deleted
  row,       \* database: snapshots
  repo,      \* storage: the job whose password opens a destination's repository
  files,     \* volume: files of credentials
  pod,       \* container: what its main goroutine does; api: it has the API token
  todo,      \* container: files that SaveCerts has yet to write
  link,      \* the WebSocket
  due,       \* container: syncJobs has been called or asked for
  entries,   \* container: the scheduler's entries, with the job as it was
  runs,      \* container: goroutines of backups
  cut,       \* history: rows that were running when a connection ended
  fires, faults

server    == <<regToken, dest, row, repo>>
container == <<pod, todo, link, due, entries, runs>>
k8sVars      == <<server, files, container, cut, fires, faults>>

Files == <<"cert", "key", "ca", "token">>
Known == Dests \cup {NoDest}          \* what the server sends of an existing job

Snapshot == [status : {"none", "running", "success", "failed", "deleted"}, job : Jobs \cup {"none"}]
Pod == [phase : {"down", "asking", "saving", "up"}, api : BOOLEAN]
Run == [id : Snaps \cup (1..MaxFires), job : Jobs, linked : BOOLEAN, dest : Known,
        phase : {"fetch", "start", "config", "init", "save"}]

Down     == [phase |-> "down", api |-> FALSE]
NoEntry  == [j \in Jobs |-> "none"]

K8sInit ==
  /\ regToken = TRUE
  /\ dest \in [Jobs -> Dests]
  /\ row = [s \in Snaps |-> [status |-> "none", job |-> "none"]]
  /\ repo = [d \in Dests |-> "none"]
  /\ files = {}
  /\ pod = Down /\ todo = <<>> /\ link = FALSE /\ due = FALSE
  /\ entries = NoEntry /\ runs = {}
  /\ cut = {} /\ fires = 0 /\ faults = 0

Fault == faults < MaxFaults /\ faults' = faults + 1

-----------------------------------------------------------------------------
(* Start and registration.                                                 *)

Registered == {"cert", "key"} \subseteq files

\* LoadCerts reads the CA and the API token only with certificate and key; with
\* neither these nor a valid token, the container exits and is started again.
BootTokenless ==     \* mutant: LoadCerts does not read the API token
  /\ pod = Down
  /\ Registered \/ regToken
  /\ pod' = [phase |-> IF Registered THEN "up" ELSE "asking", api |-> FALSE]
  /\ UNCHANGED <<server, files, todo, link, due, entries, runs, cut, fires, faults>>

Boot ==
  /\ pod = Down
  /\ Registered \/ regToken
  /\ pod' = [phase |-> IF Registered THEN "up" ELSE "asking", api |-> Registered /\ "token" \in files]
  /\ UNCHANGED <<server, files, todo, link, due, entries, runs, cut, fires, faults>>

\* POST /agents/register; the answer may be lost, and with it the token.
RegisterAgent ==
  /\ pod.phase = "asking"
  /\ regToken' = FALSE
  /\ \/ pod' = [phase |-> "saving", api |-> TRUE] /\ todo' = Files /\ UNCHANGED faults
     \/ Fault /\ pod' = Down /\ UNCHANGED todo
  /\ UNCHANGED <<dest, row, repo, files, link, due, entries, runs, cut, fires>>

\* SaveCerts: one file after the other, up to the first error, which is logged.
SaveCerts ==
  /\ pod.phase = "saving"
  /\ \/ /\ todo # <<>>
        /\ files' = files \cup {Head(todo)} /\ todo' = Tail(todo)
        /\ UNCHANGED <<pod, faults>>
     \/ /\ (todo = <<>> /\ UNCHANGED faults) \/ (todo # <<>> /\ Fault)
        /\ pod' = [pod EXCEPT !.phase = "up"] /\ todo' = <<>>
        /\ UNCHANGED files
  /\ UNCHANGED <<server, link, due, entries, runs, cut, fires>>

\* Without the API token the server closes the connection at once (4001).
Connect ==
  /\ pod.phase = "up" /\ pod.api /\ ~link
  /\ link' = TRUE /\ due' = TRUE
  /\ UNCHANGED <<server, files, pod, todo, entries, runs, cut, fires, faults>>

-----------------------------------------------------------------------------
(* Jobs.                                                                   *)

EditJob(j) ==
  /\ Fault
  /\ dest[j] # "gone"
  /\ \E d \in Known : dest' = [dest EXCEPT ![j] = d]
  /\ due' = (due \/ link)
  /\ UNCHANGED <<regToken, row, repo, files, pod, todo, link, entries, runs, cut, fires>>

\* DELETE /jobs/:id: refused while there is a row of the job.
DeleteJob(j) ==
  /\ dest[j] # "gone"
  /\ \A s \in Snaps : row[s].job = j => row[s].status = "deleted"
  /\ dest' = [dest EXCEPT ![j] = "gone"]
  /\ due' = (due \/ link)
  /\ UNCHANGED <<regToken, row, repo, files, pod, todo, link, entries, runs, cut, fires, faults>>

SyncUnfiltered ==     \* mutant: an entry for a job that is gone
  /\ due /\ due' = FALSE
  /\ \/ entries' = dest /\ UNCHANGED faults
     \/ Fault /\ UNCHANGED entries
  /\ UNCHANGED <<server, files, pod, todo, link, runs, cut, fires>>

\* If the jobs are not fetched, the entries stay. A job whose schedule AddFunc
\* refuses, an error that is ignored, gets none.
SyncJobs ==
  /\ due
  /\ \/ /\ \E accepted \in SUBSET Jobs :
             entries' = [j \in Jobs |-> IF dest[j] = "gone" \/ j \notin accepted THEN "none" ELSE dest[j]]
        /\ UNCHANGED faults
     \/ Fault /\ UNCHANGED entries
  /\ due' = FALSE
  /\ UNCHANGED <<server, files, pod, todo, link, runs, cut, fires>>

-----------------------------------------------------------------------------
(* Backups.                                                                *)

RunJob(s, j) ==
  /\ row[s].status = "none"
  /\ dest[j] # "gone"
  /\ row' = [row EXCEPT ![s] = [status |-> IF link THEN "running" ELSE "failed", job |-> j]]
  /\ runs' = IF link THEN runs \cup {[id |-> s, job |-> j, linked |-> TRUE, phase |-> "fetch", dest |-> NoDest]}
                     ELSE runs
  /\ UNCHANGED <<regToken, dest, repo, files, pod, todo, link, due, entries, cut, fires, faults>>

\* An entry fires, connected or not, under an id that has no row.
FireSchedule(j) ==
  /\ entries[j] # "none" /\ fires < MaxFires
  /\ fires' = fires + 1
  /\ runs' = runs \cup {[id |-> fires + 1, job |-> j, linked |-> FALSE, phase |-> "start", dest |-> entries[j]]}
  /\ UNCHANGED <<server, files, pod, todo, link, due, entries, cut, faults>>

DeleteSnapshot(s) ==
  /\ row[s].status \notin {"none", "deleted"}
  /\ row' = [row EXCEPT ![s].status = "deleted"]
  /\ UNCHANGED <<regToken, dest, repo, files, container, cut, fires, faults>>

\* sendSnapshotDone over the connection of the request, and the server's UPDATE.
Finish(t, status) ==
  /\ runs' = runs \ {t}
  /\ row' = IF t.linked /\ row[t.id].status # "deleted"
            THEN [row EXCEPT ![t.id].status = status] ELSE row

Goto(t, phase) == runs' = (runs \ {t}) \cup {[t EXCEPT !.phase = phase]} /\ UNCHANGED row

Silently(t) == runs' = runs \ {t} /\ UNCHANGED row

Begin(t) == runs' = (runs \ {t}) \cup {[t EXCEPT !.phase = "start", !.dest = dest[t.job]]}

FetchSilently(t) ==     \* mutant: a failed fetch is only logged
  /\ t.phase = "fetch"
  /\ \/ dest[t.job] # "gone" /\ Begin(t) /\ UNCHANGED <<row, faults>>
     \/ dest[t.job] = "gone" /\ Finish(t, "failed") /\ UNCHANGED faults
     \/ Fault /\ Silently(t)
  /\ UNCHANGED repo

\* The goroutine of run_job looks for the job among those it fetches.
Fetch(t) ==
  /\ t.phase = "fetch"
  /\ \/ dest[t.job] # "gone" /\ Begin(t) /\ UNCHANGED <<row, faults>>
     \/ dest[t.job] = "gone" /\ Finish(t, "failed") /\ UNCHANGED faults
     \/ Fault /\ Finish(t, "failed")
  /\ UNCHANGED repo

\* runBackup, then the export of resources; archives of volumes may fail.
Export(t) ==
  /\ t.phase = "start"
  /\ \/ t.dest = NoDest /\ Finish(t, "failed") /\ UNCHANGED faults
     \/ t.dest # NoDest /\ Fault /\ Finish(t, "failed")
     \/ t.dest # NoDest /\ Goto(t, "config") /\ UNCHANGED faults
  /\ UNCHANGED repo

\* restic cat config: the repository is there and opens, or restic init it is.
CatConfig(t) ==
  /\ t.phase = "config"
  /\ Goto(t, IF repo[t.dest] = t.job THEN "save" ELSE "init")
  /\ UNCHANGED <<repo, faults>>

\* A repository of another job, or one made meanwhile, is not made again.
InitRepo(t) ==
  /\ t.phase = "init"
  /\ \/ repo[t.dest] = "none" /\ repo' = [repo EXCEPT ![t.dest] = t.job] /\ Goto(t, "save") /\ UNCHANGED faults
     \/ repo[t.dest] # "none" /\ Finish(t, "failed") /\ UNCHANGED <<repo, faults>>
     \/ Fault /\ Finish(t, "failed") /\ UNCHANGED repo

\* restic backup; it is not tried again.
RunRestic(t) ==
  /\ t.phase = "save"
  /\ \/ Finish(t, "success") /\ UNCHANGED faults
     \/ Finish(t, "failed") /\ Fault
  /\ UNCHANGED repo

Step(t) ==
  /\ Fetch(t) \/ Export(t) \/ CatConfig(t) \/ InitRepo(t) \/ RunRestic(t)
  /\ UNCHANGED <<regToken, dest, files, pod, todo, link, due, entries, cut, fires>>

-----------------------------------------------------------------------------
(* Failures.                                                               *)

Running == {s \in Snaps : row[s].status = "running"}

\* The network, or the server's process; a message not yet read is lost too.
LoseLink ==
  /\ link /\ Fault
  /\ link' = FALSE
  /\ cut' = cut \cup Running
  /\ \E lost \in SUBSET {t \in runs : t.linked /\ t.phase = "fetch"} :
       runs' = {[t EXCEPT !.linked = FALSE] : t \in runs \ lost}
  /\ due' \in {due, FALSE}
  /\ UNCHANGED <<server, files, pod, todo, entries, fires>>

\* The container ends; if the pod goes to another node, so does its emptyDir.
PodDies ==
  /\ pod # Down /\ Fault
  /\ pod' = Down /\ todo' = <<>> /\ link' = FALSE /\ due' = FALSE
  /\ entries' = NoEntry /\ runs' = {}
  /\ cut' = cut \cup Running
  /\ files' \in {files, {}}
  /\ UNCHANGED <<server, fires>>

K8sNext ==
  \/ Boot \/ RegisterAgent \/ SaveCerts \/ Connect \/ SyncJobs
  \/ \E j \in Jobs : EditJob(j) \/ DeleteJob(j) \/ FireSchedule(j) \/ \E s \in Snaps : RunJob(s, j)
  \/ \E s \in Snaps : DeleteSnapshot(s)
  \/ \E t \in runs : Step(t)
  \/ LoseLink \/ PodDies

K8sSpec == K8sInit /\ [][K8sNext]_k8sVars

\* Kubernetes starts the container again, connectWithRetry tries for ever, and
\* restic ends: a goroutine that can go on does.
Fairness ==
  /\ WF_k8sVars(Boot) /\ WF_k8sVars(RegisterAgent) /\ WF_k8sVars(SaveCerts) /\ WF_k8sVars(Connect)
  /\ \A s \in Snaps : WF_k8sVars(\E t \in runs : t.id = s /\ Step(t))

FairSpec == K8sSpec /\ Fairness
-----------------------------------------------------------------------------
\* Type correctness of database, volume, container and goroutines; an entry or
\* a goroutine names only a destination the job had.
K8sTypeOK ==
  /\ regToken \in BOOLEAN /\ dest \in [Jobs -> Known \cup {"gone"}]
  /\ row \in [Snaps -> Snapshot] /\ repo \in [Dests -> Jobs \cup {"none"}]
  /\ files \subseteq {Files[i] : i \in DOMAIN Files}
  /\ pod \in Pod /\ \E n \in 0..Len(Files) : todo = SubSeq(Files, n + 1, Len(Files))
  /\ link \in BOOLEAN /\ due \in BOOLEAN
  /\ entries \in [Jobs -> Known \cup {"none"}]
  /\ runs \subseteq Run /\ cut \subseteq Snaps
  /\ fires \in 0..MaxFires /\ faults \in 0..MaxFaults

\* A backup that was asked for and reached the agent comes to an end in its row
\* unless the connection it was asked over is lost: whatever fails on the way
\* (main.go:188-199, 256-300), whoever else uses the repository.
ManualRunResolves ==
  \A s \in Snaps : row[s].status = "running" ~> (row[s].status # "running" \/ s \in cut)

HasCredentials == \/ {"cert", "key", "token"} \subseteq files
                  \/ pod.phase = "up" /\ pod.api

\* "so they survive pod restarts" (config.go:78): an agent that has its
\* credentials on its volume, or goes on without having saved them, connects,
\* again and again, over deaths of the container and lost links; unless it
\* loses them with its pod or its memory.
ComesBack == HasCredentials ~> (link \/ ~HasCredentials)
=============================================================================
