-------------------------- MODULE SnapshotStore --------------------------
(***************************************************************************)
(* The snapshots of one job and the data behind them: the rows of the      *)
(* snapshots table with their two kinds of lock (WORM and individual), the *)
(* requests that delete, lock and orphan them, the agent's forget and      *)
(* retention, which remove data from the restic repository, and the        *)
(* migration that runs at every start of the server.                       *)
(*                                                                         *)
(* A backup holds the configuration it started with for as long as it      *)
(* runs. The conversation that reports it is BackupRun's; here an outcome  *)
(* or a forget request is delivered or lost. Time is in days.              *)
(*                                                                         *)
(* Bounds: MaxId backups, MaxDay days, MaxResets resets of the repository. *)
(***************************************************************************)
EXTENDS Naturals, FiniteSets

CONSTANTS
  WormChoices, \* values of wormRetentionDays users set, 0 for WORM disabled
  LockChoices, \* days users lock snapshots for
  KeepLast,    \* retention policy of the job: backups kept, 0 for no policy
  MaxId,       \* bound on backups; they are numbered in the order they start
  MaxDay,      \* bound on the clock
  MaxResets    \* bound on resets of the repository path

ASSUME StoreAssumption ==
  /\ WormChoices \subseteq Nat /\ WormChoices # {}
  /\ LockChoices \subseteq Nat
  /\ KeepLast \in Nat
  /\ MaxId \in Nat
  /\ MaxDay \in Nat
  /\ MaxResets \in Nat

Ids   == 1..MaxId
Paths == 1..(MaxResets + 1)    \* repository paths; 0 is "nowhere"

VARIABLES
  now,     \* the clock
  worm,    \* database: the job's wormRetentionDays, 0 if not wormEnabled
  path,    \* database: the job's current repository path
  jobRow,  \* database: the job exists
  row,     \* database: the snapshots table
  data,    \* repositories: the path a backup's data is stored at
  runs,    \* agent: backups that run, with the configuration they fetched
  done,    \* snapshot_done messages in flight
  forgets  \* forget_snapshot requests in flight or running at the agent

vars == <<now, worm, path, jobRow, row, data, runs, done, forgets>>

Row == [status : {"none", "running", "success", "failed", "orphaned", "deleted"},
        started : Nat,
        wormUntil : Nat,      \* worm_locked_until, 0 for null
        lockUntil : Nat,      \* locked_until, 0 for null
        restic : BOOLEAN]     \* restic_snapshot_id is set

EmptyRow(status) ==
  [status |-> status, started |-> 0, wormUntil |-> 0, lockUntil |-> 0, restic |-> FALSE]

Run  == [id : Ids, fetched : BOOLEAN, worm : BOOLEAN, path : Paths]
Done == [id : Ids, status : {"success", "failed"}]

Present(r)   == r.status \notin {"none", "deleted"}
PresentIds   == {id \in Ids : Present(row[id])}
Stored(p)    == {id \in Ids : data[id] = p}

Init ==
  /\ now = 0
  /\ worm \in WormChoices
  /\ path = 1
  /\ jobRow = TRUE
  /\ row = [id \in Ids |-> EmptyRow("none")]
  /\ data = [id \in Ids |-> 0]
  /\ runs = {}
  /\ done = {}
  /\ forgets = {}

NextDay ==
  /\ now < MaxDay
  /\ now' = now + 1
  /\ UNCHANGED <<worm, path, jobRow, row, data, runs, done, forgets>>

\* PUT /jobs/:id with WORM settings: rows that exist are not touched.
SetWorm(days) ==
  /\ jobRow
  /\ worm' = days
  /\ UNCHANGED <<now, path, jobRow, row, data, runs, done, forgets>>

-----------------------------------------------------------------------------
(* A backup.                                                               *)

StartBackup(id) ==
  /\ jobRow
  /\ row[id].status = "none"
  /\ \A i \in Ids : i < id => row[i].status # "none"
  /\ row' = [row EXCEPT ![id] = [EmptyRow("running") EXCEPT !.started = now]]
  /\ runs' = runs \cup {[id |-> id, fetched |-> FALSE, worm |-> FALSE, path |-> path]}
  /\ UNCHANGED <<now, worm, path, jobRow, data, done, forgets>>

\* From here on the backup knows these settings only.
Configure(r, days, p) ==
  /\ ~r.fetched
  /\ runs' = (runs \ {r}) \cup {[r EXCEPT !.fetched = TRUE, !.worm = days > 0, !.path = p]}
  /\ UNCHANGED <<now, worm, path, jobRow, row, data, done, forgets>>

\* GET /internal/agents/:agentId/jobs/:jobId, for a manual backup.
FetchConfig(r) == jobRow /\ Configure(r, worm, path)

\* A scheduled backup has what the scheduler was given at its last sync: any
\* settings the job had until then, before this history begins or in it.
UseEntry(r) == \E days \in WormChoices, p \in 1..path : Configure(r, days, p)

\* restic forget --keep-last: the newest KeepLast backups of S stay.
Newest(S) == {id \in S : Cardinality({i \in S : i > id}) < KeepLast}

\* What may be left of the backups S at a path after backup r: retention is
\* skipped under WORM and without a policy, and its failure is ignored.
RetentionAlways(r, S) ==   \* mutant: the job's WORM setting is not looked at
  IF KeepLast = 0 THEN {S} ELSE {S, Newest(S)}

Retention(r, S) ==
  IF r.worm \/ KeepLast = 0 THEN {S} ELSE {S, Newest(S)}

Succeeds(r) ==
  /\ r.fetched
  /\ \E kept \in Retention(r, Stored(r.path) \cup {r.id}) :
       data' = [id \in Ids |-> IF id \in kept THEN r.path
                               ELSE IF data[id] = r.path THEN 0 ELSE data[id]]
  /\ runs' = runs \ {r}
  /\ done' = done \cup {[id |-> r.id, status |-> "success"]}
  /\ UNCHANGED <<now, worm, path, jobRow, row, forgets>>

Fails(r) ==
  /\ runs' = runs \ {r}
  /\ done' = done \cup {[id |-> r.id, status |-> "failed"]}
  /\ UNCHANGED <<now, worm, path, jobRow, row, data, forgets>>

\* The job's WORM setting of this moment locks the row of a success.
RecordOutcome(r, status) ==
  [r EXCEPT !.status = status,
            !.restic = (status = "success"),
            !.wormUntil = IF status = "success" /\ worm > 0 THEN now + worm
                          ELSE r.wormUntil]

\* snapshot_done: the row is updated, if it still exists.
HandleDone(m) ==
  /\ done' = done \ {m}
  /\ row' = [row EXCEPT ![m.id] =
               IF Present(row[m.id]) THEN RecordOutcome(row[m.id], m.status)
               ELSE row[m.id]]
  /\ UNCHANGED <<now, worm, path, jobRow, data, runs, forgets>>

LoseDone(m) ==
  /\ done' = done \ {m}
  /\ UNCHANGED <<now, worm, path, jobRow, row, data, runs, forgets>>

-----------------------------------------------------------------------------
(* Deletion.                                                               *)

DeletableByJob(r) ==   \* mutant: only the job's current setting is looked at
  /\ ~(worm > 0 /\ now < r.started + worm)
  /\ r.lockUntil <= now

\* The three checks of DELETE and bulk-delete: the row's WORM lock, for rows
\* without one the job's setting, and the individual lock.
Deletable(r) ==
  /\ r.wormUntil <= now
  /\ ~(r.wormUntil = 0 /\ worm > 0 /\ now < r.started + worm)
  /\ r.lockUntil <= now

\* DELETE /snapshots/:id (one id) and POST /snapshots/bulk-delete: locked rows
\* are refused or skipped; the agent is told, if it can be reached.
DeleteSnapshots(S) ==
  LET gone == {id \in S : Deletable(row[id])} IN
  /\ gone # {}
  /\ \/ UNCHANGED forgets
     \/ forgets' = forgets \cup {id \in gone : row[id].restic}
  /\ row' = [id \in Ids |-> IF id \in gone THEN EmptyRow("deleted") ELSE row[id]]
  /\ UNCHANGED <<now, worm, path, jobRow, data, runs, done>>

\* POST /snapshots/bulk-lock sets the end of the lock, earlier or later.
LockSnapshots(S, days) ==
  /\ S # {}
  /\ row' = [id \in Ids |-> IF id \in S THEN [row[id] EXCEPT !.lockUntil = now + days]
                            ELSE row[id]]
  /\ UNCHANGED <<now, worm, path, jobRow, data, runs, done, forgets>>

\* The agent looks at the job's current repository only, and may fail.
Forget(id) ==
  /\ id \in forgets
  /\ forgets' = forgets \ {id}
  /\ \/ jobRow /\ data[id] = path /\ data' = [data EXCEPT ![id] = 0]
     \/ UNCHANGED data
  /\ UNCHANGED <<now, worm, path, jobRow, row, runs, done>>

OrphanRow(r) == [r EXCEPT !.status = "orphaned"]

\* POST /jobs/:id/reset-repo: a new path, and every row of the job is marked.
ResetRepo ==
  /\ jobRow
  /\ path <= MaxResets
  /\ path' = path + 1
  /\ row' = [id \in Ids |-> IF Present(row[id]) THEN OrphanRow(row[id]) ELSE row[id]]
  /\ UNCHANGED <<now, worm, jobRow, data, runs, done, forgets>>

\* DELETE /jobs/:id, refused while the job has snapshots.
DeleteJob ==
  /\ jobRow
  /\ PresentIds = {}
  /\ jobRow' = FALSE
  /\ UNCHANGED <<now, worm, path, row, data, runs, done, forgets>>

\* DELETE /agents/:id: the job and its rows go with the agent.
DeleteAgent ==
  /\ jobRow
  /\ jobRow' = FALSE
  /\ row' = [id \in Ids |-> IF Present(row[id]) THEN EmptyRow("deleted") ELSE row[id]]
  /\ UNCHANGED <<now, worm, path, data, runs, done, forgets>>

-----------------------------------------------------------------------------
BackfillAll(r) ==      \* mutant: rows that have a lock are not left out
  IF r.status = "success" /\ worm > 0
  THEN [r EXCEPT !.wormUntil = @ + worm] ELSE r

\* The migration of initDb: successful rows without a WORM lock get one that
\* counts from their start, if the job has WORM enabled now.
Backfill(r) ==
  IF r.wormUntil = 0 /\ r.status = "success" /\ worm > 0
  THEN [r EXCEPT !.wormUntil = r.started + worm] ELSE r

\* A server start; what was in flight is lost.
Restart ==
  /\ row' = [id \in Ids |-> Backfill(row[id])]
  /\ done' = {}
  /\ UNCHANGED <<now, worm, path, jobRow, data, runs, forgets>>

Next ==
  \/ NextDay
  \/ \E days \in WormChoices : SetWorm(days)
  \/ \E id \in Ids : StartBackup(id) \/ Forget(id)
  \/ \E r \in runs : FetchConfig(r) \/ UseEntry(r) \/ Succeeds(r) \/ Fails(r)
  \/ \E m \in done : HandleDone(m) \/ LoseDone(m)
  \/ \E S \in SUBSET PresentIds :
       DeleteSnapshots(S) \/ \E days \in LockChoices : LockSnapshots(S, days)
  \/ ResetRepo
  \/ DeleteJob
  \/ DeleteAgent
  \/ Restart

Spec == Init /\ [][Next]_vars
-----------------------------------------------------------------------------
\* Type correctness of the rows, the repository and what is in flight.
TypeOK ==
  /\ now \in 0..MaxDay
  /\ worm \in WormChoices
  /\ path \in Paths
  /\ jobRow \in BOOLEAN
  /\ row \in [Ids -> Row]
  /\ data \in [Ids -> Paths \cup {0}]
  /\ runs \subseteq Run
  /\ done \subseteq Done
  /\ forgets \subseteq Ids

Locked(id) == Present(row[id]) /\ (row[id].wormUntil > now \/ row[id].lockUntil > now)

\* "never changes after that" (db/index.ts:289): a row's WORM lock, once set,
\* stays what it is through changes of the job, resets, locks and restarts,
\* as long as the row exists.
WormLockFixed ==
  [][\A id \in Ids : row[id].wormUntil # 0 /\ Present(row'[id])
                       => row'[id].wormUntil = row[id].wormUntil]_vars

\* No request but the deletion of the whole agent removes a row under either
\* lock (snapshots.ts:222-257, 292-308), whatever the job's settings were when
\* the lock was set and are now.
LockedRowsStay ==
  [][\A id \in Ids : Locked(id) /\ ~Present(row'[id]) => ~jobRow']_vars

\* As long as no backup runs with settings fetched while WORM was disabled
\* (restic.go:228-234), neither retention nor a late forget takes the data of
\* a row that is under a WORM lock.
WormBackupsSpareLocked ==
  [][\A id \in Ids :
       /\ \A r \in runs : r.fetched => r.worm
       /\ Present(row[id]) /\ row[id].wormUntil > now /\ data[id] # 0
       => data'[id] = data[id]]_vars

\* "disabling WORM on the job later does NOT unlock already-locked snapshots"
\* (snapshots.ts:223-224): the data of a row under a WORM lock stays.
LockedDataStays ==
  [][\A id \in Ids : Present(row[id]) /\ row[id].wormUntil > now /\ data[id] # 0
                       => data'[id] # 0]_vars
=============================================================================
