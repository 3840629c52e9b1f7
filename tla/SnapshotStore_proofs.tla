----------------------- MODULE SnapshotStore_proofs -----------------------
(* Proofs about SnapshotStore, for any number of backups, days and resets, *)
(* any retention of last backups and any WORM and lock periods.            *)
EXTENDS SnapshotStore, Pages, TLAPS

\* A row whose outcome has not been recorded: it carries no WORM lock.
Awaiting(r) == r.status \in {"running", "orphaned", "deleted"} /\ r.wormUntil = 0

\* Every backup has one outcome: it runs, or its one snapshot_done is in
\* flight, or neither, and until then its row has no WORM lock and there is
\* no data of it.
OneOutcome ==
  /\ \A r \in runs : Awaiting(row[r.id]) /\ data[r.id] = 0
  /\ \A m \in done : Awaiting(row[m.id])
  /\ \A r, q \in runs : r.id = q.id => r = q
  /\ \A m, q \in done : m.id = q.id => m = q
  /\ \A r \in runs, m \in done : r.id # m.id
  /\ \A id \in Ids : row[id].status = "none" => row[id].wormUntil = 0 /\ data[id] = 0

\* Only rows that have been deleted are forgotten.
ForgetsAreDeleted == \A id \in forgets : row[id].status = "deleted"

StoreInv == TypeOK /\ OneOutcome /\ ForgetsAreDeleted

LEMMA RowFacts ==
  /\ \A status \in {"none", "running", "deleted"} :
       EmptyRow(status) \in Row /\ EmptyRow(status).status = status
  /\ \A r \in Row : OrphanRow(r) \in Row /\ OrphanRow(r).status = "orphaned"
                    /\ OrphanRow(r).wormUntil = r.wormUntil
  BY DEF Row, EmptyRow, OrphanRow

LEMMA WormFacts == worm \in WormChoices => worm \in Nat
  BY StoreAssumption

\* However a backup gets its settings, they are some the job may have had.
LEMMA ConfigureFacts ==
  ASSUME TypeOK, NEW r, FetchConfig(r) \/ UseEntry(r)
  PROVE  \E days \in WormChoices, p \in Paths : Configure(r, days, p)
<1>1. worm \in WormChoices /\ path \in Paths /\ 1..path \subseteq Paths
  BY StoreAssumption DEF TypeOK, Paths
<1>2. CASE FetchConfig(r)
  BY <1>1, <1>2 DEF FetchConfig
<1>3. CASE UseEntry(r)
  BY <1>1, <1>3 DEF UseEntry
<1>4. QED
  BY <1>2, <1>3

LEMMA BackfillFacts ==
  ASSUME NEW r \in Row, worm \in Nat
  PROVE  /\ Backfill(r) \in Row
         /\ Backfill(r).status = r.status
         /\ r.wormUntil # 0 => Backfill(r).wormUntil = r.wormUntil
<1>1. CASE r.wormUntil = 0 /\ r.status = "success" /\ worm > 0
  BY <1>1 DEF Backfill, Row
<1>2. CASE ~(r.wormUntil = 0 /\ r.status = "success" /\ worm > 0)
  BY <1>2 DEF Backfill
<1>3. QED
  BY <1>1, <1>2

\* What snapshot_done makes of a row.
LEMMA OutcomeFacts ==
  ASSUME NEW r \in Row, worm \in Nat, now \in Nat,
         NEW status \in {"success", "failed"}
  PROVE  /\ RecordOutcome(r, status) \in Row
         /\ RecordOutcome(r, status).status = status
         /\ RecordOutcome(r, status).wormUntil \in {r.wormUntil, now + worm}
<1> DEFINE until == IF status = "success" /\ worm > 0 THEN now + worm ELSE r.wormUntil
           set   == (status = "success")
<1>1. until \in Nat /\ until \in {r.wormUntil, now + worm}
  BY DEF Row
<1>2. set \in BOOLEAN
  OBVIOUS
<1>3. RecordOutcome(r, status)
        = [r EXCEPT !.status = status, !.restic = set, !.wormUntil = until]
  BY Zenon DEF RecordOutcome
<1> HIDE DEF until, set
<1>4. QED
  BY <1>1, <1>2, <1>3 DEF Row

-----------------------------------------------------------------------------
LEMMA InitInv == Init => StoreInv
<1> SUFFICES ASSUME Init PROVE StoreInv
  OBVIOUS
<1>1. 1 \in Paths
  BY StoreAssumption DEF Paths
<1>2. TypeOK
  BY <1>1, RowFacts, StoreAssumption DEF Init, TypeOK
<1>3. OneOutcome
  BY DEF Init, OneOutcome, EmptyRow
<1>4. ForgetsAreDeleted
  BY DEF Init, ForgetsAreDeleted
<1>5. QED
  BY <1>2, <1>3, <1>4 DEF StoreInv

\* What every step leaves well typed.
LEMMA TypeStep ==
  ASSUME TypeOK, Next
  PROVE  TypeOK'
<1> USE DEF TypeOK
<1>1. now \in Nat /\ worm \in Nat
  BY WormFacts, StoreAssumption
<1>2. CASE NextDay
  BY <1>2, StoreAssumption DEF NextDay
<1>3. ASSUME NEW days \in WormChoices, SetWorm(days) PROVE TypeOK'
  BY <1>3 DEF SetWorm
<1>4. ASSUME NEW id \in Ids, StartBackup(id) PROVE TypeOK'
  <2>1. [EmptyRow("running") EXCEPT !.started = now] \in Row
    BY <1>1 DEF EmptyRow, Row
  <2>2. row' \in [Ids -> Row]
    BY <1>4, <2>1 DEF StartBackup
  <2>3. [id |-> id, fetched |-> FALSE, worm |-> FALSE, path |-> path] \in Run
    BY DEF Run
  <2>4. QED
    BY <1>4, <2>2, <2>3 DEF StartBackup
<1>5. ASSUME NEW id \in Ids, Forget(id) PROVE TypeOK'
  <2>1. data' \in [Ids -> Paths \cup {0}]
    BY <1>5 DEF Forget
  <2>2. QED
    BY <1>5, <2>1 DEF Forget
<1>6. ASSUME NEW r \in runs, NEW days \in WormChoices, NEW p \in Paths, Configure(r, days, p)
      PROVE  TypeOK'
  <2> DEFINE locks == days > 0
             q     == [r EXCEPT !.fetched = TRUE, !.worm = locks, !.path = p]
  <2>1. locks \in BOOLEAN
    OBVIOUS
  <2>2. runs' = (runs \ {r}) \cup {q}
    BY <1>6, Zenon DEF Configure
  <2> HIDE DEF locks
  <2>3. q \in Run
    BY <2>1 DEF Run
  <2> HIDE DEF q
  <2>4. QED
    BY <1>6, <2>2, <2>3 DEF Configure
<1>7. ASSUME NEW r \in runs, Succeeds(r) PROVE TypeOK'
  <2>1. r.path \in Paths /\ r.id \in Ids
    BY DEF Run
  <2>2. PICK kept \in Retention(r, Stored(r.path) \cup {r.id}) :
          data' = [id \in Ids |-> IF id \in kept THEN r.path
                                 ELSE IF data[id] = r.path THEN 0 ELSE data[id]]
    BY <1>7 DEF Succeeds
  <2>3. data' \in [Ids -> Paths \cup {0}]
    BY <2>1, <2>2
  <2>4. done' \subseteq Done
    BY <1>7, <2>1 DEF Succeeds, Done
  <2>5. QED
    BY <1>7, <2>3, <2>4 DEF Succeeds
<1>8. ASSUME NEW r \in runs, Fails(r) PROVE TypeOK'
  <2>1. done' \subseteq Done
    BY <1>8 DEF Fails, Done, Run
  <2>2. QED
    BY <1>8, <2>1 DEF Fails
<1>9. ASSUME NEW m \in done, HandleDone(m) PROVE TypeOK'
  <2>1. m.id \in Ids /\ m.status \in {"success", "failed"}
    BY DEF Done
  <2>2. RecordOutcome(row[m.id], m.status) \in Row
    BY <1>1, <2>1, OutcomeFacts
  <2>3. row' \in [Ids -> Row]
    BY <1>9, <2>1, <2>2 DEF HandleDone
  <2>4. QED
    BY <1>9, <2>3 DEF HandleDone
<1>10. ASSUME NEW m \in done, LoseDone(m) PROVE TypeOK'
  BY <1>10 DEF LoseDone
<1>11. ASSUME NEW S \in SUBSET PresentIds, DeleteSnapshots(S) PROVE TypeOK'
  <2>1. S \subseteq Ids
    BY DEF PresentIds
  <2>2. row' \in [Ids -> Row]
    BY <1>11, RowFacts DEF DeleteSnapshots
  <2>3. forgets' \subseteq Ids
    BY <1>11, <2>1 DEF DeleteSnapshots
  <2>4. QED
    BY <1>11, <2>2, <2>3 DEF DeleteSnapshots
<1>12. ASSUME NEW S \in SUBSET PresentIds, NEW days \in LockChoices,
              LockSnapshots(S, days)
       PROVE  TypeOK'
  <2>1. now + days \in Nat
    BY <1>1, StoreAssumption
  <2>2. \A id \in Ids : [row[id] EXCEPT !.lockUntil = now + days] \in Row
    BY <2>1 DEF Row
  <2>3. row' \in [Ids -> Row]
    BY <1>12, <2>2 DEF LockSnapshots
  <2>4. QED
    BY <1>12, <2>3 DEF LockSnapshots
<1>13. CASE ResetRepo
  <2>1. path' \in Paths
    BY <1>13, StoreAssumption DEF ResetRepo, Paths
  <2>2. row' \in [Ids -> Row]
    BY <1>13, RowFacts DEF ResetRepo
  <2>3. QED
    BY <1>13, <2>1, <2>2 DEF ResetRepo
<1>14. CASE DeleteJob
  BY <1>14 DEF DeleteJob
<1>15. CASE DeleteAgent
  <2>1. row' \in [Ids -> Row]
    BY <1>15, RowFacts DEF DeleteAgent
  <2>2. QED
    BY <1>15, <2>1 DEF DeleteAgent
<1>16. CASE Restart
  <2>1. row' \in [Ids -> Row]
    BY <1>1, <1>16, BackfillFacts DEF Restart
  <2>2. QED
    BY <1>16, <2>1 DEF Restart
<1>17. QED
  BY <1>2, <1>3, <1>4, <1>5, <1>6, <1>7, <1>8, <1>9, <1>10, <1>11, <1>12,
     <1>13, <1>14, <1>15, <1>16, ConfigureFacts DEF Next

-----------------------------------------------------------------------------
\* How rows and data age in a step that records no outcome.
RowsAge ==
  \A id \in Ids :
    /\ Awaiting(row[id]) => Awaiting(row'[id])
    /\ row[id].status = "deleted" => row'[id].status = "deleted"
    /\ row'[id].status = "none" => row'[id] = row[id]
    /\ data[id] = 0 => data'[id] = 0

LEMMA AgingKeepsInv ==
  ASSUME StoreInv, RowsAge, runs' \subseteq runs, done' \subseteq done
  PROVE  /\ OneOutcome'
         /\ forgets' \subseteq forgets => ForgetsAreDeleted'
<1>1. \A r \in runs : r.id \in Ids
  BY DEF StoreInv, TypeOK, Run
<1>2. \A m \in done : m.id \in Ids
  BY DEF StoreInv, TypeOK, Done
<1>3. OneOutcome'
  BY <1>1, <1>2 DEF StoreInv, OneOutcome, RowsAge
<1>4. ASSUME forgets' \subseteq forgets PROVE ForgetsAreDeleted'
  BY <1>4 DEF StoreInv, TypeOK, ForgetsAreDeleted, RowsAge
<1>5. QED
  BY <1>3, <1>4

LEMMA InvStep ==
  ASSUME StoreInv, Next
  PROVE  StoreInv'
<1>1. TypeOK /\ OneOutcome /\ ForgetsAreDeleted
  BY DEF StoreInv
<1>2. TypeOK'
  BY <1>1, TypeStep
<1>3. now \in Nat /\ worm \in Nat /\ row \in [Ids -> Row]
  BY <1>1, WormFacts, StoreAssumption DEF TypeOK
<1>4. \A id \in PresentIds :
        id \in Ids /\ row[id].status \notin {"none", "deleted"}
  BY DEF PresentIds, Present
<1> DEFINE Goal == OneOutcome' /\ ForgetsAreDeleted'
<1> SUFFICES Goal
  BY <1>2 DEF StoreInv
<1>5. CASE NextDay
  BY <1>5, AgingKeepsInv DEF NextDay, RowsAge
<1>6. ASSUME NEW days \in WormChoices, SetWorm(days) PROVE Goal
  BY <1>6, AgingKeepsInv DEF SetWorm, RowsAge
<1>7. ASSUME NEW id \in Ids, StartBackup(id) PROVE Goal
  <2> DEFINE new == [id |-> id, fetched |-> FALSE, worm |-> FALSE, path |-> path]
  <2>1. /\ row[id].status = "none"
        /\ row'[id].status = "running" /\ row'[id].wormUntil = 0
        /\ \A i \in Ids \ {id} : row'[i] = row[i]
    BY <1>3, <1>7 DEF StartBackup, EmptyRow
  <2>2. RowsAge
    BY <1>7, <2>1 DEF StartBackup, RowsAge, Awaiting
  <2>3. \A r \in runs : r.id # id
    BY <1>1, <2>1 DEF OneOutcome, Awaiting
  <2>4. \A m \in done : m.id # id
    BY <1>1, <2>1 DEF OneOutcome, Awaiting
  <2>5. runs' = runs \cup {new} /\ new.id = id /\ UNCHANGED <<data, done, forgets>>
    BY <1>7 DEF StartBackup
  <2>6. Awaiting(row'[id]) /\ data[id] = 0
    BY <1>1, <2>1 DEF OneOutcome, Awaiting
  <2>7. /\ \A r \in runs : r.id \in Ids
        /\ \A m \in done : m.id \in Ids
    BY <1>1 DEF TypeOK, Run, Done
  <2> HIDE DEF new
  <2>8. OneOutcome'
    BY <1>1, <2>2, <2>3, <2>4, <2>5, <2>6, <2>7 DEF OneOutcome, RowsAge
  <2>9. ForgetsAreDeleted'
    BY <1>1, <2>2, <2>5 DEF ForgetsAreDeleted, RowsAge, TypeOK
  <2>10. QED
    BY <2>8, <2>9
<1>8. ASSUME NEW id \in Ids, Forget(id) PROVE Goal
  <2>1. RowsAge
    BY <1>1, <1>8 DEF Forget, RowsAge, TypeOK
  <2>2. QED
    BY <1>8, <2>1, AgingKeepsInv DEF Forget
<1>9. ASSUME NEW r \in runs, NEW days \in WormChoices, NEW p \in Paths, Configure(r, days, p)
      PROVE  Goal
  <2> DEFINE locks == days > 0
             q     == [r EXCEPT !.fetched = TRUE, !.worm = locks, !.path = p]
  <2>1. runs' = (runs \ {r}) \cup {q} /\ UNCHANGED <<row, data, done, forgets>>
    BY <1>9, Zenon DEF Configure
  <2>2. q.id = r.id
    BY <1>1 DEF TypeOK, Run
  <2> HIDE DEF q
  <2>3. QED
    BY <1>1, <2>1, <2>2 DEF OneOutcome, ForgetsAreDeleted
<1>9a. ASSUME NEW r \in runs, FetchConfig(r) \/ UseEntry(r) PROVE Goal
  BY <1>1, <1>9, <1>9a, ConfigureFacts
<1>10. ASSUME NEW r \in runs, Succeeds(r) PROVE Goal
  <2> DEFINE new == [id |-> r.id, status |-> "success"]
  <2>1. PICK kept \in Retention(r, Stored(r.path) \cup {r.id}) :
          data' = [id \in Ids |-> IF id \in kept THEN r.path
                                 ELSE IF data[id] = r.path THEN 0 ELSE data[id]]
    BY <1>10 DEF Succeeds
  <2>2. kept \subseteq Stored(r.path) \cup {r.id}
    BY <2>1 DEF Retention, Newest
  <2>3. r.path # 0
    BY <1>1, StoreAssumption DEF TypeOK, Run, Paths
  <2>4. \A id \in Ids \ {r.id} : data[id] = 0 => data'[id] = 0
    BY <2>1, <2>2, <2>3 DEF Stored
  <2>5. runs' = runs \ {r} /\ done' = done \cup {new} /\ new.id = r.id
        /\ UNCHANGED <<row, forgets>>
    BY <1>10 DEF Succeeds
  <2>6. r.id \in Ids /\ \A q \in runs : q.id \in Ids
    BY <1>1 DEF TypeOK, Run
  <2>7. row[r.id].status # "none"
    BY <1>1 DEF OneOutcome, Awaiting
  <2> HIDE DEF new
  <2>8. OneOutcome'
    BY <1>1, <2>4, <2>5, <2>6, <2>7 DEF OneOutcome
  <2>9. QED
    BY <1>1, <2>5, <2>8 DEF ForgetsAreDeleted
<1>11. ASSUME NEW r \in runs, Fails(r) PROVE Goal
  <2> DEFINE new == [id |-> r.id, status |-> "failed"]
  <2>1. runs' = runs \ {r} /\ done' = done \cup {new} /\ new.id = r.id
        /\ UNCHANGED <<row, data, forgets>>
    BY <1>11 DEF Fails
  <2> HIDE DEF new
  <2>2. QED
    BY <1>1, <2>1 DEF OneOutcome, ForgetsAreDeleted
<1>12. ASSUME NEW m \in done, HandleDone(m) PROVE Goal
  <2>1. m.id \in Ids /\ m.status \in {"success", "failed"}
    BY <1>1 DEF TypeOK, Done
  <2>2. \A i \in Ids \ {m.id} : row'[i] = row[i]
    BY <1>3, <1>12 DEF HandleDone
  <2>3. RecordOutcome(row[m.id], m.status).status # "none"
    BY <1>3, <2>1, OutcomeFacts
  <2>4. row[m.id].status # "none"
    BY <1>1 DEF OneOutcome, Awaiting
  <2>5. row'[m.id].status # "none"
    BY <1>3, <1>12, <2>1, <2>3, <2>4 DEF HandleDone
  <2>6. row[m.id].status = "deleted" => row'[m.id] = row[m.id]
    BY <1>3, <1>12, <2>1 DEF HandleDone, Present
  <2>7. done' = done \ {m} /\ UNCHANGED <<runs, data, forgets>>
    BY <1>12 DEF HandleDone
  <2>8. /\ \A r \in runs : r.id \in Ids
        /\ \A n \in done : n.id \in Ids
        /\ forgets \subseteq Ids
    BY <1>1 DEF TypeOK, Run, Done
  <2>9. OneOutcome'
    BY <1>1, <2>2, <2>5, <2>7, <2>8 DEF OneOutcome
  <2>10. ForgetsAreDeleted'
    BY <1>1, <2>2, <2>6, <2>7, <2>8 DEF ForgetsAreDeleted
  <2>11. QED
    BY <2>9, <2>10
<1>13. ASSUME NEW m \in done, LoseDone(m) PROVE Goal
  BY <1>13, AgingKeepsInv DEF LoseDone, RowsAge
<1>14. ASSUME NEW S \in SUBSET PresentIds, DeleteSnapshots(S) PROVE Goal
  <2>1. \A id \in Ids : row'[id] = row[id] \/ row'[id] = EmptyRow("deleted")
    BY <1>14 DEF DeleteSnapshots
  <2>2. RowsAge
    BY <1>14, <2>1 DEF DeleteSnapshots, RowsAge, Awaiting, EmptyRow
  <2>3. \A id \in forgets' \ forgets : row'[id].status = "deleted"
    BY <1>4, <1>14 DEF DeleteSnapshots, EmptyRow
  <2>4. OneOutcome'
    BY <1>14, <2>2, AgingKeepsInv DEF DeleteSnapshots
  <2>5. ForgetsAreDeleted'
    BY <1>1, <2>2, <2>3 DEF ForgetsAreDeleted, RowsAge, TypeOK
  <2>6. QED
    BY <2>4, <2>5
<1>15. ASSUME NEW S \in SUBSET PresentIds, NEW days \in LockChoices,
              LockSnapshots(S, days)
       PROVE  Goal
  <2>1. \A id \in Ids :
          /\ row'[id].status = row[id].status
          /\ row'[id].wormUntil = row[id].wormUntil
          /\ row[id].status = "none" => row'[id] = row[id]
    BY <1>3, <1>4, <1>15 DEF LockSnapshots, Row
  <2>2. RowsAge
    BY <1>15, <2>1 DEF LockSnapshots, RowsAge, Awaiting
  <2>3. QED
    BY <1>15, <2>2, AgingKeepsInv DEF LockSnapshots
<1>16. CASE ResetRepo
  <2>1. \A id \in Ids :
          IF Present(row[id])
          THEN row'[id].status = "orphaned" /\ row'[id].wormUntil = row[id].wormUntil
          ELSE row'[id] = row[id]
    BY <1>3, <1>16, RowFacts DEF ResetRepo
  <2>2. RowsAge
    BY <1>16, <2>1 DEF ResetRepo, RowsAge, Awaiting, Present
  <2>3. QED
    BY <1>16, <2>2, AgingKeepsInv DEF ResetRepo
<1>17. CASE DeleteJob
  BY <1>17, AgingKeepsInv DEF DeleteJob, RowsAge
<1>18. CASE DeleteAgent
  <2>1. RowsAge
    BY <1>18 DEF DeleteAgent, RowsAge, Awaiting, EmptyRow
  <2>2. QED
    BY <1>18, <2>1, AgingKeepsInv DEF DeleteAgent
<1>19. CASE Restart
  <2>1. \A id \in Ids :
          /\ row'[id].status = row[id].status
          /\ row[id].status # "success" => row'[id] = row[id]
    BY <1>3, <1>19, BackfillFacts DEF Restart, Backfill
  <2>2. RowsAge
    BY <1>19, <2>1 DEF Restart, RowsAge, Awaiting
  <2>3. QED
    BY <1>19, <2>2, AgingKeepsInv DEF Restart
<1>20. QED
  BY <1>5, <1>6, <1>7, <1>8, <1>9a, <1>10, <1>11, <1>12, <1>13, <1>14, <1>15,
     <1>16, <1>17, <1>18, <1>19 DEF Next

LEMMA StutterInv ==
  ASSUME StoreInv, UNCHANGED vars
  PROVE  StoreInv'
BY DEF StoreInv, TypeOK, OneOutcome, ForgetsAreDeleted, vars, Awaiting

THEOREM StoreInvariant == Spec => []StoreInv
<1>1. StoreInv /\ [Next]_vars => StoreInv'
  BY InvStep, StutterInv
<1>2. QED
  BY InitInv, <1>1, PTL DEF Spec

\* The type invariant of the snapshots table and the repositories, for any
\* number of backups, resets and days (api/snapshots.ts, api/jobs.ts).
THEOREM StoreTypeCorrect == Spec => []TypeOK
<1>1. StoreInv => TypeOK
  BY DEF StoreInv
<1>2. QED
  BY StoreInvariant, <1>1, PTL

-----------------------------------------------------------------------------
\* A WORM lock, once recorded by snapshot_done or by the migration of initDb
\* (db/index.ts:289-307), is not moved while its row exists.
THEOREM WormLocksAreFixed == Spec => WormLockFixed
<1> DEFINE Kept(id) == row[id].wormUntil # 0 /\ Present(row'[id])
                         => row'[id].wormUntil = row[id].wormUntil
<1>1. ASSUME StoreInv, Next, NEW id \in Ids PROVE Kept(id)
  <2>1. now \in Nat /\ worm \in Nat /\ row \in [Ids -> Row] /\ OneOutcome
    BY <1>1, WormFacts, StoreAssumption DEF StoreInv, TypeOK
  <2>2. CASE UNCHANGED row
    BY <2>2
  <2>3. ASSUME NEW i \in Ids, StartBackup(i) PROVE Kept(id)
    <3>1. row[i].wormUntil = 0
      BY <2>1, <2>3 DEF StartBackup, OneOutcome
    <3>2. QED
      BY <2>1, <2>3, <3>1 DEF StartBackup
  <2>4. ASSUME NEW m \in done, HandleDone(m) PROVE Kept(id)
    <3>1. row[m.id].wormUntil = 0
      BY <2>1 DEF OneOutcome, Awaiting
    <3>2. QED
      BY <2>1, <2>4, <3>1 DEF HandleDone
  <2>5. ASSUME NEW S \in SUBSET PresentIds, DeleteSnapshots(S) PROVE Kept(id)
    BY <2>5 DEF DeleteSnapshots, EmptyRow, Present
  <2>6. ASSUME NEW S \in SUBSET PresentIds, NEW days \in LockChoices,
               LockSnapshots(S, days)
        PROVE  Kept(id)
    BY <2>1, <2>6 DEF LockSnapshots, Row
  <2>7. CASE ResetRepo
    BY <2>1, <2>7, RowFacts DEF ResetRepo
  <2>8. CASE DeleteAgent
    BY <2>8 DEF DeleteAgent, EmptyRow, Present
  <2>9. CASE Restart
    BY <2>1, <2>9, BackfillFacts DEF Restart
  <2>10. QED
    BY <1>1, <2>2, <2>3, <2>4, <2>5, <2>6, <2>7, <2>8, <2>9
    DEF Next, NextDay, SetWorm, Forget, FetchConfig, UseEntry, Configure, Succeeds, Fails, LoseDone, DeleteJob
<1>2. StoreInv /\ [Next]_vars => [\A id \in Ids : Kept(id)]_vars
  BY <1>1
<1>3. QED
  BY StoreInvariant, <1>2, PTL DEF Spec, WormLockFixed

\* The deletion requests refuse or skip a row under either lock
\* (api/snapshots.ts:222-257, 292-308); only the deletion of the agent, which
\* takes the job with it, removes one.
THEOREM LockedRowsAreKept == Spec => LockedRowsStay
<1> DEFINE Kept(id) == Locked(id) /\ ~Present(row'[id]) => ~jobRow'
<1>1. ASSUME StoreInv, Next, NEW id \in Ids PROVE Kept(id)
  <2>1. now \in Nat /\ worm \in Nat /\ row \in [Ids -> Row]
    BY <1>1, WormFacts, StoreAssumption DEF StoreInv, TypeOK
  <2>2. CASE UNCHANGED row
    BY <2>2 DEF Locked
  <2>3. ASSUME NEW i \in Ids, StartBackup(i) PROVE Kept(id)
    BY <2>1, <2>3 DEF StartBackup, EmptyRow, Locked, Present
  <2>4. ASSUME NEW m \in done, HandleDone(m) PROVE Kept(id)
    <3>1. m.status \in {"success", "failed"} /\ m.id \in Ids
      BY <1>1 DEF StoreInv, TypeOK, Done
    <3>2. Present(RecordOutcome(row[m.id], m.status))
      BY <2>1, <3>1, OutcomeFacts DEF Present
    <3>3. QED
      BY <2>1, <2>4, <3>1, <3>2 DEF HandleDone, Locked
  <2>5. ASSUME NEW S \in SUBSET PresentIds, DeleteSnapshots(S) PROVE Kept(id)
    <3>1. Deletable(row[id]) => ~Locked(id)
      BY <2>1 DEF Deletable, Locked, Row
    <3>2. QED
      BY <2>5, <3>1 DEF DeleteSnapshots, Locked
  <2>6. ASSUME NEW S \in SUBSET PresentIds, NEW days \in LockChoices,
               LockSnapshots(S, days)
        PROVE  Kept(id)
    BY <2>1, <2>6 DEF LockSnapshots, Row, Locked, Present
  <2>7. CASE ResetRepo
    BY <2>1, <2>7, RowFacts DEF ResetRepo, Locked, Present
  <2>8. CASE DeleteAgent
    BY <2>8 DEF DeleteAgent
  <2>9. CASE Restart
    BY <2>1, <2>9, BackfillFacts DEF Restart, Locked, Present
  <2>10. QED
    BY <1>1, <2>2, <2>3, <2>4, <2>5, <2>6, <2>7, <2>8, <2>9
    DEF Next, NextDay, SetWorm, Forget, FetchConfig, UseEntry, Configure, Succeeds, Fails, LoseDone, DeleteJob
<1>2. StoreInv /\ [Next]_vars => [\A id \in Ids : Kept(id)]_vars
  BY <1>1
<1>3. QED
  BY StoreInvariant, <1>2, PTL DEF Spec, LockedRowsStay

\* While every backup that runs has fetched an enabled WORM setting, the data
\* of a row under a WORM lock is where it is: retention is skipped
\* (restic.go:228-234), and only the data of deleted rows is forgotten.
THEOREM WormSparesLockedData == Spec => WormBackupsSpareLocked
<1> DEFINE Guarded(id) == /\ \A r \in runs : r.fetched => r.worm
                          /\ Present(row[id]) /\ row[id].wormUntil > now /\ data[id] # 0
           Kept(id) == Guarded(id) => data'[id] = data[id]
<1>1. ASSUME StoreInv, Next, NEW id \in Ids PROVE Kept(id)
  <2>1. CASE UNCHANGED data
    BY <2>1
  <2>2. ASSUME NEW i \in Ids, Forget(i), Guarded(id) PROVE data'[id] = data[id]
    <3>1. row[i].status = "deleted"
      BY <1>1, <2>2 DEF Forget, StoreInv, ForgetsAreDeleted
    <3>2. i # id
      BY <2>2, <3>1 DEF Present
    <3>3. QED
      BY <1>1, <2>2, <3>2 DEF Forget, StoreInv, TypeOK
  <2>3. ASSUME NEW r \in runs, Succeeds(r), Guarded(id) PROVE data'[id] = data[id]
    <3>1. r.fetched /\ r.worm
      BY <2>3 DEF Succeeds
    <3>2. Retention(r, Stored(r.path) \cup {r.id}) = {Stored(r.path) \cup {r.id}}
      BY <3>1 DEF Retention
    <3>3. data' = [i \in Ids |-> IF i \in Stored(r.path) \cup {r.id} THEN r.path
                                ELSE IF data[i] = r.path THEN 0 ELSE data[i]]
      BY <2>3, <3>2 DEF Succeeds
    <3>4. id # r.id
      BY <1>1, <2>3 DEF StoreInv, OneOutcome
    <3>5. QED
      BY <3>3, <3>4 DEF Stored
  <2>4. QED
    BY <1>1, <2>1, <2>2, <2>3
    DEF Next, NextDay, SetWorm, StartBackup, FetchConfig, UseEntry, Configure, Fails, HandleDone, LoseDone,
        DeleteSnapshots, LockSnapshots, ResetRepo, DeleteJob, DeleteAgent, Restart
<1>2. StoreInv /\ [Next]_vars => [\A id \in Ids : Kept(id)]_vars
  BY <1>1
<1>3. QED
  BY StoreInvariant, <1>2, PTL DEF Spec, WormBackupsSpareLocked

-----------------------------------------------------------------------------
(* The pages that show the store's rows, for any number of backups, changes, *)
(* moves of the user and failures.                                           *)

\* A cached list l, of a server's list at version v, after the page was told to
\* refresh it at version t: what it shows, or will show unless a fetch fails (ok),
\* is not older than t.
UpToDate(l, t, v, ok) ==
  /\ t <= v
  /\ l.data = None => t = 0
  /\ l.fetch.phase = "answered" => t <= l.fetch.v
  /\ l.fetch.phase = "none" /\ l.data # None /\ ok => t <= l.data

ListsUpToDate == \A k \in Lists : UpToDate(list[k], told[k], version[k], k \notin failed)

\* Every change is one of the counted steps.
ChangesCounted == \A k \in Lists : version[k] <= events + moves

\* A bar, and the progress that draws one, is of a backup that runs or whose end is
\* still to be heard.
EndsAfter(s, i) == \E j \in DOMAIN ownInbox : j > i /\ ownInbox[j] = EndOf(s)
BarsEnd ==
  /\ own # "up" => ownInbox = <<>>
  /\ own \in {"none", "opening"} => running = {}
  /\ own = "up" => \A s \in running : backup[s] = "running" \/ EndsAfter(s, 0)
  /\ \A i \in DOMAIN ownInbox :
       ownInbox[i].type = "progress" =>
         backup[ownInbox[i].snap] = "running" \/ EndsAfter(ownInbox[i].snap, i)

PagesInv == PagesTypeOK /\ ListsUpToDate /\ ChangesCounted /\ BarsEnd

LEMMA AskFacts ==
  ASSUME NEW l \in List, NEW t \in Nat, NEW v \in Nat, NEW ok \in BOOLEAN, UpToDate(l, t, v, ok)
  PROVE  /\ [l EXCEPT !.fetch = Asked] \in List
         /\ UpToDate([l EXCEPT !.fetch = Asked], t, v, ok)
<1>1. Asked \in Fetch
  BY PagesAssumption DEF Asked, Fetch, Versions
<1>2. QED
  BY <1>1 DEF List, UpToDate, Asked

\* Marking a list that is shown makes the page owe its present version.
LEMMA MarkFacts ==
  ASSUME NEW l \in List, NEW t \in Nat, NEW v \in Nat, NEW ok \in BOOLEAN, UpToDate(l, t, v, ok),
         NEW shown \in BOOLEAN
  PROVE  /\ Marked(l, shown) \in List
         /\ UpToDate(Marked(l, shown), IF shown /\ l.data # None THEN v ELSE t, v, ok)
<1>1. Asked \in Fetch
  BY PagesAssumption DEF Asked, Fetch, Versions
<1>2. CASE shown /\ ~Loading(l)
  <2>1. Marked(l, shown) = [l EXCEPT !.stale = TRUE, !.fetch = Asked]
    BY <1>2 DEF Marked
  <2>2. Marked(l, shown) = [data |-> l.data, stale |-> TRUE, fetch |-> Asked]
    BY <2>1 DEF List
  <2>3. PICK m : m = Marked(l, shown)
    OBVIOUS
  <2>4. m \in List /\ m.data = l.data /\ m.fetch.phase = "asked"
    BY <1>1, <2>2, <2>3 DEF List, Asked
  <2>5. (IF shown /\ l.data # None THEN v ELSE t) = IF l.data # None THEN v ELSE t
    BY <1>2
  <2>6. UpToDate(m, IF l.data # None THEN v ELSE t, v, ok)
    BY <2>4 DEF UpToDate
  <2>7. QED
    BY <2>3, <2>4, <2>5, <2>6
<1>3. CASE ~(shown /\ ~Loading(l))
  <2>1. Marked(l, shown) = [l EXCEPT !.stale = TRUE]
    BY <1>3 DEF Marked, List
  <2>2. Marked(l, shown) \in List /\ UpToDate(Marked(l, shown), t, v, ok)
    BY <2>1 DEF List, UpToDate
  <2>3. shown => l.data = None
    BY <1>3 DEF Loading
  <2>4. QED
    BY <2>2, <2>3
<1>4. QED
  BY <1>2, <1>3

LEMMA EditFacts ==
  ASSUME NEW p \in DOMAIN Shown, NEW e \in Edits[p]
  PROVE  e.marks \subseteq Lists
  BY DEF Edits, Shown, Edit, RemoveAgent

LEMMA MountFacts ==
  ASSUME PagesTypeOK, ListsUpToDate, NEW ks, NEW k \in Lists
  PROVE  Mount(ks)[k] \in List /\ UpToDate(Mount(ks)[k], told[k], version[k], k \notin failed)
<1>1. list[k] \in List /\ told[k] \in Nat /\ version[k] \in Nat
  BY DEF PagesTypeOK, Versions
<1>2. UpToDate(list[k], told[k], version[k], k \notin failed)
  BY DEF ListsUpToDate
<1>3. Mount(ks)[k] = list[k] \/ Mount(ks)[k] = [list[k] EXCEPT !.fetch = Asked]
  BY DEF Mount
<1>4. QED
  BY <1>1, <1>2, <1>3, AskFacts

-----------------------------------------------------------------------------
(* What a step may do to the cache.                                        *)

Quiet     == UNCHANGED <<version, cache>>
Changing  == (\E ks : Changes(ks)) /\ UNCHANGED cache
Looking   == (\E ks : list' = Mount(ks)) /\ UNCHANGED <<version, told, failed>>
Marking   == (\E ks : Invalidate(ks)) /\ UNCHANGED version
Fetching  == \E k \in Lists : Age(k) \/ ServerReads(k) \/ AnswerArrives(k) \/ FetchFails(k)

LEMMA RefreshFacts ==
  ASSUME NEW m \in Message, page \in DOMAIN Shown, Refresh(m), UNCHANGED version
  PROVE  Quiet \/ Marking
<1>1. CASE m.type \notin Refreshes[page]
  BY <1>1 DEF Refresh, Quiet
<1>2. CASE m.type \in Refreshes[page]
  <2>1. Invalidate({ListOf[m.type]})
    BY <1>2 DEF Refresh
  <2>2. QED
    BY <2>1 DEF Marking
<1>3. QED
  BY <1>1, <1>2

LEMMA CacheEffects ==
  ASSUME PagesTypeOK, [PagesNext]_pageVars
  PROVE  Quiet \/ Changing \/ Looking \/ Marking \/ Fetching
<1>1. CASE UNCHANGED pageVars
  BY <1>1 DEF pageVars, server, cache, Quiet
<1>2. ASSUME NEW k \in Lists,
             \/ ChangeQuietly(k) \/ Age(k) \/ ServerReads(k) \/ AnswerArrives(k) \/ FetchFails(k)
      PROVE  Changing \/ Fetching
  BY <1>2 DEF ChangeQuietly, browser, cache, Changing, Fetching
<1>3. ASSUME NEW s \in Snaps, SnapshotStart(s) \/ Progress(s) \/ SnapshotDone(s) \/ CheckResult(s)
      PROVE  Quiet \/ Changing
  BY <1>3 DEF SnapshotStart, Progress, SnapshotDone, CheckResult, server, browser, cache, Quiet, Changing
<1>4. ASSUME AgentStatus \/ JobResult \/ UpdateAck
      PROVE  Quiet \/ Changing
  BY <1>4 DEF AgentStatus, JobResult, UpdateAck, server, browser, cache, Quiet, Changing
<1>5. ASSUME NEW p \in DOMAIN Shown, GoTo(p)
      PROVE  Looking
  BY <1>5 DEF GoTo, server, Looking
<1>6. ASSUME NEW e \in Edits[page], Save(e)
      PROVE  Changing
  BY <1>6 DEF Save, cache, Changing
<1>7. CASE EditAnswered
  BY <1>7 DEF EditAnswered, server, Marking
<1>8. CASE Focus
  BY <1>8 DEF Focus, server, Looking
<1>9. CASE EditFails \/ PushUpdate \/ PushAnswered \/ WaitOver \/ JoinOwn \/ LoseSocket \/ Reconnect \/ LoseOwn
  BY <1>9 DEF EditFails, PushUpdate, PushAnswered, WaitOver, JoinOwn, LoseSocket, Reconnect, LoseOwn,
              server, cache, Quiet
<1>10. CASE Receive
  <2>1. Head(inbox) \in Message
    BY <1>10 DEF Receive, PagesTypeOK
  <2>2. UNCHANGED version
    BY <1>10 DEF Receive, server
  <2>3. CASE page = "dashboard"
    BY <1>10, <2>2, <2>3 DEF Receive, Quiet, cache
  <2>4. CASE page # "dashboard"
    BY <1>10, <2>1, <2>2, <2>4, RefreshFacts DEF Receive, PagesTypeOK
  <2>5. QED
    BY <2>3, <2>4
<1>11. CASE ReceiveOwn
  <2>1. Head(ownInbox) \in Message /\ UNCHANGED version
    BY <1>11 DEF ReceiveOwn, PagesTypeOK, server
  <2>2. QED
    BY <1>11, <2>1, RefreshFacts DEF ReceiveOwn, PagesTypeOK
<1>12. QED
  BY <1>1, <1>2, <1>3, <1>4, <1>5, <1>6, <1>7, <1>8, <1>9, <1>10, <1>11 DEF PagesNext

CacheTypes == list \in [Lists -> List] /\ told \in [Lists -> Versions] /\ failed \subseteq Lists

\* The lists after any of these: of their types, and not older than what is owed.
LEMMA CacheStep ==
  ASSUME PagesTypeOK, ListsUpToDate, [PagesNext]_pageVars
  PROVE  CacheTypes' /\ ListsUpToDate'
<1>1. /\ \A k \in Lists : /\ list[k] \in List /\ version[k] \in Nat /\ told[k] \in Nat
                         /\ UpToDate(list[k], told[k], version[k], k \notin failed)
      /\ CacheTypes
  BY DEF PagesTypeOK, Versions, ListsUpToDate, CacheTypes
<1>2. CASE Quiet
  BY <1>1, <1>2 DEF Quiet, cache, CacheTypes, ListsUpToDate
<1>3. CASE Changing
  <2>1. PICK ks : version' = [k \in Lists |-> IF k \in ks THEN version[k] + 1 ELSE version[k]]
    BY <1>3 DEF Changing, Changes
  <2>2. \A k \in Lists : version'[k] \in Nat /\ version[k] <= version'[k]
    BY <1>1, <2>1
  <2>3. UNCHANGED <<list, told, failed>>
    BY <1>3 DEF Changing, cache
  <2>4. ASSUME NEW k \in Lists PROVE UpToDate(list[k], told[k], version'[k], k \notin failed)
    BY <1>1, <2>2 DEF UpToDate
  <2>5. QED
    BY <1>1, <2>3, <2>4 DEF CacheTypes, ListsUpToDate
<1>4. CASE Looking
  <2>1. PICK ks : list' = Mount(ks)
    BY <1>4 DEF Looking
  <2>2. \A k \in Lists : /\ list'[k] \in List
                        /\ UpToDate(list'[k], told[k], version[k], k \notin failed)
    BY <2>1, MountFacts
  <2>3. list' \in [Lists -> List]
    BY <2>1, <2>2 DEF Mount
  <2>4. QED
    BY <1>1, <1>4, <2>2, <2>3 DEF Looking, CacheTypes, ListsUpToDate
<1>5. CASE Marking
  <2>1. PICK ks : Invalidate(ks)
    BY <1>5 DEF Marking
  <2>2. ASSUME NEW k \in Lists
        PROVE  /\ list'[k] \in List /\ told'[k] \in Versions
               /\ UpToDate(list'[k], told'[k], version[k], k \notin failed)
    <3>1. told[k] \in Versions /\ version[k] \in Versions
      BY DEF PagesTypeOK
    <3>2. CASE k \notin ks
      BY <1>1, <2>1, <3>1, <3>2 DEF Invalidate
    <3>3. CASE k \in ks
      <4>1. PICK shown \in BOOLEAN : shown = TRUE <=> k \in Shown[page]
        <5>1. CASE k \in Shown[page]
          <6>1. WITNESS TRUE \in BOOLEAN
          <6>2. QED
            BY <5>1
        <5>2. CASE k \notin Shown[page]
          <6>1. WITNESS FALSE \in BOOLEAN
          <6>2. QED
            BY <5>2
        <5>3. QED
          BY <5>1, <5>2
      <4>2. list'[k] = Marked(list[k], shown)
        BY <2>1, <3>3, <4>1 DEF Invalidate, Marked
      <4>3. told'[k] = IF shown /\ list[k].data # None THEN version[k] ELSE told[k]
        BY <2>1, <3>3, <4>1 DEF Invalidate
      <4>4. UpToDate(list'[k], told'[k], version[k], k \notin failed) /\ list'[k] \in List
        BY <1>1, <4>2, <4>3, MarkFacts
      <4>5. QED
        BY <3>1, <4>3, <4>4
    <3>4. QED
      BY <3>2, <3>3
  <2>3. list' \in [Lists -> List] /\ told' \in [Lists -> Versions] /\ failed' = failed
    BY <2>1, <2>2 DEF Invalidate
  <2>4. QED
    BY <1>1, <1>5, <2>2, <2>3 DEF Marking, CacheTypes, ListsUpToDate
<1>6. CASE Fetching
  <2>1. PICK k \in Lists : Age(k) \/ ServerReads(k) \/ AnswerArrives(k) \/ FetchFails(k)
    BY <1>6 DEF Fetching
  <2>2. UNCHANGED <<version, told>>
    BY <2>1 DEF Age, ServerReads, AnswerArrives, FetchFails, server
  <2>3. PICK l : l = list'[k]
    OBVIOUS
  <2>4. list' = [list EXCEPT ![k] = l] /\ failed' \subseteq Lists
        /\ \A i \in Lists : i # k => (i \in failed' <=> i \in failed)
    BY <1>1, <2>1, <2>3 DEF Age, ServerReads, AnswerArrives, FetchFails, CacheTypes
  <2>5. l \in List /\ UpToDate(l, told[k], version[k], k \notin failed')
    <3>1. version[k] \in Versions
      BY DEF PagesTypeOK
    <3>2. NoFetch \in Fetch
      BY PagesAssumption DEF NoFetch, Fetch, Versions
    <3>3. CASE Age(k)
      BY <1>1, <2>3, <3>3 DEF Age, List, UpToDate, CacheTypes
    <3>4. CASE ServerReads(k)
      BY <1>1, <2>3, <3>1, <3>4 DEF ServerReads, List, Fetch, UpToDate, CacheTypes
    <3>5. CASE AnswerArrives(k)
      BY <1>1, <2>3, <3>2, <3>5 DEF AnswerArrives, List, Fetch, Versions, None, NoFetch, UpToDate, CacheTypes
    <3>6. CASE FetchFails(k)
      BY <1>1, <2>3, <3>2, <3>6 DEF FetchFails, List, NoFetch, UpToDate, CacheTypes
    <3>7. QED
      BY <2>1, <3>3, <3>4, <3>5, <3>6
  <2>6. QED
    BY <1>1, <2>2, <2>4, <2>5 DEF CacheTypes, ListsUpToDate
<1>7. QED
  BY <1>2, <1>3, <1>4, <1>5, <1>6, CacheEffects

-----------------------------------------------------------------------------
(* Types.                                                                  *)

\* Whatever changes a list is counted.
Counted ==
  \/ (Event \/ Move) /\ ((\E ks : Changes(ks)) \/ UNCHANGED version)
  \/ (Fault \/ UNCHANGED counters) /\ UNCHANGED version

LEMMA StepsAreCounted ==
  ASSUME [PagesNext]_pageVars
  PROVE  Counted
<1>1. CASE UNCHANGED pageVars
  BY <1>1 DEF pageVars, server, Counted
<1>2. ASSUME NEW k \in Lists,
             \/ ChangeQuietly(k) \/ Age(k) \/ ServerReads(k) \/ AnswerArrives(k) \/ FetchFails(k)
      PROVE  Counted
  BY <1>2 DEF ChangeQuietly, Age, ServerReads, AnswerArrives, FetchFails, server, Counted
<1>3. ASSUME NEW s \in Snaps, SnapshotStart(s) \/ Progress(s) \/ SnapshotDone(s) \/ CheckResult(s)
      PROVE  Counted
  BY <1>3 DEF SnapshotStart, Progress, SnapshotDone, CheckResult, server, Counted
<1>4. CASE AgentStatus \/ JobResult \/ UpdateAck
  BY <1>4 DEF AgentStatus, JobResult, UpdateAck, server, Counted
<1>5. ASSUME NEW p \in DOMAIN Shown, GoTo(p)
      PROVE  Counted
  BY <1>5 DEF GoTo, server, Counted
<1>6. ASSUME NEW e \in Edits[page], Save(e)
      PROVE  Counted
  BY <1>6 DEF Save, Counted
<1>7. CASE EditAnswered \/ EditFails \/ PushUpdate \/ PushAnswered \/ WaitOver \/ Focus
  BY <1>7 DEF EditAnswered, EditFails, PushUpdate, PushAnswered, WaitOver, Focus, server, Counted
<1>8. CASE Receive \/ ReceiveOwn \/ JoinOwn \/ LoseSocket \/ Reconnect \/ LoseOwn
  BY <1>8 DEF Receive, ReceiveOwn, JoinOwn, LoseSocket, Reconnect, LoseOwn, server, Counted
<1>9. QED
  BY <1>1, <1>2, <1>3, <1>4, <1>5, <1>6, <1>7, <1>8 DEF PagesNext

CountTypes ==
  /\ version \in [Lists -> Versions]
  /\ events \in 0..MaxEvents /\ moves \in 0..MaxMoves /\ faults \in 0..MaxFaults

LEMMA CountStep ==
  ASSUME PagesTypeOK, ChangesCounted, [PagesNext]_pageVars
  PROVE  CountTypes' /\ ChangesCounted'
<1>1. Counted
  BY StepsAreCounted
<1>2. events' \in 0..MaxEvents /\ moves' \in 0..MaxMoves /\ faults' \in 0..MaxFaults
  BY <1>1, PagesAssumption DEF Counted, Event, Move, Fault, counters, PagesTypeOK
<1>3. events + moves <= events' + moves'
  BY <1>1 DEF Counted, Event, Move, Fault, counters, PagesTypeOK
<1>4. CASE UNCHANGED version
  <2>1. version' \in [Lists -> Versions]
    BY <1>4 DEF PagesTypeOK
  <2>2. ASSUME NEW k \in Lists
        PROVE  version'[k] <= events' + moves'
    <3>1. version[k] \in Int /\ version[k] <= events + moves
      BY DEF PagesTypeOK, ChangesCounted, Versions
    <3>2. events \in Int /\ moves \in Int /\ events' \in Int /\ moves' \in Int
      BY <1>2 DEF PagesTypeOK
    <3>3. version'[k] = version[k]
      BY <1>4
    <3>4. version[k] <= events' + moves'
      <4>1. events + moves \in Int /\ events' + moves' \in Int
        BY <3>2
      <4>2. PICK before \in Int, after \in Int : before = events + moves /\ after = events' + moves'
        BY <4>1
      <4>3. QED
        BY <1>3, <3>1, <4>2
    <3>5. QED
      BY <3>3, <3>4
  <2>3. QED
    BY <1>2, <2>1, <2>2 DEF CountTypes, ChangesCounted
<1>5. CASE (Event \/ Move) /\ (\E ks : Changes(ks))
  <2>1. events' + moves' = events + moves + 1
    BY <1>5 DEF Event, Move, PagesTypeOK
  <2>2. PICK ks : version' = [k \in Lists |-> IF k \in ks THEN version[k] + 1 ELSE version[k]]
    BY <1>5 DEF Changes
  <2>3. ASSUME NEW k \in Lists
        PROVE  version'[k] \in Nat /\ version'[k] <= events' + moves'
    <3>1. version[k] \in Nat /\ version[k] <= events + moves
      BY DEF PagesTypeOK, ChangesCounted, Versions
    <3>2. version'[k] = version[k] + 1 \/ version'[k] = version[k]
      BY <2>2
    <3>3. events \in Nat /\ moves \in Nat
      BY DEF PagesTypeOK
    <3>4. QED
      BY <2>1, <3>1, <3>2, <3>3
  <2>4. \A k \in Lists : version'[k] \in Versions
    BY <1>2, <2>3, PagesAssumption DEF Versions
  <2>5. version' \in [Lists -> Versions]
    BY <2>2, <2>4
  <2>6. QED
    BY <1>2, <2>3, <2>5 DEF CountTypes, ChangesCounted
<1>6. QED
  BY <1>1, <1>4, <1>5 DEF Counted

\* What the pages keep besides the lists.
PageTypes ==
  /\ backup \in [Snaps -> {"none", "running", "done"}] /\ page \in DOMAIN Shown
  /\ socket \in {"up", "down"} /\ inbox \in Seq(Message)
  /\ own \in {"none", "opening", "up", "lost"} /\ ownInbox \in Seq(Message)
  /\ edit \subseteq Lists /\ running \subseteq Snaps /\ update \in Update

LEMMA BroadcastTypes ==
  ASSUME PagesTypeOK, NEW type, NEW s, [type |-> type, snap |-> s] \in Message, Broadcast(type, s)
  PROVE  inbox' \in Seq(Message) /\ ownInbox' \in Seq(Message)
  BY DEF Broadcast, PagesTypeOK

LEMMA MessageFacts ==
  /\ \A type \in Types \ OfSnap : [type |-> type, snap |-> NoSnap] \in Message
  /\ \A type \in OfSnap, s \in Snaps : [type |-> type, snap |-> s] \in Message
  /\ OfSnap = {"snapshot_done", "check_result", "progress"}
  /\ Types \ OfSnap = {"agent_online", "agent_offline", "job_result", "checking", "already_current"}
  BY DEF Message, Types, OfSnap

LEMMA HeardFacts ==
  ASSUME NEW u \in Update, NEW type
  PROVE  Heard(u, type) \in Update
  BY DEF Heard, Update

LEMMA PageStep ==
  ASSUME PagesTypeOK, [PagesNext]_pageVars
  PROVE  PageTypes'
<1>1. PageTypes
  BY DEF PagesTypeOK, PageTypes
<1>2. CASE UNCHANGED pageVars
  BY <1>1, <1>2 DEF pageVars, server, wires, PageTypes
<1>3. ASSUME NEW k \in Lists,
             \/ ChangeQuietly(k) \/ Age(k) \/ ServerReads(k) \/ AnswerArrives(k) \/ FetchFails(k)
      PROVE  PageTypes'
  BY <1>1, <1>3 DEF ChangeQuietly, Age, ServerReads, AnswerArrives, FetchFails, server, browser, wires, PageTypes
<1>4. ASSUME NEW s \in Snaps, SnapshotStart(s) \/ Progress(s) \/ SnapshotDone(s) \/ CheckResult(s)
      PROVE  PageTypes'
  <2>1. inbox' \in Seq(Message) /\ ownInbox' \in Seq(Message)
    BY <1>1, <1>4, BroadcastTypes, MessageFacts
    DEF SnapshotStart, Progress, SnapshotDone, CheckResult, PageTypes
  <2>2. QED
    BY <1>1, <1>4, <2>1 DEF SnapshotStart, Progress, SnapshotDone, CheckResult, server, browser, PageTypes
<1>5. CASE AgentStatus \/ JobResult \/ UpdateAck
  <2>1. inbox' \in Seq(Message) /\ ownInbox' \in Seq(Message)
    BY <1>5, BroadcastTypes, MessageFacts DEF AgentStatus, JobResult, UpdateAck
  <2>2. QED
    BY <1>1, <1>5, <2>1 DEF AgentStatus, JobResult, UpdateAck, server, browser, PageTypes
<1>6. ASSUME NEW p \in DOMAIN Shown, GoTo(p)
      PROVE  PageTypes'
  BY <1>1, <1>6 DEF GoTo, server, NoUpdate, Update, PageTypes
<1>7. ASSUME NEW e \in Edits[page], Save(e)
      PROVE  PageTypes'
  BY <1>1, <1>7, EditFacts DEF Save, wires, PageTypes
<1>8. CASE EditAnswered \/ EditFails \/ Focus
  BY <1>1, <1>8 DEF EditAnswered, EditFails, Focus, server, wires, PageTypes
<1>9. CASE PushUpdate \/ PushAnswered \/ WaitOver
  <2>1. update' \in Update
    <3>1. update \in Update
      BY <1>1 DEF PageTypes
    <3>2. CASE PushUpdate
      BY <3>1, <3>2 DEF PushUpdate, Update
    <3>3. CASE PushAnswered
      <4>1. CASE update' = [text |-> "sent", pending |-> TRUE, asked |-> FALSE]
        BY <4>1 DEF Update
      <4>2. CASE update' = [update EXCEPT !.text = "ended", !.asked = FALSE]
        BY <3>1, <4>2 DEF Update
      <4>3. QED
        BY <3>3, <4>1, <4>2 DEF PushAnswered
    <3>4. CASE WaitOver
      BY <3>1, <3>4 DEF WaitOver, Update
    <3>5. QED
      BY <1>9, <3>2, <3>3, <3>4
  <2>2. QED
    BY <1>1, <1>9, <2>1 DEF PushUpdate, PushAnswered, WaitOver, server, wires, PageTypes
<1>10. CASE Receive
  <2>1. update' \in Update
    BY <1>1, <1>10, HeardFacts DEF Receive, PageTypes
  <2>2. QED
    BY <1>1, <1>10, <2>1 DEF Receive, server, PageTypes
<1>11. CASE ReceiveOwn
  <2>1. Head(ownInbox) \in Message
    BY <1>1, <1>11 DEF ReceiveOwn, PageTypes
  <2>2. running' \subseteq Snaps
    <3>1. Head(ownInbox).type = "progress" => Head(ownInbox).snap \in Snaps
      BY <2>1 DEF Message, Types, OfSnap
    <3>2. QED
      BY <1>1, <1>11, <3>1 DEF ReceiveOwn, PageTypes
  <2>3. QED
    BY <1>1, <1>11, <2>2 DEF ReceiveOwn, server, PageTypes
<1>12. CASE JoinOwn \/ LoseSocket \/ Reconnect \/ LoseOwn
  <2>1. CASE JoinOwn \/ Reconnect
    BY <1>1, <2>1 DEF JoinOwn, Reconnect, server, PageTypes
  <2>2. CASE LoseSocket \/ LoseOwn
    <3>1. <<>> \in Seq(Message)
      OBVIOUS
    <3>2. CASE LoseSocket
      BY <1>1, <3>1, <3>2 DEF LoseSocket, server, PageTypes
    <3>3. CASE LoseOwn
      BY <1>1, <3>1, <3>3 DEF LoseOwn, server, PageTypes
    <3>4. QED
      BY <2>2, <3>2, <3>3
  <2>3. QED
    BY <1>12, <2>1, <2>2
<1>13. QED
  BY <1>2, <1>3, <1>4, <1>5, <1>6, <1>7, <1>8, <1>9, <1>10, <1>11, <1>12 DEF PagesNext

-----------------------------------------------------------------------------
(* The bars of the Dashboard.                                              *)

\* No step but a broadcast touches the socket, and what runs goes on.
LEMMA BarsUntouched ==
  ASSUME PagesTypeOK, BarsEnd, UNCHANGED <<own, ownInbox, running>>,
         \A s \in Snaps : backup[s] = "running" => backup'[s] = "running"
  PROVE  BarsEnd'
<1>1. \A i \in DOMAIN ownInbox : ownInbox[i].type = "progress" => ownInbox[i].snap \in Snaps
  BY DEF PagesTypeOK, Message, Types, OfSnap
<1>2. running \subseteq Snaps
  BY DEF PagesTypeOK
<1>3. \A s, i : EndsAfter(s, i) => EndsAfter(s, i)'
  BY DEF EndsAfter
<1>4. QED
  BY <1>1, <1>2, <1>3 DEF BarsEnd

\* The end of a backup is announced behind everything that was said of it.
LEMMA BarsAnnounced ==
  ASSUME PagesTypeOK, BarsEnd, UNCHANGED <<own, running>>,
         NEW type, NEW n, Broadcast(type, n), [type |-> type, snap |-> n] \in Message,
         type = "progress" => backup'[n] = "running",
         \A s \in Snaps : backup[s] = "running" =>
           backup'[s] = "running" \/ (type = "snapshot_done" /\ n = s)
  PROVE  BarsEnd'
<1>1. CASE own # "up"
  BY <1>1 DEF BarsEnd, Broadcast
<1>2. CASE own = "up"
  <2> DEFINE m == [type |-> type, snap |-> n]
  <2>1. ownInbox \in Seq(Message) /\ ownInbox' = Append(ownInbox, m)
    BY <1>2 DEF PagesTypeOK, Broadcast
  <2>2. /\ Len(ownInbox) \in Nat
        /\ DOMAIN ownInbox = 1..Len(ownInbox) /\ DOMAIN ownInbox' = 1..(Len(ownInbox) + 1)
        /\ \A i \in DOMAIN ownInbox : ownInbox'[i] = ownInbox[i]
        /\ ownInbox'[Len(ownInbox) + 1] = m
    BY <2>1
  <2>3. \A i \in DOMAIN ownInbox : ownInbox[i].type = "progress" => ownInbox[i].snap \in Snaps
    BY DEF PagesTypeOK, Message, Types, OfSnap
  <2>4. \A s, i : EndsAfter(s, i) => EndsAfter(s, i)'
    BY <2>2 DEF EndsAfter
  <2>5. ASSUME NEW s \in Snaps, NEW i \in 0..Len(ownInbox), backup[s] = "running" \/ EndsAfter(s, i)
        PROVE  backup'[s] = "running" \/ EndsAfter(s, i)'
    <3>1. CASE EndsAfter(s, i)
      BY <2>4, <3>1
    <3>2. CASE backup[s] = "running"
      <4>1. CASE type = "snapshot_done" /\ n = s
        <5>1. m = EndOf(s)
          BY <4>1 DEF EndOf
        <5>2. QED
          BY <2>2, <5>1 DEF EndsAfter
      <4>2. QED
        BY <3>2, <4>1
    <3>3. QED
      BY <2>5, <3>1, <3>2
  <2>6. \A s \in running' : backup'[s] = "running" \/ EndsAfter(s, 0)'
    BY <1>2, <2>2, <2>5 DEF BarsEnd, PagesTypeOK
  <2>7. ASSUME NEW i \in DOMAIN ownInbox', ownInbox'[i].type = "progress"
        PROVE  (backup[ownInbox[i].snap] = "running" \/ EndsAfter(ownInbox[i].snap, i))'
    <3>1. CASE i = Len(ownInbox) + 1
      BY <2>2, <2>7, <3>1
    <3>2. CASE i \in DOMAIN ownInbox
      <4>1. PICK s : s = ownInbox[i].snap
        OBVIOUS
      <4>2. ownInbox'[i] = ownInbox[i] /\ s \in Snaps /\ i \in 0..Len(ownInbox)
        BY <2>2, <2>3, <2>7, <3>2, <4>1
      <4>3. backup[s] = "running" \/ EndsAfter(s, i)
        BY <2>7, <3>2, <4>1, <4>2 DEF BarsEnd
      <4>4. backup'[s] = "running" \/ EndsAfter(s, i)'
        BY <2>5, <4>2, <4>3
      <4>5. QED
        BY <4>1, <4>2, <4>4 DEF EndsAfter
    <3>3. QED
      BY <2>2, <3>1, <3>2
  <2>8. QED
    BY <1>2, <2>6, <2>7 DEF BarsEnd
<1>3. QED
  BY <1>1, <1>2

LEMMA BarsHeard ==
  ASSUME PagesTypeOK, BarsEnd, ReceiveOwn
  PROVE  BarsEnd'
<1> DEFINE m == Head(ownInbox)
<1>1. own = "up" /\ own' = own /\ backup' = backup
  BY DEF ReceiveOwn, BarsEnd, server
<1>2. /\ ownInbox \in Seq(Message) /\ ownInbox # <<>> /\ ownInbox' = Tail(ownInbox)
      /\ m = ownInbox[1] /\ m \in Message
  BY DEF ReceiveOwn, PagesTypeOK
<1>3. /\ Len(ownInbox) \in Nat /\ DOMAIN ownInbox = 1..Len(ownInbox)
      /\ DOMAIN ownInbox' = 1..(Len(ownInbox) - 1)
      /\ \A i \in DOMAIN ownInbox' : ownInbox'[i] = ownInbox[i + 1]
  BY <1>2
<1>4. ASSUME NEW s, NEW i \in Nat, EndsAfter(s, i + 1)
      PROVE  EndsAfter(s, i)'
  <2>1. PICK j \in DOMAIN ownInbox : j > i + 1 /\ ownInbox[j] = EndOf(s)
    BY <1>4 DEF EndsAfter
  <2>2. j - 1 \in DOMAIN ownInbox' /\ j - 1 > i /\ ownInbox'[j - 1] = EndOf(s)
    BY <1>3, <2>1
  <2>3. QED
    BY <2>2 DEF EndsAfter
<1>5. ASSUME NEW s, EndsAfter(s, 0), m # EndOf(s)
      PROVE  EndsAfter(s, 0)'
  <2>1. PICK j \in DOMAIN ownInbox : ownInbox[j] = EndOf(s)
    BY <1>5 DEF EndsAfter
  <2>2. j # 1
    BY <1>2, <1>5, <2>1
  <2>3. j - 1 \in DOMAIN ownInbox' /\ j - 1 > 0 /\ ownInbox'[j - 1] = EndOf(s)
    BY <1>3, <2>1, <2>2
  <2>4. QED
    BY <2>3 DEF EndsAfter
<1>6. ASSUME NEW s \in running'
      PROVE  backup'[s] = "running" \/ EndsAfter(s, 0)'
  <2>1. CASE m.type = "progress" /\ s = m.snap
    <3>1. backup[s] = "running" \/ EndsAfter(s, 1)
      BY <1>2, <1>3, <2>1 DEF BarsEnd
    <3>2. QED
      BY <1>1, <1>4, <3>1
  <2>2. CASE s \in running /\ m # EndOf(s)
    <3>1. backup[s] = "running" \/ EndsAfter(s, 0)
      BY <1>1, <2>2 DEF BarsEnd
    <3>2. QED
      BY <1>1, <1>5, <2>2, <3>1
  <2>3. QED
    BY <2>1, <2>2 DEF ReceiveOwn, EndOf
<1>7. ASSUME NEW i \in DOMAIN ownInbox', ownInbox'[i].type = "progress"
      PROVE  (backup[ownInbox[i].snap] = "running" \/ EndsAfter(ownInbox[i].snap, i))'
  <2>1. PICK s : s = ownInbox[i + 1].snap
    OBVIOUS
  <2>2. i \in Nat /\ i + 1 \in DOMAIN ownInbox /\ ownInbox'[i] = ownInbox[i + 1]
    BY <1>3
  <2>3. backup[s] = "running" \/ EndsAfter(s, i + 1)
    BY <1>7, <2>1, <2>2 DEF BarsEnd
  <2>4. backup'[s] = "running" \/ EndsAfter(s, i)'
    BY <1>1, <1>4, <2>2, <2>3
  <2>5. QED
    BY <2>1, <2>2, <2>4 DEF EndsAfter
<1>8. QED
  BY <1>1, <1>6, <1>7 DEF BarsEnd

LEMMA BarsStep ==
  ASSUME PagesTypeOK, BarsEnd, [PagesNext]_pageVars
  PROVE  BarsEnd'
<1>1. CASE UNCHANGED pageVars
  BY <1>1, BarsUntouched DEF pageVars, server, wires
<1>2. ASSUME NEW k \in Lists,
             \/ ChangeQuietly(k) \/ Age(k) \/ ServerReads(k) \/ AnswerArrives(k) \/ FetchFails(k)
      PROVE  BarsEnd'
  BY <1>2, BarsUntouched DEF ChangeQuietly, Age, ServerReads, AnswerArrives, FetchFails, server, browser, wires
<1>3. ASSUME NEW s \in Snaps, SnapshotStart(s)
      PROVE  BarsEnd'
  BY <1>3, BarsUntouched DEF SnapshotStart, browser, PagesTypeOK
<1>4. ASSUME NEW s \in Snaps, Progress(s)
      PROVE  BarsEnd'
  BY <1>4, BarsAnnounced, MessageFacts DEF Progress, server, browser
<1>5. ASSUME NEW s \in Snaps, SnapshotDone(s)
      PROVE  BarsEnd'
  <2>1. \A q \in Snaps : backup[q] = "running" => backup'[q] = "running" \/ s = q
    BY <1>5 DEF SnapshotDone, PagesTypeOK
  <2>2. Broadcast("snapshot_done", s) /\ UNCHANGED <<own, running>>
    BY <1>5 DEF SnapshotDone, browser
  <2>3. [type |-> "snapshot_done", snap |-> s] \in Message
    BY MessageFacts
  <2>4. QED
    BY <2>1, <2>2, <2>3, BarsAnnounced
<1>6. ASSUME NEW s \in Snaps, CheckResult(s)
      PROVE  BarsEnd'
  BY <1>6, BarsAnnounced, MessageFacts DEF CheckResult, browser
<1>7. CASE AgentStatus \/ JobResult \/ UpdateAck
  <2>1. /\ UNCHANGED <<backup, own, running>>
        /\ \E type \in Types \ OfSnap : Broadcast(type, NoSnap)
    BY <1>7, MessageFacts DEF AgentStatus, JobResult, UpdateAck, server, browser
  <2>2. PICK type \in Types \ OfSnap : Broadcast(type, NoSnap)
    BY <2>1
  <2>3. type # "progress" /\ [type |-> type, snap |-> NoSnap] \in Message
    BY <2>2, MessageFacts
  <2>4. QED
    BY <2>1, <2>2, <2>3, BarsAnnounced
<1>8. ASSUME NEW p \in DOMAIN Shown, GoTo(p)
      PROVE  BarsEnd'
  BY <1>8 DEF GoTo, BarsEnd
<1>9. ASSUME NEW e \in Edits[page], Save(e)
      PROVE  BarsEnd'
  BY <1>9, BarsUntouched DEF Save, wires
<1>10. CASE EditAnswered \/ EditFails \/ PushUpdate \/ PushAnswered \/ WaitOver \/ Focus
  BY <1>10, BarsUntouched DEF EditAnswered, EditFails, PushUpdate, PushAnswered, WaitOver, Focus, server, wires
<1>11. CASE Receive \/ LoseSocket \/ Reconnect
  BY <1>11, BarsUntouched DEF Receive, LoseSocket, Reconnect, server
<1>12. CASE ReceiveOwn
  BY <1>12, BarsHeard
<1>13. CASE JoinOwn \/ LoseOwn
  BY <1>13 DEF JoinOwn, LoseOwn, BarsEnd
<1>14. QED
  BY <1>1, <1>2, <1>3, <1>4, <1>5, <1>6, <1>7, <1>8, <1>9, <1>10, <1>11, <1>12, <1>13 DEF PagesNext

-----------------------------------------------------------------------------
LEMMA PagesInvariant == PagesSpec => []PagesInv
<1>1. PagesInit => PagesInv
  <2> SUFFICES ASSUME PagesInit PROVE PagesInv
    OBVIOUS
  <2>1. 0 \in Versions
    BY PagesAssumption DEF Versions
  <2>2. \A k \in Lists : list[k] \in List
    BY <2>1 DEF PagesInit, List, Fetch, NoFetch, None
  <2>3. update \in Update
    BY DEF PagesInit, NoUpdate, Update
  <2>4. PagesTypeOK
    <3>1. /\ page \in DOMAIN Shown /\ inbox \in Seq(Message) /\ ownInbox \in Seq(Message)
          /\ socket \in {"up", "down"} /\ own \in {"none", "opening", "up", "lost"}
      BY DEF PagesInit, Shown
    <3>2. /\ version \in [Lists -> Versions] /\ told \in [Lists -> Versions]
          /\ backup \in [Snaps -> {"none", "running", "done"}]
      BY <2>1 DEF PagesInit
    <3>3. list \in [Lists -> List]
      BY <2>2 DEF PagesInit
    <3>4. edit \subseteq Lists /\ running \subseteq Snaps /\ failed \subseteq Lists
      BY DEF PagesInit
    <3>5. events \in 0..MaxEvents /\ moves \in 0..MaxMoves /\ faults \in 0..MaxFaults
      BY PagesAssumption DEF PagesInit
    <3>6. QED
      BY <2>3, <3>1, <3>2, <3>3, <3>4, <3>5 DEF PagesTypeOK
  <2>5. ListsUpToDate
    BY DEF PagesInit, ListsUpToDate, UpToDate, NoFetch
  <2>6. ChangesCounted /\ BarsEnd
    BY DEF PagesInit, ChangesCounted, BarsEnd
  <2>7. QED
    BY <2>4, <2>5, <2>6 DEF PagesInv
<1>2. PagesInv /\ [PagesNext]_pageVars => PagesInv'
  <2> SUFFICES ASSUME PagesInv, [PagesNext]_pageVars PROVE PagesInv'
    OBVIOUS
  <2>1. CacheTypes' /\ ListsUpToDate'
    BY CacheStep DEF PagesInv
  <2>2. CountTypes' /\ ChangesCounted'
    BY CountStep DEF PagesInv
  <2>3. PageTypes' /\ BarsEnd'
    BY PageStep, BarsStep DEF PagesInv
  <2>4. PagesTypeOK'
    BY <2>1, <2>2, <2>3 DEF PagesTypeOK, CacheTypes, CountTypes, PageTypes
  <2>5. QED
    BY <2>1, <2>2, <2>3, <2>4 DEF PagesInv
<1>3. QED
  BY <1>1, <1>2, PTL DEF PagesSpec

\* Every variable of the pages stays within its type: versions within what the
\* counted steps allow, messages of the shapes the server sends.
THEOREM PagesTypeCorrect == PagesSpec => []PagesTypeOK
<1>1. PagesInv => PagesTypeOK
  BY DEF PagesInv
<1>2. QED
  BY <1>1, PagesInvariant, PTL

\* A list that a page shows, and was told to refresh, is never at rest on data older
\* than what it was told of, over every order of announcements, edits, answers,
\* changes of the page and lost sockets, unless its last fetch failed
\* (Snapshots.tsx:67, Agents.tsx:86, Jobs.tsx:56).
THEOREM ToldIsShown == PagesSpec => []ShowsWhatItWasTold
<1>1. PagesInv => ShowsWhatItWasTold
  <2> SUFFICES ASSUME PagesInv, NEW k \in Lists \ failed,
                      list[k].fetch.phase = "none", list[k].data # None
               PROVE  list[k].data >= told[k]
    BY DEF ShowsWhatItWasTold
  <2>1. UpToDate(list[k], told[k], version[k], k \notin failed)
    BY DEF PagesInv, ListsUpToDate
  <2>2. told[k] <= list[k].data
    BY <2>1 DEF UpToDate
  <2>3. told[k] \in Int /\ list[k] \in List
    BY DEF PagesInv, PagesTypeOK, Versions
  <2>4. list[k].data \in Int
    BY <2>3 DEF List, Versions, None
  <2>5. QED
    BY <2>2, <2>3, <2>4
<1>2. QED
  BY <1>1, PagesInvariant, PTL

\* While its socket lasts, every bar of the Dashboard is of a backup that runs or whose
\* end is on its way to the page, for any number of backups (Dashboard.tsx:65-84).
THEOREM BarsAreLive == PagesSpec => []RunningIsLive
<1>1. PagesInv => RunningIsLive
  BY DEF PagesInv, BarsEnd, RunningIsLive, EndsAfter
<1>2. QED
  BY <1>1, PagesInvariant, PTL
=============================================================================
