------------------------ MODULE SnapshotLifecycle ------------------------
(***************************************************************************)
(* What the snapshots table promises to its readers (the web UI, the       *)
(* overdue checker, the exports), independently of agents, connections and *)
(* messages: a row is inserted once, gets at most one outcome, can only    *)
(* be downgraded or orphaned after that, and never comes back once         *)
(* deleted. BackupRun is shown to implement it.                            *)
(***************************************************************************)
CONSTANT SnapIds    \* snapshot ids

VARIABLE row        \* snapshots table: status, and finished = (finished_at # null)

Statuses == {"none", "running", "success", "failed", "warning", "orphaned", "deleted"}

NoRow   == [status |-> "none", finished |-> FALSE]
Gone    == [status |-> "deleted", finished |-> FALSE]
Running == [status |-> "running", finished |-> FALSE]

Present(id) == row[id].status \notin {"none", "deleted"}

Init == row = [id \in SnapIds |-> NoRow]

\* A backup begins.
Start(id) ==
  /\ row[id] = NoRow
  /\ row' = [row EXCEPT ![id] = Running]

\* A backup is refused: the row records the failure at once.
Refuse(id) ==
  /\ row[id] = NoRow
  /\ row' = [row EXCEPT ![id] = [status |-> "failed", finished |-> TRUE]]

\* The outcome is recorded, once.
Finish(id, outcome) ==
  /\ Present(id)
  /\ ~row[id].finished
  /\ row' = [row EXCEPT ![id] = [status |-> outcome, finished |-> TRUE]]

\* A later integrity check failed.
Downgrade(id) ==
  /\ row[id].status = "success"
  /\ row' = [row EXCEPT ![id].status = "warning"]

\* The repository path was reset: these rows are marked.
Orphan(S) ==
  /\ \A id \in S : Present(id)
  /\ row' = [id \in SnapIds |-> IF id \in S THEN [row[id] EXCEPT !.status = "orphaned"]
                                            ELSE row[id]]

Delete(id) ==
  /\ Present(id)
  /\ row' = [row EXCEPT ![id] = Gone]

Next ==
  \/ \E id \in SnapIds :
       \/ Start(id)
       \/ Refuse(id)
       \/ \E outcome \in {"success", "failed"} : Finish(id, outcome)
       \/ Downgrade(id)
       \/ Delete(id)
  \/ \E S \in SUBSET SnapIds : Orphan(S)

Spec == Init /\ [][Next]_row
=============================================================================
