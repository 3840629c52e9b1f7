--------------------------- MODULE MCBackupRun ---------------------------
(* Model checking of BackupRun: the functions that assign each job to its  *)
(* agent.                                                                  *)
EXTENDS BackupRun

CONSTANTS a1, a2, j1, j2

OneAgent  == [j \in {j1} |-> a1]
TwoAgents == [j \in {j1, j2} |-> IF j = j1 THEN a1 ELSE a2]
=============================================================================
