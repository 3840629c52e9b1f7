---------------------------- MODULE MCRecovery ----------------------------
(* Model checking of Recovery: two jobs of one agent share a destination.  *)
(* If they have suffixes, it is the last of two for one of them, and the   *)
(* first in the table.                                                     *)
EXTENDS Recovery, TLC

CONSTANTS a1, d1, d2

OneAgent   == [j \in Jobs |-> a1]
LastFirst  == d1 :> 2 @@ d2 :> 1
OldOrNew   == {[listed |-> <<<<d1, d2>>, <<d2>>>>, suffix |-> <<1, 1>>],
               [listed |-> <<<<d2>>, <<d2>>>>, suffix |-> <<0, 0>>]}

RunSymmetry == Permutations(Runs)
=============================================================================
