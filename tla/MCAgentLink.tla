--------------------------- MODULE MCAgentLink ---------------------------
(* Model checking of AgentLink: agents and connections are interchangeable *)
(* model values, a symmetry that a run with liveness must not use.           *)
EXTENDS AgentLink, TLC

LinkSymmetry == Permutations(Agents) \cup Permutations(Sockets)
=============================================================================
