-------------------------- MODULE MCKeyRotation --------------------------
(* Model checking of KeyRotation: connections are interchangeable.         *)
EXTENDS KeyRotation, TLC

SocketSymmetry == Permutations(Sockets)
=============================================================================
