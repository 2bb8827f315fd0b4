----------------------------- MODULE MCListener -----------------------------
(* Listener with interchangeable connections.                               *)
EXTENDS Listener, TLC

ConnSymmetry == Permutations(Conns)
=============================================================================
