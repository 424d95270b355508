-------------------------- MODULE MCSessionChannel --------------------------
(* SessionChannel on a small instance. *)
EXTENDS SessionChannel, TLC

RequestSymmetry == Permutations(Requests)
=============================================================================
