---------------------------- MODULE MCCheckFront ----------------------------
(* Small instances of CheckFront for TLC. *)
EXTENDS CheckFront, TLC

Symmetry == Permutations(Client) \cup Permutations(Id)
=============================================================================
