---------------------------- MODULE MCSevaCounter ----------------------------
(* An instance of SevaCounter for TLC. *)
EXTENDS SevaCounter, TLC

Interchangeable == Permutations(Users) \cup Permutations(Callers)
=============================================================================
