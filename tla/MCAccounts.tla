----------------------------- MODULE MCAccounts -----------------------------
(* An instance of Accounts for TLC. *)
EXTENDS Accounts, TLC

Symmetry ==
    Permutations(Phones) \cup Permutations(Reqs) \cup Permutations(Uids \ {Root})
=============================================================================
