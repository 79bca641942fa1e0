------------------------------- MODULE MCOtp -------------------------------
(* Instances of Otp for TLC. *)
EXTENDS Otp, TLC

Interchangeable == Permutations(Codes) \cup Permutations(Reqs)
=============================================================================
