----------------------------- MODULE MCIdentity -----------------------------
(* Instances of Identity for TLC. *)
EXTENDS Identity, TLC

\* Requests are interchangeable: safety runs may permute them.
RequestSymmetry == Permutations(Request)
=============================================================================
