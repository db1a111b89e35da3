----------------------------- MODULE MCSignerd -----------------------------
(* Instances of Signerd for TLC. *)
EXTENDS Signerd, TLC

\* Seats that sign are interchangeable (safety only).
SignSymmetry == Permutations(SignReqs)
=============================================================================
