----------------------------- MODULE MCSubmission -----------------------------
(* Submission with calls that are alike but for what they are asked. *)
EXTENDS Submission, TLC

Symmetry == Permutations(Calls)
=============================================================================
