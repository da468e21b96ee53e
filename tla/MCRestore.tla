------------------------------ MODULE MCRestore ------------------------------
(* Commits are alike, and so are requests. *)
EXTENDS Restore, TLC

RestoreSymmetry == Permutations(Commits) \cup Permutations(Uploads)
=============================================================================
