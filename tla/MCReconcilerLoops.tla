-------------------------- MODULE MCReconcilerLoops --------------------------
(* Small instances of ReconcilerLoops. *)
EXTENDS ReconcilerLoops
=============================================================================
