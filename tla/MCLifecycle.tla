---------------------------- MODULE MCLifecycle ----------------------------
(* Instances of Lifecycle for TLC.  A goroutine identifier is a slot: one    *)
(* that is in two of the sets serves either kind of request, one at a time.  *)
EXTENDS Lifecycle, TLC

\* Records and slots are interchangeable.
DeploymentSymmetry == Permutations(Deployments)
=============================================================================
