------------------------------ MODULE MCRollout ------------------------------
(* Small instances of Rollout: services "a" (one replica) before "b" (two). *)
EXTENDS Rollout, TLC

OneService == {"b"}
OneOrder == <<"b">>
TwoServices == {"a", "b"}
TwoOrder == <<"a", "b">>
MCReplicas == [s \in Services |-> IF s = "a" THEN 1 ELSE 2]
AllNew == [p \in Deploys |-> "new"]

On(s, image) == [of |-> s, image |-> image]

\* Two old replicas.
OldPair == {<<On("b", "old"), On("b", "old")>>}

\* Not deployed yet, on the old image, or "b" on the new one with a replica too
\* many and "a" not deployed.
MCBefore ==
  {<<>>,
   <<On("a", "old"), On("b", "old"), On("b", "old")>>,
   <<On("b", "new"), On("b", "new"), On("b", "new")>>}

DeploySymmetry == Permutations(Deploys)
=============================================================================
