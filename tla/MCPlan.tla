-------------------------------- MODULE MCPlan --------------------------------
(* Compose files over four names, at most one of them undeclared, with every *)
(* filter: at most two dependencies, or four between different services,     *)
(* which makes chains, diamonds and cycles of every length up to four.       *)
EXTENDS Plan, FiniteSetsExt

Edges == UNION {kSubset(k, Names \X Names) : k \in 0..2}
           \cup kSubset(4, {e \in Names \X Names : e[1] # e[2]})
AllFiles ==
  {f \in [services : {S \in SUBSET Names : Cardinality(S) >= Cardinality(Names) - 1},
          needs : {[n \in Names |-> {m \in Names : <<n, m>> \in E}] : E \in Edges}] :
     \A n \in Names \ f.services : f.needs[n] = {}}
=============================================================================
