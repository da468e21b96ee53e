--------------------------------- MODULE Plan ---------------------------------
(***************************************************************************)
(* What a deployment rolls out, and in which order: resolveServiceFilter   *)
(* and topologicalSort of internal/stack/deployer.go and the loop of       *)
(* executeDeploy that follows the sorted list.                             *)
(*                                                                         *)
(* The compose file and the filter are chosen at the start.  A service may *)
(* depend on a name the file does not declare.  Go's maps are iterated in  *)
(* any order, so every choice of "the next one" is nondeterministic.       *)
(***************************************************************************)
EXTENDS Integers, Sequences, FiniteSets

CONSTANTS
  Names,      \* names of services, declared or only depended upon
  Files       \* the compose files there may be

ASSUME PlanAssumption ==
  /\ IsFiniteSet(Names)
  /\ \A f \in Files : /\ f.services \in (SUBSET Names) \ {{}}
                      /\ f.needs \in [Names -> SUBSET Names]
                      /\ \A n \in Names \ f.services : f.needs[n] = {}

VARIABLES
  file,       \* the compose file: declared services and depends_on
  filter,     \* service_filter of the stack: whether there is one, and its names
  pc,         \* position of the deployment
  pending,    \* names expand has still to visit
  expanded,   \* names expand has visited
  degree,     \* inDegree
  queue,      \* services that wait for nothing more
  sorted,     \* the sorted list
  due,        \* dependents of the last popped service not counted down yet
  at,         \* how far executeDeploy's loop over sorted has come
  rolled      \* the services it has deployed so far

vars == <<file, filter, pc, pending, expanded, degree, queue, sorted, due, at, rolled>>
composeVars == <<file, filter>>

Ends == {"empty", "cycle", "done"}
Ran(s) == {s[i] : i \in DOMAIN s}

TypeOK ==
  /\ file.services \in (SUBSET Names) \ {{}} /\ file.needs \in [Names -> SUBSET Names]
  /\ filter \in [given : BOOLEAN, names : SUBSET Names]
  /\ pc \in {"filter", "expand", "seed", "sort", "roll"} \cup Ends
  /\ pending \subseteq Names /\ expanded \subseteq Names /\ due \subseteq expanded
  /\ degree \in [Names -> Nat]
  /\ queue \in Seq(Names) /\ sorted \in Seq(Names)
  /\ at \in Nat /\ rolled \subseteq Names

Init ==
  /\ file \in Files
  /\ filter \in [given : BOOLEAN, names : SUBSET Names]
  /\ ~ filter.given => filter.names = {}
  /\ pc = "filter"
  /\ pending = {} /\ expanded = {}
  /\ degree = [n \in Names |-> 0]
  /\ queue = <<>> /\ sorted = <<>>
  /\ at = 0 /\ rolled = {}
  /\ due = {}

-----------------------------------------------------------------------------
\* A filter that names nothing the file declares leaves nothing to deploy.
Targets == IF filter.given THEN filter.names \cap file.services ELSE file.services

resolveServiceFilter ==
  /\ pc = "filter"
  /\ pending' = Targets
  /\ pc' = IF Targets = {} THEN "empty" ELSE "expand"
  /\ UNCHANGED <<composeVars, expanded, degree, queue, sorted, due, at, rolled>>

\* Mutated form: the dependencies of the targets are added, not theirs.
ExpandOnce(n) ==
  /\ pc = "expand" /\ n \in pending
  /\ expanded' = expanded \cup {n}
  /\ pending' = (IF n \in Targets THEN pending \cup file.needs[n] ELSE pending) \ expanded'
  /\ UNCHANGED <<composeVars, pc, degree, queue, sorted, due, at, rolled>>

\* The transitive dependencies; an undeclared name has none.
Expand(n) ==
  /\ pc = "expand" /\ n \in pending
  /\ expanded' = expanded \cup {n}
  /\ pending' = (pending \cup file.needs[n]) \ expanded'
  /\ UNCHANGED <<composeVars, pc, degree, queue, sorted, due, at, rolled>>

\* Mutated form: undeclared dependencies are not counted, though they are sorted.
CountDegreesDeclared ==
  /\ pc = "expand" /\ pending = {}
  /\ degree' = [n \in Names |-> IF n \in expanded
                                THEN Cardinality(file.needs[n] \cap file.services) ELSE 0]
  /\ pc' = "seed"
  /\ UNCHANGED <<composeVars, pending, expanded, queue, sorted, due, at, rolled>>

CountDegrees ==
  /\ pc = "expand" /\ pending = {}
  /\ degree' = [n \in Names |-> IF n \in expanded
                                THEN Cardinality(file.needs[n] \cap expanded) ELSE 0]
  /\ pc' = "seed"
  /\ UNCHANGED <<composeVars, pending, expanded, queue, sorted, due, at, rolled>>

Ready(n) == n \in expanded /\ degree[n] = 0 /\ n \notin Ran(queue)

Seed(n) ==
  /\ pc = "seed" /\ Ready(n)
  /\ queue' = Append(queue, n)
  /\ UNCHANGED <<composeVars, pc, pending, expanded, degree, sorted, due, at, rolled>>

Seeded ==
  /\ pc = "seed" /\ ~ \E n \in Names : Ready(n)
  /\ pc' = "sort"
  /\ UNCHANGED <<composeVars, pending, expanded, degree, queue, sorted, due, at, rolled>>

Pop ==
  /\ pc = "sort" /\ due = {} /\ queue # <<>>
  /\ queue' = Tail(queue)
  /\ sorted' = Append(sorted, Head(queue))
  /\ due' = {n \in expanded : Head(queue) \in file.needs[n]}
  /\ UNCHANGED <<composeVars, pc, pending, expanded, degree, at, rolled>>

\* Mutated form: a dependent follows the first of its dependencies.
CountDownEager(n) ==
  /\ pc = "sort" /\ n \in due
  /\ due' = due \ {n}
  /\ degree' = [degree EXCEPT ![n] = IF @ > 0 THEN @ - 1 ELSE 0]
  /\ queue' = IF n \notin Ran(queue) \cup Ran(sorted) THEN Append(queue, n) ELSE queue
  /\ UNCHANGED <<composeVars, pc, pending, expanded, sorted, at, rolled>>

CountDown(n) ==
  /\ pc = "sort" /\ n \in due
  /\ due' = due \ {n}
  /\ degree' = [degree EXCEPT ![n] = @ - 1]
  /\ queue' = IF degree[n] = 1 THEN Append(queue, n) ELSE queue
  /\ UNCHANGED <<composeVars, pc, pending, expanded, sorted, at, rolled>>

\* Mutated form: what could be sorted is rolled out, whatever is missing.
SortedUnchecked ==
  /\ pc = "sort" /\ due = {} /\ queue = <<>>
  /\ pc' = "roll"
  /\ UNCHANGED <<composeVars, pending, expanded, degree, queue, sorted, due, at, rolled>>

Sorted ==
  /\ pc = "sort" /\ due = {} /\ queue = <<>>
  /\ pc' = IF Len(sorted) = Cardinality(expanded) THEN "roll" ELSE "cycle"
  /\ UNCHANGED <<composeVars, pending, expanded, degree, queue, sorted, due, at, rolled>>

\* The loop of executeDeploy over the sorted list: an undeclared name is skipped.
Roll ==
  /\ pc = "roll" /\ at < Len(sorted)
  /\ at' = at + 1
  /\ rolled' = rolled \cup ({sorted[at + 1]} \cap file.services)
  /\ UNCHANGED <<composeVars, pc, pending, expanded, degree, queue, sorted, due>>

Rolled ==
  /\ pc = "roll" /\ at = Len(sorted)
  /\ pc' = "done"
  /\ UNCHANGED <<composeVars, pending, expanded, degree, queue, sorted, due, at, rolled>>

Next ==
  \/ resolveServiceFilter
  \/ \E n \in Names : Expand(n) \/ Seed(n) \/ CountDown(n)
  \/ CountDegrees \/ Seeded \/ Pop \/ Sorted \/ Roll \/ Rolled

Spec == Init /\ [][Next]_vars

-----------------------------------------------------------------------------
(* What the plan promises, against definitions that share nothing with it. *)

\* The least set that holds the targets and every name its members depend on.
Closure == {n \in Names : \A S \in SUBSET Names :
              (Targets \subseteq S /\ \A m \in S : file.needs[m] \subseteq S) => n \in S}

\* Names that wait for each other: each one for another of them, or for itself.
Knot(S) == S # {} /\ \A n \in S : file.needs[n] \cap S # {}

\* At any moment of a rollout, whatever is deployed has had its declared
\* dependencies deployed: the order of executeDeploy's loop respects depends_on.
DependenciesFirst == \A n \in rolled : file.needs[n] \cap file.services \subseteq rolled

\* A rollout that ends has deployed the targets and their transitive
\* dependencies, each once, and nothing else.
RollsOutTheClosure ==
  pc = "done" => /\ rolled = Closure \cap file.services
                 /\ Len(sorted) = Cardinality(Closure)

\* topologicalSort reports a cycle exactly when the services to deploy have one;
\* a cycle among services the filter leaves out does not matter.
CycleIffKnot ==
  /\ pc = "cycle" => \E S \in SUBSET Closure : Knot(S)
  /\ pc \in {"roll", "done"} => ~ \E S \in SUBSET Closure : Knot(S)
=============================================================================
