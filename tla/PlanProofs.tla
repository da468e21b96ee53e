------------------------------ MODULE PlanProofs ------------------------------
(***************************************************************************)
(* Proofs about Plan, for every compose file and every filter: the order   *)
(* of a rollout respects depends_on, it covers the closure of the targets, *)
(* and a cycle is reported exactly when there is one.                      *)
(***************************************************************************)
EXTENDS Plan, FiniteSetTheorems, TLAPS

Last == sorted[Len(sorted)]

\* The dependencies of n that its degree still counts.
Open(n) == {m \in file.needs[n] : m \notin Ran(sorted) \/ (n \in due /\ m = Last)}

\* expand: what is visited or to be visited lies in the closure, and holds the
\* targets and the dependencies of what is visited.
ExpandInv ==
  /\ pc \notin {"filter", "empty"} => Targets \subseteq expanded \cup pending
  /\ \A n \in expanded : file.needs[n] \subseteq expanded \cup pending
  /\ expanded \cup pending \subseteq Closure
  /\ pc \in {"filter", "empty"} => expanded = {}
  /\ pc \notin {"filter", "expand", "empty"} => pending = {}

\* While names are expanded, nothing is queued or sorted.
EarlyInv ==
  /\ pc \in {"filter", "empty", "expand"} => queue = <<>>
  /\ pc \in {"filter", "empty", "expand", "seed"} => sorted = <<>> /\ due = {}
  /\ pc \in {"roll", "done", "cycle"} => due = {}

\* The degree of n is the number of its dependencies that are not sorted yet.
DegreeInv ==
  pc \in {"seed", "sort"} => \A n \in expanded : degree[n] = Cardinality(Open(n))

\* Queued and sorted services have had all of their dependencies sorted, and no
\* service is queued or sorted twice.
QueueInv ==
  /\ Ran(queue) \subseteq expanded /\ Ran(sorted) \subseteq expanded
  /\ \A n \in Ran(queue) \cup Ran(sorted) : n \notin due /\ file.needs[n] \subseteq Ran(sorted)
  /\ \A i, j \in DOMAIN queue : queue[i] = queue[j] => i = j
  /\ Ran(queue) \cap Ran(sorted) = {}
  /\ Cardinality(Ran(sorted)) = Len(sorted)
  /\ due # {} => sorted # <<>> /\ pc = "sort"
  /\ \A n \in due : Last \in file.needs[n]

\* Nothing that waits for nothing is forgotten.
WaitInv ==
  pc = "sort" => \A n \in expanded : degree[n] = 0 => n \in Ran(queue) \cup Ran(sorted)

\* What is sorted comes after its dependencies and contains no cycle.
SortedInv ==
  /\ \A i \in DOMAIN sorted : file.needs[sorted[i]] \subseteq {sorted[j] : j \in 1..(i - 1)}
  /\ \A S \in SUBSET Ran(sorted) : ~ Knot(S)

RollInv ==
  /\ pc \in {"roll", "done"} => Len(sorted) = Cardinality(expanded)
  /\ pc = "cycle" => Len(sorted) # Cardinality(expanded) /\ queue = <<>>
                     /\ \A n \in expanded \ Ran(sorted) : Open(n) # {}
  /\ at <= Len(sorted)
  /\ pc \notin {"roll", "done"} => at = 0
  /\ pc = "done" => at = Len(sorted)
  /\ rolled = {sorted[i] : i \in 1..at} \cap file.services

IInv ==
  /\ TypeOK
  /\ ExpandInv /\ EarlyInv /\ DegreeInv /\ QueueInv /\ WaitInv /\ SortedInv /\ RollInv

-----------------------------------------------------------------------------
\* What a sequence holds after an element is appended.
LEMMA RanAppend ==
  ASSUME NEW s \in Seq(Names), NEW e \in Names
  PROVE  Ran(Append(s, e)) = Ran(s) \cup {e}
<1>1. \A x \in Ran(s) \cup {e} : x \in Ran(Append(s, e))
  <2>1. e = Append(s, e)[Len(s) + 1] /\ Len(s) + 1 \in DOMAIN Append(s, e)
    OBVIOUS
  <2>2. \A i \in DOMAIN s : s[i] = Append(s, e)[i] /\ i \in DOMAIN Append(s, e)
    OBVIOUS
  <2>3. QED
    BY <2>1, <2>2 DEF Ran
<1>2. \A x \in Ran(Append(s, e)) : x \in Ran(s) \cup {e}
  BY DEF Ran
<1>3. QED
  BY <1>1, <1>2

\* What a sequence holds besides its head.
LEMMA RanTail ==
  ASSUME NEW s \in Seq(Names), s # <<>>
  PROVE  /\ Ran(s) = Ran(Tail(s)) \cup {Head(s)}
         /\ (\A i, j \in DOMAIN s : s[i] = s[j] => i = j)
              => /\ Head(s) \notin Ran(Tail(s))
                 /\ \A i, j \in DOMAIN Tail(s) : Tail(s)[i] = Tail(s)[j] => i = j
<1>1. /\ Head(s) = s[1] /\ 1 \in DOMAIN s
      /\ \A i \in DOMAIN Tail(s) : i + 1 \in DOMAIN s /\ Tail(s)[i] = s[i + 1] /\ i + 1 # 1
  OBVIOUS
<1>2. \A i \in DOMAIN s : i # 1 => i - 1 \in DOMAIN Tail(s) /\ s[i] = Tail(s)[i - 1]
  OBVIOUS
<1>3. Ran(s) = Ran(Tail(s)) \cup {Head(s)}
  <2>1. \A x \in Ran(s) : x \in Ran(Tail(s)) \cup {Head(s)}
    <3> SUFFICES ASSUME NEW i \in DOMAIN s PROVE s[i] \in Ran(Tail(s)) \cup {Head(s)}
      BY DEF Ran
    <3>1. CASE i = 1
      BY <1>1, <3>1
    <3>2. CASE i # 1
      BY <1>2, <3>2 DEF Ran
    <3>3. QED
      BY <3>1, <3>2
  <2>2. \A x \in Ran(Tail(s)) : x \in Ran(s)
    <3> SUFFICES ASSUME NEW i \in DOMAIN Tail(s) PROVE Tail(s)[i] \in Ran(s)
      BY DEF Ran
    <3>1. QED
      BY <1>1 DEF Ran
  <2>3. Head(s) \in Ran(s)
    BY <1>1, Zenon DEF Ran
  <2>4. QED
    BY <2>1, <2>2, <2>3
<1>4. ASSUME \A i, j \in DOMAIN s : s[i] = s[j] => i = j
      PROVE  /\ Head(s) \notin Ran(Tail(s))
             /\ \A i, j \in DOMAIN Tail(s) : Tail(s)[i] = Tail(s)[j] => i = j
  <2>1. Head(s) \notin Ran(Tail(s))
    BY <1>1, <1>4 DEF Ran
  <2>2. ASSUME NEW i \in DOMAIN Tail(s), NEW j \in DOMAIN Tail(s), Tail(s)[i] = Tail(s)[j]
        PROVE  i = j
    BY <1>1, <1>4, <2>2
  <2>3. QED
    BY <2>1, <2>2
<1>5. QED
  BY <1>3, <1>4

\* Dependencies are a finite set of names.
LEMMA NeedsFinite ==
  ASSUME TypeOK, NEW n \in Names
  PROVE  /\ file.needs[n] \subseteq Names /\ IsFiniteSet(file.needs[n])
         /\ Open(n) \subseteq file.needs[n] /\ IsFiniteSet(Open(n))
         /\ Cardinality(Open(n)) \in Nat
<1>1. file.needs[n] \subseteq Names
  BY DEF TypeOK
<1>2. IsFiniteSet(file.needs[n])
  BY <1>1, PlanAssumption, FS_Subset
<1>3. Open(n) \subseteq file.needs[n]
  BY DEF Open
<1>4. QED
  BY <1>1, <1>2, <1>3, FS_Subset, FS_CardinalityType

-----------------------------------------------------------------------------
\* The types alone are inductive: degrees stay natural numbers because a
\* dependent that is counted down is still counted.
LEMMA TypeStep == IInv /\ [Next]_vars => TypeOK'
<1> SUFFICES ASSUME IInv, [Next]_vars PROVE TypeOK'
  OBVIOUS
<1> USE DEF IInv, composeVars, Ends
<1>1. CASE resolveServiceFilter
  BY <1>1 DEF TypeOK, resolveServiceFilter, Targets
<1>2. CASE \E n \in Names : Expand(n)
  BY <1>2 DEF TypeOK, Expand
<1>3. CASE \E n \in Names : Seed(n)
  BY <1>3 DEF TypeOK, Seed
<1>4. ASSUME NEW n \in Names, CountDown(n) PROVE TypeOK'
  <2>1. n \in expanded /\ degree[n] \in Nat /\ degree[n] = Cardinality(Open(n))
    BY <1>4 DEF CountDown, TypeOK, DegreeInv
  <2>2. Last \in Open(n)
    BY <1>4 DEF CountDown, Open, QueueInv
  <2>3. degree[n] # 0
    BY <2>1, <2>2, NeedsFinite, FS_EmptySet
  <2>4. degree' \in [Names -> Nat]
    BY <1>4, <2>1, <2>3 DEF CountDown, TypeOK
  <2>5. QED
    BY <1>4, <2>4 DEF CountDown, TypeOK
<1>5. CASE CountDegrees
  <2>1. \A n \in Names : IsFiniteSet(file.needs[n] \cap expanded)
    BY NeedsFinite, FS_Subset
  <2>2. degree' \in [Names -> Nat]
    BY <1>5, <2>1, FS_CardinalityType DEF CountDegrees
  <2>3. QED
    BY <1>5, <2>2 DEF CountDegrees, TypeOK
<1>6. CASE Seeded
  BY <1>6 DEF TypeOK, Seeded
<1>7. CASE Pop
  BY <1>7 DEF TypeOK, Pop
<1>8. CASE Sorted \/ Rolled
  BY <1>8 DEF TypeOK, Sorted, Rolled
<1>9. CASE Roll
  BY <1>9 DEF TypeOK, Roll
<1>10. CASE UNCHANGED vars
  BY <1>10 DEF TypeOK, vars
<1>11. QED
  BY <1>1, <1>2, <1>3, <1>4, <1>5, <1>6, <1>7, <1>8, <1>9, <1>10 DEF Next

\* The closure holds the targets and, with a name, what that name depends on.
LEMMA ClosureFacts ==
  ASSUME TypeOK
  PROVE  /\ Targets \subseteq Closure /\ Closure \subseteq Names
         /\ \A n \in Closure : file.needs[n] \subseteq Closure
         /\ \A S \in SUBSET Names :
              (Targets \subseteq S /\ \A m \in S : file.needs[m] \subseteq S) => Closure \subseteq S
<1>1. Targets \subseteq Names /\ \A n \in Names : file.needs[n] \subseteq Names
  BY DEF TypeOK, Targets
<1>2. QED
  BY <1>1 DEF Closure

LEMMA ExpandStep == IInv /\ [Next]_vars => ExpandInv'
<1> SUFFICES ASSUME IInv, [Next]_vars PROVE ExpandInv'
  OBVIOUS
<1>0. TypeOK /\ ExpandInv
  BY DEF IInv
<1>1. Targets' = Targets /\ file' = file
  BY DEF Next, vars, composeVars, Targets, resolveServiceFilter, Expand, Seed, CountDown,
         CountDegrees, Seeded, Pop, Sorted, Roll, Rolled
<1>2. Closure' = Closure
  BY <1>1 DEF Closure
<1>3. CASE resolveServiceFilter
  BY <1>0, <1>1, <1>2, <1>3, ClosureFacts DEF ExpandInv, resolveServiceFilter
<1>4. ASSUME NEW n \in Names, Expand(n) PROVE ExpandInv'
  BY <1>0, <1>1, <1>2, <1>4, ClosureFacts DEF ExpandInv, Expand
<1>5. CASE pc' # pc /\ UNCHANGED <<expanded, pending>> /\ pc \notin {"filter", "empty"}
                   /\ pc' \notin {"filter", "empty", "expand"} /\ pending = {}
  BY <1>0, <1>1, <1>2, <1>5 DEF ExpandInv
<1>6. CASE UNCHANGED <<pc, expanded, pending>>
  BY <1>0, <1>1, <1>2, <1>6 DEF ExpandInv
<1>7. CASE CountDegrees \/ Seeded \/ Sorted \/ Rolled
  BY <1>0, <1>5, <1>7 DEF CountDegrees, Seeded, Sorted, Rolled, ExpandInv
<1>8. CASE (\E n \in Names : Seed(n) \/ CountDown(n)) \/ Pop \/ Roll \/ UNCHANGED vars
  BY <1>6, <1>8 DEF Seed, CountDown, Pop, Roll, vars
<1>9. QED
  BY <1>3, <1>4, <1>7, <1>8 DEF Next

LEMMA EarlyStep == IInv /\ [Next]_vars => EarlyInv'
<1> SUFFICES ASSUME IInv, [Next]_vars PROVE EarlyInv'
  OBVIOUS
<1> USE DEF IInv, EarlyInv
<1>1. CASE resolveServiceFilter \/ CountDegrees \/ Seeded \/ Sorted \/ Roll \/ Rolled
  BY <1>1 DEF resolveServiceFilter, CountDegrees, Seeded, Sorted, Roll, Rolled
<1>2. CASE Pop \/ \E n \in Names : Expand(n) \/ Seed(n) \/ CountDown(n)
  BY <1>2 DEF Pop, Expand, Seed, CountDown
<1>3. CASE UNCHANGED vars
  BY <1>3 DEF vars
<1>4. QED
  BY <1>1, <1>2, <1>3 DEF Next

\* Popping moves the head of the queue to the sorted list; what a degree counts
\* is the same, but for being counted down now instead of waiting to be sorted.
LEMMA PopFacts ==
  ASSUME IInv, Pop
  PROVE  LET h == Head(queue) IN
         /\ h \in expanded /\ h \notin Ran(sorted) /\ h \notin Ran(queue')
         /\ Ran(queue) = Ran(queue') \cup {h} /\ Ran(sorted') = Ran(sorted) \cup {h}
         /\ file.needs[h] \subseteq Ran(sorted)
         /\ Last' = h /\ Len(sorted') = Len(sorted) + 1
         /\ \A i, j \in DOMAIN queue' : queue'[i] = queue'[j] => i = j
         /\ \A n \in expanded : Open(n)' = Open(n)
<1> DEFINE h == Head(queue)
<1>1. TypeOK /\ QueueInv /\ queue # <<>> /\ due = {} /\ queue \in Seq(Names) /\ sorted \in Seq(Names)
  BY DEF IInv, Pop, TypeOK
<1>2. queue' = Tail(queue) /\ sorted' = Append(sorted, h) /\ file' = file
      /\ due' = {n \in expanded : h \in file.needs[n]}
  BY DEF Pop, composeVars
<1>3. Ran(queue) = Ran(queue') \cup {h} /\ h \notin Ran(queue')
      /\ \A i, j \in DOMAIN queue' : queue'[i] = queue'[j] => i = j
  BY <1>1, <1>2, RanTail DEF QueueInv
<1>4. h \in expanded /\ h \notin Ran(sorted) /\ file.needs[h] \subseteq Ran(sorted) /\ h \in Names
  BY <1>1, <1>3 DEF QueueInv, TypeOK
<1>5. Ran(sorted') = Ran(sorted) \cup {h}
  BY <1>1, <1>2, <1>4, RanAppend
<1>6. Last' = h /\ Len(sorted') = Len(sorted) + 1
  BY <1>1, <1>2, <1>4 DEF Last
<1>7. \A n \in expanded : Open(n)' = Open(n)
  BY <1>1, <1>2, <1>4, <1>5, <1>6 DEF Open
<1> HIDE DEF h
<1>8. QED
  BY <1>3, <1>4, <1>5, <1>6, <1>7 DEF h

\* Counting a dependent down takes the last sorted service off its open ones.
LEMMA CountDownFacts ==
  ASSUME IInv, NEW n \in Names, CountDown(n)
  PROVE  /\ n \in expanded /\ n \notin Ran(queue) \cup Ran(sorted)
         /\ Last \in Open(n) /\ Open(n)' = Open(n) \ {Last}
         /\ \A m \in expanded \ {n} : Open(m)' = Open(m)
         /\ Cardinality(Open(n)') = degree[n] - 1 /\ degree'[n] = degree[n] - 1
         /\ degree[n] = 1 => file.needs[n] \subseteq Ran(sorted)
<1>1. TypeOK /\ QueueInv /\ n \in due /\ n \in expanded /\ degree[n] = Cardinality(Open(n))
      /\ due' = due \ {n} /\ sorted' = sorted /\ file' = file
      /\ degree' = [degree EXCEPT ![n] = @ - 1] /\ degree \in [Names -> Nat]
  BY DEF IInv, CountDown, DegreeInv, TypeOK, composeVars
<1>2. n \notin Ran(queue) \cup Ran(sorted) /\ Last \in file.needs[n]
  BY <1>1 DEF QueueInv
<1>3. sorted # <<>> /\ sorted \in Seq(Names)
  BY <1>1 DEF QueueInv, TypeOK
<1>4. Last \in Ran(sorted)
  BY <1>3 DEF Last, Ran
<1>5. Last \in Open(n) /\ Last' = Last
  BY <1>1, <1>2 DEF Open, Last
<1>6. Open(n)' = Open(n) \ {Last}
  BY <1>1, <1>4, <1>5 DEF Open
<1>7. \A m \in expanded \ {n} : Open(m)' = Open(m)
  BY <1>1, <1>5 DEF Open
<1>8. Cardinality(Open(n)') = degree[n] - 1
  BY <1>1, <1>5, <1>6, NeedsFinite, FS_RemoveElement
<1>9. ASSUME degree[n] = 1 PROVE file.needs[n] \subseteq Ran(sorted)
  <2>1. IsFiniteSet(Open(n)') /\ Cardinality(Open(n)') = 0
    BY <1>1, <1>6, <1>8, <1>9, NeedsFinite, FS_Subset
  <2>2. Open(n)' = {}
    BY <2>1, FS_EmptySet
  <2>3. QED
    BY <1>1, <1>4, <1>6, <2>2 DEF Open
<1>10. QED
  BY <1>1, <1>2, <1>5, <1>6, <1>7, <1>8, <1>9

LEMMA DegreeStep == IInv /\ [Next]_vars => DegreeInv'
<1> SUFFICES ASSUME IInv, [Next]_vars PROVE DegreeInv'
  OBVIOUS
<1>0. TypeOK /\ DegreeInv /\ EarlyInv /\ ExpandInv
  BY DEF IInv
<1>1. CASE resolveServiceFilter \/ Sorted \/ Roll \/ Rolled \/ \E n \in Names : Expand(n)
  BY <1>1 DEF DegreeInv, resolveServiceFilter, Sorted, Roll, Rolled, Expand
<1>2. CASE CountDegrees
  <2>1. sorted' = <<>> /\ due' = {} /\ file' = file /\ expanded' = expanded /\ pending = {}
    BY <1>0, <1>2 DEF CountDegrees, EarlyInv, composeVars
  <2>2. ASSUME NEW n \in expanded
        PROVE  Open(n)' = file.needs[n] /\ file.needs[n] \cap expanded = file.needs[n]
    BY <1>0, <2>1 DEF Open, Ran, ExpandInv
  <2>3. \A n \in expanded : degree'[n] = Cardinality(file.needs[n] \cap expanded)
    BY <1>0, <1>2 DEF CountDegrees, TypeOK
  <2>4. QED
    BY <2>1, <2>2, <2>3 DEF DegreeInv
<1>3. CASE (\E n \in Names : Seed(n)) \/ Seeded \/ UNCHANGED vars
  BY <1>0, <1>3 DEF DegreeInv, Seed, Seeded, vars, composeVars, Open, Last
<1>4. CASE Pop
  <2>1. expanded' = expanded /\ degree' = degree /\ pc = "sort"
    BY <1>4 DEF Pop
  <2>2. QED
    BY <1>0, <1>4, <2>1, PopFacts DEF DegreeInv
<1>5. ASSUME NEW n \in Names, CountDown(n) PROVE DegreeInv'
  <2>1. expanded' = expanded /\ pc = "sort" /\ \A m \in expanded \ {n} : degree'[m] = degree[m]
    BY <1>0, <1>5 DEF CountDown, TypeOK
  <2>2. QED
    BY <1>0, <1>5, <2>1, CountDownFacts DEF DegreeInv
<1>6. QED
  BY <1>1, <1>2, <1>3, <1>4, <1>5 DEF Next

LEMMA QueueStep == IInv /\ [Next]_vars => QueueInv'
<1> SUFFICES ASSUME IInv, [Next]_vars PROVE QueueInv'
  OBVIOUS
<1>0. TypeOK /\ QueueInv /\ EarlyInv /\ DegreeInv
  BY DEF IInv
<1>1. CASE CountDegrees \/ Seeded \/ Sorted \/ Roll \/ Rolled \/ UNCHANGED vars
  BY <1>0, <1>1 DEF QueueInv, EarlyInv, CountDegrees, Seeded, Sorted, Roll, Rolled, vars,
                    composeVars, Last
<1>2. CASE resolveServiceFilter \/ \E n \in Names : Expand(n)
  <2>1. queue' = <<>> /\ sorted' = <<>> /\ due' = {} /\ expanded \subseteq expanded'
    BY <1>0, <1>2 DEF EarlyInv, resolveServiceFilter, Expand
  <2>2. Ran(queue') = {} /\ Ran(sorted') = {} /\ Len(sorted') = 0
    BY <2>1 DEF Ran
  <2>3. Cardinality(Ran(sorted')) = Len(sorted')
    BY <2>2, FS_EmptySet
  <2>4. QED
    BY <2>1, <2>2, <2>3 DEF QueueInv
<1>3. ASSUME NEW n \in Names, Seed(n) PROVE QueueInv'
  <2>1. /\ n \in expanded /\ degree[n] = 0 /\ n \notin Ran(queue) /\ queue' = Append(queue, n)
        /\ queue \in Seq(Names) /\ sorted = <<>> /\ due = {} /\ pc = "seed"
        /\ UNCHANGED <<file, expanded, sorted, due, pc>>
    BY <1>0, <1>3 DEF Seed, Ready, TypeOK, EarlyInv, composeVars
  <2>2. Open(n) = {}
    BY <1>0, <2>1, NeedsFinite, FS_EmptySet DEF DegreeInv
  <2>3. file.needs[n] \subseteq Ran(sorted) /\ Ran(sorted) = {}
    BY <2>1, <2>2 DEF Open, Ran
  <2>4. Ran(queue') = Ran(queue) \cup {n}
    BY <2>1, RanAppend
  <2>5. \A i, j \in DOMAIN queue' : queue'[i] = queue'[j] => i = j
    BY <1>0, <2>1 DEF QueueInv, Ran
  <2>6. QED
    BY <1>0, <2>1, <2>3, <2>4, <2>5 DEF QueueInv, Last
<1>4. CASE Pop
  <2>1. /\ file' = file /\ expanded' = expanded /\ pc' = pc /\ pc = "sort" /\ due = {}
        /\ due' = {n \in expanded : Head(queue) \in file.needs[n]}
        /\ sorted \in Seq(Names) /\ Ran(sorted) \subseteq Names
    BY <1>0, <1>4 DEF Pop, composeVars, TypeOK, Ran
  <2>2. Cardinality(Ran(sorted')) = Len(sorted')
    <3>1. IsFiniteSet(Ran(sorted))
      BY <2>1, PlanAssumption, FS_Subset
    <3>2. Cardinality(Ran(sorted) \cup {Head(queue)}) = Cardinality(Ran(sorted)) + 1
      BY <1>4, <3>1, PopFacts, FS_AddElement
    <3>3. QED
      BY <1>0, <1>4, <3>2, PopFacts DEF QueueInv
  <2>3. \A n \in Ran(queue') \cup Ran(sorted') : n \notin due' /\ file.needs[n] \subseteq Ran(sorted')
    BY <1>0, <1>4, <2>1, PopFacts DEF QueueInv
  <2>4. sorted' # <<>>
    BY <1>4, <2>1 DEF Pop
  <2>5. QED
    BY <1>0, <1>4, <2>1, <2>2, <2>3, <2>4, PopFacts DEF QueueInv
<1>5. ASSUME NEW n \in Names, CountDown(n) PROVE QueueInv'
  <2>1. /\ UNCHANGED <<file, expanded, pc, sorted>> /\ due' = due \ {n} /\ pc = "sort"
        /\ queue' = IF degree[n] = 1 THEN Append(queue, n) ELSE queue
        /\ queue \in Seq(Names) /\ Last' = Last
    BY <1>0, <1>5 DEF CountDown, composeVars, TypeOK, Last
  <2>2. CASE degree[n] = 1
    <3>1. Ran(queue') = Ran(queue) \cup {n} /\ queue' = Append(queue, n)
      BY <2>1, <2>2, RanAppend
    <3>2. n \notin Ran(queue) \cup Ran(sorted) /\ file.needs[n] \subseteq Ran(sorted) /\ n \in expanded
      BY <1>5, <2>2, CountDownFacts
    <3>3. \A i, j \in DOMAIN queue' : queue'[i] = queue'[j] => i = j
      BY <1>0, <2>1, <3>1, <3>2 DEF QueueInv, Ran
    <3>4. QED
      BY <1>0, <2>1, <3>1, <3>2, <3>3 DEF QueueInv
  <2>3. CASE degree[n] # 1
    BY <1>0, <2>1, <2>3 DEF QueueInv
  <2>4. QED
    BY <2>2, <2>3
<1>6. QED
  BY <1>1, <1>2, <1>3, <1>4, <1>5 DEF Next

LEMMA WaitStep == IInv /\ [Next]_vars => WaitInv'
<1> SUFFICES ASSUME IInv, [Next]_vars PROVE WaitInv'
  OBVIOUS
<1>0. TypeOK /\ WaitInv
  BY DEF IInv
<1>1. CASE CountDegrees \/ Sorted \/ Roll \/ Rolled \/ resolveServiceFilter
           \/ (\E n \in Names : Expand(n) \/ Seed(n)) \/ UNCHANGED vars
  BY <1>0, <1>1 DEF WaitInv, CountDegrees, Sorted, Roll, Rolled, resolveServiceFilter, Expand,
                    Seed, vars
<1>2. CASE Seeded
  BY <1>0, <1>2 DEF WaitInv, Seeded, Ready, TypeOK
<1>3. CASE Pop
  <2>1. UNCHANGED <<expanded, degree, pc>>
    BY <1>3 DEF Pop
  <2>2. QED
    BY <1>0, <1>3, <2>1, PopFacts DEF WaitInv, IInv
<1>4. ASSUME NEW n \in Names, CountDown(n) PROVE WaitInv'
  <2>1. /\ UNCHANGED <<expanded, pc, sorted>> /\ degree' = [degree EXCEPT ![n] = @ - 1]
        /\ queue' = (IF degree[n] = 1 THEN Append(queue, n) ELSE queue) /\ pc = "sort"
        /\ queue \in Seq(Names) /\ degree \in [Names -> Nat] /\ expanded \subseteq Names
    BY <1>0, <1>4 DEF CountDown, TypeOK
  <2>2. Ran(queue) \subseteq Ran(queue') /\ (degree[n] = 1 => n \in Ran(queue'))
    BY <2>1, RanAppend
  <2>3. QED
    BY <1>0, <2>1, <2>2 DEF WaitInv
<1>5. QED
  BY <1>1, <1>2, <1>3, <1>4 DEF Next

LEMMA SortedStep == IInv /\ [Next]_vars => SortedInv'
<1> SUFFICES ASSUME IInv, [Next]_vars PROVE SortedInv'
  OBVIOUS
<1>0. TypeOK /\ SortedInv /\ QueueInv
  BY DEF IInv
<1>1. CASE UNCHANGED <<file, sorted>>
  BY <1>0, <1>1 DEF SortedInv, Knot, Ran
<1>2. CASE Pop
  <2> DEFINE h == Head(queue)
  <2>1. /\ h \notin Ran(sorted) /\ file.needs[h] \subseteq Ran(sorted) /\ file' = file
        /\ Ran(sorted') = Ran(sorted) \cup {h} /\ sorted' = Append(sorted, h)
        /\ sorted \in Seq(Names) /\ h \in Names
        /\ \A n \in Ran(sorted) : file.needs[n] \subseteq Ran(sorted)
    BY <1>0, <1>2, PopFacts DEF Pop, composeVars, TypeOK, QueueInv
  <2> HIDE DEF h
  <2>2. ASSUME NEW i \in DOMAIN sorted'
        PROVE  file.needs[sorted'[i]] \subseteq {sorted'[j] : j \in 1..(i - 1)}
    <3>1. CASE i \in DOMAIN sorted
      <4>1. sorted'[i] = sorted[i] /\ \A j \in 1..(i - 1) : sorted'[j] = sorted[j]
        BY <2>1, <3>1
      <4>2. QED
        BY <1>0, <3>1, <4>1 DEF SortedInv
    <3>2. CASE i \notin DOMAIN sorted
      <4>1. i = Len(sorted) + 1 /\ sorted'[i] = h
            /\ \A j \in DOMAIN sorted : j \in 1..(i - 1) /\ sorted'[j] = sorted[j]
        BY <2>1, <3>2
      <4>2. Ran(sorted) \subseteq {sorted'[j] : j \in 1..(i - 1)}
        BY <4>1 DEF Ran
      <4>3. QED
        BY <2>1, <4>1, <4>2
    <3>3. QED
      BY <3>1, <3>2
  <2>3. ASSUME NEW S \in SUBSET Ran(sorted'), Knot(S) PROVE FALSE
    <3>1. h \in S
      BY <1>0, <2>1, <2>3 DEF SortedInv
    <3>2. S \ {h} \subseteq Ran(sorted) /\ S \ {h} # {}
      BY <2>1, <2>3, <3>1 DEF Knot
    <3>3. \A n \in S \ {h} : file.needs[n] \cap (S \ {h}) # {}
      BY <2>1, <2>3, <3>2 DEF Knot
    <3>4. Knot(S \ {h})
      BY <3>2, <3>3 DEF Knot
    <3>5. QED
      BY <1>0, <3>2, <3>4 DEF SortedInv
  <2>4. \A S \in SUBSET Ran(sorted') : ~ Knot(S)'
    BY <2>1, <2>3 DEF Knot
  <2>5. QED
    BY <2>1, <2>2, <2>4 DEF SortedInv
<1>3. QED
  BY <1>1, <1>2 DEF Next, vars, composeVars, resolveServiceFilter, Expand, Seed, CountDown,
                    CountDegrees, Seeded, Sorted, Roll, Rolled

LEMMA RollStep == IInv /\ [Next]_vars => RollInv'
<1> SUFFICES ASSUME IInv, [Next]_vars PROVE RollInv'
  OBVIOUS
<1>0. TypeOK /\ RollInv /\ QueueInv /\ WaitInv /\ DegreeInv /\ EarlyInv
  BY DEF IInv
<1>1. CASE resolveServiceFilter \/ CountDegrees \/ Seeded \/ Pop
           \/ \E n \in Names : Expand(n) \/ Seed(n) \/ CountDown(n)
  <2>1. at = 0 /\ at' = 0 /\ rolled' = rolled /\ pc' \notin {"roll", "done", "cycle"}
        /\ file' = file /\ sorted' \in Seq(Names)
    BY <1>0, <1>1, TypeStep DEF RollInv, TypeOK, resolveServiceFilter, CountDegrees, Seeded, Pop,
                      Expand, Seed, CountDown, composeVars
  <2>2. rolled = {}
    BY <1>0, <2>1 DEF RollInv
  <2>3. QED
    BY <2>1, <2>2 DEF RollInv
<1>2. CASE Sorted
  <2>1. ASSUME NEW n \in expanded \ Ran(sorted) PROVE Open(n) # {}
    <3>1. degree[n] # 0 /\ degree[n] = Cardinality(Open(n))
      BY <1>0, <1>2 DEF Sorted, WaitInv, DegreeInv, Ran
    <3>2. QED
      BY <3>1, FS_EmptySet
  <2>2. UNCHANGED <<file, filter, expanded, sorted, due, queue, at, rolled>> /\ queue = <<>>
        /\ pc = "sort" /\ pc' = IF Len(sorted) = Cardinality(expanded) THEN "roll" ELSE "cycle"
    BY <1>2 DEF Sorted, composeVars
  <2>3. \A n \in expanded \ Ran(sorted) : Open(n)' # {}
    BY <2>1, <2>2 DEF Open, Last
  <2>4. Ran(sorted)' = Ran(sorted)
    BY <2>2
  <2>5. QED
    BY <1>0, <2>2, <2>3, <2>4 DEF RollInv
<1>3. CASE Roll
  <2>1. /\ at' = at + 1 /\ at \in Nat /\ at < Len(sorted) /\ sorted \in Seq(Names)
        /\ pc = "roll" /\ UNCHANGED <<file, pc, expanded, sorted>>
        /\ rolled' = rolled \cup ({sorted[at + 1]} \cap file.services)
    BY <1>0, <1>3 DEF Roll, TypeOK, composeVars
  <2>2. 1..(at + 1) = 1..at \cup {at + 1}
    BY <2>1
  <2>3. {sorted[i] : i \in 1..(at + 1)} = {sorted[i] : i \in 1..at} \cup {sorted[at + 1]}
    BY <2>2
  <2>4. rolled' = {sorted[i] : i \in 1..(at + 1)} \cap file.services
    BY <1>0, <2>1, <2>3 DEF RollInv
  <2>5. QED
    BY <1>0, <2>1, <2>4 DEF RollInv
<1>4. CASE Rolled \/ UNCHANGED vars
  <2>1. UNCHANGED <<file, expanded, queue, sorted, due, at, rolled>>
    BY <1>4 DEF Rolled, vars, composeVars
  <2>2. Ran(sorted)' = Ran(sorted) /\ \A n \in expanded : Open(n)' = Open(n)
    BY <2>1 DEF Open, Last, Ran
  <2>3. pc' = pc \/ (pc = "roll" /\ pc' = "done" /\ at = Len(sorted))
    BY <1>4 DEF Rolled, vars
  <2>4. QED
    BY <1>0, <2>1, <2>2, <2>3 DEF RollInv
<1>5. QED
  BY <1>1, <1>2, <1>3, <1>4 DEF Next

-----------------------------------------------------------------------------
\* The inductive invariant of filter, expansion, sort and rollout.
THEOREM PlanInvariant == Spec => []IInv
<1>1. Init => IInv
  <2> SUFFICES ASSUME Init PROVE IInv
    OBVIOUS
  <2> USE DEF Init
  <2>1. Ran(queue) = {} /\ Ran(sorted) = {} /\ Cardinality(Ran(sorted)) = 0
    <3>1. Ran(queue) = {} /\ Ran(sorted) = {}
      BY DEF Ran
    <3>2. QED
      BY <3>1, FS_EmptySet
  <2>2. TypeOK
    <3>1. file.services \in (SUBSET Names) \ {{}} /\ file.needs \in [Names -> SUBSET Names]
      BY PlanAssumption
    <3>2. QED
      BY <3>1 DEF TypeOK
  <2>3. ExpandInv /\ EarlyInv /\ DegreeInv /\ WaitInv
    BY DEF ExpandInv, EarlyInv, DegreeInv, WaitInv
  <2>4. QueueInv
    BY <2>1 DEF QueueInv
  <2>5. SortedInv
    BY <2>1 DEF SortedInv, Knot
  <2>6. RollInv
    <3>1. {sorted[i] : i \in 1..at} = {}
      OBVIOUS
    <3>2. QED
      BY <3>1 DEF RollInv
  <2>7. QED
    BY <2>2, <2>3, <2>4, <2>5, <2>6 DEF IInv
<1>2. IInv /\ [Next]_vars => IInv'
  BY TypeStep, ExpandStep, EarlyStep, DegreeStep, QueueStep, WaitStep, SortedStep, RollStep DEF IInv
<1>3. QED
  BY <1>1, <1>2, PTL DEF Spec

\* Every variable keeps its type; in particular no degree falls below zero.
THEOREM TypeCorrect == Spec => []TypeOK
<1>1. IInv => TypeOK
  BY DEF IInv
<1>2. QED
  BY <1>1, PlanInvariant, PTL

\* The order of the rollout respects depends_on, whatever the order in which Go
\* iterates over the maps.
THEOREM OrderRespectsDependsOn == Spec => []DependenciesFirst
<1>1. IInv => DependenciesFirst
  <2> SUFFICES ASSUME IInv, NEW n \in rolled, NEW m \in file.needs[n] \cap file.services
               PROVE  m \in rolled
    BY DEF DependenciesFirst
  <2>1. at \in Nat /\ at <= Len(sorted) /\ sorted \in Seq(Names)
        /\ rolled = {sorted[i] : i \in 1..at} \cap file.services
    BY DEF IInv, RollInv, TypeOK
  <2>2. PICK i \in 1..at : n = sorted[i]
    BY <2>1
  <2>3. file.needs[n] \subseteq {sorted[j] : j \in 1..(i - 1)}
    BY <2>1, <2>2 DEF IInv, SortedInv
  <2>4. PICK j \in 1..(i - 1) : m = sorted[j]
    BY <2>3
  <2>5. j \in 1..at
    BY <2>1
  <2>6. QED
    BY <2>1, <2>4, <2>5
<1>2. QED
  BY <1>1, PlanInvariant, PTL

\* What was expanded is the closure once nothing is left to visit.
LEMMA ExpandedIsClosure == IInv /\ pc \notin {"filter", "expand", "empty"} => expanded = Closure
<1> SUFFICES ASSUME IInv, pc \notin {"filter", "expand", "empty"} PROVE expanded = Closure
  OBVIOUS
<1>1. Targets \subseteq expanded /\ (\A n \in expanded : file.needs[n] \subseteq expanded)
      /\ expanded \subseteq Closure /\ expanded \subseteq Names
  BY DEF IInv, ExpandInv, TypeOK
<1>2. Closure \subseteq expanded
  BY <1>1, ClosureFacts DEF IInv
<1>3. QED
  BY <1>1, <1>2

\* When the sorted list is as long as the closure is large, it holds all of it.
LEMMA SortedIsAll ==
  ASSUME IInv, pc \in {"roll", "done"}
  PROVE  Ran(sorted) = expanded
<1>1. /\ Ran(sorted) \subseteq expanded /\ Cardinality(Ran(sorted)) = Len(sorted)
      /\ Len(sorted) = Cardinality(expanded) /\ expanded \subseteq Names
  BY DEF IInv, QueueInv, RollInv, TypeOK
<1>2. IsFiniteSet(expanded)
  BY <1>1, PlanAssumption, FS_Subset
<1>3. Cardinality(Ran(sorted)) = Cardinality(expanded) => Ran(sorted) = expanded
  BY <1>1, <1>2, FS_Subset
<1>4. QED
  BY <1>1, <1>3

\* A finished rollout has deployed the targets and their transitive
\* dependencies, each once, and nothing else.
THEOREM RolloutIsTheClosure == Spec => []RollsOutTheClosure
<1>1. IInv => RollsOutTheClosure
  <2> SUFFICES ASSUME IInv, pc = "done"
               PROVE  rolled = Closure \cap file.services /\ Len(sorted) = Cardinality(Closure)
    BY DEF RollsOutTheClosure
  <2>1. expanded = Closure /\ Ran(sorted) = expanded
    BY ExpandedIsClosure, SortedIsAll
  <2>2. at = Len(sorted) /\ rolled = {sorted[i] : i \in 1..at} \cap file.services
        /\ Len(sorted) = Cardinality(expanded) /\ sorted \in Seq(Names)
    BY DEF IInv, RollInv, TypeOK
  <2>3. {sorted[i] : i \in 1..at} = Ran(sorted)
    BY <2>2 DEF Ran
  <2>4. QED
    BY <2>1, <2>2, <2>3
<1>2. QED
  BY <1>1, PlanInvariant, PTL

\* A cycle is reported exactly when services to deploy wait for each other.
THEOREM CyclesAreReported == Spec => []CycleIffKnot
<1>1. IInv => CycleIffKnot
  <2> SUFFICES ASSUME IInv PROVE CycleIffKnot
    OBVIOUS
  <2>1. ASSUME pc = "cycle" PROVE \E S \in SUBSET Closure : Knot(S)
    <3> DEFINE S == expanded \ Ran(sorted)
    <3>1. expanded = Closure /\ expanded \subseteq Names /\ due = {}
          /\ \A n \in expanded : file.needs[n] \subseteq expanded
      BY <2>1, ExpandedIsClosure DEF IInv, TypeOK, EarlyInv, ExpandInv
    <3>2. S # {}
      <4>1. Ran(sorted) \subseteq expanded /\ Cardinality(Ran(sorted)) # Cardinality(expanded)
        BY <2>1 DEF IInv, QueueInv, RollInv
      <4>2. Ran(sorted) # expanded
        BY <4>1
      <4>3. QED
        BY <4>1, <4>2
    <3>3. ASSUME NEW n \in S PROVE file.needs[n] \cap S # {}
      <4>1. PICK m : m \in Open(n)
        BY <2>1 DEF IInv, RollInv
      <4>2. m \in file.needs[n] /\ m \notin Ran(sorted)
        BY <3>1, <4>1 DEF Open
      <4>3. QED
        BY <3>1, <4>2
    <3>4. Knot(S)
      BY <3>2, <3>3 DEF Knot
    <3>5. QED
      BY <3>1, <3>4
  <2>2. ASSUME pc \in {"roll", "done"} PROVE ~ \E S \in SUBSET Closure : Knot(S)
    <3>1. Ran(sorted) = Closure
      BY <2>2, ExpandedIsClosure, SortedIsAll
    <3>2. QED
      BY <3>1 DEF IInv, SortedInv
  <2>3. QED
    BY <2>1, <2>2 DEF CycleIffKnot
<1>2. QED
  BY <1>1, PlanInvariant, PTL
=============================================================================
