------------------------ MODULE ReconcilerLoopsProofs ------------------------
(***************************************************************************)
(* Proofs about ReconcilerLoops, for any number of stacks, requests and    *)
(* deployments: outside the window between unlocking r.mu and registering  *)
(* a loop, a stack has one loop goroutine, and a deleted stack none.       *)
(***************************************************************************)
EXTENDS ReconcilerLoops, TLAPS

\* Nothing runs before Start.
BootInv ==
  main = "boot" =>
    /\ \A l \in Loops : loop[l] = Unused
    /\ \A s \in Stacks : reg[s] = None
    /\ \A r \in Requests : req[r].at = "new"

\* A request in progress has a stack, and the one that waits for a loop is the
\* one that holds the mutex.
RequestInv ==
  \A r \in Requests :
    /\ req[r].at # "new" => req[r].of \in Stacks
    /\ req[r].at = "wait" <=> mu = r

\* A loop belongs to the stack of what started it, and is there once that
\* has registered it; a registered loop is one of the stack's.
OwnerInv ==
  /\ \A l \in Loops : loop[l].at # "unused" => loop[l].of \in Stacks
  /\ \A r \in Requests : req[r].at \notin {"spawn", "served"} => loop[r].at = "unused"
  /\ \A r \in Requests : req[r].at = "spawn" => loop[r].at = "registered" /\ loop[r].of = req[r].of
  /\ \A s \in Stacks : reg[s] # None => loop[reg[s]].at # "unused" /\ loop[reg[s]].of = s

\* Whoever works on a copy of a row has it from a row that was there.
CopyInv ==
  /\ \A l \in Loops : loop[l].at \in {"cycle", "deploying", "persist"} => loop[l].copy.exists
  /\ \A d \in Deployers : job[d] # NoJob => job[d].copy.exists

\* Outside the window of raced, a request between the mutex and the registry is
\* the only one of its stack there, and the stack has no loop.
Between(r, s) == req[r].of = s /\ req[r].at \in {"load", "start"}
WindowInv ==
  \A s \in Stacks : s \notin raced =>
    /\ \A q, r \in Requests : Between(q, s) /\ Between(r, s) => q = r
    /\ BeforeStop => \A r \in Requests : Between(r, s) => LiveLoops(s) = {}

\* A deleted stack still has a loop, or a request about to start one, only while
\* a refresh has the cancelling and waiting ahead of it.
Ending(r, s) == req[r].of = s /\ req[r].at \in {"lock", "wait"}
DeletedInv ==
  \A s \in Stacks : BeforeStop /\ s \notin raced /\ ~row[s].exists =>
    \/ \E r \in Requests : Ending(r, s)
    \/ /\ LiveLoops(s) = {}
       /\ \A r \in Requests : req[r].of = s => req[r].at # "start"

IInv ==
  /\ TypeOK
  /\ BootInv /\ RequestInv /\ OwnerInv /\ CopyInv /\ WindowInv /\ DeletedInv
  /\ OneLoopPerStack

-----------------------------------------------------------------------------
\* What a step of one request, one loop or one copy of a row does to its map.
LEMMA Values ==
  /\ Unused \in Loop /\ NoRow \in Row /\ NoJob \in Job
  /\ \A s \in Stacks : /\ [Unused EXCEPT !.at = "select", !.of = s] \in Loop
                       /\ [Unused EXCEPT !.at = "registered", !.of = s] \in Loop
  /\ \A c \in Row, a \in Status : [c EXCEPT !.status = a] \in Row
BY DEF Unused, NoRow, NoJob, Loop, Live, Counted, Job, Row, Status

\* A step of a request, a loop or a row leaves its map well typed.
LEMMA Moved ==
  ASSUME TypeOK
  PROVE  /\ \A r \in Requests, a \in {"lock", "wait", "load", "start", "spawn", "served"} :
              Goto(r, a) => req' \in [Requests -> Request]
         /\ \A l \in Loops, a \in Live \cup {"unused", "done"} : Step(l, a) => loop' \in [Loops -> Loop]
         /\ \A l \in Loops : Back(l) => loop' \in [Loops -> Loop]
         /\ \A s \in Stacks, c \in Row : UpdateStack(s, c) => row' \in [Stacks -> Row]
<1>1. ASSUME NEW r \in Requests, NEW a \in {"lock", "wait", "load", "start", "spawn", "served"}, Goto(r, a)
      PROVE  req' \in [Requests -> Request]
  <2>1. req[r] \in Request
    BY DEF TypeOK
  <2>2. [req[r] EXCEPT !.at = a] \in Request
    BY <2>1 DEF Request
  <2>3. QED
    BY <1>1, <2>2 DEF Goto, TypeOK
<1>2. ASSUME NEW l \in Loops, NEW a \in Live \cup {"unused", "done"}, Step(l, a)
      PROVE  loop' \in [Loops -> Loop]
  <2>1. loop[l] \in Loop
    BY DEF TypeOK
  <2>2. [loop[l] EXCEPT !.at = a] \in Loop
    BY <2>1 DEF Loop
  <2>3. QED
    BY <1>2, <2>2 DEF Step, TypeOK
<1>3. ASSUME NEW l \in Loops, Back(l) PROVE loop' \in [Loops -> Loop]
  <2>1. loop[l] \in Loop
    BY DEF TypeOK
  <2>2. [loop[l] EXCEPT !.at = "select", !.copy = NoRow] \in Loop
    BY <2>1, Values DEF Loop, Live, Counted
  <2>3. loop' = [loop EXCEPT ![l] = [loop[l] EXCEPT !.at = "select", !.copy = NoRow]]
    BY <1>3 DEF Back, TypeOK
  <2>4. QED
    BY <2>2, <2>3 DEF TypeOK
<1>4. \A s \in Stacks, c \in Row : UpdateStack(s, c) => row' \in [Stacks -> Row]
  BY DEF UpdateStack, TypeOK
<1>5. QED
  BY <1>1, <1>2, <1>3, <1>4

\* Types.
LEMMA TypeStep == IInv /\ [Next]_vars => TypeOK'
<1> SUFFICES ASSUME IInv, [Next]_vars PROVE TypeOK'
  OBVIOUS
<1> USE LoopsAssumption
<1> USE DEF IInv, TypeOK, vars
<1>1. CASE UNCHANGED vars
  BY <1>1
<1>2. CASE Start
  <2>1. reg' \in [Stacks -> Loops \cup {None}]
    BY <1>2 DEF Start, Loops
  <2>2. loop' \in [Loops -> Loop]
    <3>1. \A l \in Loops, S \in SUBSET Stacks :
            (IF l \in S THEN [Unused EXCEPT !.at = "select", !.of = l] ELSE Unused) \in Loop
      BY Values
    <3>2. CASE loop' # loop
      <4>1. loop' = [l \in Loops |-> IF l \in {s \in Stacks : NeedsLoop(row[s])}
                                    THEN [Unused EXCEPT !.at = "select", !.of = l] ELSE Unused]
        BY <1>2, <3>2, Zenon DEF Start
      <4>2. {s \in Stacks : NeedsLoop(row[s])} \in SUBSET Stacks
        OBVIOUS
      <4> HIDE DEF Unused
      <4>3. QED
        BY <3>1, <4>1, <4>2
    <3>3. QED
      BY <3>2
  <2>3. QED
    BY <1>2, <2>1, <2>2 DEF Start
<1>3. CASE Signal \/ StopLoops \/ Exit
  BY <1>3 DEF Signal, StopLoops, Exit
<1>4. ASSUME NEW r \in Requests, NEW s \in Stacks, CreateStack(r, s) \/ PutStack(r, s) \/ DeleteStack(r, s)
      PROVE  TypeOK'
  <2>1. PICK new \in Row : Begin(r, s, new)
    BY <1>4 DEF CreateStack, PutStack, DeleteStack, NewRow, Row, Status
  <2>2. QED
    BY <2>1 DEF Begin, Request
<1>5. ASSUME NEW r \in Requests, Refresh(r) PROVE TypeOK'
  <2>1. req[r].at # "new" /\ req[r].of \in Stacks
    BY <1>5 DEF Refresh, RefreshLock, RefreshUnlock, RefreshLoad, RefreshRegister, RefreshSpawn, RequestInv
  <2>2. CASE RefreshLock(r)
    BY <2>1, <2>2, Values, Moved DEF RefreshLock
  <2>3. CASE RefreshUnlock(r)
    BY <2>1, <2>3, Values, Moved DEF RefreshUnlock
  <2>4. CASE RefreshLoad(r)
    BY <2>1, <2>4, Values, Moved DEF RefreshLoad
  <2>5. CASE RefreshRegister(r)
    BY <2>1, <2>5, Values, Moved DEF RefreshRegister, Loops
  <2>6. CASE RefreshSpawn(r)
    BY <2>1, <2>6, Values, Moved DEF RefreshSpawn, Loops, Live, Counted
  <2>7. QED
    BY <1>5, <2>2, <2>3, <2>4, <2>5, <2>6 DEF Refresh
<1>6. ASSUME NEW l \in Loops, LoopTick(l) \/ Cycle(l) \/ LoopExit(l) PROVE TypeOK'
  <2>1. loop[l].of \in Stacks
    BY <1>6 DEF LoopTick, Cycle, LoopDeploys, LoopDeployed, LoopSkips, LoopPersist, LoopExit, OwnerInv
  <2>2. loop[l].copy \in Row /\ row[loop[l].of] \in Row
    BY <2>1 DEF Loop
  <2>3. CASE LoopTick(l)
    BY <2>2, <2>3 DEF LoopTick, Loop, Live, Counted
  <2>4. CASE LoopDeploys(l)
    <3>1. [loop[l].copy EXCEPT !.status = "deploying"] \in Row
      BY <2>2, Values DEF Status
    <3>2. row' \in [Stacks -> Row]
      BY <2>1, <2>4, <3>1, Moved DEF LoopDeploys
    <3>3. loop' \in [Loops -> Loop]
      BY <2>4, <3>1 DEF LoopDeploys, Loop, Live, Counted
    <3>4. QED
      BY <2>4, <3>2, <3>3 DEF LoopDeploys
  <2>5. CASE LoopDeployed(l)
    <3>1. PICK c \in Row : /\ UpdateStack(loop[l].of, c)
                           /\ loop' = [loop EXCEPT ![l].at = "persist", ![l].copy = c]
      BY <2>2, <2>5, Values DEF LoopDeployed, Status
    <3>2. row' \in [Stacks -> Row]
      BY <2>1, <3>1, Moved
    <3>3. loop' \in [Loops -> Loop]
      BY <3>1 DEF Loop, Live, Counted
    <3>4. QED
      BY <2>5, <3>2, <3>3 DEF LoopDeployed
  <2>6. CASE LoopSkips(l)
    BY <2>6, Values, Moved DEF LoopSkips, Live, Counted
  <2>7. CASE LoopPersist(l)
    BY <2>1, <2>2, <2>7, Moved DEF LoopPersist
  <2>8. CASE LoopExit(l)
    BY <2>8, Values, Moved DEF LoopExit
  <2>9. QED
    BY <1>6, <2>3, <2>4, <2>5, <2>6, <2>7, <2>8 DEF Cycle
<1>7. ASSUME NEW d \in Deployers, NEW s \in Stacks, DeployBegin(d, s) PROVE TypeOK'
  <2>1. [row[s] EXCEPT !.status = "deploying"] \in Row
    BY Values DEF Status
  <2>2. row' \in [Stacks -> Row]
    BY <1>7, <2>1, Moved DEF DeployBegin
  <2>3. QED
    BY <1>7, <2>1, <2>2 DEF DeployBegin, Job
<1>8. ASSUME NEW d \in Deployers, DeployEnd(d) PROVE TypeOK'
  <2>1. row' \in [Stacks -> Row]
    <3>1. job[d].copy \in Row
      BY DEF Job
    <3>2. PICK c \in Row : UpdateStack(job[d].of, c)
      BY <1>8, <3>1, Values DEF DeployEnd, Status
    <3>3. QED
      BY <3>2 DEF UpdateStack
  <2>2. QED
    BY <1>8, <2>1, Values DEF DeployEnd
<1>9. QED
  BY <1>1, <1>2, <1>3, <1>4, <1>5, <1>6, <1>7, <1>8 DEF Next

-----------------------------------------------------------------------------
\* A step that starts no loop and moves no request: what the registry, the
\* window and deleted stacks rely on stays.
LEMMA Quiet ==
  ASSUME IInv, TypeOK', main # "boot", main' # "boot", BeforeStop' => BeforeStop,
         UNCHANGED <<reg, mu, req, raced>>,
         \A s \in Stacks : row'[s].exists = row[s].exists,
         \A l \in Loops : /\ loop'[l].of = loop[l].of
                          /\ loop'[l].at \in Live => loop[l].at \in Live
                          /\ loop'[l].at = "unused" <=> loop[l].at = "unused"
                          /\ loop'[l].at = "registered" <=> loop[l].at = "registered"
  PROVE  (BootInv /\ RequestInv /\ OwnerInv /\ WindowInv /\ DeletedInv /\ OneLoopPerStack)'
<1>1. (BootInv /\ RequestInv)'
  BY DEF IInv, BootInv, RequestInv
<1>2. OwnerInv'
  <2>1. \A r \in Requests : r \in Loops
    BY DEF Loops
  <2>2. \A s \in Stacks : reg[s] # None => reg[s] \in Loops
    BY DEF IInv, TypeOK
  <2>3. \A l \in Loops : loop'[l].at # "unused" => loop'[l].of \in Stacks
    BY DEF IInv, OwnerInv
  <2>4. \A s \in Stacks : reg'[s] # None => loop'[reg'[s]].at # "unused" /\ loop'[reg'[s]].of = s
    BY <2>2 DEF IInv, OwnerInv
  <2>5. \A r \in Requests : /\ req'[r].at \notin {"spawn", "served"} => loop'[r].at = "unused"
                            /\ req'[r].at = "spawn" => loop'[r].at = "registered" /\ loop'[r].of = req'[r].of
    BY <2>1 DEF IInv, OwnerInv
  <2>6. QED
    BY <2>3, <2>4, <2>5 DEF OwnerInv
<1>3. \A s \in Stacks : LiveLoops(s)' \subseteq LiveLoops(s)
  BY DEF LiveLoops
<1>4. (WindowInv /\ DeletedInv /\ OneLoopPerStack)'
  BY <1>3 DEF IInv, WindowInv, DeletedInv, OneLoopPerStack, Between, Ending
<1>5. QED
  BY <1>1, <1>2, <1>4

\* Rewriting a row that is there leaves it there.
LEMMA RowStays ==
  ASSUME TypeOK, NEW s \in Stacks, NEW c, c.exists = TRUE, UpdateStack(s, c)
  PROVE  \A t \in Stacks : row'[t].exists = row[t].exists
BY DEF UpdateStack, TypeOK, Row

\* A cycle or the end of a loop.
LEMMA LoopStep ==
  ASSUME IInv, TypeOK', NEW l \in Loops, LoopTick(l) \/ Cycle(l) \/ LoopExit(l) PROVE IInv'
<1> USE DEF LoopTick, LoopDeploys, LoopDeployed, LoopSkips, LoopPersist, LoopExit, Cycle
<1>1. /\ loop[l].of \in Stacks /\ loop[l] \in Loop
      /\ loop[l].at \notin {"unused", "registered"} /\ loop[l].at \in Live
  BY DEF IInv, OwnerInv, TypeOK, Live, Counted
<1>2. main # "boot" /\ UNCHANGED <<reg, mu, req, raced, main, job, stopped>>
  BY DEF Running
<1>3. \A k \in Loops \ {l} : loop'[k] = loop[k]
  BY DEF Step, Back, IInv, TypeOK
<1>4. loop'[l].of = loop[l].of /\ loop'[l].at \notin {"unused", "registered"}
  BY <1>1 DEF Step, Back, IInv, TypeOK, Loop
<1>5. \A s \in Stacks : row'[s].exists = row[s].exists
  <2>1. CASE UNCHANGED row
    BY <2>1
  <2>2. CASE LoopDeploys(l) \/ LoopDeployed(l) \/ LoopPersist(l)
    <3>1. loop[l].copy \in Row /\ loop[l].copy.exists = TRUE
      BY <1>1, <2>2 DEF IInv, CopyInv, Loop, Row
    <3>2. PICK c : c.exists = TRUE /\ UpdateStack(loop[l].of, c)
      BY <2>2, <3>1 DEF Row
    <3>3. QED
      BY <1>1, <3>2, RowStays DEF IInv
  <2>3. QED
    BY <2>1, <2>2
<1>6. CopyInv'
  <2>1. loop'[l].at \in {"cycle", "deploying", "persist"} => loop'[l].copy.exists
    BY <1>1 DEF Step, Back, IInv, CopyInv, TypeOK, Loop, Row
  <2>2. QED
    BY <1>2, <1>3, <2>1 DEF IInv, CopyInv
<1>7. QED
  BY <1>1, <1>2, <1>3, <1>4, <1>5, <1>6, Quiet DEF IInv, BeforeStop

\* A deployment of a handler.
LEMMA DeployStep ==
  ASSUME IInv, TypeOK', NEW d \in Deployers, (\E s \in Stacks : DeployBegin(d, s)) \/ DeployEnd(d)
  PROVE  IInv'
<1> USE DEF DeployBegin, DeployEnd
<1>1. main # "boot" /\ UNCHANGED <<reg, mu, req, raced, main, loop, stopped>>
  BY DEF Running
<1>2. (\A t \in Stacks : row'[t].exists = row[t].exists) /\ CopyInv'
  <2>1. CASE DeployEnd(d)
    <3>1. job[d].copy \in Row /\ job[d].copy.exists = TRUE
      BY <2>1 DEF IInv, CopyInv, TypeOK, Job, Row
    <3>2. \A t \in Stacks : row'[t].exists = row[t].exists
      BY <2>1, <3>1 DEF UpdateStack, IInv, TypeOK, Row
    <3>3. QED
      BY <1>1, <2>1, <3>2 DEF IInv, CopyInv, TypeOK
  <2>2. ASSUME NEW s \in Stacks, DeployBegin(d, s)
      PROVE  (\A t \in Stacks : row'[t].exists = row[t].exists) /\ CopyInv'
    <3> DEFINE c == [row[s] EXCEPT !.status = "deploying"]
    <3>1. c.exists = TRUE /\ UpdateStack(s, c) /\ job' = [job EXCEPT ![d] = [of |-> s, copy |-> c]]
      BY <2>2 DEF IInv, TypeOK, Row
    <3> HIDE DEF c
    <3>2. CopyInv'
      BY <1>1, <3>1 DEF IInv, CopyInv, TypeOK
    <3>3. QED
      BY <3>1, <3>2, RowStays DEF IInv
  <2>3. QED
    BY <2>1, <2>2
<1>3. QED
  BY <1>1, <1>2, Quiet DEF IInv, BeforeStop

\* Start, the signal and Stop.
LEMMA MainStep ==
  ASSUME IInv, TypeOK', Start \/ Signal \/ StopLoops \/ Exit PROVE IInv'
<1>1. CASE Signal \/ Exit
  <2>1. /\ main # "boot" /\ main' # "boot" /\ (BeforeStop' => BeforeStop)
        /\ UNCHANGED <<row, reg, mu, req, raced, loop, job>>
    BY <1>1 DEF Signal, Exit, BeforeStop
  <2>2. QED
    BY <2>1, Quiet DEF IInv, CopyInv
<1>2. CASE StopLoops
  <2>1. ~BeforeStop' /\ main' # "boot" /\ UNCHANGED <<row, loop, mu, req, job, raced>>
        /\ \A s \in Stacks : reg'[s] = None
    BY <1>2 DEF StopLoops, BeforeStop
  <2>2. QED
    BY <2>1 DEF IInv, BootInv, RequestInv, OwnerInv, CopyInv, WindowInv, DeletedInv, OneLoopPerStack, Between
<1>3. CASE Start
  <2>1. /\ main = "boot" /\ main' = "serving" /\ UNCHANGED <<row, mu, req, job, raced>>
        /\ \A r \in Requests : req[r].at = "new"
        /\ \A l \in Loops : loop[l] = Unused
    BY <1>3 DEF Start, IInv, BootInv
  <2>2. (BootInv /\ RequestInv)'
    BY <2>1 DEF IInv, BootInv, RequestInv
  <2>3. /\ \A l \in Loops : loop'[l].at # "unused" =>
             /\ l \in Stacks /\ loop'[l].of = l /\ loop'[l].at = "select"
             /\ reg'[l] = l /\ row[l].exists
        /\ \A s \in Stacks : reg'[s] # None => reg'[s] = s /\ loop'[s].at = "select" /\ loop'[s].of = s
    <3>1. CASE UNCHANGED <<reg, loop>>
      BY <2>1, <3>1 DEF Unused, IInv, BootInv
    <3>2. CASE ~ UNCHANGED <<reg, loop>>
      <4> DEFINE S == {s \in Stacks : NeedsLoop(row[s])}
      <4>1. /\ reg' = [s \in Stacks |-> IF s \in S THEN s ELSE None]
            /\ loop' = [l \in Loops |-> IF l \in S THEN [Unused EXCEPT !.at = "select", !.of = l]
                                       ELSE Unused]
        BY <1>3, <3>2, Zenon DEF Start
      <4>2. S \subseteq Stacks /\ S \subseteq Loops /\ \A s \in S : row[s].exists
        BY DEF NeedsLoop, Loops
      <4> HIDE DEF S
      <4>3. \A l \in Loops : l \in S => loop'[l].of = l /\ loop'[l].at = "select"
        BY <4>1 DEF Unused
      <4>4. \A l \in Loops : l \notin S => loop'[l].at = "unused"
        BY <4>1 DEF Unused
      <4>5. \A s \in Stacks : (s \in S => reg'[s] = s) /\ (s \notin S => reg'[s] = None)
        BY <4>1
      <4>6. QED
        BY <2>1, <4>2, <4>3, <4>4, <4>5 DEF Loops
    <3>3. QED
      BY <3>1, <3>2
  <2>4. OwnerInv'
    BY <2>1, <2>3, LoopsAssumption DEF OwnerInv, Loops
  <2>5. CopyInv'
    BY <2>1, <2>3 DEF IInv, CopyInv
  <2>6. WindowInv'
    BY <2>1 DEF WindowInv, Between
  <2>7. \A s \in Stacks : LiveLoops(s)' \subseteq {reg'[s]} /\ (LiveLoops(s)' # {} => row'[s].exists)
    BY <2>1, <2>3 DEF LiveLoops, Live, Counted
  <2>8. (DeletedInv /\ OneLoopPerStack)'
    BY <2>1, <2>7 DEF DeletedInv, OneLoopPerStack
  <2>9. QED
    BY <2>2, <2>4, <2>5, <2>6, <2>8 DEF IInv
<1>4. QED
  BY <1>1, <1>2, <1>3

-----------------------------------------------------------------------------
(* Requests. *)

\* A request that changes a row has its refresh ahead of it.
LEMMA BeginStep ==
  ASSUME IInv, TypeOK', NEW r \in Requests, NEW s \in Stacks,
         CreateStack(r, s) \/ PutStack(r, s) \/ DeleteStack(r, s)
  PROVE  IInv'
<1>1. PICK new \in Row : Begin(r, s, new)
  BY DEF CreateStack, PutStack, DeleteStack, NewRow, Row, Status, IInv, TypeOK
<1>2. /\ main = "serving" /\ UNCHANGED <<reg, loop, mu, job, main, raced>>
      /\ req[r].at = "new" /\ req'[r].at = "lock" /\ req'[r].of = s
      /\ \A q \in Requests \ {r} : req'[q] = req[q]
      /\ \A t \in Stacks \ {s} : row'[t] = row[t]
  BY <1>1 DEF Begin, IInv, TypeOK
<1>3. (BootInv /\ RequestInv /\ OwnerInv /\ CopyInv)'
  BY <1>2 DEF IInv, BootInv, RequestInv, OwnerInv, CopyInv
<1>4. (WindowInv /\ OneLoopPerStack)'
  BY <1>2 DEF IInv, WindowInv, OneLoopPerStack, Between, LiveLoops, BeforeStop
<1>5. DeletedInv'
  BY <1>2 DEF IInv, DeletedInv, Ending, LiveLoops, BeforeStop
<1>6. QED
  BY <1>3, <1>4, <1>5 DEF IInv

\* RefreshStack takes the mutex.
LEMMA LockStep == ASSUME IInv, TypeOK', NEW r \in Requests, RefreshLock(r) PROVE IInv'
<1>1. /\ main # "boot" /\ UNCHANGED <<row, reg, loop, job, main, raced>>
      /\ req[r].at = "lock" /\ req'[r].at = "wait" /\ req'[r].of = req[r].of
      /\ mu = None /\ mu' = r
      /\ \A q \in Requests \ {r} : req'[q] = req[q]
  BY DEF RefreshLock, Goto, Running, IInv, TypeOK, Request
<1>2. (BootInv /\ RequestInv /\ OwnerInv /\ CopyInv)'
  BY <1>1, LoopsAssumption DEF IInv, BootInv, RequestInv, OwnerInv, CopyInv
<1>3. (WindowInv /\ OneLoopPerStack)'
  BY <1>1 DEF IInv, WindowInv, OneLoopPerStack, Between, LiveLoops, BeforeStop
<1>4. DeletedInv'
  BY <1>1 DEF IInv, DeletedInv, Ending, LiveLoops, BeforeStop
<1>5. QED
  BY <1>2, <1>3, <1>4 DEF IInv

\* The old loop is gone, and so the stack has none, unless the stack is raced.
LEMMA UnlockStep == ASSUME IInv, TypeOK', NEW r \in Requests, RefreshUnlock(r) PROVE IInv'
<1>0. PICK s \in Stacks : req[r].of = s
  BY DEF RefreshUnlock, IInv, RequestInv
<1>1. /\ main # "boot" /\ UNCHANGED <<row, loop, job, main>>
      /\ req[r].at = "wait" /\ req'[r].at = "load" /\ req'[r].of = s
      /\ mu = r /\ mu' = None /\ s \in Stacks
      /\ reg'[s] = None /\ (reg[s] # None => loop[reg[s]].at = "done")
      /\ \A q \in Requests \ {r} : req'[q] = req[q]
      /\ \A t \in Stacks \ {s} : reg'[t] = reg[t]
  BY <1>0 DEF RefreshUnlock, Goto, Running, IInv, TypeOK, RequestInv, Request
<1>2. raced \subseteq raced' /\ \A t \in Stacks \ {s} : t \in raced' => t \in raced
  BY <1>0 DEF RefreshUnlock
<1>3. s \notin raced' => \A q \in Requests \ {r} : ~ Between(q, s)
  BY <1>0, <1>1 DEF RefreshUnlock, Between
<1>4. BeforeStop /\ s \notin raced => LiveLoops(s) = {}
  BY <1>1, LoopsAssumption DEF IInv, OneLoopPerStack, LiveLoops, Live, Counted, Loops
<1>5. (BootInv /\ RequestInv /\ OwnerInv /\ CopyInv)'
  BY <1>1, LoopsAssumption DEF IInv, BootInv, RequestInv, OwnerInv, CopyInv
<1>6. \A t \in Stacks : LiveLoops(t)' = LiveLoops(t)
  BY <1>1 DEF LiveLoops
<1>7. (WindowInv /\ OneLoopPerStack)'
  BY <1>0, <1>1, <1>2, <1>3, <1>4, <1>6 DEF IInv, WindowInv, OneLoopPerStack, Between, BeforeStop
<1>8. DeletedInv'
  <2> SUFFICES ASSUME NEW t \in Stacks, BeforeStop, t \notin raced', ~row[t].exists
               PROVE  \/ \E q \in Requests : Ending(q, t)'
                      \/ /\ LiveLoops(t) = {}
                         /\ \A q \in Requests : req'[q].of = t => req'[q].at # "start"
    BY <1>1, <1>6 DEF DeletedInv, BeforeStop
  <2>1. CASE t = s
    BY <1>1, <1>2, <1>3, <1>4, <2>1 DEF Between
  <2>2. CASE t # s
    BY <1>0, <1>1, <1>2, <2>2 DEF IInv, DeletedInv, Ending
  <2>3. QED
    BY <2>1, <2>2
<1>9. QED
  BY <1>5, <1>7, <1>8 DEF IInv

\* Only a row that is there leads to a new loop.
LEMMA LoadStep == ASSUME IInv, TypeOK', NEW r \in Requests, RefreshLoad(r) PROVE IInv'
<1>1. /\ main # "boot" /\ UNCHANGED <<row, reg, loop, mu, job, main, raced>>
      /\ req[r].at = "load" /\ req'[r].at \in {"start", "served"} /\ req'[r].of = req[r].of
      /\ req'[r].at = "start" => row[req[r].of].exists
      /\ \A q \in Requests \ {r} : req'[q] = req[q]
  BY DEF RefreshLoad, Goto, Running, IInv, TypeOK, Request, NeedsLoop
<1>2. (BootInv /\ RequestInv /\ OwnerInv /\ CopyInv)'
  BY <1>1 DEF IInv, BootInv, RequestInv, OwnerInv, CopyInv
<1>3. \A q \in Requests, t \in Stacks : Between(q, t)' => Between(q, t)
  BY <1>1 DEF Between
<1>4. (WindowInv /\ OneLoopPerStack)'
  BY <1>1, <1>3 DEF IInv, WindowInv, OneLoopPerStack, LiveLoops, BeforeStop
<1>5. DeletedInv'
  BY <1>1 DEF IInv, DeletedInv, Ending, LiveLoops, BeforeStop
<1>6. QED
  BY <1>2, <1>4, <1>5 DEF IInv

\* The new loop is the only one of its stack.
LEMMA RegisterStep == ASSUME IInv, TypeOK', NEW r \in Requests, RefreshRegister(r) PROVE IInv'
<1>0. PICK s \in Stacks : req[r].of = s
  BY DEF RefreshRegister, IInv, RequestInv
<1>1. /\ main # "boot" /\ UNCHANGED <<row, mu, job, main, raced>>
      /\ req[r].at = "start" /\ req'[r].at = "spawn" /\ req'[r].of = s /\ s \in Stacks
      /\ \A q \in Requests \ {r} : req'[q] = req[q]
      /\ reg'[s] = r /\ \A t \in Stacks \ {s} : reg'[t] = reg[t]
      /\ \A l \in Loops \ {r} : loop'[l] = loop[l]
  BY <1>0 DEF RefreshRegister, Goto, Running, IInv, TypeOK, RequestInv, Request
<1>2. r \in Loops /\ loop[r].at = "unused" /\ loop'[r].at = "registered" /\ loop'[r].of = s
  BY <1>0, <1>1 DEF RefreshRegister, Unused, Loops, IInv, TypeOK, OwnerInv
<1>3. (BootInv /\ RequestInv /\ CopyInv)'
  BY <1>1, <1>2 DEF IInv, BootInv, RequestInv, CopyInv
<1>4. OwnerInv'
  BY <1>1, <1>2 DEF IInv, OwnerInv, Loops, TypeOK
<1>5. /\ LiveLoops(s)' = LiveLoops(s) \cup {r}
      /\ \A t \in Stacks \ {s} : LiveLoops(t)' = LiveLoops(t)
  <2>1. "registered" \in Live /\ "unused" \notin Live
    BY DEF Live, Counted
  <2>2. \A l \in Loops, t \in Stacks :
          loop'[l].of = t /\ loop'[l].at \in Live
            <=> (loop[l].of = t /\ loop[l].at \in Live) \/ (l = r /\ t = s)
    BY <1>1, <1>2, <2>1
  <2>3. \A t \in Stacks : LiveLoops(t)' = LiveLoops(t) \cup (IF t = s THEN {r} ELSE {})
    BY <1>2, <2>2 DEF LiveLoops
  <2>4. QED
    BY <1>1, <2>3
<1>6. Between(r, s) /\ \A q \in Requests, t \in Stacks : Between(q, t)' => q # r /\ Between(q, t)
  BY <1>0, <1>1 DEF Between
<1>7. (WindowInv /\ OneLoopPerStack)'
  <2> SUFFICES ASSUME NEW t \in Stacks, t \notin raced
               PROVE  /\ \A p, q \in Requests : Between(p, t)' /\ Between(q, t)' => p = q
                      /\ BeforeStop => /\ \A q \in Requests : Between(q, t)' => LiveLoops(t)' = {}
                                       /\ LiveLoops(t)' \subseteq {reg'[t]}
    BY <1>1 DEF WindowInv, OneLoopPerStack, BeforeStop
  <2>1. CASE t = s
    <3>1. \A q \in Requests : ~ Between(q, t)'
      BY <1>6, <2>1 DEF IInv, WindowInv
    <3>2. BeforeStop => LiveLoops(t)' = {r}
      BY <1>1, <1>5, <1>6, <2>1 DEF IInv, WindowInv
    <3>3. QED
      BY <1>1, <2>1, <3>1, <3>2
  <2>2. CASE t # s
    BY <1>0, <1>1, <1>5, <1>6, <2>2 DEF IInv, WindowInv, OneLoopPerStack
  <2>3. QED
    BY <2>1, <2>2
<1>8. DeletedInv'
  BY <1>0, <1>1, <1>5 DEF IInv, DeletedInv, Ending, BeforeStop
<1>9. QED
  BY <1>3, <1>4, <1>7, <1>8 DEF IInv

\* The registered loop starts to run.
LEMMA SpawnStep == ASSUME IInv, TypeOK', NEW r \in Requests, RefreshSpawn(r) PROVE IInv'
<1>1. /\ main # "boot" /\ UNCHANGED <<row, reg, mu, job, main, raced>>
      /\ req[r].at = "spawn" /\ req'[r].at = "served" /\ req'[r].of = req[r].of
      /\ \A q \in Requests \ {r} : req'[q] = req[q]
      /\ \A l \in Loops \ {r} : loop'[l] = loop[l]
  BY DEF RefreshSpawn, Goto, Step, Running, IInv, TypeOK, Request
<1>2. /\ r \in Loops /\ loop[r].at = "registered" /\ loop'[r].at = "select"
      /\ loop'[r].of = loop[r].of /\ loop[r].of \in Stacks
  BY <1>1 DEF RefreshSpawn, Step, Loops, Loop, IInv, TypeOK, OwnerInv
<1>3. (BootInv /\ RequestInv /\ CopyInv)'
  BY <1>1, <1>2 DEF IInv, BootInv, RequestInv, CopyInv
<1>4. OwnerInv'
  BY <1>1, <1>2 DEF IInv, OwnerInv, Loops, TypeOK
<1>5. \A t \in Stacks : LiveLoops(t)' = LiveLoops(t)
  BY <1>1, <1>2 DEF LiveLoops, Live, Counted
<1>6. \A q \in Requests, t \in Stacks : Between(q, t)' <=> Between(q, t)
  BY <1>1 DEF Between
<1>7. (WindowInv /\ OneLoopPerStack)'
  BY <1>1, <1>5, <1>6 DEF IInv, WindowInv, OneLoopPerStack, BeforeStop
<1>8. DeletedInv'
  BY <1>1, <1>5 DEF IInv, DeletedInv, Ending, BeforeStop
<1>9. QED
  BY <1>3, <1>4, <1>7, <1>8 DEF IInv

-----------------------------------------------------------------------------
\* The inductive invariant: who registers a loop is alone in the window between
\* the mutex and the registry, and has waited for the loop before.
THEOREM LoopsInvariant == Spec => []IInv
<1>1. Init => IInv
  <2> SUFFICES ASSUME Init PROVE IInv
    OBVIOUS
  <2>1. NewRow(TRUE) \in Row
    BY DEF NewRow, Row, Status
  <2>2. TypeOK
    BY <2>1, Values DEF Init, TypeOK, Request
  <2>3. BootInv /\ RequestInv /\ OwnerInv /\ CopyInv
    BY LoopsAssumption DEF Init, BootInv, RequestInv, OwnerInv, CopyInv, Unused, Loops
  <2>4. WindowInv /\ DeletedInv /\ OneLoopPerStack
    BY DEF Init, WindowInv, DeletedInv, OneLoopPerStack, Between, BeforeStop
  <2>5. QED
    BY <2>2, <2>3, <2>4 DEF IInv
<1>2. IInv /\ [Next]_vars => IInv'
  <2> SUFFICES ASSUME IInv, [Next]_vars PROVE IInv'
    OBVIOUS
  <2>1. TypeOK'
    BY TypeStep
  <2>2. CASE UNCHANGED vars
    BY <2>2 DEF vars, IInv, TypeOK, BootInv, RequestInv, OwnerInv, CopyInv, WindowInv, DeletedInv,
       OneLoopPerStack, Between, Ending, LiveLoops, BeforeStop
  <2>3. ASSUME NEW r \in Requests, Refresh(r) PROVE IInv'
    BY <2>1, <2>3, LockStep, UnlockStep, LoadStep, RegisterStep, SpawnStep DEF Refresh
  <2>4. QED
    BY <2>1, <2>2, <2>3, MainStep, BeginStep, LoopStep, DeployStep DEF Next
<1>3. QED
  BY <1>1, <1>2, PTL DEF Spec

\* Every variable keeps its type.
THEOREM TypeCorrect == Spec => []TypeOK
<1>1. IInv => TypeOK
  BY DEF IInv
<1>2. QED
  BY <1>1, LoopsInvariant, PTL

\* Until Stop, a stack has one loop goroutine, unless two refreshes overlapped
\* between the mutex and the registry.
THEOREM OneLoopAlways == Spec => []OneLoopPerStack
<1>1. IInv => OneLoopPerStack
  BY DEF IInv
<1>2. QED
  BY <1>1, LoopsInvariant, PTL

\* When the refresh of a DELETE has returned, no loop of the stack is left.
THEOREM DeletedLoopGone == Spec => []DeletedHasNoLoop
<1>1. IInv => DeletedHasNoLoop
  BY DEF IInv, DeletedInv, DeletedHasNoLoop, Refreshing, Ending
<1>2. QED
  BY <1>1, LoopsInvariant, PTL
=============================================================================
