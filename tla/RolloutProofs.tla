----------------------------- MODULE RolloutProofs -----------------------------
(***************************************************************************)
(* Proofs about the rollout of a service and its rollback, for every       *)
(* number of deployments, services, replicas, containers and faults.       *)
(***************************************************************************)
EXTENDS Rollout, FiniteSetTheorems, TLAPS

-----------------------------------------------------------------------------
(* Finite sets. *)

LEMMA IdsFinite == IsFiniteSet(Ids)
BY FS_Interval, RolloutAssumption DEF Ids

LEMMA Counts ==
  ASSUME NEW S, S \subseteq Ids
  PROVE  IsFiniteSet(S) /\ Cardinality(S) \in Nat
BY IdsFinite, FS_Subset, FS_CardinalityType

LEMMA CountsSubset ==
  ASSUME NEW S, S \subseteq Ids, NEW T \in SUBSET S
  PROVE  Cardinality(T) <= Cardinality(S)
BY Counts, FS_Subset

LEMMA CountsAdd ==
  ASSUME NEW S, S \subseteq Ids, NEW c \in Ids \ S
  PROVE  Cardinality(S \cup {c}) = Cardinality(S) + 1
BY Counts, FS_AddElement

LEMMA CountsRemove ==
  ASSUME NEW S, S \subseteq Ids, NEW c
  PROVE  /\ Cardinality(S \ {c}) = IF c \in S THEN Cardinality(S) - 1 ELSE Cardinality(S)
         /\ Cardinality(S \ {c}) >= Cardinality(S) - 1
<1>1. Cardinality(S) \in Nat
  BY Counts
<1>2. Cardinality(S \ {c}) = IF c \in S THEN Cardinality(S) - 1 ELSE Cardinality(S)
  BY Counts, FS_RemoveElement
<1>3. QED
  BY <1>1, <1>2

-----------------------------------------------------------------------------
(* Control. *)

Locked == {"locked"} \cup Rolling
Undoing == {"undo", "undoRemove", "undoCreate"}
Failing == Undoing \cup {"failed"}

\* Where deployment p is, and which containers it may name there.
Control(p) ==
  /\ d[p].pc \notin {"idle", "undo", "done", "failed"} => d[p].i \in 1..Len(Order)
  /\ d[p].pc = "prepare" => d[p].i = 1
  /\ d[p].pc = "undo" => d[p].i \in 0..Len(Order)
  /\ d[p].pc \in Locked => lock[Svc(p)] = p
  /\ d[p].pc \in {"undoRemove", "undoCreate"} => Svc(p) \in reverted
  /\ d[p].pc \in Rolling \cup {"undoRemove"} =>
       \A c \in d[p].replace : cont[c].of = Svc(p) /\ cont[c].up # "never"
  /\ d[p].pc \in {"health", "swap"} =>
       /\ d[p].need > 0 /\ d[p].new \in Ids \ d[p].replace
       /\ cont[d[p].new].of = Svc(p) /\ cont[d[p].new].up # "never"

\* What the histories stand for.
Histories ==
  /\ faults = 0 => decayed = {} /\ zombies = {} /\ \A p \in Deploys : d[p].live
  /\ reverted # {} => \E p \in Deploys : d[p].pc \in Failing

ControlInv ==
  /\ TypeOK
  /\ \A c \in Ids : cont[c].up # "never" => cont[c].of \in Services
  /\ \A p \in Deploys : Control(p)
  /\ Histories


\* A step changes only containers of service s, new ones included.
Touches(s) ==
  \A c \in Ids : \/ cont'[c] = cont[c]
                 \/ /\ cont[c].up = "never" \/ cont[c].of = s
                    /\ cont'[c].of = s /\ cont'[c].up # "never"

\* Containers are of the service they were created for.
LEMMA Stable ==
  ASSUME NEW s, Touches(s), NEW c \in Ids, cont[c].up # "never"
  PROVE  cont'[c].of = cont[c].of /\ cont'[c].up # "never"
BY DEF Touches

\* Other services do not notice.
LEMMA Elsewhere ==
  ASSUME NEW s, Touches(s), NEW t, t # s
  PROVE  /\ getServiceContainers(t)' = getServiceContainers(t)
         /\ Serving(t)' = Serving(t)
         /\ \A c \in getServiceContainers(t) : cont'[c] = cont[c]
<1>1. \A c \in Ids : cont[c].of = t /\ cont[c].up # "never" => cont'[c] = cont[c]
  BY DEF Touches
<1>2. \A c \in Ids : cont'[c].of = t => cont'[c] = cont[c]
  BY DEF Touches
<1>3. QED
  BY <1>1, <1>2 DEF getServiceContainers, Serving

LEMMA Basics ==
  ASSUME ControlInv, NEW p \in Deploys
  PROVE  /\ cont \in [Ids -> Container] /\ lock \in [Services -> Deploys \cup {None}]
         /\ d \in [Deploys -> Deployment] /\ d[p] \in Deployment /\ faults \in 0..MaxFaults
         /\ decayed \in SUBSET Services /\ reverted \in SUBSET Services
         /\ zombies \in SUBSET Services
         /\ d[p].pc \in PC /\ d[p].i \in 0..(Len(Order) + 1) /\ d[p].keep \in SUBSET Ids
         /\ d[p].replace \in SUBSET Ids /\ d[p].need \in Nat /\ d[p].new \in Ids \cup {None}
         /\ d[p].before \in Nat /\ d[p].found \in Nat /\ d[p].snap \in [Services -> Snapshot]
         /\ d[p].todo \in SUBSET (Ids \X Images) /\ d[p].recreate \in BOOLEAN
         /\ d[p].live \in BOOLEAN /\ d[p].fell \in 0..Len(Order)
         /\ Control(p)
         /\ Len(Order) \in Nat \ {0} /\ MaxFaults \in Nat
<1>1. Len(Order) \in Nat \ {0}
  BY RolloutAssumption
<1>2. MaxFaults \in Nat
  BY RolloutAssumption
<1>3. TypeOK /\ Control(p)
  BY DEF ControlInv
<1>4. d[p] \in Deployment
  BY <1>3 DEF TypeOK
<1>5. QED
  BY <1>1, <1>2, <1>3, <1>4 DEF TypeOK, Deployment

\* Positions name services.
LEMMA PositionTyped ==
  ASSUME NEW k \in 1..Len(Order)
  PROVE  Order[k] \in Services
<1>1. Order \in Seq(Services)
  BY RolloutAssumption
<1>2. QED
  BY <1>1

-----------------------------------------------------------------------------
(* A step of a deployment. *)

\* Deployment p may be as e says.
Lands(p, e) ==
  /\ e.pc \notin {"idle", "undo", "done", "failed"} => e.i \in 1..Len(Order)
  /\ e.pc = "prepare" => e.i = 1
  /\ e.pc = "undo" => e.i \in 0..Len(Order)
  /\ e.pc \in Locked => lock'[Order[e.i]] = p
  /\ e.pc \in {"undoRemove", "undoCreate"} => Order[e.i] \in reverted'
  /\ e.pc \in Rolling \cup {"undoRemove"} =>
       \A c \in e.replace : cont'[c].of = Order[e.i] /\ cont'[c].up # "never"
  /\ e.pc \in {"health", "swap"} =>
       /\ e.need > 0 /\ e.new \in Ids \ e.replace
       /\ cont'[e.new].of = Order[e.i] /\ cont'[e.new].up # "never"

\* What a step may change that the other deployments see: containers and the
\* mutex of the service p is at, and the histories.
Shared(p) ==
  /\ cont' \in [Ids -> Container]
  /\ cont' # cont => /\ d[p].pc \in Locked \cup {"undoRemove", "undoCreate"}
                     /\ Touches(Svc(p))
  /\ lock' \in [Services -> Deploys \cup {None}]
  /\ lock' # lock => /\ lock[Svc(p)] \in {None, p}
                     /\ \A s \in Services \ {Svc(p)} : lock'[s] = lock[s]
  /\ faults' \in 0..MaxFaults
  /\ decayed' \in SUBSET Services /\ decayed \subseteq decayed'
  /\ zombies' \in SUBSET Services /\ zombies \subseteq zombies'
  /\ reverted' \in SUBSET Services /\ reverted \subseteq reverted'
  /\ faults' = 0 => faults = 0 /\ zombies' = zombies /\ decayed' = decayed

Moves(p, e) ==
  /\ e \in Deployment /\ d' = [d EXCEPT ![p] = e]
  /\ Lands(p, e)
  /\ faults' = 0 => e.live
  /\ reverted' = reverted \/ e.pc \in Failing
  /\ d[p].pc \in Failing => e.pc \in Failing
  /\ e.pc # "idle"
  /\ e.pc \in {"undoRemove", "undoCreate"} \/ reverted' # reverted => d[p].pc \in Undoing

\* Faults and the calls that fail.
LEMMA FaultCounts ==
  ASSUME ControlInv, NEW p \in Deploys, CallFails(p) \/ Fault
  PROVE  faults' \in 0..MaxFaults /\ faults' # 0
<1>1. faults \in 0..MaxFaults /\ MaxFaults \in Nat /\ (faults = 0 => d[p].live)
  BY Basics DEF ControlInv, Histories
<1>2. QED
  BY <1>1 DEF CallFails, Fault

LEMMA StepKeepsControl ==
  ASSUME ControlInv, NEW p \in Deploys, NEW e, Shared(p), Moves(p, e)
  PROVE  ControlInv'
<1>0. d \in [Deploys -> Deployment] /\ e \in Deployment /\ d' = [d EXCEPT ![p] = e]
  BY Basics DEF Moves
<1>1. d'[p] = e /\ \A q \in Deploys \ {p} : d'[q] = d[q]
  BY <1>0
<1>2. TypeOK'
  BY <1>0, Basics DEF TypeOK, Shared
<1>3. \A c \in Ids : cont[c].up # "never" => cont'[c].of = cont[c].of /\ cont'[c].up # "never"
  BY Stable DEF Shared
<1>4. ASSUME NEW c \in Ids, cont'[c].up # "never"
      PROVE  cont'[c].of \in Services
  <2>1. CASE cont'[c] = cont[c]
    BY <1>4, <2>1 DEF ControlInv
  <2>2. CASE cont'[c] # cont[c]
    <3>1. cont' # cont /\ d[p].i \in 1..Len(Order)
      BY <2>2, Basics DEF Shared, Control, Locked, Rolling
    <3>2. Svc(p) \in Services
      BY <3>1, PositionTyped DEF Svc
    <3>3. QED
      BY <2>2, <3>1, <3>2 DEF Shared, Touches
  <2>3. QED
    BY <2>1, <2>2
<1>5. ASSUME NEW q \in Deploys PROVE Control(q)'
  <2>1. CASE q = p
    BY <1>1, <2>1 DEF Moves, Lands, Control, Svc
  <2>2. CASE q # p
    <3>1. Control(q) /\ d'[q] = d[q] /\ d[q].replace \in SUBSET Ids /\ Svc(q)' = Svc(q)
      BY <1>1, <2>2, Basics DEF Svc
    <3>2. d[q].pc \in Locked => lock'[Svc(q)] = q
      <4>1. SUFFICES ASSUME d[q].pc \in Locked PROVE lock'[Svc(q)] = q
        OBVIOUS
      <4>2. lock[Svc(q)] = q /\ d[q].i \in 1..Len(Order)
        BY <3>1, <4>1 DEF Control, Locked, Rolling
      <4>3. Svc(q) \in Services /\ q # None
        BY <4>2, PositionTyped, RolloutAssumption DEF Svc
      <4>4. QED
        BY <2>2, <4>2, <4>3 DEF Shared
    <3>3. Svc(q) \in reverted => Svc(q) \in reverted'
      BY DEF Shared
    <3>4. QED
      BY <1>3, <3>1, <3>2, <3>3 DEF Control
  <2>3. QED
    BY <2>1, <2>2
<1>6. Histories'
  <2>1. faults' = 0 => decayed' = {} /\ zombies' = {} /\ \A q \in Deploys : d'[q].live
    BY <1>1 DEF Shared, Moves, ControlInv, Histories
  <2>2. reverted' # {} => \E q \in Deploys : d'[q].pc \in Failing
    <3>1. CASE e.pc \in Failing
      BY <1>1, <3>1
    <3>2. CASE e.pc \notin Failing
      BY <1>1, <3>2 DEF Moves, ControlInv, Histories
    <3>3. QED
      BY <3>1, <3>2
  <2>3. QED
    BY <2>1, <2>2 DEF Histories
<1>7. QED
  BY <1>2, <1>4, <1>5, <1>6 DEF ControlInv

\* Shared and Moves for every action of a deployment.

\* Steps that leave containers, mutexes and failed removals alone.
LEMMA QuietShared ==
  ASSUME ControlInv, NEW p \in Deploys, UNCHANGED <<cont, lock, decayed, zombies>>,
         UNCHANGED faults \/ CallFails(p) \/ Fault,
         reverted' \in SUBSET Services, reverted \subseteq reverted'
  PROVE  Shared(p)
<1>1. faults' \in 0..MaxFaults /\ (faults' = 0 => faults = 0)
  BY Basics, FaultCounts
<1>2. QED
  BY <1>1, Basics DEF Shared

\* Only the place changes.
LEMMA GotoMoves ==
  ASSUME ControlInv, NEW p \in Deploys, NEW label \in PC, Goto(p, label)
  PROVE  \E e : /\ e \in Deployment /\ d' = [d EXCEPT ![p] = e]
                /\ e.pc = label /\ e.i = d[p].i /\ e.live = d[p].live
                /\ e.replace = d[p].replace /\ e.need = d[p].need /\ e.new = d[p].new
<1>1. d \in [Deploys -> Deployment] /\ d[p] \in Deployment
  BY Basics
<1>2. PICK e : e = [d[p] EXCEPT !.pc = label]
  OBVIOUS
<1>3. e \in Deployment /\ e.pc = label /\ e.i = d[p].i /\ e.live = d[p].live
      /\ e.replace = d[p].replace /\ e.need = d[p].need /\ e.new = d[p].new
  BY <1>1, <1>2 DEF Deployment
<1>4. d' = [d EXCEPT ![p] = e]
  BY <1>1, <1>2 DEF Goto
<1>5. QED
  BY <1>3, <1>4

\* Without a fault every context lives.
LEMMA Alive ==
  ASSUME ControlInv, NEW p \in Deploys, faults = 0
  PROVE  d[p].live
BY DEF ControlInv, Histories

\* The last step of a deployment that fails without a rollback, or after it.
LEMMA EndMoves ==
  ASSUME ControlInv, NEW p \in Deploys, Goto(p, "failed"), UNCHANGED <<cont, lock, histVars>>
  PROVE  Shared(p) /\ \E e : Moves(p, e)
<1>1. Shared(p)
  BY Basics, QuietShared DEF histVars
<1>2. PICK e : e \in Deployment /\ d' = [d EXCEPT ![p] = e] /\ e.pc = "failed" /\ e.live = d[p].live
  BY GotoMoves DEF PC
<1>3. Moves(p, e)
  BY <1>2, Alive DEF Moves, Lands, Failing, Undoing, histVars, Locked, Rolling
<1>4. QED
  BY <1>1, <1>3

LEMMA BeginMoves ==
  ASSUME ControlInv, NEW p \in Deploys, Begin(p)
  PROVE  Shared(p) /\ \E e : Moves(p, e)
<1>1. Shared(p)
  BY Basics, QuietShared DEF Begin, histVars
<1>2. CASE \E b \in BOOLEAN : Become(p, [d[p] EXCEPT !.pc = "capture", !.i = 1, !.recreate = b])
  <2>1. PICK b \in BOOLEAN : Become(p, [d[p] EXCEPT !.pc = "capture", !.i = 1, !.recreate = b])
    BY <1>2
  <2>2. PICK e : e = [d[p] EXCEPT !.pc = "capture", !.i = 1, !.recreate = b]
    OBVIOUS
  <2>3. e \in Deployment /\ e.pc = "capture" /\ e.i = 1 /\ e.live = d[p].live
    <3>1. d[p] \in Deployment /\ 1 \in 0..(Len(Order) + 1) /\ "capture" \in PC
      BY Basics DEF PC
    <3>2. QED
      BY <2>1, <2>2, <3>1 DEF Deployment
  <2>4. Lands(p, e)
    BY <2>3, Basics DEF Lands, Locked, Rolling
  <2>5. Moves(p, e)
    BY <2>1, <2>2, <2>3, <2>4, Alive DEF Moves, Become, Begin, At, Failing, Undoing, histVars
  <2>6. QED
    BY <1>1, <2>5
<1>3. CASE Goto(p, "failed")
  BY <1>3, EndMoves DEF Begin
<1>4. QED
  BY <1>2, <1>3 DEF Begin

LEMMA CaptureMoves ==
  ASSUME ControlInv, NEW p \in Deploys, Capture(p)
  PROVE  Shared(p) /\ \E e : Moves(p, e)
<1>1. Shared(p)
  BY Basics, QuietShared DEF Capture
<1>2. PICK was : was = {<<c, cont[c].image>> : c \in getServiceContainers(Svc(p))}
  OBVIOUS
<1>3. PICK ok \in {d[p].live, FALSE} :
        Become(p, [d[p] EXCEPT !.snap[Svc(p)] = IF ok THEN [known |-> TRUE, was |-> was] ELSE @,
                               !.pc = IF d[p].i = Len(Order) THEN "prepare" ELSE "capture",
                               !.i = IF d[p].i = Len(Order) THEN 1 ELSE @ + 1])
  BY <1>2, Zenon DEF Capture
<1>4. PICK snap : snap = [d[p].snap EXCEPT ![Svc(p)] = IF ok THEN [known |-> TRUE, was |-> was] ELSE @]
  OBVIOUS
<1>5. PICK e : e = [d[p] EXCEPT !.snap = snap,
                                !.pc = IF d[p].i = Len(Order) THEN "prepare" ELSE "capture",
                                !.i = IF d[p].i = Len(Order) THEN 1 ELSE d[p].i + 1]
  OBVIOUS
<1>6. d[p].i \in 1..Len(Order) /\ d[p].pc = "capture"
  BY Basics DEF Capture, At, Control
<1>7. snap \in [Services -> Snapshot]
  <2>1. was \in SUBSET (Ids \X Images)
    BY <1>2, Basics DEF getServiceContainers, Container
  <2>2. [known |-> TRUE, was |-> was] \in Snapshot
    BY <2>1 DEF Snapshot
  <2>3. d[p].snap \in [Services -> Snapshot]
    BY Basics
  <2>4. QED
    BY <1>4, <2>2, <2>3
<1>8. /\ e \in Deployment /\ e.pc \in {"capture", "prepare"} /\ e.i \in 1..Len(Order)
      /\ e.live = d[p].live /\ (e.pc = "prepare" => e.i = 1)
  <2>1. PICK k : k = IF d[p].i = Len(Order) THEN 1 ELSE d[p].i + 1
    OBVIOUS
  <2>2. k \in 1..Len(Order) /\ k \in 0..(Len(Order) + 1)
    BY <1>6, <2>1, Basics
  <2>3. PICK label \in {"capture", "prepare"} :
          label = IF d[p].i = Len(Order) THEN "prepare" ELSE "capture"
    OBVIOUS
  <2>4. e = [d[p] EXCEPT !.snap = snap, !.pc = label, !.i = k]
    BY <1>5, <2>1, <2>3
  <2>5. d[p] \in Deployment /\ label \in PC
    BY <2>3, Basics DEF PC
  <2>6. e \in Deployment /\ e.pc = label /\ e.i = k /\ e.live = d[p].live
    BY <1>7, <2>2, <2>4, <2>5 DEF Deployment
  <2>7. QED
    BY <2>1, <2>2, <2>3, <2>6
<1>9. d' = [d EXCEPT ![p] = e]
  <2>1. d[p] \in Deployment
    BY Basics
  <2>2. e = [d[p] EXCEPT !.snap[Svc(p)] = IF ok THEN [known |-> TRUE, was |-> was] ELSE @,
                         !.pc = IF d[p].i = Len(Order) THEN "prepare" ELSE "capture",
                         !.i = IF d[p].i = Len(Order) THEN 1 ELSE @ + 1]
    BY <1>4, <1>5, <2>1 DEF Deployment
  <2>3. QED
    BY <1>3, <2>2 DEF Become
<1>10. Lands(p, e)
  BY <1>8 DEF Lands, Locked, Rolling
<1>11. faults' = 0 => e.live
  BY <1>1, <1>8, Alive DEF Shared
<1>12. Moves(p, e)
  BY <1>6, <1>8, <1>9, <1>10, <1>11 DEF Moves, Capture, Failing, Undoing
<1>13. QED
  BY <1>1, <1>12

LEMMA PrepareMoves ==
  ASSUME ControlInv, NEW p \in Deploys, Prepare(p)
  PROVE  Shared(p) /\ \E e : Moves(p, e)
<1>1. Shared(p)
  BY Basics, QuietShared DEF Prepare, histVars
<1>2. CASE Goto(p, "service")
  <2>1. PICK e : /\ e \in Deployment /\ d' = [d EXCEPT ![p] = e] /\ e.pc = "service"
                 /\ e.i = d[p].i /\ e.live = d[p].live
    BY <1>2, GotoMoves DEF PC
  <2>2. d[p].pc = "prepare" /\ d[p].i \in 1..Len(Order)
    BY Basics DEF Prepare, At, Control
  <2>3. Moves(p, e)
    BY <2>1, <2>2, Alive DEF Moves, Lands, Prepare, Failing, Undoing, histVars, Locked, Rolling
  <2>4. QED
    BY <1>1, <2>3
<1>3. CASE Goto(p, "failed")
  BY <1>3, EndMoves DEF Prepare
<1>4. QED
  BY <1>2, <1>3 DEF Prepare

LEMMA BindMountRefusedMoves ==
  ASSUME ControlInv, NEW p \in Deploys, BindMountRefused(p) \/ UndoFinished(p)
  PROVE  Shared(p) /\ \E e : Moves(p, e)
BY EndMoves DEF BindMountRefused, UndoFinished

LEMMA CancelMoves ==
  ASSUME ControlInv, NEW p \in Deploys, Cancel(p)
  PROVE  Shared(p) /\ \E e : Moves(p, e)
<1>1. Shared(p)
  BY Basics, QuietShared DEF Cancel
<1>2. PICK e : e = [d[p] EXCEPT !.live = FALSE]
  OBVIOUS
<1>3. /\ e \in Deployment /\ e.pc = d[p].pc /\ e.i = d[p].i
      /\ e.replace = d[p].replace /\ e.need = d[p].need /\ e.new = d[p].new
  <2>1. d[p] \in Deployment
    BY Basics
  <2>2. QED
    BY <1>2, <2>1 DEF Deployment
<1>4. Lands(p, e)
  BY <1>3, Basics DEF Cancel, Lands, Control, Svc
<1>5. faults' # 0
  BY FaultCounts DEF Cancel
<1>6. Moves(p, e)
  BY <1>2, <1>3, <1>4, <1>5 DEF Cancel, Moves, Become, Undoing
<1>7. QED
  BY <1>1, <1>6

\* A container changes its state.
LEMMA UpEdit ==
  ASSUME cont \in [Ids -> Container], NEW c \in Ids, NEW up \in Health \cup {"gone"},
         cont' = [cont EXCEPT ![c].up = up], cont[c].up # "never"
  PROVE  /\ cont' \in [Ids -> Container]
         /\ cont'[c].of = cont[c].of /\ cont'[c].image = cont[c].image /\ cont'[c].up = up
         /\ \A b \in Ids \ {c} : cont'[b] = cont[b]
         /\ Touches(cont[c].of)
<1>1. cont[c] \in Container /\ cont'[c] = [cont[c] EXCEPT !.up = up]
  OBVIOUS
<1>2. up # "never"
  BY DEF Health
<1>3. /\ cont'[c] \in Container /\ cont'[c].of = cont[c].of /\ cont'[c].image = cont[c].image
      /\ cont'[c].up = up
  BY <1>1 DEF Container
<1>4. \A b \in Ids \ {c} : cont'[b] = cont[b]
  OBVIOUS
<1>5. cont' \in [Ids -> Container]
  BY <1>3, <1>4
<1>6. QED
  BY <1>2, <1>3, <1>4, <1>5 DEF Touches

\* A container is created.
LEMMA NewEdit ==
  ASSUME cont \in [Ids -> Container], NEW c \in Ids, cont[c].up = "never", NEW p \in Deploys,
         Svc(p) \in Services, NEW image \in Images, NEW up \in Health,
         NEW r, r = Launched(p, image, up), cont' = [cont EXCEPT ![c] = r]
  PROVE  /\ cont' \in [Ids -> Container]
         /\ cont'[c].of = Svc(p) /\ cont'[c].image = image /\ cont'[c].up = up
         /\ \A b \in Ids \ {c} : cont'[b] = cont[b]
         /\ Touches(Svc(p))
<1>1. cont'[c] = Launched(p, image, up)
  OBVIOUS
<1>2. up # "never"
  BY DEF Health
<1>3. /\ cont'[c] \in Container /\ cont'[c].of = Svc(p) /\ cont'[c].image = image
      /\ cont'[c].up = up
  BY <1>1 DEF Launched, Container
<1>4. \A b \in Ids \ {c} : cont'[b] = cont[b]
  OBVIOUS
<1>5. cont' \in [Ids -> Container]
  BY <1>3, <1>4
<1>6. QED
  BY <1>2, <1>3, <1>4, <1>5 DEF Touches

LEMMA FreshIsNew ==
  ASSUME NEW c, IsFresh(c)
  PROVE  c \in Ids /\ cont[c].up = "never"
BY DEF IsFresh, IsFirst

\* stopAndRemove: the container is gone, or the failure is noted.
LEMMA Removal ==
  ASSUME ControlInv, NEW p \in Deploys, NEW c \in Ids, StopAndRemove(p, c),
         cont[c].of = Svc(p), cont[c].up # "never", Svc(p) \in Services
  PROVE  /\ cont' \in [Ids -> Container] /\ Touches(Svc(p))
         /\ cont'[c].of = Svc(p) /\ cont'[c].image = cont[c].image /\ cont'[c].up # "never"
         /\ \A b \in Ids \ {c} : cont'[b] = cont[b]
         /\ (cont'[c].up = "gone" /\ zombies' = zombies) \/ Svc(p) \in zombies'
         /\ faults' \in 0..MaxFaults /\ zombies' \in SUBSET Services /\ zombies \subseteq zombies'
         /\ faults' = 0 => faults = 0 /\ zombies' = zombies
<1>0. cont \in [Ids -> Container] /\ zombies \in SUBSET Services /\ faults \in 0..MaxFaults
  BY Basics
<1>1. CASE cont' = [cont EXCEPT ![c].up = "gone"] /\ UNCHANGED <<faults, zombies>>
  <2>1. PICK up : up = "gone"
    OBVIOUS
  <2>2. up \in Health \cup {"gone"} /\ cont' = [cont EXCEPT ![c].up = up]
    BY <1>1, <2>1
  <2>3. /\ cont' \in [Ids -> Container] /\ Touches(Svc(p))
        /\ cont'[c].of = Svc(p) /\ cont'[c].image = cont[c].image /\ cont'[c].up = up
        /\ \A b \in Ids \ {c} : cont'[b] = cont[b]
    BY <1>0, <2>2, UpEdit
  <2>4. QED
    BY <1>0, <1>1, <2>1, <2>3
<1>2. CASE /\ cont[c].up # "gone" /\ CallFails(p)
           /\ zombies' = zombies \cup {Svc(p)}
           /\ \E up \in {cont[c].up, "unhealthy"} : cont' = [cont EXCEPT ![c].up = up]
  <2>1. PICK up \in {cont[c].up, "unhealthy"} : cont' = [cont EXCEPT ![c].up = up]
    BY <1>2
  <2>2. up \in Health
    BY <1>0, <1>2, <2>1 DEF Container, Health
  <2>3. up # "never"
    BY <2>2 DEF Health
  <2>4. faults' \in 0..MaxFaults /\ faults' # 0
    BY <1>2, FaultCounts
  <2>5. /\ cont' \in [Ids -> Container] /\ Touches(Svc(p))
        /\ cont'[c].of = Svc(p) /\ cont'[c].image = cont[c].image /\ cont'[c].up # "never"
        /\ \A b \in Ids \ {c} : cont'[b] = cont[b]
    BY <1>0, <2>1, <2>2, <2>3, UpEdit
  <2>6. QED
    BY <1>0, <1>2, <2>4, <2>5
<1>3. QED
  BY <1>1, <1>2 DEF StopAndRemove

\* Where a deployment is.
LEMMA Position ==
  ASSUME ControlInv, NEW p \in Deploys, d[p].pc \notin {"idle", "undo", "done", "failed"}
  PROVE  /\ d[p].i \in 1..Len(Order) /\ Svc(p) \in Services /\ Svc(p) = Order[d[p].i]
         /\ Replicas[Svc(p)] \in Nat \ {0} /\ Target[p] \in Images
<1>1. d[p].i \in 1..Len(Order)
  BY Basics DEF Control
<1>2. Svc(p) \in Services /\ Svc(p) = Order[d[p].i]
  BY <1>1, PositionTyped DEF Svc
<1>3. QED
  BY <1>1, <1>2, RolloutAssumption DEF Images

LEMMA Held ==
  ASSUME ControlInv, NEW p \in Deploys, d[p].pc \in Locked
  PROVE  /\ d[p].i \in 1..Len(Order) /\ Svc(p) \in Services /\ Svc(p) = Order[d[p].i]
         /\ lock[Svc(p)] = p /\ d[p].pc \notin Failing
         /\ Replicas[Svc(p)] \in Nat \ {0} /\ Target[p] \in Images
BY Position, Basics DEF Control, Locked, Rolling, Failing, Undoing

\* What the holder of the mutex may do.
LEMMA HeldShared ==
  ASSUME ControlInv, NEW p \in Deploys, d[p].pc \in Locked,
         cont' \in [Ids -> Container], cont' = cont \/ Touches(Svc(p)),
         lock' = lock \/ lock' = [lock EXCEPT ![Svc(p)] = None],
         faults' \in 0..MaxFaults, zombies' \in SUBSET Services, zombies \subseteq zombies',
         decayed' \in SUBSET Services, decayed \subseteq decayed',
         faults' = 0 => faults = 0 /\ zombies' = zombies /\ decayed' = decayed,
         reverted' = reverted
  PROVE  Shared(p)
<1>1. Svc(p) \in Services /\ lock[Svc(p)] = p /\ lock \in [Services -> Deploys \cup {None}]
  BY Held, Basics
<1>2. lock' \in [Services -> Deploys \cup {None}]
  BY <1>1
<1>3. QED
  BY <1>1, <1>2, Basics DEF Shared

\* Going back to the services before.
LEMMA FailMoves ==
  ASSUME ControlInv, NEW p \in Deploys, d[p].pc \in Locked, NEW new \in Ids \cup {None},
         Fail(p, new), Shared(p), reverted' = reverted
  PROVE  \E e : Moves(p, e)
<1>1. PICK e : e = [d[p] EXCEPT !.pc = "undo", !.fell = d[p].i, !.i = @ - 1, !.new = new,
                            !.keep = {}, !.replace = {}, !.need = 0,
                            !.before = 0, !.found = 0, !.recreate = FALSE]
  OBVIOUS
<1>2. d[p] \in Deployment /\ "undo" \in PC
  BY Basics DEF PC
<1>3. /\ d[p].i - 1 \in 0..(Len(Order) + 1) /\ d[p].i - 1 \in 0..Len(Order)
      /\ d[p].i \in 0..Len(Order)
  BY Held, Basics
<1>4. e \in Deployment /\ e.pc = "undo" /\ e.live = d[p].live /\ e.i = d[p].i - 1
  BY <1>1, <1>2, <1>3 DEF Deployment
<1>5. Lands(p, e)
  BY <1>3, <1>4 DEF Lands, Locked, Rolling
<1>6. Moves(p, e)
  BY <1>1, <1>4, <1>5, Alive DEF Moves, Fail, Become, Shared, Failing, Undoing
<1>7. QED
  BY <1>6

LEMMA LockServiceMoves ==
  ASSUME ControlInv, NEW p \in Deploys, LockService(p)
  PROVE  Shared(p) /\ \E e : Moves(p, e)
<1>1. d[p].i \in 1..Len(Order) /\ Svc(p) \in Services /\ Svc(p) = Order[d[p].i] /\ d[p].pc = "service"
  BY Position DEF LockService, At
<1>2. lock' \in [Services -> Deploys \cup {None}] /\ lock'[Svc(p)] = p
  BY <1>1, Basics DEF LockService
<1>3. Shared(p)
  BY <1>1, <1>2, Basics DEF Shared, LockService, histVars
<1>4. PICK e : /\ e \in Deployment /\ d' = [d EXCEPT ![p] = e] /\ e.pc = "locked"
               /\ e.i = d[p].i /\ e.live = d[p].live
  BY GotoMoves DEF PC, LockService
<1>5. Lands(p, e)
  BY <1>1, <1>2, <1>4 DEF Lands, Rolling
<1>6. Moves(p, e)
  BY <1>1, <1>4, <1>5, Alive DEF Moves, LockService, histVars, Failing, Undoing
<1>7. QED
  BY <1>3, <1>6

LEMMA DeployRefusedMoves ==
  ASSUME ControlInv, NEW p \in Deploys, DeployRefused(p)
  PROVE  Shared(p) /\ \E e : Moves(p, e)
<1>1. d[p].pc \in Locked
  BY DEF DeployRefused, At, Locked
<1>2. Shared(p)
  BY <1>1, HeldShared, Basics DEF DeployRefused, Fail, histVars
<1>3. QED
  BY <1>1, <1>2, FailMoves DEF DeployRefused, histVars

LEMMA CreateFailsMoves ==
  ASSUME ControlInv, NEW p \in Deploys, CreateFails(p)
  PROVE  Shared(p) /\ \E e : Moves(p, e)
<1>1. d[p].pc \in Locked
  BY DEF CreateFails, At, Locked, Rolling
<1>2. lock' = [lock EXCEPT ![Svc(p)] = None] /\ decayed' = decayed /\ reverted' = reverted
  BY DEF CreateFails, Fail
<1>3. Shared(p)
  <2>1. CASE UNCHANGED <<cont, faults, zombies>>
    BY <1>1, <1>2, <2>1, HeldShared, Basics
  <2>2. CASE /\ CallFails(p)
             /\ zombies' = zombies \cup {Svc(p)}
             /\ \E c \in Ids : IsFresh(c) /\ cont' = [cont EXCEPT ![c] = Launched(p, Target[p], "unhealthy")]
    <3>1. PICK c \in Ids : IsFresh(c) /\ cont' = [cont EXCEPT ![c] = Launched(p, Target[p], "unhealthy")]
      BY <2>2
    <3>2. cont \in [Ids -> Container] /\ "unhealthy" \in Health /\ zombies \in SUBSET Services
      BY Basics DEF Health
    <3>3. cont' \in [Ids -> Container] /\ Touches(Svc(p))
      <4>1. PICK r : r = Launched(p, Target[p], "unhealthy")
        OBVIOUS
      <4>2. /\ cont' = [cont EXCEPT ![c] = r] /\ cont[c].up = "never"
            /\ Svc(p) \in Services /\ Target[p] \in Images
        BY <1>1, <3>1, <4>1, FreshIsNew, Held
      <4>3. QED
        BY <3>2, <4>1, <4>2, NewEdit
    <3>4. faults' \in 0..MaxFaults /\ faults' # 0
      BY <2>2, FaultCounts
    <3>5. zombies' \in SUBSET Services /\ zombies \subseteq zombies'
      BY <1>1, <2>2, <3>2, Held
    <3>6. QED
      BY <1>1, <1>2, <3>3, <3>4, <3>5, HeldShared, Basics
  <2>3. QED
    BY <2>1, <2>2 DEF CreateFails
<1>4. QED
  BY <1>1, <1>2, <1>3, FailMoves DEF CreateFails

LEMMA HealthFailsMoves ==
  ASSUME ControlInv, NEW p \in Deploys, HealthFails(p)
  PROVE  Shared(p) /\ \E e : Moves(p, e)
<1>1. d[p].pc = "health" /\ d[p].pc \in Locked
  BY DEF HealthFails, At, Locked, Rolling
<1>2. lock' = [lock EXCEPT ![Svc(p)] = None] /\ decayed' = decayed /\ reverted' = reverted
  BY DEF HealthFails, Fail
<1>3. d[p].new \in Ids /\ cont[d[p].new].of = Svc(p) /\ cont[d[p].new].up # "never"
  BY <1>1, Basics DEF Control
<1>4. Shared(p)
  BY <1>1, <1>2, <1>3, HeldShared, Removal, Held, Basics DEF HealthFails
<1>5. QED
  BY <1>1, <1>2, <1>3, <1>4, FailMoves DEF HealthFails

\* Partition, spelled out: what it keeps and what it replaces.
LEMMA PartitionFacts ==
  ASSUME ControlInv, NEW p \in Deploys, Partition(p)
  PROVE  /\ d[p].pc = "locked" /\ d[p].live /\ UNCHANGED <<lock, histVars>>
         /\ \E good \in SUBSET MayKeep(p), e \in Deployment :
              /\ MustKeep(p) \subseteq good
              /\ cont' = [c \in Ids |-> IF c \in good THEN [cont[c] EXCEPT !.up = "healthy"]
                                        ELSE cont[c]]
              /\ d' = [d EXCEPT ![p] = e]
              /\ e.pc = "roll" /\ e.i = d[p].i /\ e.live = d[p].live
              /\ e.keep \in SUBSET good
              /\ e.replace = getServiceContainers(Svc(p)) \ e.keep
              /\ Cardinality(e.keep) \in Nat
              /\ e.need = Replicas[Svc(p)] - Cardinality(e.keep)
              /\ e.before = Cardinality(Serving(Svc(p)))
              /\ e.found = Cardinality(getServiceContainers(Svc(p)))
<1>1. d[p].pc = "locked" /\ d[p].live /\ UNCHANGED <<lock, histVars>>
  BY DEF Partition, At
<1>2. PICK s : s = Svc(p)
  OBVIOUS
<1>3. PICK good \in SUBSET MayKeep(p) :
        /\ MustKeep(p) \subseteq good
        /\ cont' = [c \in Ids |-> IF c \in good THEN [cont[c] EXCEPT !.up = "healthy"]
                                  ELSE cont[c]]
        /\ \E keep \in SUBSET good :
             /\ Cardinality(keep) = IF Cardinality(good) > Replicas[s] THEN Replicas[s]
                                    ELSE Cardinality(good)
             /\ Become(p, [d[p] EXCEPT !.pc = "roll", !.keep = keep,
                                       !.replace = getServiceContainers(s) \ keep,
                                       !.need = Replicas[s] - Cardinality(keep),
                                       !.before = Cardinality(Serving(s)),
                                       !.found = Cardinality(getServiceContainers(s))])
  BY <1>2, Zenon DEF Partition
<1>3k. PICK keep \in SUBSET good :
        /\ Cardinality(keep) = IF Cardinality(good) > Replicas[s] THEN Replicas[s]
                               ELSE Cardinality(good)
        /\ Become(p, [d[p] EXCEPT !.pc = "roll", !.keep = keep,
                                  !.replace = getServiceContainers(s) \ keep,
                                  !.need = Replicas[s] - Cardinality(keep),
                                  !.before = Cardinality(Serving(s)),
                                  !.found = Cardinality(getServiceContainers(s))])
  BY <1>3
<1>4. PICK n, b, f, r :
        /\ n = Replicas[s] - Cardinality(keep) /\ b = Cardinality(Serving(s))
        /\ f = Cardinality(getServiceContainers(s)) /\ r = getServiceContainers(s) \ keep
  OBVIOUS
<1>5. /\ getServiceContainers(s) \subseteq Ids /\ Serving(s) \subseteq Ids /\ good \subseteq Ids
      /\ keep \subseteq Ids
  BY <1>2, <1>3 DEF getServiceContainers, Serving, MayKeep
<1>6. /\ Cardinality(keep) \in Nat /\ Cardinality(good) \in Nat /\ b \in Nat /\ f \in Nat
  BY <1>4, <1>5, Counts
<1>7. Replicas[s] \in Nat \ {0}
  BY <1>1, <1>2, Held DEF Locked
<1>8. n \in Nat /\ r \subseteq Ids
  BY <1>3, <1>3k, <1>4, <1>5, <1>6, <1>7
<1>9. PICK e : e = [d[p] EXCEPT !.pc = "roll", !.keep = keep, !.replace = r, !.need = n,
                                !.before = b, !.found = f]
  OBVIOUS
<1>10. d[p] \in Deployment /\ "roll" \in PC
  BY Basics DEF PC
<1>11. /\ e \in Deployment /\ e.pc = "roll" /\ e.i = d[p].i /\ e.live = d[p].live /\ e.keep = keep
       /\ e.replace = r /\ e.need = n /\ e.before = b /\ e.found = f
  BY <1>5, <1>6, <1>8, <1>9, <1>10 DEF Deployment
<1>12. d' = [d EXCEPT ![p] = e]
  BY <1>3, <1>3k, <1>4, <1>9 DEF Become
<1>13. QED
  BY <1>1, <1>2, <1>3, <1>3k, <1>4, <1>6, <1>11, <1>12

LEMMA PartitionMoves ==
  ASSUME ControlInv, NEW p \in Deploys, Partition(p)
  PROVE  Shared(p) /\ \E e : Moves(p, e)
<1>1. d[p].pc = "locked" /\ d[p].pc \in Locked /\ d[p].live /\ UNCHANGED <<lock, histVars>>
  BY PartitionFacts DEF Locked
<1>2. PICK good \in SUBSET MayKeep(p), e \in Deployment :
        /\ cont' = [c \in Ids |-> IF c \in good THEN [cont[c] EXCEPT !.up = "healthy"]
                                  ELSE cont[c]]
        /\ d' = [d EXCEPT ![p] = e]
        /\ e.pc = "roll" /\ e.i = d[p].i /\ e.live = d[p].live
        /\ e.replace \subseteq getServiceContainers(Svc(p))
  BY PartitionFacts
<1>3. \A c \in getServiceContainers(Svc(p)) :
        c \in Ids /\ cont[c].of = Svc(p) /\ cont[c].up # "never"
  BY DEF getServiceContainers
<1>4. good \subseteq getServiceContainers(Svc(p))
  BY DEF MayKeep
<1>5. \A c \in Ids : cont[c] \in Container
  BY Basics
<1>6. ASSUME NEW c \in Ids
      PROVE  /\ cont'[c] \in Container /\ cont'[c].of = cont[c].of
             /\ cont'[c] = cont[c] \/ (c \in good /\ cont'[c].up = "healthy")
             /\ cont[c].up # "never" => cont'[c].up # "never"
  <2>1. cont'[c] = IF c \in good THEN [cont[c] EXCEPT !.up = "healthy"] ELSE cont[c]
    BY <1>2
  <2>2. cont[c] \in Container /\ "healthy" \in Health
    BY <1>5 DEF Health
  <2>3. QED
    BY <2>1, <2>2 DEF Container
<1>7. cont' \in [Ids -> Container]
  BY <1>2, <1>6
<1>8. Touches(Svc(p))
  BY <1>3, <1>4, <1>6 DEF Touches
<1>9. Shared(p)
  BY <1>1, <1>7, <1>8, HeldShared, Basics DEF histVars
<1>10. Lands(p, e)
  BY <1>1, <1>2, <1>3, <1>6, Held DEF Lands
<1>11. Moves(p, e)
  BY <1>1, <1>2, <1>10, Alive, Held DEF Moves, histVars
<1>12. QED
  BY <1>9, <1>11

LEMMA CreateMoves ==
  ASSUME ControlInv, NEW p \in Deploys, Create(p)
  PROVE  Shared(p) /\ \E e : Moves(p, e)
<1>1. d[p].pc = "roll" /\ d[p].pc \in Locked /\ d[p].need > 0 /\ UNCHANGED <<lock, histVars>>
  BY DEF Create, At, Locked, Rolling
<1>2. PICK c \in Ids : /\ IsFresh(c)
                       /\ cont' = [cont EXCEPT ![c] = Launched(p, Target[p], "starting")]
                       /\ Become(p, [d[p] EXCEPT !.pc = "health", !.new = c])
  BY DEF Create
<1>3. cont \in [Ids -> Container] /\ "starting" \in Health /\ cont[c].up = "never"
  BY <1>2, Basics, FreshIsNew DEF Health
<1>4. /\ cont' \in [Ids -> Container] /\ Touches(Svc(p))
      /\ cont'[c].of = Svc(p) /\ cont'[c].up = "starting"
      /\ \A b \in Ids \ {c} : cont'[b] = cont[b]
  <2>1. PICK up, image, r : /\ up = "starting" /\ image = Target[p]
                            /\ r = Launched(p, image, up)
    OBVIOUS
  <2>2. /\ up \in Health /\ image \in Images /\ Svc(p) \in Services
        /\ r = Launched(p, image, up) /\ cont' = [cont EXCEPT ![c] = r]
    BY <1>1, <1>2, <1>3, <2>1, Held
  <2>3. /\ cont' \in [Ids -> Container] /\ Touches(Svc(p))
        /\ cont'[c].of = Svc(p) /\ \A b \in Ids \ {c} : cont'[b] = cont[b]
    BY <1>3, <2>2, NewEdit
  <2>4. cont'[c].up = up
    BY <1>3, <2>2 DEF Launched
  <2>5. QED
    BY <2>1, <2>3, <2>4
<1>5. Shared(p)
  BY <1>1, <1>4, HeldShared, Basics DEF histVars
<1>6. PICK e : e = [d[p] EXCEPT !.pc = "health", !.new = c]
  OBVIOUS
<1>7. /\ e \in Deployment /\ e.pc = "health" /\ e.new = c /\ e.i = d[p].i /\ e.live = d[p].live
      /\ e.replace = d[p].replace /\ e.need = d[p].need
  <2>1. d[p] \in Deployment /\ "health" \in PC
    BY Basics DEF PC
  <2>2. QED
    BY <1>2, <1>6, <2>1 DEF Deployment
<1>8. \A b \in d[p].replace : b \in Ids /\ cont[b].of = Svc(p) /\ cont[b].up # "never"
  BY <1>1, Basics DEF Control, Rolling
<1>9. Lands(p, e)
  BY <1>1, <1>3, <1>4, <1>7, <1>8, Held DEF Lands
<1>10. Moves(p, e)
  BY <1>1, <1>2, <1>6, <1>7, <1>9, Alive, Held DEF Moves, Become, histVars
<1>11. QED
  BY <1>5, <1>10

LEMMA HealthOkMoves ==
  ASSUME ControlInv, NEW p \in Deploys, HealthOk(p)
  PROVE  Shared(p) /\ \E e : Moves(p, e)
<1>1. d[p].pc = "health" /\ d[p].pc \in Locked /\ UNCHANGED <<lock, histVars>>
  BY DEF HealthOk, At, Locked, Rolling
<1>2. /\ d[p].new \in Ids \ d[p].replace /\ cont[d[p].new].of = Svc(p) /\ d[p].need > 0
      /\ cont[d[p].new].up # "never"
      /\ \A b \in d[p].replace : b \in Ids /\ cont[b].of = Svc(p) /\ cont[b].up # "never"
  BY <1>1, Basics DEF Control, Rolling
<1>3. PICK c : c = d[p].new
  OBVIOUS
<1>4. PICK up : up = "healthy"
  OBVIOUS
<1>5. cont' = [cont EXCEPT ![c].up = up] /\ cont \in [Ids -> Container]
      /\ up \in Health \cup {"gone"} /\ up # "never"
  BY <1>3, <1>4, Basics DEF HealthOk, Health
<1>6. /\ cont' \in [Ids -> Container] /\ Touches(Svc(p))
      /\ cont'[c].of = Svc(p) /\ cont'[c].up = up
      /\ \A b \in Ids \ {c} : cont'[b] = cont[b]
  <2>1. c \in Ids /\ cont[c].of = Svc(p) /\ cont[c].up # "never"
    BY <1>2, <1>3
  <2>2. QED
    BY <1>5, <2>1, UpEdit
<1>7. Shared(p)
  BY <1>1, <1>6, HeldShared, Basics DEF histVars
<1>8. PICK e : /\ e \in Deployment /\ d' = [d EXCEPT ![p] = e]
               /\ e.pc = "swap" /\ e.i = d[p].i /\ e.live = d[p].live
               /\ e.replace = d[p].replace /\ e.need = d[p].need /\ e.new = d[p].new
  BY GotoMoves DEF HealthOk, PC
<1>9. Lands(p, e)
  BY <1>1, <1>2, <1>3, <1>5, <1>6, <1>8, Held DEF Lands
<1>10. Moves(p, e)
  BY <1>1, <1>8, <1>9, Alive, Held DEF Moves, histVars
<1>11. QED
  BY <1>7, <1>10

\* What HealthAssumed does to the containers.
LEMMA AssumedFacts ==
  ASSUME ControlInv, NEW p \in Deploys, HealthAssumed(p), NEW c, c = d[p].new
  PROVE  /\ d[p].pc = "health" /\ d[p].pc \in Locked /\ c \in Ids \ d[p].replace
         /\ cont[c].of = Svc(p) /\ cont[c].up = "starting"
         /\ cont' \in [Ids -> Container] /\ Touches(Svc(p))
         /\ cont'[c].of = Svc(p) /\ cont'[c].up = "unhealthy"
         /\ \A b \in Ids \ {c} : cont'[b] = cont[b]
         /\ faults' \in 0..MaxFaults /\ faults' # 0
         /\ decayed' = decayed \cup {Svc(p)} /\ UNCHANGED <<lock, reverted, zombies>>
<1>1. /\ d[p].pc = "health" /\ d[p].pc \in Locked /\ cont[c].up = "starting"
      /\ decayed' = decayed \cup {Svc(p)} /\ UNCHANGED <<lock, reverted, zombies>>
  BY DEF HealthAssumed, At, Locked, Rolling
<1>2. c \in Ids \ d[p].replace /\ cont[c].of = Svc(p)
  BY <1>1, Basics DEF Control, Rolling
<1>3. PICK up : up = "unhealthy"
  OBVIOUS
<1>4. cont' = [cont EXCEPT ![c].up = up] /\ cont \in [Ids -> Container]
      /\ up \in Health \cup {"gone"} /\ up # "never"
  BY <1>3, Basics DEF HealthAssumed, Health
<1>5. /\ cont' \in [Ids -> Container] /\ Touches(Svc(p))
      /\ cont'[c].of = Svc(p) /\ cont'[c].up = up
      /\ \A b \in Ids \ {c} : cont'[b] = cont[b]
  <2>1. c \in Ids /\ cont[c].of = Svc(p) /\ cont[c].up # "never"
    BY <1>1, <1>2
  <2>2. QED
    BY <1>4, <2>1, UpEdit
<1>6. faults' \in 0..MaxFaults /\ faults' # 0
  BY FaultCounts DEF HealthAssumed
<1>7. QED
  BY <1>1, <1>2, <1>3, <1>5, <1>6

LEMMA HealthAssumedMoves ==
  ASSUME ControlInv, NEW p \in Deploys, HealthAssumed(p)
  PROVE  Shared(p) /\ \E e : Moves(p, e)
<1>1. PICK c : c = d[p].new
  OBVIOUS
<1>2. /\ d[p].pc = "health" /\ d[p].pc \in Locked /\ c \in Ids \ d[p].replace
      /\ cont' \in [Ids -> Container] /\ Touches(Svc(p))
      /\ cont'[c].of = Svc(p) /\ cont'[c].up = "unhealthy"
      /\ \A b \in Ids \ {c} : cont'[b] = cont[b]
      /\ faults' \in 0..MaxFaults /\ faults' # 0
      /\ decayed' = decayed \cup {Svc(p)} /\ UNCHANGED <<lock, reverted, zombies>>
  BY <1>1, AssumedFacts
<1>3. /\ d[p].need > 0
      /\ \A b \in d[p].replace : b \in Ids /\ cont[b].of = Svc(p) /\ cont[b].up # "never"
  BY <1>2, Basics DEF Control, Rolling
<1>4. Shared(p)
  BY <1>2, HeldShared, Held, Basics
<1>5. PICK e : /\ e \in Deployment /\ d' = [d EXCEPT ![p] = e]
               /\ e.pc = "swap" /\ e.i = d[p].i /\ e.live = d[p].live
               /\ e.replace = d[p].replace /\ e.need = d[p].need /\ e.new = d[p].new
  BY GotoMoves DEF HealthAssumed, PC
<1>6. Lands(p, e)
  BY <1>1, <1>2, <1>3, <1>5, Held DEF Lands
<1>7. Moves(p, e)
  BY <1>2, <1>5, <1>6, Held DEF Moves
<1>8. QED
  BY <1>4, <1>7

LEMMA SwapMoves ==
  ASSUME ControlInv, NEW p \in Deploys, Swap(p)
  PROVE  Shared(p) /\ \E e : Moves(p, e)
<1>1. /\ d[p].pc = "swap" /\ d[p].pc \in Locked
      /\ lock' = lock /\ decayed' = decayed /\ reverted' = reverted
  BY DEF Swap, At, Locked, Rolling
<1>2. d[p].need > 0 /\ \A b \in d[p].replace : b \in Ids /\ cont[b].of = Svc(p) /\ cont[b].up # "never"
  BY <1>1, Basics DEF Control, Rolling
<1>3. PICK c : /\ Become(p, [d[p] EXCEPT !.pc = "roll", !.need = @ - 1, !.new = None, !.replace = @ \ {c}])
               /\ \/ UNCHANGED <<cont, faults, zombies>>
                  \/ c \in d[p].replace /\ StopAndRemove(p, c)
  BY Zenon DEF Swap
<1>4. /\ cont' \in [Ids -> Container]
      /\ cont' = cont \/ Touches(Svc(p))
      /\ faults' \in 0..MaxFaults /\ zombies' \in SUBSET Services /\ zombies \subseteq zombies'
      /\ faults' = 0 => faults = 0 /\ zombies' = zombies
  <2>1. CASE UNCHANGED <<cont, faults, zombies>>
    BY <2>1, Basics
  <2>2. CASE c \in d[p].replace /\ StopAndRemove(p, c)
    <3>1. c \in Ids /\ cont[c].of = Svc(p) /\ cont[c].up # "never" /\ Svc(p) \in Services
      BY <1>1, <1>2, <2>2, Held
    <3>2. QED
      BY <2>2, <3>1, Removal
  <2>3. QED
    BY <1>3, <2>1, <2>2
<1>5. Shared(p)
  BY <1>1, <1>4, HeldShared, Basics
<1>6. PICK e : e = [d[p] EXCEPT !.pc = "roll", !.need = @ - 1, !.new = None, !.replace = @ \ {c}]
  OBVIOUS
<1>7. e \in Deployment /\ e.pc = "roll" /\ e.i = d[p].i /\ e.live = d[p].live /\ e.replace = d[p].replace \ {c}
  <2>1. d[p] \in Deployment /\ "roll" \in PC /\ d[p].need - 1 \in Nat
    BY <1>2, Basics DEF PC
  <2>2. QED
    BY <1>6, <2>1 DEF Deployment
<1>8. \A b \in d[p].replace : cont'[b].of = Svc(p) /\ cont'[b].up # "never"
  BY <1>2, <1>4, Stable
<1>9. Lands(p, e)
  BY <1>1, <1>7, <1>8, Held DEF Lands
<1>10. Moves(p, e)
  BY <1>1, <1>3, <1>4, <1>6, <1>7, <1>9, Alive, Held DEF Moves, Become
<1>11. QED
  BY <1>5, <1>10

LEMMA RemoveLeftoverMoves ==
  ASSUME ControlInv, NEW p \in Deploys, RemoveLeftover(p)
  PROVE  Shared(p) /\ \E e : Moves(p, e)
<1>1. /\ d[p].pc = "roll" /\ d[p].pc \in Locked
      /\ lock' = lock /\ decayed' = decayed /\ reverted' = reverted
  BY DEF RemoveLeftover, At, Locked, Rolling
<1>2. \A b \in d[p].replace : b \in Ids /\ cont[b].of = Svc(p) /\ cont[b].up # "never"
  BY <1>1, Basics DEF Control, Rolling
<1>3. PICK c \in d[p].replace : StopAndRemove(p, c) /\ Become(p, [d[p] EXCEPT !.replace = @ \ {c}])
  BY DEF RemoveLeftover
<1>4. /\ cont' \in [Ids -> Container] /\ Touches(Svc(p))
      /\ faults' \in 0..MaxFaults /\ zombies' \in SUBSET Services /\ zombies \subseteq zombies'
      /\ faults' = 0 => faults = 0 /\ zombies' = zombies
  <2>1. c \in Ids /\ cont[c].of = Svc(p) /\ cont[c].up # "never" /\ Svc(p) \in Services
    BY <1>1, <1>2, <1>3, Held
  <2>2. QED
    BY <1>3, <2>1, Removal
<1>5. Shared(p)
  BY <1>1, <1>4, HeldShared, Basics
<1>6. PICK e : e = [d[p] EXCEPT !.replace = @ \ {c}]
  OBVIOUS
<1>7. e \in Deployment /\ e.pc = "roll" /\ e.i = d[p].i /\ e.live = d[p].live /\ e.replace = d[p].replace \ {c}
  <2>1. d[p] \in Deployment
    BY Basics
  <2>2. QED
    BY <1>1, <1>6, <2>1 DEF Deployment
<1>8. \A b \in d[p].replace : cont'[b].of = Svc(p) /\ cont'[b].up # "never"
  BY <1>2, <1>4, Stable
<1>9. Lands(p, e)
  BY <1>1, <1>7, <1>8, Held DEF Lands
<1>10. Moves(p, e)
  BY <1>1, <1>3, <1>4, <1>6, <1>7, <1>9, Alive, Held DEF Moves, Become
<1>11. QED
  BY <1>5, <1>10

LEMMA ServiceDoneMoves ==
  ASSUME ControlInv, NEW p \in Deploys, ServiceDone(p)
  PROVE  Shared(p) /\ \E e : Moves(p, e)
<1>1. d[p].pc = "roll" /\ d[p].pc \in Locked /\ lock' = [lock EXCEPT ![Svc(p)] = None]
      /\ UNCHANGED <<cont, histVars>>
  BY DEF ServiceDone, At, Locked, Rolling
<1>2. Shared(p)
  BY <1>1, HeldShared, Basics DEF histVars
<1>3. CASE d[p].i = Len(Order)
  <2>1. PICK e : e = [Idle EXCEPT !.pc = "done"]
    OBVIOUS
  <2>2. e \in Deployment /\ e.pc = "done" /\ e.live
    <3>1. Idle \in Deployment
      BY DEF Idle, Deployment, PC, NoSnapshot, Snapshot
    <3>2. "done" \in PC
      BY DEF PC
    <3>3. QED
      BY <2>1, <3>1, <3>2 DEF Deployment, Idle
  <2>3. d' = [d EXCEPT ![p] = e]
    BY <1>3, <2>1 DEF ServiceDone, Become
  <2>4. Moves(p, e)
    BY <1>1, <2>2, <2>3, Held DEF Moves, Lands, Locked, Rolling, histVars
  <2>5. QED
    BY <1>2, <2>4
<1>4. CASE d[p].i # Len(Order)
  <2>1. PICK e : e = [d[p] EXCEPT !.pc = "service", !.i = @ + 1, !.keep = {},
                                  !.before = 0, !.found = 0]
    OBVIOUS
  <2>2. d[p].i + 1 \in 1..Len(Order) /\ d[p].i + 1 \in 0..(Len(Order) + 1)
    BY <1>1, <1>4, Held, Basics
  <2>3. e \in Deployment /\ e.pc = "service" /\ e.live = d[p].live /\ e.i = d[p].i + 1
    <3>1. d[p] \in Deployment /\ "service" \in PC
      BY Basics DEF PC
    <3>2. QED
      BY <2>1, <2>2, <3>1 DEF Deployment
  <2>4. d' = [d EXCEPT ![p] = e]
    BY <1>4, <2>1 DEF ServiceDone, Become
  <2>5. Moves(p, e)
    BY <1>1, <2>2, <2>3, <2>4, Held, Alive DEF Moves, Lands, Locked, Rolling, histVars
  <2>6. QED
    BY <1>2, <2>5
<1>5. QED
  BY <1>3, <1>4

-----------------------------------------------------------------------------
\* A rollback that goes on with the service before.
LEMMA UndoneMoves ==
  ASSUME ControlInv, NEW p \in Deploys, Shared(p), reverted' = reverted,
         d[p].pc \in Undoing, d[p].i \in 1..Len(Order), Become(p, Undone(p))
  PROVE  \E e : Moves(p, e)
<1>1. PICK e : e = [d[p] EXCEPT !.pc = "undo", !.i = @ - 1, !.replace = {}, !.todo = {}]
  OBVIOUS
<1>2. /\ d[p] \in Deployment /\ "undo" \in PC
      /\ d[p].i - 1 \in 0..(Len(Order) + 1) /\ d[p].i - 1 \in 0..Len(Order)
  BY Basics DEF PC
<1>3. e \in Deployment /\ e.pc = "undo" /\ e.live = d[p].live /\ e.i = d[p].i - 1
  BY <1>1, <1>2 DEF Deployment
<1>4. Lands(p, e)
  BY <1>2, <1>3 DEF Lands, Locked, Rolling
<1>5. Moves(p, e)
  BY <1>1, <1>3, <1>4, Alive DEF Moves, Become, Undone, Shared, Failing, Undoing
<1>6. QED
  BY <1>5

\* Where a rollback is.
LEMMA UndoAt ==
  ASSUME ControlInv, NEW p \in Deploys, d[p].pc \in Undoing, d[p].pc = "undo" => d[p].i > 0
  PROVE  /\ d[p].i \in 1..Len(Order) /\ Svc(p) \in Services /\ Svc(p) = Order[d[p].i]
         /\ d[p].pc \in Failing
<1>1. d[p].i \in 1..Len(Order)
  BY Basics DEF Undoing, Control
<1>2. QED
  BY <1>1, PositionTyped DEF Svc, Failing

LEMMA UndoSkipsMoves ==
  ASSUME ControlInv, NEW p \in Deploys, UndoSkips(p)
  PROVE  Shared(p) /\ \E e : Moves(p, e)
<1>1. Shared(p)
  BY Basics, QuietShared DEF UndoSkips
<1>2. d[p].pc \in Undoing /\ d[p].i \in 1..Len(Order)
  BY UndoAt DEF UndoSkips, At, Undoing
<1>3. QED
  BY <1>1, <1>2, UndoneMoves DEF UndoSkips

LEMMA UndoListMoves ==
  ASSUME ControlInv, NEW p \in Deploys, UndoList(p)
  PROVE  Shared(p) /\ \E e : Moves(p, e)
<1>1. d[p].pc = "undo" /\ d[p].i > 0 /\ d[p].pc \in Undoing
  BY DEF UndoList, At, Undoing
<1>2. d[p].i \in 1..Len(Order) /\ Svc(p) \in Services /\ Svc(p) = Order[d[p].i]
  BY <1>1, UndoAt
<1>3. PICK T, r : T = d[p].snap[Svc(p)].was /\ r = getServiceContainers(Svc(p))
  OBVIOUS
<1>4. PICK e : e = [d[p] EXCEPT !.pc = "undoRemove", !.replace = r, !.todo = T]
  OBVIOUS
<1>5. T \in SUBSET (Ids \X Images) /\ r \in SUBSET Ids
  BY <1>2, <1>3, Basics DEF Snapshot, getServiceContainers
<1>6. /\ e \in Deployment /\ e.pc = "undoRemove" /\ e.replace = r /\ e.i = d[p].i
      /\ e.live = d[p].live
  <2>1. d[p] \in Deployment /\ "undoRemove" \in PC
    BY Basics DEF PC
  <2>2. QED
    BY <1>4, <1>5, <2>1 DEF Deployment
<1>7. reverted' = reverted \cup {Svc(p)} /\ UNCHANGED <<cont, lock, faults, decayed, zombies>>
  BY DEF UndoList
<1>8. Shared(p)
  BY <1>2, <1>7, Basics, QuietShared
<1>9. \A c \in r : cont'[c].of = Svc(p) /\ cont'[c].up # "never"
  BY <1>3, <1>7 DEF getServiceContainers
<1>10. Lands(p, e)
  BY <1>2, <1>6, <1>7, <1>9 DEF Lands, Locked, Rolling
<1>11. d' = [d EXCEPT ![p] = e]
  BY <1>3, <1>4 DEF UndoList, Become
<1>12. Moves(p, e)
  BY <1>1, <1>6, <1>7, <1>10, <1>11, Alive DEF Moves, Failing, Undoing
<1>13. QED
  BY <1>8, <1>12

\* What a rollback may do.
LEMMA UndoShared ==
  ASSUME ControlInv, NEW p \in Deploys, d[p].pc \in {"undoRemove", "undoCreate"},
         cont' \in [Ids -> Container], cont' = cont \/ Touches(Svc(p)),
         UNCHANGED <<lock, decayed, reverted, zombies>>, UNCHANGED faults \/ CallFails(p)
  PROVE  Shared(p)
<1>1. faults' \in 0..MaxFaults /\ (faults' = 0 => faults = 0)
  BY Basics, FaultCounts
<1>2. QED
  BY <1>1, Basics DEF Shared

\* UndoRemove, case by case.
LEMMA UndoRemoveFacts ==
  ASSUME ControlInv, NEW p \in Deploys, UndoRemove(p)
  PROVE  /\ d[p].pc = "undoRemove" /\ UNCHANGED <<lock, decayed, reverted, zombies>>
         /\ cont' \in [Ids -> Container] /\ (cont' = cont \/ Touches(Svc(p)))
         /\ UNCHANGED faults \/ CallFails(p)
         /\ \/ \E c \in d[p].replace :
                 /\ c \in Ids /\ cont[c].of = Svc(p)
                 /\ cont'[c].of = Svc(p) /\ cont'[c].up = "gone"
                 /\ \A b \in Ids \ {c} : cont'[b] = cont[b]
                 /\ Become(p, [d[p] EXCEPT !.replace = @ \ {c}])
            \/ \E c \in d[p].replace : Become(p, Undone(p)) /\ (cont[c].up = "gone" \/ CallFails(p))
            \/ d[p].replace = {} /\ Goto(p, "undoCreate") /\ cont' = cont
<1>1. d[p].pc = "undoRemove" /\ UNCHANGED <<lock, decayed, reverted, zombies>>
  BY DEF UndoRemove, At
<1>2. cont \in [Ids -> Container]
  BY Basics
<1>3. \A c \in d[p].replace : c \in Ids /\ cont[c].of = Svc(p) /\ cont[c].up # "never"
  BY <1>1, Basics DEF Control
<1>4. CASE \E c \in d[p].replace :
             /\ cont[c].up # "gone" /\ d[p].live
             /\ cont' = [cont EXCEPT ![c].up = "gone"]
             /\ Become(p, [d[p] EXCEPT !.replace = @ \ {c}])
             /\ UNCHANGED faults
  <2>1. PICK c \in d[p].replace :
             /\ cont[c].up # "gone" /\ d[p].live
             /\ cont' = [cont EXCEPT ![c].up = "gone"]
             /\ Become(p, [d[p] EXCEPT !.replace = @ \ {c}])
             /\ UNCHANGED faults
    BY <1>4
  <2>2. PICK up : up = "gone"
    OBVIOUS
  <2>3. /\ c \in Ids /\ cont[c].of = Svc(p) /\ cont[c].up # "never"
        /\ up \in Health \cup {"gone"} /\ cont' = [cont EXCEPT ![c].up = up]
    BY <1>3, <2>1, <2>2
  <2>4. /\ cont' \in [Ids -> Container] /\ Touches(Svc(p))
        /\ cont'[c].of = Svc(p) /\ cont'[c].up = up
        /\ \A b \in Ids \ {c} : cont'[b] = cont[b]
    BY <1>2, <2>3, UpEdit
  <2>5. QED
    BY <1>1, <2>1, <2>2, <2>3, <2>4
<1>5. CASE \E c \in d[p].replace : cont[c].up = "gone" /\ Become(p, Undone(p)) /\ UNCHANGED <<cont, faults>>
  BY <1>1, <1>2, <1>5
<1>6. CASE \E c \in d[p].replace :
             /\ cont[c].up # "gone" /\ CallFails(p) /\ Become(p, Undone(p))
             /\ \E up \in {cont[c].up, "unhealthy"} : cont' = [cont EXCEPT ![c].up = up]
  <2>1. PICK c \in d[p].replace :
             /\ cont[c].up # "gone" /\ CallFails(p) /\ Become(p, Undone(p))
             /\ \E up \in {cont[c].up, "unhealthy"} : cont' = [cont EXCEPT ![c].up = up]
    BY <1>6
  <2>2. PICK up \in {cont[c].up, "unhealthy"} : cont' = [cont EXCEPT ![c].up = up]
    BY <2>1
  <2>3. c \in Ids /\ cont[c].of = Svc(p) /\ cont[c].up # "never"
    BY <1>3, <2>1
  <2>4. up \in Health
    BY <1>2, <2>1, <2>2, <2>3 DEF Container, Health
  <2>5. cont' \in [Ids -> Container] /\ Touches(Svc(p))
    BY <1>2, <2>2, <2>3, <2>4, UpEdit
  <2>6. QED
    BY <1>1, <2>1, <2>5
<1>7. CASE d[p].replace = {} /\ Goto(p, "undoCreate") /\ UNCHANGED <<cont, faults>>
  BY <1>1, <1>2, <1>7
<1>8. QED
  BY <1>4, <1>5, <1>6, <1>7 DEF UndoRemove

LEMMA UndoRemoveMoves ==
  ASSUME ControlInv, NEW p \in Deploys, UndoRemove(p)
  PROVE  Shared(p) /\ \E e : Moves(p, e)
<1>1. /\ d[p].pc = "undoRemove" /\ d[p].pc \in Undoing /\ UNCHANGED <<lock, decayed, reverted, zombies>>
      /\ Svc(p) \in reverted
  BY UndoRemoveFacts, Basics DEF Undoing, Control
<1>2. Shared(p)
  BY <1>1, UndoRemoveFacts, UndoShared
<1>3. d[p].i \in 1..Len(Order) /\ Svc(p) = Order[d[p].i]
  BY <1>1, UndoAt
<1>4. ASSUME NEW b \in d[p].replace PROVE cont'[b].of = Svc(p) /\ cont'[b].up # "never"
  <2>1. b \in Ids /\ cont[b].of = Svc(p) /\ cont[b].up # "never"
    BY <1>1, Basics DEF Control
  <2>2. cont' = cont \/ Touches(Svc(p))
    BY UndoRemoveFacts
  <2>3. QED
    BY <2>1, <2>2, Stable
<1>5. CASE \E c : Become(p, [d[p] EXCEPT !.replace = @ \ {c}])
  <2>1. PICK c : Become(p, [d[p] EXCEPT !.replace = @ \ {c}])
    BY <1>5
  <2>2. PICK e : e = [d[p] EXCEPT !.replace = @ \ {c}]
    OBVIOUS
  <2>3. /\ e \in Deployment /\ e.pc = "undoRemove" /\ e.i = d[p].i /\ e.live = d[p].live
        /\ e.replace = d[p].replace \ {c}
    <3>1. d[p] \in Deployment
      BY Basics
    <3>2. QED
      BY <1>1, <2>2, <3>1 DEF Deployment
  <2>4. Lands(p, e)
    BY <1>1, <1>3, <1>4, <2>3 DEF Lands, Locked, Rolling
  <2>5. Moves(p, e)
    BY <1>1, <1>2, <2>1, <2>2, <2>3, <2>4, Alive DEF Moves, Become, Shared, Failing, Undoing
  <2>6. QED
    BY <1>2, <2>5
<1>6. CASE Become(p, Undone(p))
  BY <1>1, <1>2, <1>3, <1>6, UndoneMoves
<1>7. CASE Goto(p, "undoCreate")
  <2>1. PICK e : /\ e \in Deployment /\ d' = [d EXCEPT ![p] = e] /\ e.pc = "undoCreate"
                 /\ e.i = d[p].i /\ e.live = d[p].live
    BY <1>7, GotoMoves DEF PC
  <2>2. Lands(p, e)
    BY <1>1, <1>3, <2>1 DEF Lands, Locked, Rolling
  <2>3. Moves(p, e)
    BY <1>1, <1>2, <2>1, <2>2, Alive DEF Moves, Shared, Failing, Undoing
  <2>4. QED
    BY <1>2, <2>3
<1>8. QED
  BY <1>5, <1>6, <1>7, UndoRemoveFacts

\* UndoCreate, case by case.
LEMMA UndoCreateFacts ==
  ASSUME ControlInv, NEW p \in Deploys, UndoCreate(p)
  PROVE  /\ d[p].pc = "undoCreate" /\ UNCHANGED <<lock, decayed, reverted, zombies>>
         /\ cont' \in [Ids -> Container] /\ (cont' = cont \/ Touches(Svc(p)))
         /\ UNCHANGED faults \/ CallFails(p)
         /\ \/ \E t \in d[p].todo, c \in Ids :
                 /\ cont[c].up = "never" /\ t[2] \in Images
                 /\ cont'[c] = [of |-> Svc(p), image |-> t[2], up |-> "starting"]
                 /\ \A b \in Ids \ {c} : cont'[b] = cont[b]
                 /\ Become(p, [d[p] EXCEPT !.todo = @ \ {t}])
            \/ Become(p, Undone(p)) /\ CallFails(p)
            \/ d[p].todo = {} /\ Become(p, Undone(p)) /\ UNCHANGED <<cont, faults>>
<1>1. d[p].pc = "undoCreate" /\ UNCHANGED <<lock, decayed, reverted, zombies>>
  BY DEF UndoCreate, At
<1>2. cont \in [Ids -> Container] /\ Svc(p) \in Services /\ d[p].todo \in SUBSET (Ids \X Images)
  BY <1>1, Basics, UndoAt DEF Undoing
<1>3. \A t \in d[p].todo : t[2] \in Images
  BY <1>2
<1>4. CASE \E t \in d[p].todo, c \in Ids :
             /\ IsFresh(c) /\ d[p].live
             /\ cont' = [cont EXCEPT ![c] = Launched(p, t[2], "starting")]
             /\ Become(p, [d[p] EXCEPT !.todo = @ \ {t}])
             /\ UNCHANGED faults
  <2>1. PICK t \in d[p].todo, c \in Ids :
             /\ IsFresh(c) /\ d[p].live
             /\ cont' = [cont EXCEPT ![c] = Launched(p, t[2], "starting")]
             /\ Become(p, [d[p] EXCEPT !.todo = @ \ {t}])
             /\ UNCHANGED faults
    BY <1>4
  <2>2. PICK r, image : image = t[2] /\ r = Launched(p, image, "starting")
    OBVIOUS
  <2>3. /\ cont' = [cont EXCEPT ![c] = r] /\ cont[c].up = "never" /\ "starting" \in Health
        /\ image \in Images
    BY <1>3, <2>1, <2>2, FreshIsNew DEF Health
  <2>4. /\ cont' \in [Ids -> Container] /\ Touches(Svc(p))
        /\ \A b \in Ids \ {c} : cont'[b] = cont[b]
    BY <1>2, <2>2, <2>3, NewEdit
  <2>5. cont'[c] = [of |-> Svc(p), image |-> t[2], up |-> "starting"]
    BY <1>2, <2>2, <2>3 DEF Launched
  <2>6. QED
    BY <1>1, <1>3, <2>1, <2>3, <2>4, <2>5
<1>5. CASE /\ CallFails(p) /\ Become(p, Undone(p))
           /\ \/ UNCHANGED cont
              \/ \E t \in d[p].todo, c \in Ids :
                   IsFresh(c) /\ cont' = [cont EXCEPT ![c] = Launched(p, t[2], "unhealthy")]
  <2>1. CASE UNCHANGED cont
    BY <1>1, <1>2, <1>5, <2>1
  <2>2. CASE \E t \in d[p].todo, c \in Ids :
               IsFresh(c) /\ cont' = [cont EXCEPT ![c] = Launched(p, t[2], "unhealthy")]
    <3>1. PICK t \in d[p].todo, c \in Ids :
               IsFresh(c) /\ cont' = [cont EXCEPT ![c] = Launched(p, t[2], "unhealthy")]
      BY <2>2
    <3>2. PICK r, image : image = t[2] /\ r = Launched(p, image, "unhealthy")
      OBVIOUS
    <3>3. /\ cont' = [cont EXCEPT ![c] = r] /\ cont[c].up = "never" /\ "unhealthy" \in Health
          /\ image \in Images
      BY <1>3, <3>1, <3>2, FreshIsNew DEF Health
    <3>4. cont' \in [Ids -> Container] /\ Touches(Svc(p))
      BY <1>2, <3>2, <3>3, NewEdit
    <3>5. QED
      BY <1>1, <1>5, <3>4
  <2>3. QED
    BY <1>5, <2>1, <2>2
<1>6. CASE d[p].todo = {} /\ Become(p, Undone(p)) /\ UNCHANGED <<cont, faults>>
  BY <1>1, <1>2, <1>6
<1>7. QED
  BY <1>4, <1>5, <1>6 DEF UndoCreate

LEMMA UndoCreateMoves ==
  ASSUME ControlInv, NEW p \in Deploys, UndoCreate(p)
  PROVE  Shared(p) /\ \E e : Moves(p, e)
<1>1. /\ d[p].pc = "undoCreate" /\ d[p].pc \in Undoing /\ UNCHANGED <<lock, decayed, reverted, zombies>>
      /\ Svc(p) \in reverted
  BY UndoCreateFacts, Basics DEF Undoing, Control
<1>2. Shared(p)
  BY <1>1, UndoCreateFacts, UndoShared
<1>3. d[p].i \in 1..Len(Order) /\ Svc(p) = Order[d[p].i]
  BY <1>1, UndoAt
<1>4. CASE \E t : Become(p, [d[p] EXCEPT !.todo = @ \ {t}])
  <2>1. PICK t : Become(p, [d[p] EXCEPT !.todo = @ \ {t}])
    BY <1>4
  <2>2. PICK e : e = [d[p] EXCEPT !.todo = @ \ {t}]
    OBVIOUS
  <2>3. e \in Deployment /\ e.pc = "undoCreate" /\ e.i = d[p].i /\ e.live = d[p].live
    <3>1. d[p] \in Deployment
      BY Basics
    <3>2. QED
      BY <1>1, <2>2, <3>1 DEF Deployment
  <2>4. Lands(p, e)
    BY <1>1, <1>3, <2>3 DEF Lands, Locked, Rolling
  <2>5. Moves(p, e)
    BY <1>1, <1>2, <2>1, <2>2, <2>3, <2>4, Alive DEF Moves, Become, Shared, Failing, Undoing
  <2>6. QED
    BY <1>2, <2>5
<1>5. CASE Become(p, Undone(p))
  BY <1>1, <1>2, <1>3, <1>5, UndoneMoves
<1>6. QED
  BY <1>4, <1>5, UndoCreateFacts

\* Every step of a deployment.
LEMMA EveryStep ==
  ASSUME ControlInv, NEW p \in Deploys, ExecuteDeploy(p)
  PROVE  Shared(p) /\ \E e : Moves(p, e)
<1>1. CASE Begin(p) \/ Capture(p) \/ Prepare(p) \/ BindMountRefused(p) \/ Cancel(p)
  BY <1>1, BeginMoves, CaptureMoves, PrepareMoves, BindMountRefusedMoves, CancelMoves
<1>2. CASE DeployService(p)
  BY <1>2, LockServiceMoves, DeployRefusedMoves, PartitionMoves, CreateMoves, CreateFailsMoves,
     HealthOkMoves, HealthAssumedMoves, HealthFailsMoves, SwapMoves, RemoveLeftoverMoves,
     ServiceDoneMoves
  DEF DeployService
<1>3. CASE RollbackServices(p)
  BY <1>3, BindMountRefusedMoves, UndoSkipsMoves, UndoListMoves, UndoRemoveMoves, UndoCreateMoves
  DEF RollbackServices
<1>4. QED
  BY <1>1, <1>2, <1>3 DEF ExecuteDeploy

LEMMA DecayKeepsControl ==
  ASSUME ControlInv, NEW c \in Ids, Decay(c)
  PROVE  /\ ControlInv'
         /\ cont[c].of \in Services /\ decayed' = decayed \cup {cont[c].of}
         /\ Touches(cont[c].of) /\ cont[c].up = "healthy" /\ cont'[c].up = "unhealthy"
         /\ cont'[c].of = cont[c].of /\ cont'[c].image = cont[c].image
         /\ \A b \in Ids \ {c} : cont'[b] = cont[b]
         /\ faults' # 0
<1>0. TypeOK
  BY DEF ControlInv
<1>1. cont \in [Ids -> Container] /\ cont[c].up = "healthy" /\ UNCHANGED <<lock, d, reverted, zombies>>
  BY <1>0 DEF Decay, TypeOK
<1>2. cont[c].of \in Services
  BY <1>1 DEF ControlInv
<1>3. PICK up : up = "unhealthy"
  OBVIOUS
<1>4. up \in Health \cup {"gone"} /\ cont' = [cont EXCEPT ![c].up = up]
  BY <1>3 DEF Decay, Health
<1>5. /\ cont' \in [Ids -> Container] /\ Touches(cont[c].of)
      /\ cont'[c].of = cont[c].of /\ cont'[c].image = cont[c].image /\ cont'[c].up = up
      /\ \A b \in Ids \ {c} : cont'[b] = cont[b]
  BY <1>1, <1>4, UpEdit
<1>6. decayed' = decayed \cup {cont[c].of} /\ decayed \in SUBSET Services
  BY <1>0 DEF Decay, TypeOK
<1>7. faults' \in 0..MaxFaults /\ faults' # 0
  BY <1>0, RolloutAssumption DEF Decay, Fault, TypeOK
<1>8. TypeOK'
  BY <1>0, <1>1, <1>2, <1>5, <1>6, <1>7 DEF TypeOK
<1>9. \A b \in Ids : cont[b].up # "never" => cont'[b].of = cont[b].of /\ cont'[b].up # "never"
  BY <1>5, Stable
<1>10. \A b \in Ids : cont'[b].up # "never" => cont'[b].of \in Services
  BY <1>1, <1>2, <1>5 DEF ControlInv
<1>11. ASSUME NEW p \in Deploys PROVE Control(p)'
  <2>1. Control(p) /\ d' = d /\ lock' = lock /\ reverted' = reverted /\ d[p].replace \in SUBSET Ids
    BY <1>1, Basics
  <2>2. Svc(p)' = Svc(p)
    BY <2>1 DEF Svc
  <2>3. QED
    BY <1>9, <2>1, <2>2 DEF Control
<1>12. Histories'
  BY <1>1, <1>7 DEF ControlInv, Histories
<1>13. ControlInv'
  BY <1>8, <1>10, <1>11, <1>12 DEF ControlInv
<1>14. QED
  BY <1>1, <1>2, <1>3, <1>5, <1>6, <1>7, <1>13

LEMMA InitControl == Init => ControlInv
<1>0. SUFFICES ASSUME Init PROVE ControlInv
  OBVIOUS
<1>1. PICK found \in Before :
        cont = [c \in Ids |-> IF c \in DOMAIN found
                              THEN [of |-> found[c].of, image |-> found[c].image, up |-> "healthy"]
                              ELSE Never]
  BY <1>0 DEF Init
<1>2. found \in Seq([of : Services, image : {"old", "new"}])
  BY <1>1, RolloutAssumption
<1>3. \A c \in DOMAIN found : found[c] \in [of : Services, image : {"old", "new"}]
  <2>1. PICK S : S = [of : Services, image : {"old", "new"}]
    OBVIOUS
  <2>2. found \in Seq(S)
    BY <1>2, <2>1
  <2>3. \A c \in DOMAIN found : found[c] \in S
    BY <2>2
  <2>4. QED
    BY <2>1, <2>3
<1>4. ASSUME NEW c \in Ids
      PROVE  cont[c] \in Container /\ (cont[c].up # "never" => cont[c].of \in Services)
  <2>1. CASE c \in DOMAIN found
    <3>1. cont[c] = [of |-> found[c].of, image |-> found[c].image, up |-> "healthy"]
      BY <1>1, <2>1
    <3>2. found[c].of \in Services /\ found[c].image \in Images
      BY <1>3, <2>1 DEF Images
    <3>3. QED
      BY <3>1, <3>2 DEF Container, Health
  <2>2. CASE c \notin DOMAIN found
    <3>1. cont[c] = Never
      BY <1>1, <2>2
    <3>2. QED
      BY <3>1 DEF Container, Never, Images
  <2>3. QED
    BY <2>1, <2>2
<1>5. cont \in [Ids -> Container]
  BY <1>1, <1>4
<1>6. Idle \in Deployment /\ Idle.pc = "idle" /\ Idle.live
  BY RolloutAssumption DEF Idle, Deployment, PC, NoSnapshot, Snapshot
<1>7. d = [p \in Deploys |-> Idle] /\ reverted = {} /\ decayed = {} /\ zombies = {} /\ faults = 0
      /\ lock = [s \in Services |-> None]
  BY <1>0 DEF Init
<1>8. TypeOK
  BY <1>5, <1>6, <1>7, RolloutAssumption DEF TypeOK
<1>9. \A p \in Deploys : Control(p)
  BY <1>6, <1>7 DEF Control, Locked, Rolling
<1>10. Histories
  BY <1>6, <1>7 DEF Histories
<1>11. QED
  BY <1>4, <1>8, <1>9, <1>10 DEF ControlInv

LEMMA ControlStutter ==
  ASSUME ControlInv, UNCHANGED vars
  PROVE  ControlInv'
<1>1. UNCHANGED <<cont, lock, d, faults, decayed, reverted, zombies>>
  BY DEF vars, histVars
<1>2. QED
  BY <1>1 DEF ControlInv, TypeOK, Histories, Control, Svc

(* Every step keeps the control invariant: a deployment that is rolling a  *)
(* service out holds the service's mutex, and removes only containers of   *)
(* that service.                                                           *)
THEOREM ControlInvariant == Spec => []ControlInv
<1>1. ControlInv /\ [Next]_vars => ControlInv'
  <2>1. SUFFICES ASSUME ControlInv, [Next]_vars PROVE ControlInv'
    OBVIOUS
  <2>2. ASSUME NEW p \in Deploys, ExecuteDeploy(p) PROVE ControlInv'
    BY <2>1, <2>2, EveryStep, StepKeepsControl
  <2>3. ASSUME NEW c \in Ids, Decay(c) PROVE ControlInv'
    BY <2>1, <2>3, DecayKeepsControl
  <2>4. QED
    BY <2>1, <2>2, <2>3, ControlStutter DEF Next
<1>2. QED
  BY <1>1, InitControl, PTL DEF Spec

(* Every variable keeps its type, for every number of deployments,         *)
(* services, containers and faults.                                        *)
THEOREM TypeCorrect == Spec => []TypeOK
<1>1. ControlInv => TypeOK
  BY DEF ControlInv
<1>2. QED
  BY <1>1, ControlInvariant, PTL

-----------------------------------------------------------------------------
(* The rollout of one service. *)

Plus(e, labels) == IF e.pc \in labels THEN 1 ELSE 0

\* Deployment e is rolling out service s, which has the containers G, and V of
\* them serve: as many serve as before or as there are replicas; so do, at last,
\* those that stay.
ServedBy(e, s, V) ==
  /\ Cardinality(V) >= Smaller(Replicas[s], e.before) + Plus(e, {"swap"})
  /\ Cardinality(V \ e.replace) >= Replicas[s] - e.need + Plus(e, {"swap"})

\* Those that stay and those still to create make up the replicas.
CountedBy(e, s, G) ==
  /\ e.replace \subseteq G
  /\ Cardinality(G \ e.replace) = Replicas[s] - e.need + Plus(e, {"health", "swap"})
  /\ Cardinality(G) <= Larger(Replicas[s], e.found) + Plus(e, {"health", "swap"})

\* Those that stay have the image and serve, but for one that is waited for.
UpdatedBy(e, G, image, C) ==
  \A c \in G \ e.replace : /\ C[c].image = image
                           /\ C[c].up = "healthy" \/ (e.pc = "health" /\ c = e.new)

RollOK(p) ==
  d[p].pc \in Rolling =>
    /\ Svc(p) \notin decayed \cup reverted => ServedBy(d[p], Svc(p), Serving(Svc(p)))
    /\ Svc(p) \notin reverted \cup zombies =>
         CountedBy(d[p], Svc(p), getServiceContainers(Svc(p)))
    /\ Svc(p) \notin decayed \cup reverted \cup zombies =>
         UpdatedBy(d[p], getServiceContainers(Svc(p)), Target[p], cont)

RolloutInv == ControlInv /\ \A p \in Deploys : RollOK(p)

LEMMA GroupsTyped ==
  ASSUME NEW s
  PROVE  Serving(s) \subseteq getServiceContainers(s) /\ getServiceContainers(s) \subseteq Ids
BY DEF Serving, getServiceContainers

\* RollOK of the next state, from the values there.
LEMMA RollNext ==
  ASSUME NEW p, NEW e, d'[p] = e, NEW s, Order[e.i] = s,
         NEW G, getServiceContainers(s)' = G, NEW V, Serving(s)' = V,
         s \notin decayed' \cup reverted' => ServedBy(e, s, V),
         s \notin reverted' \cup zombies' => CountedBy(e, s, G),
         s \notin decayed' \cup reverted' \cup zombies' => UpdatedBy(e, G, Target[p], cont')
  PROVE  RollOK(p)'
<1>1. Svc(p)' = s
  BY DEF Svc
<1>2. QED
  BY <1>1 DEF RollOK, ServedBy, CountedBy, UpdatedBy, Plus

\* RollOK of this state, in values.
LEMMA RollNow ==
  ASSUME NEW p, RollOK(p), NEW s, s = Svc(p), NEW e, e = d[p], e.pc \in Rolling,
         NEW G, G = getServiceContainers(s), NEW V, V = Serving(s)
  PROVE  /\ s \notin decayed \cup reverted => ServedBy(e, s, V)
         /\ s \notin reverted \cup zombies => CountedBy(e, s, G)
         /\ s \notin decayed \cup reverted \cup zombies => UpdatedBy(e, G, Target[p], cont)
BY DEF RollOK

\* Nobody else disturbs the service.
LEMMA RollFrame ==
  ASSUME NEW p, RollOK(p), NEW s, s = Svc(p),
         d'[p].pc = d[p].pc, d'[p].i = d[p].i, d'[p].replace = d[p].replace,
         d'[p].need = d[p].need, d'[p].new = d[p].new, d'[p].before = d[p].before,
         d'[p].found = d[p].found,
         decayed \subseteq decayed', reverted \subseteq reverted', zombies \subseteq zombies',
         getServiceContainers(s)' = getServiceContainers(s),
         \/ s \in decayed'
         \/ /\ Serving(s)' = Serving(s)
            /\ \A c \in getServiceContainers(s) : cont'[c] = cont[c]
  PROVE  RollOK(p)'
<1>1. CASE d[p].pc \notin Rolling
  BY <1>1 DEF RollOK
<1>2. CASE d[p].pc \in Rolling
  <2>1. PICK e, f, G, V, W : /\ e = d[p] /\ f = d'[p] /\ G = getServiceContainers(s)
                             /\ V = Serving(s) /\ W = Serving(s)'
    OBVIOUS
  <2>2. /\ f.pc = e.pc /\ f.i = e.i /\ f.replace = e.replace /\ f.need = e.need /\ f.new = e.new
        /\ f.before = e.before /\ f.found = e.found /\ Order[f.i] = s /\ f.pc \in Rolling
    BY <1>2, <2>1 DEF Svc
  <2>3. /\ s \notin decayed \cup reverted => ServedBy(e, s, V)
        /\ s \notin reverted \cup zombies => CountedBy(e, s, G)
        /\ s \notin decayed \cup reverted \cup zombies => UpdatedBy(e, G, Target[p], cont)
    BY <1>2, <2>1, RollNow
  <2>4. s \in decayed' \/ (W = V /\ \A c \in G : cont'[c] = cont[c])
    BY <2>1
  <2>5. s \notin decayed' \cup reverted' => ServedBy(f, s, W)
    BY <2>2, <2>3, <2>4 DEF ServedBy, Plus
  <2>6. s \notin reverted' \cup zombies' => CountedBy(f, s, G)
    BY <2>2, <2>3 DEF CountedBy, Plus
  <2>7. s \notin decayed' \cup reverted' \cup zombies' => UpdatedBy(f, G, Target[p], cont')
    BY <2>2, <2>3, <2>4 DEF UpdatedBy
  <2>8. getServiceContainers(s)' = G
    BY <2>1
  <2>9. QED
    BY <2>1, <2>2, <2>5, <2>6, <2>7, <2>8, RollNext
<1>3. QED
  BY <1>1, <1>2

\* A step of another deployment.
LEMMA OtherRolls ==
  ASSUME ControlInv, NEW p \in Deploys, NEW q \in Deploys \ {p}, NEW e, Shared(p), Moves(p, e),
         RollOK(q)
  PROVE  RollOK(q)'
<1>1. d'[q] = d[q]
  BY Basics DEF Moves
<1>2. CASE d[q].pc \notin Rolling
  BY <1>1, <1>2 DEF RollOK
<1>3. CASE d[q].pc \in Rolling
  <2>1. PICK s, t : s = Svc(q) /\ t = Svc(p)
    OBVIOUS
  <2>2. lock[s] = q
    BY <1>3, <2>1, Held DEF Locked
  <2>3. /\ decayed \subseteq decayed' /\ reverted \subseteq reverted' /\ zombies \subseteq zombies'
    BY DEF Shared
  <2>4. CASE cont' = cont
    <3>1. getServiceContainers(s)' = getServiceContainers(s) /\ Serving(s)' = Serving(s)
      BY <2>4 DEF getServiceContainers, Serving
    <3>2. QED
      BY <1>1, <2>1, <2>3, <2>4, <3>1, RollFrame
  <2>5. CASE cont' # cont /\ t # s
    <3>1. Touches(t)
      BY <2>1, <2>5 DEF Shared
    <3>2. QED
      BY <1>1, <2>1, <2>3, <2>5, <3>1, Elsewhere, RollFrame
  <2>6. CASE cont' # cont /\ t = s
    <3>1. d[p].pc \notin Locked
      BY <2>1, <2>2, <2>6, Held
    <3>2. s \in reverted
      BY <2>1, <2>6, <3>1, Basics DEF Shared, Control
    <3>3. Svc(q)' = s
      BY <1>1, <2>1 DEF Svc
    <3>4. QED
      BY <2>3, <3>2, <3>3 DEF RollOK
  <2>7. QED
    BY <2>4, <2>5, <2>6
<1>4. QED
  BY <1>2, <1>3

\* A container decays.
LEMMA DecayRolls ==
  ASSUME ControlInv, NEW c \in Ids, Decay(c), NEW p \in Deploys, RollOK(p)
  PROVE  RollOK(p)'
<1>1. PICK s : s = Svc(p)
  OBVIOUS
<1>2. d' = d /\ reverted' = reverted /\ zombies' = zombies
  BY DEF Decay
<1>3. decayed \subseteq decayed' /\ cont[c].of \in decayed' /\ Touches(cont[c].of)
  BY DecayKeepsControl
<1>4. CASE s # cont[c].of
  BY <1>1, <1>2, <1>3, <1>4, Elsewhere, RollFrame
<1>5. CASE s = cont[c].of
  <2>1. getServiceContainers(s)' = getServiceContainers(s)
    <3>1. /\ cont[c].up = "healthy" /\ cont'[c].up = "unhealthy" /\ cont'[c].of = cont[c].of
          /\ \A b \in Ids \ {c} : cont'[b] = cont[b]
      BY DecayKeepsControl
    <3>2. QED
      BY <3>1 DEF getServiceContainers
  <2>2. QED
    BY <1>1, <1>2, <1>3, <1>5, <2>1, RollFrame
<1>6. QED
  BY <1>4, <1>5

\* What the numbers of a rollout are.
LEMMA RollTyped ==
  ASSUME ControlInv, NEW p \in Deploys, d[p].pc \in Locked, NEW e, e = d[p], NEW s, s = Svc(p)
  PROVE  /\ e.need \in Nat /\ e.before \in Nat /\ e.found \in Nat /\ Replicas[s] \in Nat \ {0}
         /\ e.replace \in SUBSET Ids /\ Order[e.i] = s
BY Basics, Held

LEMMA PartitionRolls ==
  ASSUME ControlInv, NEW p \in Deploys, Partition(p)
  PROVE  RollOK(p)'
<1>1. d[p].pc \in Locked
  BY PartitionFacts DEF Locked
<1>2. PICK s, G, V, H, W : /\ s = Svc(p) /\ G = getServiceContainers(s) /\ V = Serving(s)
                           /\ H = getServiceContainers(s)' /\ W = Serving(s)'
  OBVIOUS
<1>3. PICK good \in SUBSET MayKeep(p), e \in Deployment :
              /\ MustKeep(p) \subseteq good
              /\ cont' = [c \in Ids |-> IF c \in good THEN [cont[c] EXCEPT !.up = "healthy"]
                                        ELSE cont[c]]
              /\ d' = [d EXCEPT ![p] = e]
              /\ e.pc = "roll" /\ e.i = d[p].i /\ e.live = d[p].live
              /\ e.keep \in SUBSET good
              /\ e.replace = getServiceContainers(Svc(p)) \ e.keep
              /\ Cardinality(e.keep) \in Nat
              /\ e.need = Replicas[Svc(p)] - Cardinality(e.keep)
              /\ e.before = Cardinality(Serving(Svc(p)))
              /\ e.found = Cardinality(getServiceContainers(Svc(p)))
  BY PartitionFacts, Zenon
<1>3a. /\ e.replace = G \ e.keep /\ e.need = Replicas[s] - Cardinality(e.keep)
       /\ e.before = Cardinality(V) /\ e.found = Cardinality(G)
       /\ e.pc = "roll" /\ e.keep \in SUBSET good /\ Cardinality(e.keep) \in Nat
  BY <1>2, <1>3
<1>4. /\ \A c \in Ids : cont[c] \in Container
      /\ V \subseteq G /\ G \subseteq Ids
  BY <1>2, Basics, GroupsTyped
<1>5. \A c \in good : c \in G /\ c \in Ids /\ cont[c].image = Target[p]
  BY <1>2, <1>4 DEF MayKeep
<1>6. \A c \in good : /\ cont'[c].of = cont[c].of /\ cont'[c].image = Target[p]
                      /\ cont'[c].up = "healthy"
  <2>1. TAKE c \in good
  <2>2. cont'[c] = [cont[c] EXCEPT !.up = "healthy"] /\ cont[c] \in Container
    BY <1>3, <1>4, <1>5
  <2>3. QED
    BY <1>5, <2>2 DEF Container
<1>7. \A c \in Ids \ good : cont'[c] = cont[c]
  BY <1>3
<1>8. H = G
  BY <1>2, <1>5, <1>6, <1>7 DEF getServiceContainers
<1>9. V \subseteq W /\ e.keep \subseteq W /\ W \subseteq G
  <2>1. W = {c \in H : cont'[c].up = "healthy"} /\ V = {c \in G : cont[c].up = "healthy"}
    BY <1>2 DEF Serving
  <2>2. QED
    BY <1>3a, <1>4, <1>5, <1>6, <1>7, <1>8, <2>1
<1>10. W \ e.replace = e.keep /\ G \ e.replace = e.keep
  BY <1>3a, <1>5, <1>9
<1>11. Cardinality(V) \in Nat /\ Cardinality(W) \in Nat /\ Cardinality(V) <= Cardinality(W)
       /\ Cardinality(G) \in Nat
  <2>1. W \subseteq Ids /\ V \subseteq Ids /\ V \in SUBSET W
    BY <1>4, <1>9
  <2>2. QED
    BY <1>4, <2>1, Counts, CountsSubset
<1>12. Replicas[s] \in Nat \ {0} /\ Order[e.i] = s
  BY <1>1, <1>2, <1>3, RollTyped
<1>13. /\ e.need = Replicas[s] - Cardinality(e.keep) /\ Cardinality(e.keep) \in Nat
       /\ e.pc = "roll" /\ e.before = Cardinality(V) /\ e.found = Cardinality(G)
       /\ Cardinality(W \ e.replace) = Cardinality(e.keep)
       /\ Cardinality(H \ e.replace) = Cardinality(e.keep) /\ e.replace \subseteq H
  BY <1>3a, <1>8, <1>10
<1>14. ServedBy(e, s, W) /\ CountedBy(e, s, H)
  BY <1>8, <1>11, <1>12, <1>13 DEF ServedBy, CountedBy, Plus, Smaller, Larger
<1>15. UpdatedBy(e, H, Target[p], cont')
  BY <1>3a, <1>6, <1>8, <1>10 DEF UpdatedBy
<1>16. d'[p] = e
  BY <1>3, Basics
<1>17. QED
  BY <1>2, <1>12, <1>14, <1>15, <1>16, RollNext

LEMMA CreateRolls ==
  ASSUME ControlInv, NEW p \in Deploys, Create(p), RollOK(p)
  PROVE  RollOK(p)'
<1>1. /\ d[p].pc = "roll" /\ d[p].pc \in Rolling /\ d[p].pc \in Locked /\ d[p].need > 0
      /\ UNCHANGED <<faults, decayed, reverted, zombies>>
  BY DEF Create, At, Locked, Rolling, histVars
<1>2. PICK s, G, V, H, W, e, f : /\ s = Svc(p) /\ G = getServiceContainers(s) /\ V = Serving(s)
                                 /\ H = getServiceContainers(s)' /\ W = Serving(s)'
                                 /\ e = d[p] /\ f = d'[p]
  OBVIOUS
<1>3. PICK c \in Ids : /\ IsFresh(c)
                       /\ cont' = [cont EXCEPT ![c] = Launched(p, Target[p], "starting")]
                       /\ Become(p, [d[p] EXCEPT !.pc = "health", !.new = c])
  BY DEF Create
<1>4. cont \in [Ids -> Container] /\ cont[c].up = "never"
  BY <1>3, Basics, FreshIsNew
<1>5. cont'[c] = Launched(p, Target[p], "starting") /\ \A b \in Ids \ {c} : cont'[b] = cont[b]
  BY <1>3, <1>4
<1>6. cont'[c].of = s /\ cont'[c].image = Target[p] /\ cont'[c].up = "starting"
  BY <1>2, <1>5 DEF Launched
<1>7. V \subseteq G /\ G \subseteq Ids /\ c \notin G
  BY <1>2, <1>4, GroupsTyped DEF getServiceContainers
<1>8. H = G \cup {c}
  BY <1>2, <1>4, <1>5, <1>6 DEF getServiceContainers
<1>9. W = V
  <2>1. W = {b \in H : cont'[b].up = "healthy"} /\ V = {b \in G : cont[b].up = "healthy"}
    BY <1>2 DEF Serving
  <2>2. QED
    BY <1>5, <1>6, <1>7, <1>8, <2>1
<1>10. /\ f.pc = "health" /\ f.new = c /\ f.i = e.i /\ f.replace = e.replace /\ f.need = e.need
       /\ f.before = e.before /\ f.found = e.found
  <2>1. e \in Deployment /\ f = [e EXCEPT !.pc = "health", !.new = c]
    BY <1>2, <1>3, Basics DEF Become
  <2>2. QED
    BY <2>1 DEF Deployment
<1>11. /\ e.need \in Nat /\ e.before \in Nat /\ e.found \in Nat /\ Replicas[s] \in Nat \ {0}
       /\ e.replace \in SUBSET Ids /\ Order[e.i] = s
  BY <1>1, <1>2, RollTyped
<1>12. c \notin e.replace
  BY <1>1, <1>2, <1>4, Basics DEF Control
<1>13. /\ s \notin decayed \cup reverted => ServedBy(e, s, V)
       /\ s \notin reverted \cup zombies => CountedBy(e, s, G)
       /\ s \notin decayed \cup reverted \cup zombies => UpdatedBy(e, G, Target[p], cont)
  BY <1>1, <1>2, RollNow
<1>14. H \ e.replace = (G \ e.replace) \cup {c}
  BY <1>8, <1>12
<1>15. /\ Cardinality(H) = Cardinality(G) + 1
       /\ Cardinality(H \ e.replace) = Cardinality(G \ e.replace) + 1
       /\ Cardinality(G) \in Nat /\ Cardinality(G \ e.replace) \in Nat
  <2>1. PICK K : K = G \ e.replace
    OBVIOUS
  <2>2. K \subseteq Ids /\ c \in Ids \ K /\ c \in Ids \ G
    BY <1>7, <2>1
  <2>3. Cardinality(K \cup {c}) = Cardinality(K) + 1 /\ Cardinality(G \cup {c}) = Cardinality(G) + 1
    BY <1>7, <2>2, CountsAdd
  <2>4. Cardinality(K) \in Nat /\ Cardinality(G) \in Nat
    BY <1>7, <2>2, Counts
  <2>5. QED
    BY <1>8, <1>14, <2>1, <2>3, <2>4
<1>16. s \notin decayed \cup reverted => ServedBy(f, s, W)
  BY <1>1, <1>2, <1>9, <1>10, <1>13 DEF ServedBy, Plus
<1>17. s \notin reverted \cup zombies => CountedBy(f, s, H)
  BY <1>1, <1>2, <1>8, <1>10, <1>11, <1>13, <1>15 DEF CountedBy, Plus, Larger
<1>18. s \notin decayed \cup reverted \cup zombies => UpdatedBy(f, H, Target[p], cont')
  BY <1>1, <1>2, <1>5, <1>6, <1>7, <1>10, <1>13, <1>14 DEF UpdatedBy
<1>19. QED
  BY <1>1, <1>2, <1>10, <1>11, <1>16, <1>17, <1>18, RollNext

LEMMA HealthOkRolls ==
  ASSUME ControlInv, NEW p \in Deploys, HealthOk(p), RollOK(p)
  PROVE  RollOK(p)'
<1>1. /\ d[p].pc = "health" /\ d[p].pc \in Rolling /\ d[p].pc \in Locked
      /\ UNCHANGED <<faults, decayed, reverted, zombies>>
  BY DEF HealthOk, At, Locked, Rolling, histVars
<1>2. PICK s, G, V, H, W, e, f, c : /\ s = Svc(p) /\ G = getServiceContainers(s) /\ V = Serving(s)
                                    /\ H = getServiceContainers(s)' /\ W = Serving(s)'
                                    /\ e = d[p] /\ f = d'[p] /\ c = d[p].new
  OBVIOUS
<1>3. /\ c \in Ids \ e.replace /\ cont[c].of = s /\ cont[c].up = "starting"
      /\ cont' = [cont EXCEPT ![c].up = "healthy"] /\ cont \in [Ids -> Container]
  BY <1>1, <1>2, Basics DEF Control, HealthOk
<1>4. /\ cont'[c].up = "healthy" /\ cont'[c].of = s /\ cont'[c].image = cont[c].image
      /\ \A b \in Ids \ {c} : cont'[b] = cont[b]
  BY <1>3 DEF Container
<1>5. V \subseteq G /\ G \subseteq Ids
  BY <1>2, GroupsTyped
<1>6. H = G /\ c \in G
  BY <1>2, <1>3, <1>4 DEF getServiceContainers
<1>7. W = V \cup {c} /\ c \notin V
  <2>1. W = {b \in H : cont'[b].up = "healthy"} /\ V = {b \in G : cont[b].up = "healthy"}
    BY <1>2 DEF Serving
  <2>2. QED
    BY <1>3, <1>4, <1>5, <1>6, <2>1
<1>8. /\ f.pc = "swap" /\ f.new = e.new /\ f.i = e.i /\ f.replace = e.replace /\ f.need = e.need
      /\ f.before = e.before /\ f.found = e.found
  <2>1. e \in Deployment /\ f = [e EXCEPT !.pc = "swap"]
    BY <1>2, Basics DEF HealthOk, Goto
  <2>2. QED
    BY <2>1 DEF Deployment
<1>9. /\ e.need \in Nat /\ e.before \in Nat /\ e.found \in Nat /\ Replicas[s] \in Nat \ {0}
      /\ e.replace \in SUBSET Ids /\ Order[e.i] = s
  BY <1>1, <1>2, RollTyped
<1>10. /\ s \notin decayed \cup reverted => ServedBy(e, s, V)
       /\ s \notin reverted \cup zombies => CountedBy(e, s, G)
       /\ s \notin decayed \cup reverted \cup zombies => UpdatedBy(e, G, Target[p], cont)
  BY <1>1, <1>2, RollNow
<1>11. W \ e.replace = (V \ e.replace) \cup {c}
  BY <1>3, <1>7
<1>12. /\ Cardinality(W) = Cardinality(V) + 1
       /\ Cardinality(W \ e.replace) = Cardinality(V \ e.replace) + 1
       /\ Cardinality(V) \in Nat /\ Cardinality(V \ e.replace) \in Nat
  <2>1. PICK K : K = V \ e.replace
    OBVIOUS
  <2>2. K \subseteq Ids /\ V \subseteq Ids /\ c \in Ids \ K /\ c \in Ids \ V
    BY <1>3, <1>5, <1>7, <2>1
  <2>3. Cardinality(K \cup {c}) = Cardinality(K) + 1 /\ Cardinality(V \cup {c}) = Cardinality(V) + 1
    BY <2>2, CountsAdd
  <2>4. Cardinality(K) \in Nat /\ Cardinality(V) \in Nat
    BY <2>2, Counts
  <2>5. QED
    BY <1>7, <1>11, <2>1, <2>3, <2>4
<1>13. s \notin decayed \cup reverted => ServedBy(f, s, W)
  BY <1>1, <1>2, <1>8, <1>9, <1>10, <1>12 DEF ServedBy, Plus, Smaller
<1>14. s \notin reverted \cup zombies => CountedBy(f, s, H)
  BY <1>1, <1>2, <1>6, <1>8, <1>10 DEF CountedBy, Plus
<1>15. s \notin decayed \cup reverted \cup zombies => UpdatedBy(f, H, Target[p], cont')
  BY <1>1, <1>2, <1>3, <1>4, <1>5, <1>6, <1>8, <1>10 DEF UpdatedBy
<1>16. QED
  BY <1>1, <1>2, <1>8, <1>9, <1>13, <1>14, <1>15, RollNext

\* It counts, although it does not serve.
LEMMA HealthAssumedRolls ==
  ASSUME ControlInv, NEW p \in Deploys, HealthAssumed(p), RollOK(p)
  PROVE  RollOK(p)'
<1>1. PICK s, G, V, e, f, c : /\ s = Svc(p) /\ G = getServiceContainers(s)
                              /\ V = Serving(s)' /\ e = d[p] /\ f = d'[p] /\ c = d[p].new
  OBVIOUS
<1>2. /\ e.pc = "health" /\ e.pc \in Rolling /\ e.pc \in Locked /\ c \in Ids
      /\ cont[c].of = s /\ cont[c].up = "starting"
      /\ cont'[c].of = s /\ cont'[c].up = "unhealthy"
      /\ \A b \in Ids \ {c} : cont'[b] = cont[b]
      /\ s \in decayed' /\ UNCHANGED <<reverted, zombies>>
  BY <1>1, AssumedFacts DEF Rolling
<1>3. getServiceContainers(s)' = G
  BY <1>1, <1>2 DEF getServiceContainers
<1>4. /\ f.pc = "swap" /\ f.i = e.i /\ f.replace = e.replace /\ f.need = e.need
      /\ f.found = e.found
  <2>1. e \in Deployment /\ f = [e EXCEPT !.pc = "swap"]
    BY <1>1, Basics DEF HealthAssumed, Goto
  <2>2. QED
    BY <2>1 DEF Deployment
<1>5. Order[e.i] = s
  BY <1>1, <1>2, RollTyped
<1>6. s \notin reverted \cup zombies => CountedBy(e, s, G)
  BY <1>1, <1>2, RollNow
<1>7. s \notin reverted' \cup zombies' => CountedBy(f, s, G)
  BY <1>2, <1>4, <1>6 DEF CountedBy, Plus
<1>8. QED
  BY <1>1, <1>2, <1>3, <1>4, <1>5, <1>7, RollNext

\* The service after stopAndRemove.
LEMMA RemovalCounts ==
  ASSUME ControlInv, NEW p \in Deploys, NEW s, s = Svc(p), s \in Services,
         NEW c \in Ids, StopAndRemove(p, c), cont[c].of = s, cont[c].up # "never",
         NEW G, G = getServiceContainers(s), NEW V, V = Serving(s),
         NEW H, H = getServiceContainers(s)', NEW W, W = Serving(s)'
  PROVE  /\ V \ {c} \subseteq W /\ V \subseteq Ids /\ W \subseteq Ids /\ G \subseteq Ids /\ H \subseteq Ids
         /\ s \notin zombies' => H = G \ {c}
         /\ \A b \in Ids \ {c} : cont'[b] = cont[b]
<1>1. /\ cont'[c].of = s /\ \A b \in Ids \ {c} : cont'[b] = cont[b]
      /\ (cont'[c].up = "gone" /\ zombies' = zombies) \/ s \in zombies'
  BY Removal
<1>2. G \subseteq Ids /\ V \subseteq Ids /\ W \subseteq Ids /\ H \subseteq Ids
  BY DEF getServiceContainers, Serving
<1>3. V \ {c} \subseteq W
  BY <1>1 DEF getServiceContainers, Serving
<1>4. s \notin zombies' => H = G \ {c}
  BY <1>1 DEF getServiceContainers
<1>5. QED
  BY <1>1, <1>2, <1>3, <1>4

\* An old container has gone: what stays is the same.
LEMMA ReplaceRolls ==
  ASSUME ControlInv, NEW p \in Deploys, d[p].pc \in Rolling, RollOK(p),
         NEW s, s = Svc(p), NEW e, e = d[p], NEW f, f = d'[p],
         NEW c, c \in e.replace, StopAndRemove(p, c),
         UNCHANGED <<decayed, reverted>>,
         f.pc = "roll", f.i = e.i, f.replace = e.replace \ {c}, f.before = e.before,
         f.found = e.found,
         \/ e.pc = "swap" /\ f.need = e.need - 1
         \/ e.pc = "roll" /\ f.need = e.need /\ e.need = 0
  PROVE  RollOK(p)'
<1>1. d[p].pc \in Locked
  BY DEF Locked
<1>2. /\ e.need \in Nat /\ e.before \in Nat /\ e.found \in Nat /\ Replicas[s] \in Nat \ {0}
      /\ e.replace \in SUBSET Ids /\ Order[e.i] = s /\ s \in Services
  BY <1>1, RollTyped, Held
<1>3. c \in Ids /\ cont[c].of = s /\ cont[c].up # "never"
  BY Basics DEF Control
<1>4. PICK G, V, H, W : /\ G = getServiceContainers(s) /\ V = Serving(s)
                        /\ H = getServiceContainers(s)' /\ W = Serving(s)'
  OBVIOUS
<1>5. /\ V \ {c} \subseteq W /\ V \subseteq Ids /\ W \subseteq Ids /\ G \subseteq Ids /\ H \subseteq Ids
      /\ s \notin zombies' => H = G \ {c}
      /\ \A b \in Ids \ {c} : cont'[b] = cont[b]
  BY <1>2, <1>3, <1>4, RemovalCounts
<1>6. zombies \subseteq zombies'
  BY <1>2, <1>3, Removal
<1>7. /\ s \notin decayed \cup reverted => ServedBy(e, s, V)
      /\ s \notin reverted \cup zombies => CountedBy(e, s, G)
      /\ s \notin decayed \cup reverted \cup zombies => UpdatedBy(e, G, Target[p], cont)
  BY <1>4, RollNow
<1>8. s \notin decayed' \cup reverted' => ServedBy(f, s, W)
  <2>1. SUFFICES ASSUME s \notin decayed' \cup reverted' PROVE ServedBy(f, s, W)
    OBVIOUS
  <2>2. ServedBy(e, s, V)
    BY <1>7, <2>1
  <2>3. PICK K, L, M : K = V \ e.replace /\ L = W \ f.replace /\ M = V \ {c}
    OBVIOUS
  <2>4. K \subseteq L /\ L \subseteq W /\ L \subseteq Ids /\ K \subseteq Ids /\ M \subseteq W /\ M \subseteq Ids
    BY <1>5, <2>3
  <2>5. /\ Cardinality(K) <= Cardinality(L) /\ Cardinality(L) <= Cardinality(W)
        /\ Cardinality(M) <= Cardinality(W)
    BY <1>5, <2>4, CountsSubset
  <2>6. Cardinality(M) >= Cardinality(V) - 1
    BY <1>5, <2>3, CountsRemove
  <2>7. /\ Cardinality(K) \in Nat /\ Cardinality(L) \in Nat /\ Cardinality(M) \in Nat
        /\ Cardinality(V) \in Nat /\ Cardinality(W) \in Nat
    BY <1>5, <2>4, Counts
  <2>8. /\ Cardinality(V) >= Smaller(Replicas[s], e.before) + Plus(e, {"swap"})
        /\ Cardinality(K) >= Replicas[s] - e.need + Plus(e, {"swap"})
    BY <2>2, <2>3 DEF ServedBy
  <2>9. /\ Cardinality(W) >= Smaller(Replicas[s], f.before) + Plus(f, {"swap"})
        /\ Cardinality(L) >= Replicas[s] - f.need + Plus(f, {"swap"})
    BY <1>2, <2>5, <2>6, <2>7, <2>8 DEF Plus, Smaller
  <2>10. QED
    BY <2>3, <2>9 DEF ServedBy
<1>9. s \notin reverted' \cup zombies' => CountedBy(f, s, H)
  <2>1. SUFFICES ASSUME s \notin reverted' \cup zombies' PROVE CountedBy(f, s, H)
    OBVIOUS
  <2>2. CountedBy(e, s, G) /\ H = G \ {c}
    BY <1>5, <1>6, <1>7, <2>1
  <2>3. c \in G /\ H \ f.replace = G \ e.replace /\ f.replace \subseteq H
    BY <2>2 DEF CountedBy
  <2>4. Cardinality(H) = Cardinality(G) - 1 /\ Cardinality(G) \in Nat
    BY <1>5, <2>2, <2>3, CountsRemove, Counts
  <2>5. /\ Cardinality(H \ f.replace) = Replicas[s] - e.need + Plus(e, {"health", "swap"})
        /\ Cardinality(G) <= Larger(Replicas[s], e.found) + Plus(e, {"health", "swap"})
    BY <2>2, <2>3 DEF CountedBy
  <2>6. /\ Cardinality(H \ f.replace) = Replicas[s] - f.need + Plus(f, {"health", "swap"})
        /\ Cardinality(H) <= Larger(Replicas[s], f.found) + Plus(f, {"health", "swap"})
    BY <1>2, <2>4, <2>5 DEF Plus, Larger
  <2>7. QED
    BY <2>3, <2>6 DEF CountedBy
<1>10. s \notin decayed' \cup reverted' \cup zombies' => UpdatedBy(f, H, Target[p], cont')
  <2>1. SUFFICES ASSUME s \notin decayed' \cup reverted' \cup zombies'
                 PROVE  UpdatedBy(f, H, Target[p], cont')
    OBVIOUS
  <2>2. UpdatedBy(e, G, Target[p], cont) /\ H = G \ {c}
    BY <1>5, <1>6, <1>7, <2>1
  <2>3. H \ f.replace = G \ e.replace
    BY <2>2
  <2>4. QED
    BY <1>5, <2>2, <2>3 DEF UpdatedBy
<1>11. QED
  BY <1>2, <1>4, <1>8, <1>9, <1>10, RollNext

LEMMA SwapRolls ==
  ASSUME ControlInv, NEW p \in Deploys, Swap(p), RollOK(p)
  PROVE  RollOK(p)'
<1>1. /\ d[p].pc = "swap" /\ d[p].pc \in Rolling /\ d[p].pc \in Locked
      /\ UNCHANGED <<decayed, reverted>>
  BY DEF Swap, At, Locked, Rolling
<1>2. PICK s, e, f : s = Svc(p) /\ e = d[p] /\ f = d'[p]
  OBVIOUS
<1>3. PICK c : /\ Become(p, [d[p] EXCEPT !.pc = "roll", !.need = @ - 1, !.new = None, !.replace = @ \ {c}])
               /\ \/ d[p].replace = {} /\ UNCHANGED <<cont, faults, zombies>>
                  \/ c \in d[p].replace /\ StopAndRemove(p, c)
  BY Zenon DEF Swap
<1>4. /\ f.pc = "roll" /\ f.i = e.i /\ f.replace = e.replace \ {c} /\ f.need = e.need - 1
      /\ f.before = e.before /\ f.found = e.found
  <2>1. e \in Deployment /\ f = [e EXCEPT !.pc = "roll", !.need = @ - 1, !.new = None, !.replace = @ \ {c}]
    BY <1>2, <1>3, Basics DEF Become
  <2>2. QED
    BY <2>1 DEF Deployment
<1>5. CASE c \in d[p].replace /\ StopAndRemove(p, c)
  BY <1>1, <1>2, <1>4, <1>5, ReplaceRolls
<1>6. CASE d[p].replace = {} /\ UNCHANGED <<cont, faults, zombies>>
  <2>1. PICK G, V : G = getServiceContainers(s) /\ V = Serving(s)
    OBVIOUS
  <2>2. getServiceContainers(s)' = G /\ Serving(s)' = V
    BY <1>6, <2>1 DEF getServiceContainers, Serving
  <2>3. /\ s \notin decayed \cup reverted => ServedBy(e, s, V)
        /\ s \notin reverted \cup zombies => CountedBy(e, s, G)
        /\ s \notin decayed \cup reverted \cup zombies => UpdatedBy(e, G, Target[p], cont)
    BY <1>1, <1>2, <2>1, RollNow
  <2>4. /\ e.need \in Nat /\ e.before \in Nat /\ e.found \in Nat /\ Replicas[s] \in Nat \ {0}
        /\ Order[e.i] = s /\ e.need > 0
    BY <1>1, <1>2, RollTyped, Basics DEF Control
  <2>5. e.replace = {} /\ f.replace = {} /\ V \ {} = V /\ G \ {} = G
    BY <1>2, <1>4, <1>6
  <2>6. Cardinality(V) \in Nat /\ Cardinality(G) \in Nat
    BY <2>1, GroupsTyped, Counts
  <2>7. s \notin decayed \cup reverted => ServedBy(f, s, V)
    BY <1>1, <1>2, <1>4, <2>3, <2>4, <2>5, <2>6 DEF ServedBy, Plus, Smaller
  <2>8. s \notin reverted \cup zombies => CountedBy(f, s, G)
    BY <1>1, <1>2, <1>4, <2>3, <2>4, <2>5, <2>6 DEF CountedBy, Plus, Larger
  <2>9. s \notin decayed \cup reverted \cup zombies => UpdatedBy(f, G, Target[p], cont')
    BY <1>1, <1>2, <1>4, <1>6, <2>3, <2>5 DEF UpdatedBy
  <2>10. QED
    BY <1>1, <1>2, <1>4, <1>6, <2>2, <2>4, <2>7, <2>8, <2>9, RollNext
<1>7. QED
  BY <1>3, <1>5, <1>6

LEMMA RemoveLeftoverRolls ==
  ASSUME ControlInv, NEW p \in Deploys, RemoveLeftover(p), RollOK(p)
  PROVE  RollOK(p)'
<1>1. /\ d[p].pc = "roll" /\ d[p].pc \in Rolling /\ d[p].need = 0
      /\ UNCHANGED <<decayed, reverted>>
  BY DEF RemoveLeftover, At, Rolling
<1>2. PICK s, e, f : s = Svc(p) /\ e = d[p] /\ f = d'[p]
  OBVIOUS
<1>3. PICK c \in d[p].replace : StopAndRemove(p, c) /\ Become(p, [d[p] EXCEPT !.replace = @ \ {c}])
  BY DEF RemoveLeftover
<1>4. /\ f.pc = "roll" /\ f.i = e.i /\ f.replace = e.replace \ {c} /\ f.need = e.need
      /\ f.before = e.before /\ f.found = e.found
  <2>1. e \in Deployment /\ f = [e EXCEPT !.replace = @ \ {c}]
    BY <1>2, <1>3, Basics DEF Become
  <2>2. QED
    BY <1>1, <1>2, <2>1 DEF Deployment
<1>5. QED
  BY <1>1, <1>2, <1>3, <1>4, ReplaceRolls

LEMMA CancelRolls ==
  ASSUME ControlInv, NEW p \in Deploys, Cancel(p), RollOK(p)
  PROVE  RollOK(p)'
<1>1. UNCHANGED <<cont, decayed, reverted, zombies>> /\ d' = [d EXCEPT ![p] = [d[p] EXCEPT !.live = FALSE]]
  BY DEF Cancel, Become
<1>2. /\ d'[p].pc = d[p].pc /\ d'[p].i = d[p].i /\ d'[p].replace = d[p].replace
      /\ d'[p].need = d[p].need /\ d'[p].new = d[p].new /\ d'[p].before = d[p].before
      /\ d'[p].found = d[p].found
  <2>1. d[p] \in Deployment /\ d'[p] = [d[p] EXCEPT !.live = FALSE]
    BY <1>1, Basics
  <2>2. QED
    BY <2>1 DEF Deployment
<1>3. PICK s : s = Svc(p)
  OBVIOUS
<1>4. getServiceContainers(s)' = getServiceContainers(s) /\ Serving(s)' = Serving(s)
  BY <1>1 DEF getServiceContainers, Serving
<1>5. QED
  BY <1>1, <1>2, <1>3, <1>4, RollFrame

\* The other steps end where nothing is rolled out.
LEMMA NotRolling ==
  ASSUME ControlInv, NEW p \in Deploys, ExecuteDeploy(p),
         ~Partition(p), ~Create(p), ~HealthOk(p), ~HealthAssumed(p), ~Swap(p),
         ~RemoveLeftover(p), ~Cancel(p)
  PROVE  RollOK(p)'
<1>0. d \in [Deploys -> Deployment] /\ d[p] \in Deployment
  BY Basics
<1>1. \A label \in {"failed", "service", "locked", "undoCreate"} : Goto(p, label) => d'[p].pc \notin Rolling
  BY <1>0 DEF Goto, Rolling, Deployment
<1>2. \A new : Fail(p, new) => d'[p].pc \notin Rolling
  BY <1>0 DEF Fail, Become, Rolling, Deployment
<1>3. Become(p, Undone(p)) => d'[p].pc \notin Rolling
  BY <1>0 DEF Undone, Become, Rolling, Deployment
<1>4. CASE Begin(p)
  <2>1. \A b : Become(p, [d[p] EXCEPT !.pc = "capture", !.i = 1, !.recreate = b])
                 => d'[p].pc = "capture"
    BY <1>0 DEF Become, Deployment
  <2>2. QED
    BY <1>1, <1>4, <2>1 DEF Begin, RollOK, Rolling
<1>5. CASE Capture(p)
  <2>1. d'[p].pc = IF d[p].i = Len(Order) THEN "prepare" ELSE "capture"
    BY <1>0, <1>5 DEF Capture, Become, Deployment
  <2>2. QED
    BY <2>1 DEF RollOK, Rolling
<1>6. CASE Prepare(p) \/ BindMountRefused(p) \/ UndoFinished(p) \/ LockService(p)
  BY <1>1, <1>6 DEF Prepare, BindMountRefused, UndoFinished, LockService, RollOK
<1>7. CASE DeployRefused(p) \/ CreateFails(p) \/ HealthFails(p)
  BY <1>2, <1>7 DEF DeployRefused, CreateFails, HealthFails, RollOK
<1>8. CASE ServiceDone(p)
  BY <1>0, <1>8 DEF ServiceDone, Become, Idle, Deployment, RollOK, Rolling
<1>9. CASE UndoSkips(p)
  BY <1>3, <1>9 DEF UndoSkips, RollOK
<1>10. CASE UndoList(p)
  BY <1>0, <1>10 DEF UndoList, Become, Deployment, RollOK, Rolling
<1>11. CASE UndoRemove(p)
  <2>1. \A c : Become(p, [d[p] EXCEPT !.replace = @ \ {c}]) => d'[p].pc = d[p].pc
    BY <1>0 DEF Become, Deployment
  <2>2. d[p].pc = "undoRemove" /\ "undoRemove" \notin Rolling
    BY <1>11, UndoRemoveFacts DEF Rolling
  <2>3. QED
    BY <1>1, <1>3, <1>11, <2>1, <2>2, UndoRemoveFacts DEF RollOK
<1>12. CASE UndoCreate(p)
  <2>1. \A t : Become(p, [d[p] EXCEPT !.todo = @ \ {t}]) => d'[p].pc = d[p].pc
    BY <1>0 DEF Become, Deployment
  <2>2. d[p].pc = "undoCreate" /\ "undoCreate" \notin Rolling
    BY <1>12, UndoCreateFacts DEF Rolling
  <2>3. QED
    BY <1>3, <1>12, <2>1, <2>2, UndoCreateFacts DEF RollOK
<1>13. QED
  BY <1>4, <1>5, <1>6, <1>7, <1>8, <1>9, <1>10, <1>11, <1>12
  DEF ExecuteDeploy, DeployService, RollbackServices

LEMMA OwnRolls ==
  ASSUME RolloutInv, NEW p \in Deploys, ExecuteDeploy(p)
  PROVE  RollOK(p)'
BY PartitionRolls, CreateRolls, HealthOkRolls, HealthAssumedRolls, SwapRolls, RemoveLeftoverRolls,
   CancelRolls, NotRolling
DEF RolloutInv

(* The counts of containers that a rollout relies on: whatever the others  *)
(* do, those that stay and those still to create make up the replicas.     *)
THEOREM RolloutInvariant == Spec => []RolloutInv
<1>1. Init => RolloutInv
  <2>1. SUFFICES ASSUME Init PROVE \A p \in Deploys : RollOK(p)
    BY InitControl DEF RolloutInv
  <2>2. QED
    BY <2>1 DEF Init, Idle, RollOK, Rolling
<1>2. RolloutInv /\ [Next]_vars => RolloutInv'
  <2>1. SUFFICES ASSUME RolloutInv, [Next]_vars PROVE RolloutInv'
    OBVIOUS
  <2>2. ASSUME NEW p \in Deploys, ExecuteDeploy(p) PROVE RolloutInv'
    <3>1. PICK e : Shared(p) /\ Moves(p, e)
      BY <2>1, <2>2, EveryStep DEF RolloutInv
    <3>2. ControlInv'
      BY <2>1, <3>1, StepKeepsControl DEF RolloutInv
    <3>3. ASSUME NEW q \in Deploys PROVE RollOK(q)'
      <4>1. CASE q = p
        BY <2>1, <2>2, <4>1, OwnRolls
      <4>2. CASE q # p
        BY <2>1, <3>1, <4>2, OtherRolls DEF RolloutInv
      <4>3. QED
        BY <4>1, <4>2
    <3>4. QED
      BY <3>2, <3>3 DEF RolloutInv
  <2>3. ASSUME NEW c \in Ids, Decay(c) PROVE RolloutInv'
    BY <2>1, <2>3, DecayKeepsControl, DecayRolls DEF RolloutInv
  <2>4. CASE UNCHANGED vars
    <3>1. UNCHANGED <<cont, lock, d, faults, decayed, reverted, zombies>>
      BY <2>4 DEF vars, histVars
    <3>2. \A p \in Deploys : RollOK(p)'
      BY <2>1, <3>1 DEF RolloutInv, RollOK, Svc, Serving, getServiceContainers
    <3>3. QED
      BY <2>1, <2>4, <3>2, ControlStutter DEF RolloutInv
  <2>5. QED
    BY <2>1, <2>2, <2>3, <2>4 DEF Next
<1>3. QED
  BY <1>1, <1>2, PTL DEF Spec

(* Zero downtime: during a rollout as many containers serve as before, or  *)
(* as there are replicas, whatever number of deployments and of services,  *)
(* unless one decayed or a rollback removed some.                          *)
THEOREM RolloutKeepsServing == Spec => []KeepsServing
<1>1. RolloutInv => KeepsServing
  <2>1. SUFFICES ASSUME RolloutInv, NEW p \in Deploys, d[p].pc \in Rolling,
                        Svc(p) \notin decayed \cup reverted
                 PROVE  Cardinality(Serving(Svc(p))) >= Smaller(Replicas[Svc(p)], d[p].before)
    BY DEF KeepsServing
  <2>2. PICK s, e, V : s = Svc(p) /\ e = d[p] /\ V = Serving(s)
    OBVIOUS
  <2>3. ServedBy(e, s, V)
    BY <2>1, <2>2 DEF RolloutInv, RollOK
  <2>4. Cardinality(V) \in Nat
    BY <2>2, GroupsTyped, Counts
  <2>5. e.before \in Nat /\ Replicas[s] \in Nat
    BY <2>1, <2>2, RollTyped DEF RolloutInv, Locked
  <2>6. Cardinality(V) >= Smaller(Replicas[s], e.before)
    BY <2>3, <2>4, <2>5 DEF ServedBy, Plus, Smaller
  <2>7. QED
    BY <2>2, <2>6
<1>2. QED
  BY <1>1, RolloutInvariant, PTL

(* A rollout adds one container at a time, whatever the number of          *)
(* deployments that wait for the mutex.                                    *)
THEOREM SurgeIsBounded == Spec => []BoundedSurge
<1>1. RolloutInv => BoundedSurge
  <2>1. SUFFICES ASSUME RolloutInv, NEW p \in Deploys, d[p].pc \in Rolling,
                        Svc(p) \notin reverted \cup zombies
                 PROVE  Cardinality(getServiceContainers(Svc(p)))
                          <= Larger(Replicas[Svc(p)], d[p].found) + 1
    BY DEF BoundedSurge
  <2>2. PICK s, e, G : s = Svc(p) /\ e = d[p] /\ G = getServiceContainers(s)
    OBVIOUS
  <2>3. CountedBy(e, s, G)
    BY <2>1, <2>2 DEF RolloutInv, RollOK
  <2>4. Cardinality(G) \in Nat
    BY <2>2, GroupsTyped, Counts
  <2>5. e.found \in Nat /\ Replicas[s] \in Nat
    BY <2>1, <2>2, RollTyped DEF RolloutInv, Locked
  <2>6. Cardinality(G) <= Larger(Replicas[s], e.found) + 1
    BY <2>3, <2>4, <2>5 DEF CountedBy, Plus, Larger
  <2>7. QED
    BY <2>2, <2>6
<1>2. QED
  BY <1>1, RolloutInvariant, PTL

-----------------------------------------------------------------------------
(* Deployments that succeed. *)

\* A service as the compose files of all deployments want it.
InPlace(s, image) ==
  /\ Cardinality(getServiceContainers(s)) = Replicas[s]
  /\ \A c \in getServiceContainers(s) : cont[c].image = image /\ cont[c].up = "healthy"

\* Deployment p is done with service s.
Passed(p, s) ==
  \/ d[p].pc = "done"
  \/ d[p].pc \in {"service"} \cup Locked /\ \E k \in 1..(d[p].i - 1) : Order[k] = s

Clean == faults = 0 /\ \A p \in Deploys : d[p].pc \notin Failing
Agreed(image) == \A p \in Deploys : Target[p] = image

Placed(s, image) ==
  /\ Clean /\ Agreed(image)
  /\ \E p \in Deploys : Passed(p, s)
  /\ \A p \in Deploys : d[p].pc \in Rolling => Svc(p) # s
  => InPlace(s, image)

ConvergeInv == RolloutInv /\ \A s \in Services, image \in Images : Placed(s, image)

\* How a deployment goes on as long as it does not fail.
LEMMA Onwards ==
  ASSUME ControlInv, NEW p \in Deploys, ExecuteDeploy(p), d'[p].pc \notin Failing,
         NEW e, e = d[p], NEW f, f = d'[p]
  PROVE  \/ ServiceDone(p)
         \/ e.pc \in Rolling /\ f.pc \in Rolling /\ f.i = e.i
         \/ e.pc = "locked" /\ f.pc = "roll" /\ f.i = e.i
         \/ e.pc = "locked" /\ f.pc = "locked" /\ f.i = e.i /\ cont' = cont
         \/ e.pc = "service" /\ f.pc \in {"service", "locked"} /\ f.i = e.i /\ cont' = cont
         \/ e.pc = "prepare" /\ e.i = 1 /\ f.pc = "service" /\ f.i = e.i /\ cont' = cont
         \/ f.pc \in {"capture", "prepare"} /\ e.pc \notin Locked /\ cont' = cont
<1>0. d \in [Deploys -> Deployment] /\ e \in Deployment
  BY Basics
<1>1. /\ \A label : Goto(p, label) => f.pc = label /\ f.i = e.i
      /\ \A new : ~Fail(p, new)
      /\ ~Become(p, Undone(p)) /\ ~Goto(p, "failed")
  <2>1. \A label : Goto(p, label) => f.pc = label /\ f.i = e.i
    BY <1>0 DEF Goto, Deployment
  <2>2. \A new : Fail(p, new) => f.pc = "undo"
    BY <1>0 DEF Fail, Become, Deployment
  <2>3. Become(p, Undone(p)) => f.pc = "undo"
    BY <1>0 DEF Undone, Become, Deployment
  <2>4. QED
    BY <2>1, <2>2, <2>3 DEF Failing, Undoing
<1>2. CASE Begin(p)
  <2>1. \A b : Become(p, [d[p] EXCEPT !.pc = "capture", !.i = 1, !.recreate = b]) => f.pc = "capture"
    BY <1>0 DEF Become, Deployment
  <2>2. QED
    BY <1>1, <1>2, <2>1 DEF Begin, At, Locked, Rolling
<1>3. CASE Capture(p)
  <2>1. f.pc = IF d[p].i = Len(Order) THEN "prepare" ELSE "capture"
    BY <1>0, <1>3 DEF Capture, Become, Deployment
  <2>2. QED
    BY <1>3, <2>1 DEF Capture, At, Locked, Rolling
<1>4. CASE Prepare(p)
  BY <1>1, <1>4, Basics DEF Prepare, At, Control
<1>5. CASE Cancel(p)
  <2>1. f.pc = e.pc /\ f.i = e.i /\ cont' = cont /\ e.pc \notin {"idle", "done", "failed"}
    BY <1>0, <1>5 DEF Cancel, Become, Deployment
  <2>2. e.pc = "prepare" => f.pc = "prepare"
    BY <2>1
  <2>3. e.pc \in {"capture", "prepare", "service", "locked"} \/ e.pc \in Rolling
    BY <2>1, Basics DEF PC, Failing, Undoing, Rolling
  <2>4. QED
    BY <2>1, <2>3 DEF Locked, Rolling
<1>6. CASE LockService(p)
  BY <1>1, <1>6 DEF LockService, At
<1>7. CASE Partition(p)
  <2>1. d[p].pc = "locked" /\ f.pc = "roll" /\ f.i = e.i
    BY <1>0, <1>7, PartitionFacts
  <2>2. QED
    BY <2>1
<1>8. CASE Create(p)
  BY <1>0, <1>8 DEF Create, At, Become, Deployment, Rolling
<1>9. CASE HealthOk(p) \/ HealthAssumed(p)
  BY <1>1, <1>9 DEF HealthOk, HealthAssumed, At, Rolling
<1>10. CASE Swap(p)
  <2>1. \A c : Become(p, [d[p] EXCEPT !.pc = "roll", !.need = @ - 1, !.new = None, !.replace = @ \ {c}])
                 => f.pc = "roll" /\ f.i = e.i
    BY <1>0 DEF Become, Deployment
  <2>2. \E c : Become(p, [d[p] EXCEPT !.pc = "roll", !.need = @ - 1, !.new = None, !.replace = @ \ {c}])
    BY <1>10, Zenon DEF Swap
  <2>3. QED
    BY <1>10, <2>1, <2>2 DEF Swap, At, Rolling
<1>11. CASE RemoveLeftover(p)
  BY <1>0, <1>11 DEF RemoveLeftover, At, Become, Deployment, Rolling
<1>12. CASE BindMountRefused(p) \/ DeployRefused(p) \/ CreateFails(p) \/ HealthFails(p)
            \/ UndoFinished(p) \/ UndoSkips(p)
  BY <1>1, <1>12 DEF BindMountRefused, DeployRefused, CreateFails, HealthFails, UndoFinished, UndoSkips
<1>13. CASE UndoList(p) \/ UndoRemove(p) \/ UndoCreate(p)
  <2>1. d[p].pc \in Failing
    BY <1>13 DEF UndoList, UndoRemove, UndoCreate, At, Failing, Undoing
  <2>2. PICK g : Moves(p, g)
    BY EveryStep
  <2>3. QED
    BY <1>0, <2>1, <2>2 DEF Moves
<1>14. QED
  BY <1>2, <1>3, <1>4, <1>5, <1>6, <1>7, <1>8, <1>9, <1>10, <1>11, <1>12, <1>13
  DEF ExecuteDeploy, DeployService, RollbackServices

\* A rollout that ends leaves the service in place.
LEMMA DoneInPlace ==
  ASSUME RolloutInv, Clean, NEW p \in Deploys, ServiceDone(p), NEW s, s = Svc(p)
  PROVE  InPlace(s, Target[p])'
<1>1. d[p].pc = "roll" /\ d[p].need = 0 /\ d[p].replace = {} /\ cont' = cont /\ d[p].pc \in Rolling
  BY DEF ServiceDone, At, Rolling
<1>2. decayed = {} /\ zombies = {} /\ reverted = {}
  BY DEF Clean, RolloutInv, ControlInv, Histories
<1>3. PICK e, G, V : e = d[p] /\ G = getServiceContainers(s) /\ V = Serving(s)
  OBVIOUS
<1>4. CountedBy(e, s, G) /\ UpdatedBy(e, G, Target[p], cont)
  BY <1>1, <1>2, <1>3, RollNow DEF RolloutInv
<1>5. Replicas[s] \in Nat
  BY <1>1, Held DEF Locked, RolloutInv
<1>6. e.pc = "roll" /\ e.need = 0 /\ G \ e.replace = G
  BY <1>1, <1>3
<1>7. Cardinality(G) = Replicas[s]
  <2>1. Cardinality(G \ e.replace) = Replicas[s] - e.need + Plus(e, {"health", "swap"})
    BY <1>4 DEF CountedBy
  <2>2. Plus(e, {"health", "swap"}) = 0
    BY <1>6 DEF Plus
  <2>3. Cardinality(G \ e.replace) = Cardinality(G)
    BY <1>6, Zenon
  <2>4. QED
    BY <1>5, <1>6, <2>1, <2>2, <2>3
<1>8. \A c \in G : cont[c].image = Target[p] /\ cont[c].up = "healthy"
  BY <1>4, <1>6 DEF UpdatedBy
<1>9. getServiceContainers(s)' = G
  BY <1>1, <1>3 DEF getServiceContainers
<1>10. QED
  BY <1>1, <1>7, <1>8, <1>9 DEF InPlace

\* A service in place stays there while nobody is rolling it out.
LEMMA PlacedStep ==
  ASSUME RolloutInv, NEW p \in Deploys, ExecuteDeploy(p),
         NEW s \in Services, NEW image \in Images, Placed(s, image)
  PROVE  Placed(s, image)'
<1>1. SUFFICES ASSUME Clean', Agreed(image), NEW q \in Deploys, Passed(q, s)',
                      \A r \in Deploys : d'[r].pc \in Rolling => Svc(r)' # s
               PROVE  InPlace(s, image)'
  BY DEF Placed, Agreed
<1>2. ControlInv
  BY DEF RolloutInv
<1>3. PICK g : Shared(p) /\ Moves(p, g)
  BY <1>2, EveryStep
<1>4. PICK e, f : e = d[p] /\ f = d'[p]
  OBVIOUS
<1>5. \A r \in Deploys \ {p} : d'[r] = d[r]
  BY <1>2, <1>3, Basics DEF Moves
<1>6. f = g /\ f.pc \notin Failing
  BY <1>1, <1>2, <1>3, <1>4, Basics DEF Moves, Clean
<1>7. e.pc \notin Failing
  BY <1>3, <1>4, <1>6 DEF Moves
<1>8. Clean
  BY <1>1, <1>3, <1>4, <1>5, <1>7 DEF Clean, Shared
<1>9. CASE ServiceDone(p) /\ Svc(p) = s
  <2>1. Target[p] = image
    BY <1>1 DEF Agreed
  <2>2. InPlace(s, Target[p])'
    BY <1>8, <1>9, DoneInPlace
  <2>3. QED
    BY <2>1, <2>2
<1>10. CASE ~(ServiceDone(p) /\ Svc(p) = s)
  <2>1. \/ ServiceDone(p)
        \/ e.pc \in Rolling /\ f.pc \in Rolling /\ f.i = e.i
        \/ e.pc = "locked" /\ f.pc = "roll" /\ f.i = e.i
        \/ e.pc = "locked" /\ f.pc = "locked" /\ f.i = e.i /\ cont' = cont
        \/ e.pc = "service" /\ f.pc \in {"service", "locked"} /\ f.i = e.i /\ cont' = cont
        \/ e.pc = "prepare" /\ e.i = 1 /\ f.pc = "service" /\ f.i = e.i /\ cont' = cont
        \/ f.pc \in {"capture", "prepare"} /\ e.pc \notin Locked /\ cont' = cont
    BY <1>2, <1>4, <1>6, Onwards
  <2>2. ServiceDone(p) => /\ e.pc = "roll" /\ e.pc \in Rolling /\ cont' = cont
                          /\ e.i \in 1..Len(Order)
                          /\ e.i = Len(Order) \/ (f.pc = "service" /\ f.i = e.i + 1)
    <3>1. SUFFICES ASSUME ServiceDone(p)
                   PROVE  /\ e.pc = "roll" /\ e.pc \in Rolling /\ cont' = cont
                          /\ e.i \in 1..Len(Order)
                          /\ e.i = Len(Order) \/ (f.pc = "service" /\ f.i = e.i + 1)
      OBVIOUS
    <3>2. e.pc = "roll" /\ e.pc \in Rolling /\ cont' = cont
      BY <1>4, <3>1 DEF ServiceDone, At, Rolling
    <3>3. e.i \in 1..Len(Order)
      BY <1>2, <1>4, <3>2, Held DEF Locked
    <3>4. e.i = Len(Order) \/ (f.pc = "service" /\ f.i = e.i + 1)
      BY <1>2, <1>4, <3>1, Basics DEF ServiceDone, Become, Deployment
    <3>5. QED
      BY <3>2, <3>3, <3>4
  <2>3. \E r \in Deploys : Passed(r, s)
    <3>1. CASE q # p
      BY <1>1, <1>5, <3>1 DEF Passed
    <3>2. CASE q = p
      <4>1. \/ f.pc = "done"
            \/ f.pc \in {"service"} \cup Locked /\ \E k \in 1..(f.i - 1) : Order[k] = s
        BY <1>1, <1>4, <3>2 DEF Passed
      <4>2. CASE ServiceDone(p)
        <5>1. Svc(p) # s /\ Order[e.i] # s
          BY <1>4, <1>10, <4>2 DEF Svc
        <5>2. Len(Order) \in Nat /\ \E k \in 1..Len(Order) : Order[k] = s
          BY <1>2, Basics, RolloutAssumption
        <5>3. \E k \in 1..(e.i - 1) : Order[k] = s
          <6>1. CASE e.i = Len(Order)
            BY <5>1, <5>2, <6>1
          <6>2. CASE f.pc = "service" /\ f.i = e.i + 1
            <7>1. PICK k \in 1..(f.i - 1) : Order[k] = s
              BY <4>1, <6>2
            <7>2. k \in 1..e.i /\ k # e.i /\ e.i \in 1..Len(Order)
              BY <2>2, <4>2, <5>1, <6>2, <7>1
            <7>3. QED
              BY <7>1, <7>2
          <6>3. QED
            BY <2>2, <4>2, <6>1, <6>2
        <5>4. QED
          BY <1>4, <2>2, <4>2, <5>3 DEF Passed, Locked
      <4>3. CASE ~ServiceDone(p)
        <5>1. f.i = e.i /\ e.pc \in {"service"} \cup Locked
          <6>1. e.pc # "prepare"
            BY <2>1, <4>1, <4>3 DEF Locked, Rolling
          <6>2. QED
            BY <2>1, <4>1, <4>3, <6>1 DEF Locked, Rolling
        <5>2. f.pc # "done"
          BY <2>1, <4>3 DEF Rolling
        <5>3. QED
          BY <1>4, <4>1, <5>1, <5>2 DEF Passed
      <4>4. QED
        BY <4>2, <4>3
    <3>3. QED
      BY <3>1, <3>2
  <2>4. \A r \in Deploys : d[r].pc \in Rolling => Svc(r) # s
    <3>1. TAKE r \in Deploys
    <3>2. CASE r # p
      BY <1>1, <1>5, <3>2 DEF Svc
    <3>3. CASE r = p
      <4>1. SUFFICES ASSUME e.pc \in Rolling PROVE Svc(p) # s
        BY <1>4, <3>3
      <4>2. CASE ServiceDone(p)
        BY <1>10, <4>2
      <4>3. CASE ~ServiceDone(p)
        <5>1. f.pc \in Rolling /\ f.i = e.i
          BY <2>1, <4>1, <4>3 DEF Rolling, Locked
        <5>2. QED
          BY <1>1, <1>4, <5>1 DEF Svc
      <4>4. QED
        BY <4>2, <4>3
    <3>4. QED
      BY <3>2, <3>3
  <2>5. InPlace(s, image)
    BY <1>1, <1>8, <2>3, <2>4 DEF Placed
  <2>6. CASE cont' = cont
    BY <2>5, <2>6 DEF InPlace, getServiceContainers
  <2>7. CASE cont' # cont
    <3>1. Svc(p) # s
      <4>1. CASE e.pc \in Rolling
        BY <1>4, <2>4, <4>1
      <4>2. CASE e.pc \notin Rolling
        <5>1. f.pc = "roll" /\ f.i = e.i
          BY <2>1, <2>2, <2>7, <4>2
        <5>2. QED
          BY <1>1, <1>4, <5>1 DEF Svc, Rolling
      <4>3. QED
        BY <4>1, <4>2
    <3>2. Touches(Svc(p))
      BY <1>3, <2>7 DEF Shared
    <3>3. PICK t : t = Svc(p)
      OBVIOUS
    <3>4. /\ getServiceContainers(s)' = getServiceContainers(s)
          /\ \A c \in getServiceContainers(s) : cont'[c] = cont[c]
      BY <3>1, <3>2, <3>3, Elsewhere
    <3>5. QED
      BY <2>5, <3>4 DEF InPlace
  <2>8. QED
    BY <2>6, <2>7
<1>11. QED
  BY <1>9, <1>10

(* A service that a deployment is done with stays in place, as long as no  *)
(* deployment failed and nobody is rolling it out again.                   *)
THEOREM ConvergeInvariant == Spec => []ConvergeInv
<1>1. Init => \A s \in Services, image \in Images : Placed(s, image)
  BY DEF Init, Idle, Placed, Passed, Locked, Rolling
<1>2. RolloutInv /\ (\A s \in Services, image \in Images : Placed(s, image)) /\ [Next]_vars
        => (\A s \in Services, image \in Images : Placed(s, image))'
  <2>1. SUFFICES ASSUME RolloutInv, [Next]_vars, NEW s \in Services, NEW image \in Images,
                        Placed(s, image)
                 PROVE  Placed(s, image)'
    OBVIOUS
  <2>2. ASSUME NEW p \in Deploys, ExecuteDeploy(p) PROVE Placed(s, image)'
    BY <2>1, <2>2, PlacedStep
  <2>3. ASSUME NEW c \in Ids, Decay(c) PROVE Placed(s, image)'
    BY <2>1, <2>3, DecayKeepsControl DEF RolloutInv, Placed, Clean
  <2>4. CASE UNCHANGED vars
    <3>1. UNCHANGED <<cont, lock, d, faults, decayed, reverted, zombies>>
      BY <2>4 DEF vars, histVars
    <3>2. QED
      BY <2>1, <3>1 DEF Placed, Clean, Agreed, Passed, InPlace, Svc, getServiceContainers
  <2>5. QED
    BY <2>1, <2>2, <2>3, <2>4 DEF Next
<1>3. Spec => [](\A s \in Services, image \in Images : Placed(s, image))
  BY <1>1, <1>2, RolloutInvariant, PTL DEF Spec
<1>4. RolloutInv /\ (\A s \in Services, image \in Images : Placed(s, image)) => ConvergeInv
  BY DEF ConvergeInv
<1>5. QED
  BY <1>3, <1>4, RolloutInvariant, PTL

(* When all deployments that ran succeeded, without a fault and for one    *)
(* image, every service has exactly its replicas, of that image, serving:  *)
(* for every number of deployments that overlapped.                        *)
THEOREM DeploymentsConverge == Spec => []Converges
<1>1. ConvergeInv => Converges
  <2>1. SUFFICES ASSUME ConvergeInv, Finished, faults = 0, \A p \in Deploys : d[p].pc # "failed",
                        NEW p \in Deploys, d[p].pc = "done", \A q \in Deploys : Target[q] = Target[p],
                        NEW s \in Services
                 PROVE  InPlace(s, Target[p])
    BY DEF Converges, InPlace
  <2>2. Clean /\ \A q \in Deploys : d[q].pc \notin Rolling
    BY <2>1 DEF Clean, Finished, Failing, Undoing, Rolling
  <2>3. PICK image : image = Target[p]
    OBVIOUS
  <2>4. image \in Images /\ Agreed(image)
    BY <2>1, <2>3, RolloutAssumption DEF Images, Agreed
  <2>5. Passed(p, s)
    BY <2>1 DEF Passed
  <2>6. InPlace(s, image)
    BY <2>1, <2>2, <2>4, <2>5 DEF ConvergeInv, Placed
  <2>7. QED
    BY <2>3, <2>6
<1>2. QED
  BY <1>1, ConvergeInvariant, PTL

-----------------------------------------------------------------------------
(* The rollback of a deployment that failed. *)

\* Only p has run, and without a fault.
Alone(p) == faults = 0 /\ \A q \in Deploys \ {p} : d[q].pc = "idle"
WithImage(s, image) == {c \in getServiceContainers(s) : cont[c].image = image}
OfImage(T, image) == {t \in T : t[2] = image}

\* What a rollback has to do with the service it is at.
AtService(e, s) ==
  /\ e.pc = "undoRemove" => e.replace = getServiceContainers(s) /\ e.todo = e.snap[s].was
  /\ e.pc = "undoCreate" => \A image \in Images :
       Cardinality(WithImage(s, image)) + Cardinality(OfImage(e.todo, image))
         = Cardinality(OfImage(e.snap[s].was, image))

RestoreOK(p) ==
  Alone(p) =>
    /\ AtService(d[p], Svc(p))
    /\ \A s \in reverted : \/ d[p].pc \in {"undoRemove", "undoCreate"} /\ Svc(p) = s
                           \/ AsCaptured(p, s)

RestoreInv == ControlInv /\ \A p \in Deploys : RestoreOK(p)

LEMMA CapturedIs ==
  ASSUME NEW p, NEW s
  PROVE  AsCaptured(p, s) <=> \A image \in Images :
           Cardinality(WithImage(s, image)) = Cardinality(OfImage(d[p].snap[s].was, image))
BY DEF AsCaptured, WithImage, OfImage

\* A service that is left alone.
LEMMA CapturedFrame ==
  ASSUME NEW p, NEW s, AsCaptured(p, s), d'[p].snap = d[p].snap,
         getServiceContainers(s)' = getServiceContainers(s),
         \A c \in getServiceContainers(s) : cont'[c] = cont[c]
  PROVE  AsCaptured(p, s)'
BY DEF AsCaptured

LEMMA TodoCounts ==
  ASSUME NEW T, T \subseteq Ids \X Images
  PROVE  IsFiniteSet(T) /\ Cardinality(T) \in Nat
<1>1. IsFiniteSet(Images)
  <2>1. IsFiniteSet({"old"}) /\ Images = {"old"} \cup {"new"}
    BY FS_Singleton DEF Images
  <2>2. PICK S : S = {"old"}
    OBVIOUS
  <2>3. IsFiniteSet(S \cup {"new"})
    BY <2>1, <2>2, FS_AddElement
  <2>4. QED
    BY <2>1, <2>2, <2>3
<1>2. IsFiniteSet(Ids \X Images)
  BY <1>1, IdsFinite, FS_Product
<1>3. QED
  BY <1>2, FS_Subset, FS_CardinalityType

\* While nothing has failed, nothing is reverted.
LEMMA NothingReverted ==
  ASSUME ControlInv, NEW p \in Deploys, Alone(p), d[p].pc \notin Failing
  PROVE  reverted = {}
BY DEF ControlInv, Histories, Alone, Failing, Undoing

\* The same for the next state, from the values there.
LEMMA RestoreNext ==
  ASSUME NEW p, NEW f, f = d'[p], NEW s, Alone(p)' => Order[f.i] = s /\ AtService(f, s)',
         Alone(p)' => \A t \in reverted' : \/ f.pc \in {"undoRemove", "undoCreate"} /\ s = t
                                           \/ AsCaptured(p, t)'
  PROVE  RestoreOK(p)'
<1>1. SUFFICES ASSUME Alone(p)'
               PROVE  /\ AtService(d[p], Svc(p))'
                      /\ \A t \in reverted' : \/ f.pc \in {"undoRemove", "undoCreate"} /\ Svc(p)' = t
                                              \/ AsCaptured(p, t)'
  BY DEF RestoreOK
<1>2. Svc(p)' = s
  BY <1>1 DEF Svc
<1>3. AtService(d[p], Svc(p))'
  BY <1>1, <1>2 DEF AtService, WithImage, getServiceContainers
<1>4. QED
  BY <1>1, <1>2, <1>3

\* Everything that was reverted is as captured, and no rollback is under way.
LEMMA RestoreRests ==
  ASSUME NEW p, d'[p].pc \notin {"undoRemove", "undoCreate"},
         Alone(p)' => \A t \in reverted' : AsCaptured(p, t)'
  PROVE  RestoreOK(p)'
<1>1. PICK f, s : f = d'[p] /\ s = Order[f.i]
  OBVIOUS
<1>2. AtService(f, s)'
  BY <1>1 DEF AtService
<1>3. QED
  BY <1>1, <1>2, RestoreNext

\* No service is touched.
LEMMA RestoreStill ==
  ASSUME NEW p, Alone(p), RestoreOK(p), d[p].pc \notin {"undoRemove", "undoCreate"},
         d'[p].snap = d[p].snap, cont' = cont
  PROVE  \A t \in reverted : AsCaptured(p, t)'
<1>1. TAKE t \in reverted
<1>2. AsCaptured(p, t)
  BY DEF RestoreOK
<1>3. getServiceContainers(t)' = getServiceContainers(t)
  BY DEF getServiceContainers
<1>4. QED
  BY <1>2, <1>3, CapturedFrame

LEMMA UndoSkipsRestores ==
  ASSUME ControlInv, NEW p \in Deploys, Alone(p), RestoreOK(p), UndoSkips(p) \/ UndoFinished(p)
  PROVE  RestoreOK(p)'
<1>1. /\ d[p].pc = "undo" /\ cont' = cont /\ reverted' = reverted
  BY DEF UndoSkips, UndoFinished, At, histVars
<1>2. d'[p].snap = d[p].snap /\ d'[p].pc \in {"undo", "failed"}
  <2>1. d \in [Deploys -> Deployment] /\ d[p] \in Deployment
    BY Basics
  <2>2. CASE UndoSkips(p)
    <3>1. d'[p] = [d[p] EXCEPT !.pc = "undo", !.i = @ - 1, !.replace = {}, !.todo = {}]
      BY <2>1, <2>2 DEF UndoSkips, Undone, Become
    <3>2. QED
      BY <2>1, <3>1 DEF Deployment
  <2>3. CASE UndoFinished(p)
    <3>1. d'[p] = [d[p] EXCEPT !.pc = "failed"]
      BY <2>1, <2>3 DEF UndoFinished, Goto, Become
    <3>2. QED
      BY <2>1, <3>1 DEF Deployment
  <2>4. QED
    BY <2>2, <2>3
<1>3. QED
  BY <1>1, <1>2, RestoreStill, RestoreRests

LEMMA UndoListRestores ==
  ASSUME ControlInv, NEW p \in Deploys, Alone(p), RestoreOK(p), UndoList(p)
  PROVE  RestoreOK(p)'
<1>1. /\ d[p].pc = "undo" /\ d[p].i > 0 /\ cont' = cont /\ reverted' = reverted \cup {Svc(p)}
  BY DEF UndoList, At
<1>2. PICK s, f : s = Svc(p) /\ f = d'[p]
  OBVIOUS
<1>3. /\ f.pc = "undoRemove" /\ f.replace = getServiceContainers(s) /\ f.todo = d[p].snap[s].was
      /\ f.snap = d[p].snap /\ f.i = d[p].i
  <2>1. d \in [Deploys -> Deployment] /\ d[p] \in Deployment
    BY Basics
  <2>2. f = [d[p] EXCEPT !.pc = "undoRemove", !.replace = getServiceContainers(s),
                         !.todo = d[p].snap[s].was]
    BY <1>2, <2>1 DEF UndoList, Become
  <2>3. QED
    BY <2>1, <2>2 DEF Deployment
<1>4. getServiceContainers(s)' = getServiceContainers(s)
  BY <1>1 DEF getServiceContainers
<1>5. AtService(f, s)'
  BY <1>3, <1>4 DEF AtService
<1>6. \A t \in reverted : AsCaptured(p, t)'
  BY <1>1, <1>2, <1>3, RestoreStill
<1>7. Order[f.i] = s
  BY <1>2, <1>3 DEF Svc
<1>8. QED
  BY <1>1, <1>2, <1>3, <1>5, <1>6, <1>7, RestoreNext

\* The services a rollback is not at.
LEMMA RestoreOthers ==
  ASSUME NEW p, Alone(p), RestoreOK(p), NEW s, s = Svc(p), cont' = cont \/ Touches(s),
         d'[p].snap = d[p].snap
  PROVE  \A t \in reverted \ {s} : AsCaptured(p, t)'
<1>1. TAKE t \in reverted \ {s}
<1>2. AsCaptured(p, t)
  BY DEF RestoreOK
<1>3. /\ getServiceContainers(t)' = getServiceContainers(t)
      /\ \A c \in getServiceContainers(t) : cont'[c] = cont[c]
  <2>1. CASE cont' = cont
    BY <2>1 DEF getServiceContainers
  <2>2. CASE Touches(s)
    BY <2>2, Elsewhere
  <2>3. QED
    BY <2>1, <2>2
<1>4. QED
  BY <1>2, <1>3, CapturedFrame

LEMMA UndoRemoveRestores ==
  ASSUME ControlInv, NEW p \in Deploys, Alone(p), RestoreOK(p), UndoRemove(p), faults' = 0
  PROVE  RestoreOK(p)'
<1>1. /\ d[p].pc = "undoRemove" /\ reverted' = reverted /\ ~CallFails(p)
  BY UndoRemoveFacts, FaultCounts
<1>2. PICK s, e, f : s = Svc(p) /\ e = d[p] /\ f = d'[p]
  OBVIOUS
<1>3. e.replace = getServiceContainers(s) /\ e.todo = e.snap[s].was /\ Order[e.i] = s
  BY <1>1, <1>2 DEF RestoreOK, AtService, Svc
<1>4. d \in [Deploys -> Deployment] /\ e \in Deployment
  BY <1>2, Basics
<1>5. \A c \in e.replace : cont[c].up # "gone"
  BY <1>3 DEF getServiceContainers
<1>6. CASE \E c \in d[p].replace :
                 /\ c \in Ids /\ cont[c].of = Svc(p)
                 /\ cont'[c].of = Svc(p) /\ cont'[c].up = "gone"
                 /\ \A b \in Ids \ {c} : cont'[b] = cont[b]
                 /\ Become(p, [d[p] EXCEPT !.replace = @ \ {c}])
  <2>1. PICK c \in d[p].replace :
                 /\ c \in Ids /\ cont[c].of = Svc(p)
                 /\ cont'[c].of = Svc(p) /\ cont'[c].up = "gone"
                 /\ \A b \in Ids \ {c} : cont'[b] = cont[b]
                 /\ Become(p, [d[p] EXCEPT !.replace = @ \ {c}])
    BY <1>6
  <2>2. f = [e EXCEPT !.replace = @ \ {c}]
    BY <1>2, <1>4, <2>1 DEF Become
  <2>3. /\ f.pc = "undoRemove" /\ f.i = e.i /\ f.snap = e.snap /\ f.todo = e.todo
        /\ f.replace = e.replace \ {c}
    BY <1>1, <1>2, <1>4, <2>2 DEF Deployment
  <2>4. getServiceContainers(s)' = getServiceContainers(s) \ {c}
    BY <2>1 DEF getServiceContainers
  <2>5. AtService(f, s)'
    BY <1>3, <2>3, <2>4 DEF AtService
  <2>6. \A t \in reverted \ {s} : AsCaptured(p, t)'
    BY <1>2, <2>3, RestoreOthers, UndoRemoveFacts
  <2>7. QED
    BY <1>1, <1>2, <1>3, <2>3, <2>5, <2>6, RestoreNext
<1>7. CASE d[p].replace = {} /\ Goto(p, "undoCreate") /\ cont' = cont
  <2>1. f = [e EXCEPT !.pc = "undoCreate"]
    BY <1>2, <1>4, <1>7 DEF Goto
  <2>2. f.pc = "undoCreate" /\ f.i = e.i /\ f.snap = e.snap /\ f.todo = e.todo
    BY <1>4, <2>1 DEF Deployment
  <2>3. getServiceContainers(s)' = {}
    BY <1>2, <1>3, <1>7 DEF getServiceContainers
  <2>4. AtService(f, s)'
    <3>1. SUFFICES ASSUME NEW image \in Images
                   PROVE  Cardinality(WithImage(s, image)') + Cardinality(OfImage(f.todo, image))
                            = Cardinality(OfImage(f.snap[s].was, image))
      BY <2>2 DEF AtService
    <3>2. WithImage(s, image)' = {}
      BY <2>3 DEF WithImage
    <3>3. Cardinality(WithImage(s, image)') = 0
      BY <3>2, FS_EmptySet, Zenon
    <3>4. Cardinality(OfImage(f.todo, image)) \in Nat
      <4>1. e.todo \subseteq Ids \X Images
        BY <1>2, Basics
      <4>2. PICK T : T = OfImage(f.todo, image)
        OBVIOUS
      <4>3. T \subseteq Ids \X Images
        BY <2>2, <4>1, <4>2 DEF OfImage
      <4>4. QED
        BY <4>2, <4>3, TodoCounts
    <3>5. f.todo = f.snap[s].was
      BY <1>3, <2>2
    <3>6. QED
      BY <3>3, <3>4, <3>5
  <2>5. \A t \in reverted \ {s} : AsCaptured(p, t)'
    BY <1>2, <2>2, RestoreOthers, UndoRemoveFacts
  <2>6. QED
    BY <1>1, <1>2, <1>3, <2>2, <2>4, <2>5, RestoreNext
<1>8. QED
  BY <1>1, <1>2, <1>5, <1>6, <1>7, UndoRemoveFacts

LEMMA UndoCreateRestores ==
  ASSUME ControlInv, NEW p \in Deploys, Alone(p), RestoreOK(p), UndoCreate(p), faults' = 0
  PROVE  RestoreOK(p)'
<1>1. /\ d[p].pc = "undoCreate" /\ reverted' = reverted /\ ~CallFails(p)
  BY UndoCreateFacts, FaultCounts
<1>2. PICK s, e, f : s = Svc(p) /\ e = d[p] /\ f = d'[p]
  OBVIOUS
<1>3. Order[e.i] = s /\ e.pc = "undoCreate" /\ \A image \in Images :
        Cardinality(WithImage(s, image)) + Cardinality(OfImage(e.todo, image))
          = Cardinality(OfImage(e.snap[s].was, image))
  BY <1>1, <1>2 DEF RestoreOK, AtService, Svc
<1>4. d \in [Deploys -> Deployment] /\ e \in Deployment /\ e.todo \subseteq Ids \X Images
  BY <1>2, Basics
<1>5. ASSUME NEW image, NEW S, S = WithImage(s, image), NEW T, T = OfImage(e.todo, image)
      PROVE  /\ S \subseteq Ids /\ IsFiniteSet(S) /\ Cardinality(S) \in Nat
             /\ T \subseteq e.todo /\ IsFiniteSet(T) /\ Cardinality(T) \in Nat
  <2>1. S \subseteq Ids /\ T \subseteq e.todo /\ T \subseteq Ids \X Images
    BY <1>4, <1>5 DEF WithImage, getServiceContainers, OfImage
  <2>2. QED
    BY <2>1, Counts, TodoCounts
<1>6. CASE \E t \in d[p].todo, c \in Ids :
                 /\ cont[c].up = "never" /\ t[2] \in Images
                 /\ cont'[c] = [of |-> Svc(p), image |-> t[2], up |-> "starting"]
                 /\ \A b \in Ids \ {c} : cont'[b] = cont[b]
                 /\ Become(p, [d[p] EXCEPT !.todo = @ \ {t}])
  <2>1. PICK t \in d[p].todo, c \in Ids :
                 /\ cont[c].up = "never" /\ t[2] \in Images
                 /\ cont'[c] = [of |-> Svc(p), image |-> t[2], up |-> "starting"]
                 /\ \A b \in Ids \ {c} : cont'[b] = cont[b]
                 /\ Become(p, [d[p] EXCEPT !.todo = @ \ {t}])
    BY <1>6
  <2>2. f = [e EXCEPT !.todo = @ \ {t}]
    BY <1>2, <1>4, <2>1 DEF Become
  <2>3. f.pc = "undoCreate" /\ f.i = e.i /\ f.snap = e.snap /\ f.todo = e.todo \ {t}
    BY <1>3, <1>4, <2>2 DEF Deployment
  <2>4. /\ cont'[c].of = s /\ cont'[c].image = t[2] /\ cont'[c].up = "starting"
        /\ t \in e.todo /\ c \in Ids /\ cont[c].up = "never"
    BY <1>2, <2>1
  <2>5. getServiceContainers(s)' = getServiceContainers(s) \cup {c} /\ c \notin getServiceContainers(s)
    BY <2>1, <2>4 DEF getServiceContainers
  <2>6. AtService(f, s)'
    <3>1. SUFFICES ASSUME NEW image \in Images
                   PROVE  Cardinality(WithImage(s, image)') + Cardinality(OfImage(f.todo, image))
                            = Cardinality(OfImage(f.snap[s].was, image))
      BY <2>3 DEF AtService
    <3>2. PICK S, S1, T, T1 : /\ S = WithImage(s, image) /\ S1 = WithImage(s, image)'
                              /\ T = OfImage(e.todo, image) /\ T1 = OfImage(f.todo, image)
      OBVIOUS
    <3>3. /\ S \subseteq Ids /\ IsFiniteSet(S) /\ Cardinality(S) \in Nat
          /\ T \subseteq e.todo /\ IsFiniteSet(T) /\ Cardinality(T) \in Nat
      BY <1>5, <3>2
    <3>4. Cardinality(S) + Cardinality(T) = Cardinality(OfImage(f.snap[s].was, image))
      BY <1>3, <2>3, <3>2
    <3>5. CASE image = t[2]
      <4>1. S1 = S \cup {c} /\ c \notin S
        BY <2>1, <2>4, <2>5, <3>2, <3>5 DEF WithImage, getServiceContainers
      <4>2. T1 = T \ {t} /\ t \in T
        BY <2>3, <2>4, <3>2, <3>5 DEF OfImage
      <4>3. Cardinality(S1) = Cardinality(S) + 1
        BY <2>4, <3>3, <4>1, CountsAdd
      <4>4. Cardinality(T1) = Cardinality(T) - 1
        BY <3>3, <4>2, FS_RemoveElement
      <4>5. QED
        BY <3>2, <3>3, <3>4, <4>3, <4>4
    <3>6. CASE image # t[2]
      <4>1. S1 = S
        BY <2>1, <2>4, <2>5, <3>2, <3>6 DEF WithImage, getServiceContainers
      <4>2. T1 = T
        BY <2>3, <2>4, <3>2, <3>6 DEF OfImage
      <4>3. QED
        BY <3>2, <3>4, <4>1, <4>2
    <3>7. QED
      BY <3>5, <3>6
  <2>7. \A u \in reverted \ {s} : AsCaptured(p, u)'
    BY <1>2, <2>3, RestoreOthers, UndoCreateFacts
  <2>8. QED
    BY <1>1, <1>2, <1>3, <2>3, <2>6, <2>7, RestoreNext
<1>7. CASE d[p].todo = {} /\ Become(p, Undone(p)) /\ UNCHANGED <<cont, faults>>
  <2>1. f = [e EXCEPT !.pc = "undo", !.i = @ - 1, !.replace = {}, !.todo = {}]
    BY <1>2, <1>4, <1>7 DEF Become, Undone
  <2>2. f.pc = "undo" /\ f.snap = e.snap
    BY <1>4, <2>1 DEF Deployment
  <2>3. AsCaptured(p, s)
    <3>1. SUFFICES ASSUME NEW image \in Images
                   PROVE  Cardinality(WithImage(s, image)) = Cardinality(OfImage(d[p].snap[s].was, image))
      BY CapturedIs
    <3>2. PICK S, T : S = WithImage(s, image) /\ T = OfImage(e.todo, image)
      OBVIOUS
    <3>3. T = {}
      BY <1>2, <1>7, <3>2 DEF OfImage
    <3>4. Cardinality(T) = 0
      BY <3>3, FS_EmptySet, Zenon
    <3>5. Cardinality(S) \in Nat
      BY <1>5, <3>2
    <3>6. Cardinality(S) + Cardinality(T) = Cardinality(OfImage(e.snap[s].was, image))
      BY <1>3, <3>2
    <3>7. QED
      BY <1>2, <3>2, <3>4, <3>5, <3>6
  <2>4. AsCaptured(p, s)'
    <3>1. getServiceContainers(s)' = getServiceContainers(s)
      BY <1>7 DEF getServiceContainers
    <3>2. QED
      BY <1>2, <1>7, <2>2, <2>3, <3>1, CapturedFrame
  <2>5. \A t \in reverted \ {s} : AsCaptured(p, t)'
    BY <1>2, <2>2, RestoreOthers, UndoCreateFacts
  <2>6. QED
    BY <1>1, <1>2, <2>2, <2>4, <2>5, RestoreRests
<1>8. QED
  BY <1>1, <1>6, <1>7, UndoCreateFacts

LEMMA RestoreStep ==
  ASSUME RestoreInv, NEW p \in Deploys, NEW r \in Deploys, ExecuteDeploy(r)
  PROVE  RestoreOK(p)'
<1>1. SUFFICES ASSUME Alone(p)' PROVE RestoreOK(p)'
  BY DEF RestoreOK
<1>2. ControlInv /\ RestoreOK(p)
  BY DEF RestoreInv
<1>3. PICK g : Shared(r) /\ Moves(r, g)
  BY <1>2, EveryStep
<1>4. d'[r] = g /\ \A q \in Deploys \ {r} : d'[q] = d[q]
  BY <1>2, <1>3, Basics DEF Moves
<1>5. r = p
  BY <1>1, <1>3, <1>4 DEF Alone, Moves
<1>6. Alone(p) /\ faults' = 0
  BY <1>1, <1>3, <1>4, <1>5 DEF Alone, Shared
<1>7. CASE d[p].pc \notin Failing
  <2>1. reverted = {}
    BY <1>2, <1>6, <1>7, NothingReverted
  <2>2. g.pc \notin {"undoRemove", "undoCreate"} /\ reverted' = reverted
    BY <1>3, <1>5, <1>7 DEF Moves, Failing
  <2>3. QED
    BY <1>4, <1>5, <2>1, <2>2, RestoreRests
<1>8. CASE d[p].pc \in Failing
  <2>1. ~Cancel(p)
    BY <1>2, <1>6, FaultCounts DEF Cancel
  <2>2. UndoFinished(p) \/ UndoSkips(p) \/ UndoList(p) \/ UndoRemove(p) \/ UndoCreate(p)
    <3>1. d[p].pc \in {"undo", "undoRemove", "undoCreate", "failed"}
      BY <1>8 DEF Failing, Undoing
    <3>2. ~Begin(p) /\ ~Capture(p) /\ ~Prepare(p) /\ ~BindMountRefused(p)
      BY <3>1 DEF Begin, Capture, Prepare, BindMountRefused, At
    <3>3. ~LockService(p) /\ ~DeployRefused(p) /\ ~Partition(p) /\ ~Create(p) /\ ~CreateFails(p)
      BY <3>1 DEF LockService, DeployRefused, Partition, Create, CreateFails, At
    <3>4. ~HealthOk(p) /\ ~HealthAssumed(p) /\ ~HealthFails(p) /\ ~Swap(p)
          /\ ~RemoveLeftover(p) /\ ~ServiceDone(p)
      BY <3>1 DEF HealthOk, HealthAssumed, HealthFails, Swap, RemoveLeftover, ServiceDone, At
    <3>5. QED
      BY <1>5, <2>1, <3>2, <3>3, <3>4 DEF ExecuteDeploy, DeployService, RollbackServices
  <2>3. QED
    BY <1>2, <1>6, <2>2, UndoSkipsRestores, UndoListRestores, UndoRemoveRestores, UndoCreateRestores
<1>9. QED
  BY <1>7, <1>8

(* While only one deployment runs, and nothing fails behind it, a rollback *)
(* removes exactly what the service has and creates what was captured.     *)
THEOREM RestoreInvariant == Spec => []RestoreInv
<1>1. Init => RestoreInv
  <2>1. Init => \A p \in Deploys : RestoreOK(p)
    BY DEF Init, Idle, RestoreOK, AtService
  <2>2. QED
    BY <2>1, InitControl DEF RestoreInv
<1>2. RestoreInv /\ [Next]_vars => RestoreInv'
  <2>1. SUFFICES ASSUME RestoreInv, [Next]_vars PROVE RestoreInv'
    OBVIOUS
  <2>2. ASSUME NEW r \in Deploys, ExecuteDeploy(r) PROVE RestoreInv'
    <3>1. ControlInv'
      BY <2>1, <2>2, EveryStep, StepKeepsControl DEF RestoreInv
    <3>2. \A p \in Deploys : RestoreOK(p)'
      BY <2>1, <2>2, RestoreStep
    <3>3. QED
      BY <3>1, <3>2 DEF RestoreInv
  <2>3. ASSUME NEW c \in Ids, Decay(c) PROVE RestoreInv'
    BY <2>1, <2>3, DecayKeepsControl DEF RestoreInv, RestoreOK, Alone
  <2>4. CASE UNCHANGED vars
    <3>1. UNCHANGED <<cont, lock, d, faults, decayed, reverted, zombies>>
      BY <2>4 DEF vars, histVars
    <3>2. \A p \in Deploys : RestoreOK(p)'
      BY <2>1, <3>1 DEF RestoreInv, RestoreOK, Alone, AtService, AsCaptured, WithImage, Svc,
         getServiceContainers
    <3>3. QED
      BY <2>1, <2>4, <3>2, ControlStutter DEF RestoreInv
  <2>5. QED
    BY <2>1, <2>2, <2>3, <2>4 DEF Next
<1>3. QED
  BY <1>1, <1>2, PTL DEF Spec

-----------------------------------------------------------------------------
(* The services deployed before the one that failed. *)

\* How many of the services deployment e is done with, as long as it matters.
Behind(e) ==
  IF e.pc \in Failing THEN e.fell - 1
  ELSE IF e.pc \in {"service"} \cup Locked THEN e.i - 1 ELSE 0

\* Of these, one without containers before has its new ones, and any other one
\* has been reverted once the rollback is past it.
EarlierOK(p) ==
  /\ d[p].pc \in {"undoRemove", "undoCreate"} => d[p].snap[Svc(p)].was # {}
  /\ d[p].pc \notin Failing => d[p].fell = 0
  /\ Alone(p) => \A k \in 1..Behind(d[p]) :
       IF d[p].snap[Order[k]].was = {} THEN UpdatedTo(p, Order[k])
       ELSE d[p].pc \in Failing /\ (d[p].pc = "failed" \/ k > d[p].i) => Order[k] \in reverted

EarlierInv == RolloutInv /\ \A p \in Deploys : EarlierOK(p)

\* A service that is left alone.
LEMMA UpdatedFrame ==
  ASSUME NEW p, NEW s, UpdatedTo(p, s), NEW t, cont' = cont \/ (Touches(t) /\ t # s)
  PROVE  UpdatedTo(p, s)'
<1>1. /\ getServiceContainers(s)' = getServiceContainers(s)
      /\ \A c \in getServiceContainers(s) : cont'[c] = cont[c]
  <2>1. CASE cont' = cont
    BY <2>1 DEF getServiceContainers
  <2>2. CASE Touches(t) /\ t # s
    BY <2>2, Elsewhere
  <2>3. QED
    BY <2>1, <2>2
<1>2. QED
  BY <1>1 DEF UpdatedTo

\* Where the captured state and the position of the failure change.
LEMMA Course ==
  ASSUME ControlInv, NEW p \in Deploys, ExecuteDeploy(p), NEW e, e = d[p], NEW f, f = d'[p]
  PROVE  /\ e.pc = "capture" \/ f.pc = "done" \/ f.snap = e.snap
         /\ \/ f.fell = e.fell
            \/ f.pc = "done" /\ f.fell = 0
            \/ e.pc \in Locked /\ f.pc = "undo" /\ f.fell = e.i /\ f.i = e.i - 1
<1>0. d \in [Deploys -> Deployment] /\ e \in Deployment
  BY Basics
<1>1. \A label : Goto(p, label) => f.snap = e.snap /\ f.fell = e.fell
  BY <1>0 DEF Goto, Deployment
<1>2. \A new : Fail(p, new) =>
        f.snap = e.snap /\ f.pc = "undo" /\ f.fell = e.i /\ f.i = e.i - 1
  BY <1>0 DEF Fail, Become, Deployment
<1>3. Become(p, Undone(p)) => f.snap = e.snap /\ f.fell = e.fell
  BY <1>0 DEF Undone, Become, Deployment
<1>4. CASE Begin(p)
  <2>1. \A b : Become(p, [d[p] EXCEPT !.pc = "capture", !.i = 1, !.recreate = b])
                 => f.snap = e.snap /\ f.fell = e.fell
    BY <1>0 DEF Become, Deployment
  <2>2. QED
    BY <1>1, <1>4, <2>1 DEF Begin
<1>5. CASE Capture(p)
  BY <1>0, <1>5 DEF Capture, At, Become, Deployment
<1>6. CASE Prepare(p) \/ BindMountRefused(p) \/ UndoFinished(p) \/ LockService(p) \/ HealthOk(p)
           \/ HealthAssumed(p)
  BY <1>1, <1>6 DEF Prepare, BindMountRefused, UndoFinished, LockService, HealthOk, HealthAssumed
<1>7. CASE DeployRefused(p) \/ CreateFails(p) \/ HealthFails(p)
  BY <1>2, <1>7 DEF DeployRefused, CreateFails, HealthFails, At, Locked, Rolling
<1>8. CASE ServiceDone(p)
  BY <1>0, <1>8 DEF ServiceDone, Become, Idle, Deployment
<1>9. CASE Partition(p)
  <2>1. PICK s, S, n : s = Svc(p) /\ S = getServiceContainers(Svc(p)) /\ n = Replicas[Svc(p)]
    OBVIOUS
  <2>2. PICK keep : Become(p, [d[p] EXCEPT !.pc = "roll", !.keep = keep, !.replace = S \ keep,
                                           !.need = n - Cardinality(keep),
                                           !.before = Cardinality(Serving(s)),
                                           !.found = Cardinality(S)])
    BY <1>9, <2>1, Zenon DEF Partition
  <2>3. QED
    BY <1>0, <2>2 DEF Become, Deployment
<1>10. CASE Create(p)
  <2>1. \E c \in Ids : f = [e EXCEPT !.pc = "health", !.new = c]
    BY <1>0, <1>10 DEF Create, Become
  <2>2. QED
    BY <1>0, <2>1 DEF Deployment
<1>11. CASE Swap(p)
  <2>1. \A c : Become(p, [d[p] EXCEPT !.pc = "roll", !.need = @ - 1, !.new = None, !.replace = @ \ {c}])
                 => f.snap = e.snap /\ f.fell = e.fell
    BY <1>0 DEF Become, Deployment
  <2>2. \E c : Become(p, [d[p] EXCEPT !.pc = "roll", !.need = @ - 1, !.new = None, !.replace = @ \ {c}])
    BY <1>11, Zenon DEF Swap
  <2>3. QED
    BY <2>1, <2>2
<1>12. CASE RemoveLeftover(p)
  BY <1>0, <1>12 DEF RemoveLeftover, Become, Deployment
<1>13. CASE Cancel(p)
  BY <1>0, <1>13 DEF Cancel, Become, Deployment
<1>14. CASE UndoSkips(p)
  BY <1>3, <1>14 DEF UndoSkips
<1>15. CASE UndoList(p)
  BY <1>0, <1>15 DEF UndoList, Become, Deployment
<1>16. CASE UndoRemove(p)
  <2>1. \A c : Become(p, [d[p] EXCEPT !.replace = @ \ {c}]) => f.snap = e.snap /\ f.fell = e.fell
    BY <1>0 DEF Become, Deployment
  <2>2. QED
    BY <1>1, <1>3, <1>16, <2>1, UndoRemoveFacts
<1>17. CASE UndoCreate(p)
  <2>1. \A t : Become(p, [d[p] EXCEPT !.todo = @ \ {t}]) => f.snap = e.snap /\ f.fell = e.fell
    BY <1>0 DEF Become, Deployment
  <2>2. QED
    BY <1>3, <1>17, <2>1, UndoCreateFacts
<1>18. QED
  BY <1>4, <1>5, <1>6, <1>7, <1>8, <1>9, <1>10, <1>11, <1>12, <1>13, <1>14, <1>15, <1>16, <1>17
  DEF ExecuteDeploy, DeployService, RollbackServices

\* How a rollback goes on.
LEMMA Backwards ==
  ASSUME ControlInv, NEW p \in Deploys, ExecuteDeploy(p), NEW e, e = d[p], NEW f, f = d'[p],
         e.pc \in Failing
  PROVE  \/ e.pc = "undo" /\ e.i = 0 /\ f.pc = "failed"
         \/ f.pc = e.pc /\ f.i = e.i /\ f.pc # "failed"
         \/ e.pc = "undoRemove" /\ f.pc = "undoCreate" /\ f.i = e.i
         \/ e.pc = "undo" /\ f.pc = "undoRemove" /\ f.i = e.i /\ e.snap[Svc(p)].was # {}
         \/ /\ f.pc = "undo" /\ f.i = e.i - 1
            /\ \/ e.pc \in {"undoRemove", "undoCreate"}
               \/ faults' # 0
               \/ e.snap[Svc(p)].was = {}
<1>0. d \in [Deploys -> Deployment] /\ e \in Deployment
  BY Basics
<1>1. \A label : Goto(p, label) => f.pc = label /\ f.i = e.i
  BY <1>0 DEF Goto, Deployment
<1>2. Become(p, Undone(p)) => f.pc = "undo" /\ f.i = e.i - 1
  BY <1>0 DEF Undone, Become, Deployment
<1>3. CASE Cancel(p)
  BY <1>0, <1>3 DEF Cancel, Become, Deployment
<1>4. CASE UndoFinished(p)
  BY <1>1, <1>4 DEF UndoFinished, At
<1>5. CASE UndoSkips(p)
  BY <1>2, <1>5, FaultCounts DEF UndoSkips
<1>6. CASE UndoList(p)
  BY <1>0, <1>6 DEF UndoList, At, Become, Deployment
<1>7. CASE UndoRemove(p)
  <2>1. \A c : Become(p, [d[p] EXCEPT !.replace = @ \ {c}]) => f.pc = e.pc /\ f.i = e.i
    BY <1>0 DEF Become, Deployment
  <2>2. QED
    BY <1>1, <1>2, <1>7, <2>1, UndoRemoveFacts
<1>8. CASE UndoCreate(p)
  <2>1. \A t : Become(p, [d[p] EXCEPT !.todo = @ \ {t}]) => f.pc = e.pc /\ f.i = e.i
    BY <1>0 DEF Become, Deployment
  <2>2. QED
    BY <1>2, <1>8, <2>1, UndoCreateFacts
<1>9. Cancel(p) \/ UndoFinished(p) \/ UndoSkips(p) \/ UndoList(p) \/ UndoRemove(p) \/ UndoCreate(p)
  <2>1. e.pc \in {"undo", "undoRemove", "undoCreate", "failed"}
    BY DEF Failing, Undoing
  <2>2. ~Begin(p) /\ ~Capture(p) /\ ~Prepare(p) /\ ~BindMountRefused(p)
    BY <2>1 DEF Begin, Capture, Prepare, BindMountRefused, At
  <2>3. ~LockService(p) /\ ~DeployRefused(p) /\ ~Partition(p) /\ ~Create(p) /\ ~CreateFails(p)
    BY <2>1 DEF LockService, DeployRefused, Partition, Create, CreateFails, At
  <2>4. ~HealthOk(p) /\ ~HealthAssumed(p) /\ ~HealthFails(p) /\ ~Swap(p)
        /\ ~RemoveLeftover(p) /\ ~ServiceDone(p)
    BY <2>1 DEF HealthOk, HealthAssumed, HealthFails, Swap, RemoveLeftover, ServiceDone, At
  <2>5. QED
    BY <2>2, <2>3, <2>4 DEF ExecuteDeploy, DeployService, RollbackServices
<1>10. QED
  BY <1>3, <1>4, <1>5, <1>6, <1>7, <1>8, <1>9

\* A step of p, from deploying or rolling back what comes after.
LEMMA EarlierOwn ==
  ASSUME EarlierInv, NEW p \in Deploys, ExecuteDeploy(p), Alone(p)', NEW e, e = d[p],
         NEW f, f = d'[p], NEW k \in 1..Behind(f)
  PROVE  IF f.snap[Order[k]].was = {} THEN UpdatedTo(p, Order[k])'
         ELSE f.pc \in Failing /\ (f.pc = "failed" \/ k > f.i) => Order[k] \in reverted'
<1>0. /\ ControlInv /\ RolloutInv /\ EarlierOK(p)
  BY DEF EarlierInv, RolloutInv
<1>1. PICK g : Shared(p) /\ Moves(p, g)
  BY <1>0, EveryStep
<1>2. /\ f = g /\ \A q \in Deploys \ {p} : d'[q] = d[q]
  BY <1>0, <1>1, Basics DEF Moves
<1>3. Alone(p) /\ faults' = 0 /\ reverted \subseteq reverted'
  BY <1>1, <1>2 DEF Alone, Shared
<1>4. /\ e.i \in Nat /\ e.fell \in Nat /\ Len(Order) \in Nat /\ Control(p) /\ e.pc \in PC
      /\ f.i \in Nat /\ f.fell \in 0..Len(Order) /\ f.i \in 0..(Len(Order) + 1)
  <2>1. e.i \in Nat /\ e.fell \in Nat /\ Len(Order) \in Nat /\ Control(p) /\ e.pc \in PC
    BY <1>0, Basics
  <2>2. f \in Deployment
    BY <1>1, <1>2 DEF Moves
  <2>3. QED
    BY <2>1, <2>2 DEF Deployment
<1>5. /\ e.pc = "capture" \/ f.pc = "done" \/ f.snap = e.snap
      /\ \/ f.fell = e.fell
         \/ f.pc = "done" /\ f.fell = 0
         \/ e.pc \in Locked /\ f.pc = "undo" /\ f.fell = e.i /\ f.i = e.i - 1
  BY <1>0, Course
<1>6. \A j \in 1..Behind(e) :
        IF e.snap[Order[j]].was = {} THEN UpdatedTo(p, Order[j])
        ELSE e.pc \in Failing /\ (e.pc = "failed" \/ j > e.i) => Order[j] \in reverted
  BY <1>0, <1>3 DEF EarlierOK
<1>7. cont' = cont \/ (Touches(Svc(p)) /\ e.pc \in Locked \cup {"undoRemove", "undoCreate"})
  BY <1>1 DEF Shared
<1>8. \A j \in 1..(e.i - 1) : e.pc \in Locked => Order[j] # Svc(p)
  <2>1. SUFFICES ASSUME NEW j \in 1..(e.i - 1), e.pc \in Locked PROVE Order[j] # Svc(p)
    OBVIOUS
  <2>2. e.i \in 1..Len(Order) /\ Svc(p) = Order[e.i]
    BY <1>0, <2>1, Held
  <2>3. j \in 1..Len(Order) /\ j # e.i
    BY <1>4, <2>2
  <2>4. QED
    BY <2>2, <2>3, RolloutAssumption
<1>9. ASSUME NEW j \in 1..Behind(e), e.pc \notin Failing, f.snap = e.snap, f.pc # "done"
      PROVE  f.snap[Order[j]].was = {} => UpdatedTo(p, Order[j])'
  <2>1. SUFFICES ASSUME f.snap[Order[j]].was = {} PROVE UpdatedTo(p, Order[j])'
    OBVIOUS
  <2>2. UpdatedTo(p, Order[j])
    BY <1>6, <1>9, <2>1
  <2>3. e.pc \in Locked => Order[j] # Svc(p)
    BY <1>8, <1>9 DEF Behind
  <2>4. cont' = cont \/ (Touches(Svc(p)) /\ Svc(p) # Order[j])
    BY <1>7, <1>9, <2>3 DEF Failing, Undoing
  <2>5. QED
    BY <2>2, <2>4, UpdatedFrame
<1>10. CASE f.pc \notin Failing
  <2>0. e.pc \notin Failing
    BY <1>1, <1>2, <1>10 DEF Moves
  <2>1. f.pc \in {"service"} \cup Locked /\ k \in 1..(f.i - 1)
    BY <1>10 DEF Behind
  <2>2. f.pc \notin {"capture", "prepare", "done"}
    BY <2>1 DEF Locked, Rolling
  <2>3. \/ ServiceDone(p)
        \/ e.pc \in {"service"} \cup Locked /\ f.i = e.i
        \/ e.pc = "prepare" /\ e.i = 1 /\ f.i = e.i
    BY <1>0, <1>10, <2>2, Onwards DEF Locked
  <2>4. CASE ServiceDone(p)
    <3>1. e.pc = "roll" /\ f.i = e.i + 1 /\ f.snap = e.snap /\ cont' = cont
      <4>1. e.pc = "roll" /\ cont' = cont
        BY <2>4 DEF ServiceDone, At
      <4>2. CASE e.i = Len(Order)
        <5>1. f.pc = "done"
          BY <1>0, <2>4, <4>2, Basics DEF ServiceDone, Become, Idle
        <5>2. QED
          BY <2>2, <5>1
      <4>3. CASE e.i # Len(Order)
        <5>1. /\ d \in [Deploys -> Deployment] /\ e \in Deployment
              /\ f = [e EXCEPT !.pc = "service", !.i = @ + 1, !.keep = {}, !.before = 0, !.found = 0]
          BY <1>0, <2>4, <4>3, Basics DEF ServiceDone, Become
        <5>2. QED
          BY <4>1, <5>1 DEF Deployment
      <4>4. QED
        BY <4>2, <4>3
    <3>2. CASE k = e.i
      <4>1. Clean
        <5>1. \A q \in Deploys \ {p} : d[q].pc = "idle"
          BY <1>3 DEF Alone
        <5>2. \A q \in Deploys : d[q].pc \notin Failing
          BY <2>0, <5>1 DEF Failing, Undoing
        <5>3. QED
          BY <1>3, <5>2 DEF Clean, Alone
      <4>2. PICK s : s = Svc(p) /\ s = Order[k]
        BY <3>2 DEF Svc
      <4>3. InPlace(s, Target[p])'
        BY <1>0, <2>4, <4>1, <4>2, DoneInPlace
      <4>4. UpdatedTo(p, Order[k])'
        <5>1. UpdatedTo(p, s)'
          BY <4>3 DEF InPlace, UpdatedTo
        <5>2. QED
          BY <4>2, <5>1
      <4>5. QED
        BY <1>10, <4>4
    <3>3. CASE k # e.i
      <4>1. k \in 1..Behind(e)
        BY <1>4, <2>0, <2>1, <3>1, <3>3 DEF Behind, Locked, Rolling
      <4>2. QED
        BY <1>9, <1>10, <2>0, <2>2, <3>1, <4>1
    <3>4. QED
      BY <3>2, <3>3
  <2>5. CASE e.pc \in {"service"} \cup Locked /\ f.i = e.i
    <3>1. k \in 1..Behind(e)
      BY <2>0, <2>1, <2>5 DEF Behind
    <3>2. f.snap = e.snap
      BY <1>5, <2>2, <2>5 DEF Locked, Rolling
    <3>3. QED
      BY <1>9, <1>10, <2>0, <2>2, <3>1, <3>2
  <2>6. QED
    BY <1>4, <2>1, <2>3, <2>4, <2>5
<1>11. CASE f.pc \in Failing /\ e.pc \notin Failing
  <2>1. e.fell = 0 /\ f.pc # "done" /\ Behind(f) = f.fell - 1
    BY <1>0, <1>11 DEF EarlierOK, Failing, Undoing, Behind
  <2>2. e.pc \in Locked /\ f.pc = "undo" /\ f.fell = e.i /\ f.i = e.i - 1
    BY <1>4, <1>5, <2>1
  <2>3. k \in 1..Behind(e) /\ ~(k > f.i) /\ f.snap = e.snap
    BY <1>4, <1>5, <1>11, <2>1, <2>2 DEF Behind, Locked, Rolling
  <2>4. QED
    BY <1>9, <1>11, <2>1, <2>2, <2>3
<1>12. CASE e.pc \in Failing
  <2>1. f.pc \in Failing
    BY <1>1, <1>2, <1>12 DEF Moves
  <2>2. f.snap = e.snap /\ f.fell = e.fell
    BY <1>5, <1>12, <2>1 DEF Failing, Undoing, Locked, Rolling
  <2>3. k \in 1..Behind(e)
    BY <1>12, <2>1, <2>2 DEF Behind
  <2>4. CASE e.snap[Order[k]].was = {}
    <3>1. UpdatedTo(p, Order[k])
      BY <1>6, <2>3, <2>4
    <3>2. e.pc \in {"undoRemove", "undoCreate"} => Order[k] # Svc(p)
      BY <1>0, <2>4 DEF EarlierOK
    <3>3. cont' = cont \/ (Touches(Svc(p)) /\ Svc(p) # Order[k])
      BY <1>7, <1>12, <3>2 DEF Failing, Undoing, Locked, Rolling
    <3>4. QED
      BY <2>2, <2>4, <3>1, <3>3, UpdatedFrame
  <2>5. CASE e.snap[Order[k]].was # {}
    <3>1. SUFFICES ASSUME f.pc = "failed" \/ k > f.i PROVE Order[k] \in reverted
      BY <1>3, <2>2, <2>5
    <3>2. k \in Nat \ {0}
      BY <1>4, <2>3 DEF Behind
    <3>3. CASE k > e.i
      BY <1>6, <1>12, <2>3, <2>5, <3>3
    <3>4. CASE ~(k > e.i)
      <4>1. f.pc = "undo" /\ k = e.i
            /\ (e.pc \in {"undoRemove", "undoCreate"} \/ e.snap[Svc(p)].was = {})
        <5>1. \/ e.pc = "undo" /\ e.i = 0 /\ f.pc = "failed"
              \/ f.i = e.i /\ f.pc # "failed"
              \/ /\ f.pc = "undo" /\ f.i = e.i - 1
                 /\ e.pc \in {"undoRemove", "undoCreate"} \/ e.snap[Svc(p)].was = {}
          BY <1>0, <1>3, <1>12, Backwards
        <5>2. QED
          BY <1>4, <3>1, <3>2, <3>4, <5>1
      <4>2. Order[k] = Svc(p)
        BY <4>1 DEF Svc
      <4>3. QED
        BY <1>4, <2>5, <4>1, <4>2 DEF Control
    <3>5. QED
      BY <3>3, <3>4
  <2>6. QED
    BY <2>4, <2>5
<1>13. QED
  BY <1>10, <1>11, <1>12

LEMMA EarlierStep ==
  ASSUME EarlierInv, NEW p \in Deploys, NEW r \in Deploys, ExecuteDeploy(r)
  PROVE  EarlierOK(p)'
<1>0. ControlInv /\ EarlierOK(p) /\ EarlierOK(r)
  BY DEF EarlierInv, RolloutInv
<1>1. PICK g : Shared(r) /\ Moves(r, g)
  BY <1>0, EveryStep
<1>2. d'[r] = g /\ \A q \in Deploys \ {r} : d'[q] = d[q]
  BY <1>0, <1>1, Basics DEF Moves
<1>3. CASE r # p
  <2>1. d'[p] = d[p] /\ Svc(p)' = Svc(p) /\ ~Alone(p)'
    BY <1>1, <1>2, <1>3 DEF Svc, Alone, Moves
  <2>2. QED
    BY <1>0, <2>1 DEF EarlierOK
<1>4. CASE r = p
  <2>1. PICK e, f : e = d[p] /\ f = d'[p]
    OBVIOUS
  <2>2. /\ e.pc = "capture" \/ f.pc = "done" \/ f.snap = e.snap
        /\ \/ f.fell = e.fell
           \/ f.pc = "done" /\ f.fell = 0
           \/ e.pc \in Locked /\ f.pc = "undo" /\ f.fell = e.i /\ f.i = e.i - 1
    BY <1>0, <1>4, <2>1, Course
  <2>3. f.pc \notin Failing => f.fell = 0
    <3>1. SUFFICES ASSUME f.pc \notin Failing PROVE f.fell = 0
      OBVIOUS
    <3>2. e.pc \notin Failing
      BY <1>1, <1>2, <1>4, <2>1, <3>1 DEF Moves
    <3>3. e.fell = 0
      BY <1>0, <2>1, <3>2 DEF EarlierOK
    <3>4. QED
      BY <2>2, <3>1, <3>3 DEF Failing, Undoing
  <2>4. f.pc \in {"undoRemove", "undoCreate"} => f.snap[Svc(p)'].was # {}
    <3>1. SUFFICES ASSUME f.pc \in {"undoRemove", "undoCreate"} PROVE f.snap[Svc(p)'].was # {}
      OBVIOUS
    <3>2. e.pc \in Undoing
      BY <1>1, <1>2, <1>4, <2>1, <3>1 DEF Moves
    <3>3. f.i = e.i /\ (e.pc \in {"undoRemove", "undoCreate"} \/ e.snap[Svc(p)].was # {})
      BY <1>0, <1>4, <2>1, <3>1, <3>2, Backwards DEF Failing
    <3>4. e.snap[Svc(p)].was # {} /\ Svc(p)' = Svc(p)
      BY <1>0, <2>1, <3>3 DEF EarlierOK, Svc
    <3>5. f.snap = e.snap
      BY <2>2, <3>1, <3>2 DEF Undoing
    <3>6. QED
      BY <3>4, <3>5
  <2>5. ASSUME Alone(p)', NEW k \in 1..Behind(f)
        PROVE  IF f.snap[Order[k]].was = {} THEN UpdatedTo(p, Order[k])'
               ELSE f.pc \in Failing /\ (f.pc = "failed" \/ k > f.i) => Order[k] \in reverted'
    BY <1>4, <2>1, <2>5, EarlierOwn
  <2>6. Behind(f) = Behind(d[p])'
    BY <2>1 DEF Behind
  <2>7. QED
    BY <2>1, <2>3, <2>4, <2>5, <2>6 DEF EarlierOK
<1>5. QED
  BY <1>3, <1>4

(* A deployment that runs alone leaves what it has updated as it is until  *)
(* its rollback comes back to it, and comes back to all that had           *)
(* containers before.                                                      *)
THEOREM EarlierInvariant == Spec => []EarlierInv
<1>1. Init => \A p \in Deploys : EarlierOK(p)
  <2>1. SUFFICES ASSUME Init, NEW p \in Deploys PROVE EarlierOK(p)
    OBVIOUS
  <2>2. d[p].pc = "idle" /\ d[p].fell = 0
    BY <2>1 DEF Init, Idle
  <2>3. Behind(d[p]) = 0
    BY <2>2 DEF Behind, Failing, Undoing, Locked, Rolling
  <2>4. QED
    BY <2>2, <2>3 DEF EarlierOK
<1>2. RolloutInv /\ (\A p \in Deploys : EarlierOK(p)) /\ [Next]_vars
        => (\A p \in Deploys : EarlierOK(p))'
  <2>1. SUFFICES ASSUME EarlierInv, [Next]_vars, NEW p \in Deploys PROVE EarlierOK(p)'
    BY DEF EarlierInv
  <2>2. ASSUME NEW r \in Deploys, ExecuteDeploy(r) PROVE EarlierOK(p)'
    BY <2>1, <2>2, EarlierStep
  <2>3. ASSUME NEW c \in Ids, Decay(c) PROVE EarlierOK(p)'
    <3>1. d' = d /\ faults' # 0
      BY <2>1, <2>3, DecayKeepsControl DEF Decay, EarlierInv, RolloutInv
    <3>2. QED
      BY <2>1, <3>1 DEF EarlierInv, EarlierOK, Alone, Svc
  <2>4. CASE UNCHANGED vars
    <3>1. UNCHANGED <<cont, lock, d, faults, decayed, reverted, zombies>>
      BY <2>4 DEF vars, histVars
    <3>2. /\ Svc(p)' = Svc(p) /\ (Alone(p)' => Alone(p)) /\ Behind(d[p])' = Behind(d[p])
      BY <3>1 DEF Svc, Alone, Behind
    <3>3. ASSUME NEW k \in 1..Behind(d[p]), UpdatedTo(p, Order[k]) PROVE UpdatedTo(p, Order[k])'
      BY <3>1, <3>3, UpdatedFrame
    <3>4. EarlierOK(p)
      BY <2>1 DEF EarlierInv
    <3>5. QED
      BY <3>1, <3>2, <3>3, <3>4 DEF EarlierOK
  <2>5. QED
    BY <2>1, <2>2, <2>3, <2>4 DEF Next
<1>3. QED
  BY <1>1, <1>2, RolloutInvariant, PTL DEF Spec, EarlierInv

(* Every service deployed before the one that failed has what was captured *)
(* of it, number and images, when the deployment ran alone; or its new     *)
(* containers, if it had none before.                                      *)
THEOREM RollbackRestores == Spec => []EarlierServicesRestored
<1>1. RestoreInv /\ EarlierInv => EarlierServicesRestored
  <2>1. SUFFICES ASSUME RestoreInv, EarlierInv, NEW p \in Deploys, FailedAlone(p),
                        NEW k \in 1..(d[p].fell - 1)
                 PROVE  IF d[p].snap[Order[k]].was = {} THEN UpdatedTo(p, Order[k])
                        ELSE AsCaptured(p, Order[k])
    BY DEF EarlierServicesRestored
  <2>2. d[p].pc = "failed" /\ Alone(p)
    BY <2>1 DEF FailedAlone, Alone, At
  <2>3. k \in 1..Behind(d[p])
    BY <2>2 DEF Behind, Failing
  <2>4. IF d[p].snap[Order[k]].was = {} THEN UpdatedTo(p, Order[k]) ELSE Order[k] \in reverted
    BY <2>1, <2>2, <2>3 DEF EarlierInv, EarlierOK, Failing
  <2>5. \A s \in reverted : AsCaptured(p, s)
    BY <2>1, <2>2 DEF RestoreInv, RestoreOK
  <2>6. QED
    BY <2>4, <2>5
<1>2. QED
  BY <1>1, RestoreInvariant, EarlierInvariant, PTL
=============================================================================
