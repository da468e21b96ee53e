--------------------------- MODULE LifecycleProofs ---------------------------
(***************************************************************************)
(* Proofs about the deployment lifecycle, for every number of goroutines,  *)
(* deployments, rotations and crashes.                                     *)
(***************************************************************************)
EXTENDS Lifecycle, TLAPS

\* The constants of goroutines are well formed.
LEMMA IdleTyped == Idle \in Goroutine /\ \A b \in BOOLEAN : NewRow(b) \in Row
BY LifecycleAssumption DEF Idle, Goroutine, NewRow, Row, PC, StackStatus, Version

\* Moving a goroutine and setting one of its locals gives a goroutine.
LEMMA GoroutineTyped ==
  ASSUME NEW x \in Goroutine, NEW label \in PC
  PROVE  /\ [x EXCEPT !.pc = label] \in Goroutine
         /\ \A r \in Row : [x EXCEPT !.pc = label, !.copy = r] \in Goroutine
         /\ \A d \in Deployments : [x EXCEPT !.pc = label, !.cur = d] \in Goroutine
         /\ \A v \in Version : [x EXCEPT !.pc = label, !.snap = v] \in Goroutine
<1>1. [x EXCEPT !.pc = label] \in Goroutine
  BY DEF Goroutine
<1>2. \A r \in Row : [x EXCEPT !.pc = label, !.copy = r] \in Goroutine
  BY DEF Goroutine
<1>3. \A d \in Deployments : [x EXCEPT !.pc = label, !.cur = d] \in Goroutine
  BY DEF Goroutine
<1>4. \A v \in Version : [x EXCEPT !.pc = label, !.snap = v] \in Goroutine
  BY DEF Goroutine
<1>5. QED
  BY <1>1, <1>2, <1>3, <1>4

\* What Deploy leaves behind is a goroutine.
LEMMA ReturnedTyped ==
  ASSUME NEW p, NEW r \in Row
  PROVE  Returned(p, r) \in Goroutine
BY IdleTyped DEF Returned, Goroutine, PC

\* The final row of a deployment is a row.
LEMMA FinalRowTyped ==
  ASSUME TypeOK, NEW p \in Procs
  PROVE  FinalRow(p) \in Row
BY DEF TypeOK, FinalRow, Goroutine, Row, StackStatus

\* What a rollout leaves: containers that were there, new ones with the secrets
\* the deployment read, and old ones that it left behind.
LEMMA RolledOut ==
  ASSUME TypeOK, NEW p \in Procs, ExecuteOk(p) \/ ExecuteFailed(p)
  PROVE  /\ containers' \in SUBSET Container
         /\ \A c \in containers' :
              \/ c \in containers
              \/ c.carries = g[p].snap
              \/ c.left /\ \E b \in containers : c.carries = b.carries
         /\ ExecuteOk(p) /\ SecretsChanged(p) =>
              \A c \in containers' : c.carries = g[p].snap \/ c.left
<1>1. containers \in SUBSET Container /\ g[p].snap \in Version
  BY DEF TypeOK, Goroutine
<1>2. New(g[p].snap) \in Container /\ New(g[p].snap).carries = g[p].snap
  BY <1>1 DEF New, Container
<1>3. \A b \in containers : /\ LeftBehind(b) \in Container
                            /\ LeftBehind(b).carries = b.carries /\ LeftBehind(b).left
  BY <1>1 DEF LeftBehind, Container
<1>4. CASE ExecuteFailed(p)
  <2>1. \A c \in containers' : c \in containers \/ c = New(g[p].snap)
    BY <1>4 DEF ExecuteFailed
  <2>2. ~ExecuteOk(p)
    BY <1>4 DEF ExecuteFailed, ExecuteOk, Goto, Become, TypeOK, Goroutine
  <2>3. QED
    BY <1>1, <1>2, <2>1, <2>2
<1>5. CASE ExecuteOk(p)
  <2>1. PICK stay \in SUBSET containers :
          IF SecretsChanged(p)
          THEN containers' = {New(g[p].snap)} \cup {LeftBehind(c) : c \in stay}
          ELSE containers' \in {containers, stay \cup {New(g[p].snap)}}
    BY <1>5 DEF ExecuteOk
  <2>2. CASE SecretsChanged(p)
    <3>1. \A c \in containers' :
            c = New(g[p].snap) \/ \E b \in containers : c = LeftBehind(b)
      BY <2>1, <2>2
    <3>2. QED
      BY <1>1, <1>2, <1>3, <3>1
  <2>3. CASE ~SecretsChanged(p)
    <3>1. \A c \in containers' : c \in containers \/ c = New(g[p].snap)
      BY <2>1, <2>3
    <3>2. QED
      BY <1>1, <1>2, <2>3, <3>1
  <2>4. QED
    BY <2>2, <2>3
<1>6. QED
  BY <1>4, <1>5

-----------------------------------------------------------------------------
\* Every variable keeps its type.
THEOREM TypeCorrect == Spec => []TypeOK
<1> USE LifecycleAssumption
<1>1. Init => TypeOK
  <2> SUFFICES ASSUME Init PROVE TypeOK
    OBVIOUS
  <2>1. row \in Row
    BY IdleTyped, Zenon DEF Init
  <2>2. g \in [Procs -> Goroutine]
    BY IdleTyped DEF Init
  <2>3. dep \in [Deployments -> DepStatus] /\ secrets \in Version /\ crashes \in 0..MaxCrashes
    BY DEF Init, DepStatus, Version
  <2>4. /\ containers \in SUBSET Container /\ granted \in SUBSET Deployments
        /\ raced \in BOOLEAN /\ overlapped \in BOOLEAN
    BY DEF Init
  <2>5. QED
    BY <2>1, <2>2, <2>3, <2>4 DEF TypeOK
<1>2. TypeOK /\ [Next]_vars => TypeOK'
  <2> SUFFICES ASSUME TypeOK, [Next]_vars PROVE TypeOK'
    OBVIOUS
  <2>0. /\ g \in [Procs -> Goroutine] /\ row \in Row
        /\ dep \in [Deployments -> DepStatus] /\ Idle \in Goroutine
    BY IdleTyped DEF TypeOK
  <2> USE DEF TypeOK, histVars, At, Become, Goto
  <2>1. ASSUME NEW p \in Procs, NEW label \in PC, ReadStack(p, label),
               UNCHANGED <<row, dep, secrets, containers, granted, raced, crashes>>,
               overlapped' \in BOOLEAN
        PROVE TypeOK'
    BY <2>0, <2>1 DEF ReadStack, Goroutine
  <2>2. ASSUME NEW p \in Procs, DeployStack(p) \/ LegacyWebhook(p) PROVE TypeOK'
    BY <2>1, <2>2 DEF DeployStack, LegacyWebhook, PC
  <2>3. ASSUME NEW p \in Procs, ReconcileLoad(p) PROVE TypeOK'
    BY <2>1, <2>3 DEF ReconcileLoad, PC
  <2>4. ASSUME NEW p \in Procs, ReconcileNoDeploy(p) \/ ReconcilePersist(p) PROVE TypeOK'
    BY <2>0, <2>4, ReturnedTyped DEF ReconcileNoDeploy, ReconcilePersist, UpdateStack, Goroutine
  <2>5. ASSUME NEW p \in Procs, Deploy(p) PROVE TypeOK'
    <3>1. PICK d \in Deployments :
            dep' = [dep EXCEPT ![d] = "pending"]
              /\ g' = [g EXCEPT ![p] = [g[p] EXCEPT !.pc = "run", !.cur = d]]
      BY <2>5 DEF Deploy, UpdateDeployment
    <3>2. g' \in [Procs -> Goroutine]
      <4>1. [g[p] EXCEPT !.pc = "run", !.cur = d] \in Goroutine
        BY <2>0, GoroutineTyped DEF PC
      <4>2. QED
        BY <2>0, <3>1, <4>1
    <3>3. dep' \in [Deployments -> DepStatus]
      BY <2>0, <3>1 DEF DepStatus
    <3>4. QED
      BY <2>5, <3>2, <3>3 DEF Deploy, NoteOverlap
  <2>6. ASSUME NEW p \in Procs, CheckPending(p) PROVE TypeOK'
    BY <2>0, <2>6, ReturnedTyped DEF CheckPending, Goroutine, PC
  <2>7. ASSUME NEW p \in Procs, RequestApproval(p) \/ DeployUnrecorded(p) PROVE TypeOK'
    <3>1. CASE RequestApproval(p)
      BY <2>0, <3>1, ReturnedTyped DEF RequestApproval, UpdateDeployment, Goroutine, DepStatus
    <3>2. CASE DeployUnrecorded(p)
      BY <2>0, <3>2, ReturnedTyped DEF DeployUnrecorded, Goroutine
    <3>3. QED
      BY <2>7, <3>1, <3>2
  <2>8. ASSUME NEW p \in Procs, NEW d \in Deployments, GrantApproval(p, d) \/ RejectCheck(p, d)
        PROVE TypeOK'
    <3>1. PICK label \in PC : g' = [g EXCEPT ![p] = [Idle EXCEPT !.pc = label, !.cur = d]]
      BY <2>8 DEF GrantApproval, RejectCheck, PC
    <3>2. g' \in [Procs -> Goroutine]
      <4>1. [Idle EXCEPT !.pc = label, !.cur = d] \in Goroutine
        BY IdleTyped, GoroutineTyped
      <4>2. QED
        BY <2>0, <3>1, <4>1
    <3>3. QED
      BY <2>8, <3>2 DEF GrantApproval, RejectCheck
  <2>9. ASSUME NEW p \in Procs, ApproveCheck(p) \/ ApproveLoad(p) PROVE TypeOK'
    <3>1. CASE ApproveCheck(p)
      BY <2>0, <3>1 DEF ApproveCheck, Goroutine, PC
    <3>2. CASE ApproveLoad(p)
      BY <2>0, <2>1, <3>2 DEF ApproveLoad, NoteOverlap, PC
    <3>3. QED
      BY <2>9, <3>1, <3>2
  <2>10. ASSUME NEW p \in Procs, Reject(p) PROVE TypeOK'
    BY <2>0, <2>10 DEF Reject, UpdateDeployment, Goroutine, DepStatus
  <2>11. ASSUME NEW p \in Procs, RunDeployment(p) PROVE TypeOK'
    <3>1. CASE HostUnresolved(p) \/ MarkDeployment(p) \/ CloneRepo(p) \/ FinishDeployment(p)
      BY <2>0, <3>1 DEF HostUnresolved, MarkDeployment, CloneRepo, FinishDeployment,
                        UpdateDeployment, Goroutine, PC, DepStatus
    <3>2. CASE MarkStack(p)
      <4> DEFINE r == [g[p].copy EXCEPT !.status = "deploying"]
      <4>1. r \in Row
        BY <2>0 DEF Goroutine, Row, StackStatus
      <4>2. [g[p] EXCEPT !.pc = "mark", !.copy = r] \in Goroutine
        BY <2>0, <4>1, GoroutineTyped DEF PC
      <4>3. g' \in [Procs -> Goroutine] /\ row' \in Row
        BY <2>0, <3>2, <4>1, <4>2 DEF MarkStack, UpdateStack
      <4>4. QED
        BY <3>2, <4>3 DEF MarkStack
    <3>3. CASE SnapshotSecrets(p)
      BY <2>0, <3>3 DEF SnapshotSecrets, Goroutine, PC
    <3>4. CASE SecretsUnreadable(p)
      BY <2>0, <3>4, ReturnedTyped DEF SecretsUnreadable, UpdateDeployment, Goroutine, DepStatus
    <3>5. CASE ExecuteOk(p) \/ ExecuteFailed(p)
      BY <2>0, <3>5, RolledOut DEF ExecuteOk, ExecuteFailed, Goroutine, PC
    <3>6. CASE FinishStack(p)
      <4>1. FinalRow(p) \in Row
        BY <2>0, FinalRowTyped
      <4>2. Returned(p, FinalRow(p)) \in Goroutine
        BY <4>1, ReturnedTyped
      <4>3. g' \in [Procs -> Goroutine]
        BY <2>0, <3>6, <4>2 DEF FinishStack
      <4>4. row' \in Row
        BY <2>0, <3>6, <4>1 DEF FinishStack, UpdateStack
      <4>5. QED
        BY <3>6, <4>3, <4>4 DEF FinishStack
    <3>7. QED
      BY <2>11, <3>1, <3>2, <3>3, <3>4, <3>5, <3>6 DEF RunDeployment
  <2>12. ASSUME NEW p \in Procs, PutRead(p) \/ PutWrite(p) PROVE TypeOK'
    <3>1. CASE PutRead(p)
      BY <2>1, <3>1 DEF PutRead, PC
    <3>2. CASE PutWrite(p)
      <4>1. Patched(g[p].copy) \subseteq Row
        <5>1. g[p].copy \in Row
          BY <2>0 DEF Goroutine
        <5>2. \A b \in BOOLEAN : [g[p].copy EXCEPT !.gate = b] \in Row
          BY <5>1 DEF Row
        <5>3. \A s \in Patches \ {"gate"} : [g[p].copy EXCEPT !.status = s] \in Row
          BY <5>1 DEF Row, StackStatus
        <5>4. QED
          BY <5>2, <5>3 DEF Patched
      <4>2. QED
        BY <2>0, <3>2, <4>1 DEF PutWrite, UpdateStack
    <3>3. QED
      BY <2>12, <3>1, <3>2
  <2>13. CASE RotateSecrets \/ DeleteStack \/ Crash
    <3>1. CASE RotateSecrets
      BY <3>1 DEF RotateSecrets
    <3>2. CASE DeleteStack
      BY <2>0, <3>2 DEF DeleteStack, Row
    <3>3. CASE Crash
      BY <2>0, <3>3 DEF Crash
    <3>4. QED
      BY <2>13, <3>1, <3>2, <3>3
  <2>14. CASE UNCHANGED vars
    BY <2>14 DEF vars
  <2>15. QED
    BY <2>2, <2>3, <2>4, <2>5, <2>6, <2>7, <2>8, <2>9, <2>10, <2>11, <2>12, <2>13, <2>14
       DEF Next, Continue, Procs, Runners
<1>3. QED
  BY <1>1, <1>2, PTL DEF Spec
-----------------------------------------------------------------------------
\* A deleted stack stays deleted: every write of the row after the DELETE is an
\* UPDATE that finds nothing.
THEOREM DeletedStays == Spec => NoResurrection
<1>1. TypeOK /\ [Next]_vars => [~row.exists => ~row'.exists]_vars
  <2> SUFFICES ASSUME TypeOK, Next, ~row.exists PROVE ~row'.exists
    BY DEF vars
  <2>1. ASSUME NEW r, UpdateStack(r) PROVE row' = row
    BY <2>1 DEF UpdateStack
  <2>2. ASSUME NEW p \in Procs, Continue(p) PROVE ~row'.exists
    BY <2>1, <2>2 DEF Continue, Deploy, CheckPending, RequestApproval, DeployUnrecorded,
      RunDeployment, HostUnresolved, MarkStack, MarkDeployment, SnapshotSecrets,
      SecretsUnreadable, CloneRepo, ExecuteOk, ExecuteFailed, FinishDeployment, FinishStack
  <2>3. ASSUME NEW p \in Procs, ReconcileLoad(p) \/ ReconcileNoDeploy(p) \/ ReconcilePersist(p)
        PROVE ~row'.exists
    BY <2>1, <2>3 DEF ReconcileLoad, ReconcileNoDeploy, ReconcilePersist
  <2>4. ASSUME NEW p \in Procs, DeployStack(p) \/ LegacyWebhook(p) \/ PutRead(p) \/ PutWrite(p)
        PROVE ~row'.exists
    BY <2>1, <2>4 DEF DeployStack, LegacyWebhook, PutRead, PutWrite
  <2>5. ASSUME NEW p \in Procs,
               \/ \E d \in Deployments : GrantApproval(p, d) \/ RejectCheck(p, d)
               \/ ApproveCheck(p) \/ ApproveLoad(p) \/ Reject(p)
        PROVE ~row'.exists
    BY <2>5 DEF GrantApproval, RejectCheck, ApproveCheck, ApproveLoad, Reject
  <2>6. CASE RotateSecrets \/ DeleteStack \/ Crash
    BY <2>6 DEF RotateSecrets, DeleteStack, Crash
  <2>7. QED
    BY <2>2, <2>3, <2>4, <2>5, <2>6 DEF Next, Continue, Procs, Runners
<1>2. QED
  BY <1>1, TypeCorrect, PTL DEF Spec, NoResurrection

-----------------------------------------------------------------------------
(* The approval gate. *)

\* Positions of a goroutine that acts on a deployment's record.
Acting == {"granted", "approve", "reject"} \cup Running

\* A goroutine acts on records that exist; it approves, and it runs a record
\* that reads pending_approval, only after the approval was audited.
Entitled(x) ==
  /\ x.pc \in Acting => x.cur \in Deployments /\ dep[x.cur] # "none"
  /\ x.pc \in {"granted", "approve"} => x.cur \in granted
  /\ x.pc \in Running /\ dep[x.cur] = "pending_approval" => x.cur \in granted

GateInv == \A p \in Procs : Entitled(g[p])

\* What a step does to the records: none is forgotten, and only a fresh one is
\* put on hold.
Recorded ==
  \A d \in Deployments :
    \/ dep'[d] = dep[d]
    \/ dep'[d] # "none" /\ (dep'[d] = "pending_approval" => dep[d] = "none")

\* A step of one goroutine that leaves it entitled leaves all of them so.
LEMMA GateFrame ==
  ASSUME TypeOK, GateInv, NEW p \in Procs,
         \A q \in Procs \ {p} : g'[q] = g[q],
         granted \subseteq granted', Recorded, Entitled(g[p])'
  PROVE  GateInv'
<1> SUFFICES ASSUME NEW q \in Procs, q # p PROVE Entitled(g[q])'
  BY DEF GateInv
<1>1. Entitled(g[q]) /\ g'[q] = g[q]
  BY DEF GateInv
<1>2. g[q].pc \in Acting => dep'[g[q].cur] # "none"
  BY <1>1 DEF Entitled, Recorded
<1>3. Running \subseteq Acting
  BY DEF Acting
<1>4. QED
  BY <1>1, <1>2, <1>3 DEF Entitled, Recorded

\* Outside Acting a goroutine has no deployment of its own.
LEMMA NotActing == {"idle", "deploy", "request", "persist", "patch"} \cap Acting = {}
BY DEF Acting, Running

\* What Deploy leaves behind does not act on a record.
LEMMA ReturnedPc ==
  ASSUME NEW p, NEW r
  PROVE  Returned(p, r).pc \in {"idle", "persist"} /\ Idle.pc = "idle"
<1>1. Idle.pc = "idle" /\ [Idle EXCEPT !.pc = "persist", !.copy = r].pc = "persist"
  BY DEF Idle
<1>2. QED
  BY <1>1 DEF Returned

\* The goroutines are entitled to what they do, whatever the interleaving.
THEOREM GateInvariant == Spec => []GateInv
<1> USE LifecycleAssumption
<1>1. Init => GateInv
  BY DEF Init, GateInv, Entitled, Acting, Running, Idle
<1>2. TypeOK /\ GateInv /\ [Next]_vars => GateInv'
  <2> SUFFICES ASSUME TypeOK, GateInv, [Next]_vars PROVE GateInv'
    OBVIOUS
  <2>0. /\ g \in [Procs -> Goroutine] /\ dep \in [Deployments -> DepStatus]
        /\ \A p \in Procs : Entitled(g[p])
    BY DEF TypeOK, GateInv
  <2> USE DEF At, Become, Goto, UpdateDeployment, histVars
  <2> DEFINE Kept(p) == /\ \A q \in Procs \ {p} : g'[q] = g[q]
                        /\ granted \subseteq granted' /\ Recorded
  <2>1. ASSUME NEW p \in Procs, Kept(p), g'[p].pc \notin Acting PROVE GateInv'
    <3>1. Entitled(g[p])'
      BY <2>1 DEF Entitled, Acting
    <3>2. QED
      BY <2>1, <3>1, GateFrame
  <2>2. ASSUME NEW p \in Procs, NEW r, g'[p] \in {Returned(p, r), Idle} PROVE g'[p].pc \notin Acting
    BY <2>2, ReturnedPc, NotActing
  <2>3. ASSUME NEW p \in Procs, NEW label, label \notin Acting, ReadStack(p, label),
               UNCHANGED <<dep, granted>>
        PROVE GateInv'
    <3>1. Kept(p) /\ g'[p].pc \notin Acting
      BY <2>0, <2>3 DEF ReadStack, Recorded, Goroutine
    <3>2. QED
      BY <2>1, <3>1
  <2>4. ASSUME NEW p \in Procs, DeployStack(p) \/ LegacyWebhook(p) \/ ReconcileLoad(p) \/ PutRead(p)
        PROVE GateInv'
    <3>1. "deploy" \notin Acting /\ "patch" \notin Acting
      BY DEF Acting, Running
    <3>2. QED
      BY <2>3, <2>4, <3>1 DEF DeployStack, LegacyWebhook, ReconcileLoad, PutRead
  <2>5. ASSUME NEW p \in Procs,
               \/ ReconcileNoDeploy(p) \/ ReconcilePersist(p) \/ DeployUnrecorded(p)
               \/ FinishStack(p) \/ PutWrite(p)
        PROVE GateInv'
    <3>1. Kept(p)
      BY <2>0, <2>5 DEF ReconcileNoDeploy, ReconcilePersist, DeployUnrecorded, FinishStack,
                        PutWrite, Recorded
    <3>2. g'[p].pc \notin Acting
      <4>1. CASE ReconcileNoDeploy(p) \/ DeployUnrecorded(p)
        BY <2>0, <2>2, <4>1 DEF ReconcileNoDeploy, DeployUnrecorded
      <4>2. CASE FinishStack(p)
        BY <2>0, <2>2, <4>2 DEF FinishStack
      <4>3. CASE ReconcilePersist(p) \/ PutWrite(p)
        BY <2>0, <4>3, ReturnedPc, NotActing DEF ReconcilePersist, PutWrite
      <4>4. QED
        BY <2>5, <4>1, <4>2, <4>3
    <3>3. QED
      BY <2>1, <3>1, <3>2
  <2>6. ASSUME NEW p \in Procs, CheckPending(p) PROVE GateInv'
    <3>1. Kept(p)
      BY <2>0, <2>6 DEF CheckPending, Recorded
    <3>2. g'[p].pc \notin Acting
      <4>1. CASE g' = [g EXCEPT ![p] = Returned(p, g[p].copy)]
        BY <2>0, <2>2, <4>1
      <4>2. CASE g' = [g EXCEPT ![p] = [g[p] EXCEPT !.pc = "request"]]
        BY <2>0, <4>2, NotActing DEF Goroutine
      <4>3. QED
        BY <2>6, <4>1, <4>2 DEF CheckPending
    <3>3. QED
      BY <2>1, <3>1, <3>2
  <2>7. ASSUME NEW p \in Procs, RequestApproval(p) PROVE GateInv'
    <3>1. Kept(p)
      BY <2>0, <2>7 DEF RequestApproval, Recorded
    <3>2. g'[p].pc \notin Acting
      BY <2>0, <2>2, <2>7 DEF RequestApproval
    <3>3. QED
      BY <2>1, <3>1, <3>2
  <2>8. ASSUME NEW p \in Procs, Deploy(p) PROVE GateInv'
    <3>1. PICK d \in Deployments :
            /\ dep[d] = "none" /\ dep' = [dep EXCEPT ![d] = "pending"]
            /\ g' = [g EXCEPT ![p] = [g[p] EXCEPT !.pc = "run", !.cur = d]]
      BY <2>8 DEF Deploy
    <3>2. Kept(p)
      BY <2>0, <2>8, <3>1 DEF Deploy, Recorded
    <3>3. g'[p].pc = "run" /\ g'[p].cur = d /\ dep'[d] = "pending"
      BY <2>0, <3>1 DEF Goroutine
    <3>4. Entitled(g[p])'
      BY <3>3 DEF Entitled
    <3>5. QED
      BY <3>2, <3>4, GateFrame
  <2>9. ASSUME NEW p \in Procs, NEW d \in Deployments, GrantApproval(p, d) \/ RejectCheck(p, d)
        PROVE GateInv'
    <3>1. Kept(p)
      BY <2>0, <2>9 DEF GrantApproval, RejectCheck, Recorded
    <3>2. /\ g'[p].pc \in {"granted", "reject"} /\ g'[p].cur = d
          /\ g'[p].pc = "granted" => d \in granted'
          /\ dep'[d] = "pending_approval"
      <4>1. CASE GrantApproval(p, d)
        BY <2>0, <4>1 DEF GrantApproval, Idle
      <4>2. CASE RejectCheck(p, d)
        BY <2>0, <4>2 DEF RejectCheck, Idle
      <4>3. QED
        BY <2>9, <4>1, <4>2
    <3>3. Entitled(g[p])'
      BY <3>2 DEF Entitled, Running
    <3>4. QED
      BY <3>1, <3>3, GateFrame
  <2>10. ASSUME NEW p \in Procs, ApproveCheck(p) PROVE GateInv'
    <3>1. Kept(p) /\ UNCHANGED <<dep, granted>>
      BY <2>0, <2>10 DEF ApproveCheck, Recorded
    <3>2. Entitled(g[p])'
      <4>1. CASE g'[p] = Idle
        BY <4>1 DEF Entitled, Idle, Acting, Running
      <4>2. CASE g'[p].pc = "approve" /\ g'[p].cur = g[p].cur
        BY <2>0, <2>10, <3>1, <4>2 DEF ApproveCheck, Entitled, Acting, Running
      <4>3. QED
        BY <2>0, <2>10, <4>1, <4>2 DEF ApproveCheck, Goroutine
    <3>3. QED
      BY <3>1, <3>2, GateFrame
  <2>11. ASSUME NEW p \in Procs, ApproveLoad(p) PROVE GateInv'
    <3>1. Kept(p) /\ UNCHANGED <<dep, granted>>
      BY <2>0, <2>11 DEF ApproveLoad, ReadStack, Recorded
    <3>2. Entitled(g[p])'
      <4>1. CASE g'[p] = Idle
        BY <4>1 DEF Entitled, Idle, Acting, Running
      <4>2. CASE g'[p].pc = "run" /\ g'[p].cur = g[p].cur
        BY <2>0, <2>11, <3>1, <4>2 DEF ApproveLoad, Entitled, Acting, Running
      <4>3. QED
        <5>1. CASE g' = [g EXCEPT ![p] = Idle]
          BY <2>0, <4>1, <5>1
        <5>2. CASE g' = [g EXCEPT ![p] = [g[p] EXCEPT !.pc = "run", !.copy = row]]
          BY <2>0, <4>2, <5>2 DEF Goroutine
        <5>3. QED
          BY <2>11, <5>1, <5>2 DEF ApproveLoad, ReadStack
    <3>3. QED
      BY <3>1, <3>2, GateFrame
  <2>12. ASSUME NEW p \in Procs, Reject(p) PROVE GateInv'
    <3>1. g[p].cur \in Deployments
      BY <2>0, <2>12 DEF Reject, Entitled, Acting
    <3>2. Kept(p) /\ g'[p].pc \notin Acting
      BY <2>0, <2>12, <3>1 DEF Reject, Idle, Acting, Running, Recorded
    <3>3. QED
      BY <2>1, <3>2
  <2>13. ASSUME NEW p \in Procs, RunDeployment(p) PROVE GateInv'
    <3>1. CASE FinishStack(p)
      BY <2>5, <3>1
    <3>2. CASE SecretsUnreadable(p)
      <4>1. g[p].cur \in Deployments
        BY <2>0, <3>2 DEF SecretsUnreadable, Entitled, Acting, Running
      <4>2. Kept(p)
        BY <2>0, <3>2, <4>1 DEF SecretsUnreadable, Recorded
      <4>3. g'[p].pc \notin Acting
        BY <2>0, <2>2, <3>2 DEF SecretsUnreadable
      <4>4. QED
        BY <2>1, <4>2, <4>3
    <3>3. ASSUME g[p].pc \in Running, g'[p].pc \in Running, g'[p].cur = g[p].cur,
                 \A q \in Procs \ {p} : g'[q] = g[q], granted' = granted,
                 \/ dep' = dep
                 \/ \E s \in DepStatus \ {"none", "pending_approval"} :
                      dep' = [dep EXCEPT ![g[p].cur] = s]
          PROVE GateInv'
      <4>1. g[p].cur \in Deployments /\ dep[g[p].cur] # "none"
        BY <2>0, <3>3 DEF Entitled, Acting
      <4>2. Recorded
        BY <2>0, <3>3, <4>1 DEF Recorded
      <4>3. Entitled(g[p])'
        BY <2>0, <3>3, <4>1 DEF Entitled, Acting, Running
      <4>4. QED
        BY <3>3, <4>2, <4>3, GateFrame
    <3>4. CASE HostUnresolved(p) \/ MarkDeployment(p) \/ CloneRepo(p) \/ FinishDeployment(p)
      <4>1. ASSUME NEW label \in Running, g' = [g EXCEPT ![p] = [g[p] EXCEPT !.pc = label]]
            PROVE  /\ g'[p].pc = label /\ g'[p].cur = g[p].cur
                   /\ \A q \in Procs \ {p} : g'[q] = g[q]
        BY <2>0, <4>1 DEF Goroutine
      <4>2. {"in_progress", "completed", "failed"} \subseteq DepStatus \ {"none", "pending_approval"}
        BY DEF DepStatus
      <4>3. CASE HostUnresolved(p)
        BY <3>3, <4>1, <4>2, <4>3 DEF HostUnresolved, Running
      <4>4. CASE MarkDeployment(p)
        BY <3>3, <4>1, <4>2, <4>4 DEF MarkDeployment, Running
      <4>5. CASE CloneRepo(p)
        BY <3>3, <4>1, <4>2, <4>5 DEF CloneRepo, Running
      <4>6. CASE FinishDeployment(p)
        <5>1. CASE At(p, "ok") /\ Goto(p, "okRow") /\ UpdateDeployment(g[p].cur, "completed")
          BY <3>3, <4>1, <4>2, <4>6, <5>1 DEF FinishDeployment, Running
        <5>2. CASE At(p, "fail") /\ Goto(p, "failRow") /\ UpdateDeployment(g[p].cur, "failed")
          BY <3>3, <4>1, <4>2, <4>6, <5>2 DEF FinishDeployment, Running
        <5>3. QED
          BY <4>6, <5>1, <5>2 DEF FinishDeployment
      <4>7. QED
        BY <3>4, <4>3, <4>4, <4>5, <4>6
    <3>5. CASE MarkStack(p) \/ SnapshotSecrets(p) \/ ExecuteOk(p) \/ ExecuteFailed(p)
      <4>1. CASE MarkStack(p)
        <5> DEFINE r == [g[p].copy EXCEPT !.status = "deploying"]
        <5>1. g' = [g EXCEPT ![p] = [g[p] EXCEPT !.pc = "mark", !.copy = r]] /\ g[p].pc = "run"
          BY <4>1 DEF MarkStack
        <5> HIDE DEF r
        <5>2. g'[p].pc = "mark" /\ g'[p].cur = g[p].cur /\ \A q \in Procs \ {p} : g'[q] = g[q]
          BY <2>0, <5>1 DEF Goroutine
        <5>3. granted' = granted /\ dep' = dep
          BY <4>1 DEF MarkStack
        <5>4. QED
          BY <3>3, <5>1, <5>2, <5>3 DEF Running
      <4>2. CASE SnapshotSecrets(p)
        BY <2>0, <3>3, <4>2 DEF SnapshotSecrets, Running, Goroutine
      <4>3. CASE ExecuteOk(p) \/ ExecuteFailed(p)
        <5>1. \E label \in {"ok", "fail"} : g' = [g EXCEPT ![p] = [g[p] EXCEPT !.pc = label]]
          BY <4>3 DEF ExecuteOk, ExecuteFailed
        <5>2. g[p].pc = "exec" /\ granted' = granted /\ dep' = dep
          BY <4>3 DEF ExecuteOk, ExecuteFailed
        <5>3. QED
          BY <2>0, <3>3, <5>1, <5>2 DEF Running, Goroutine
      <4>4. QED
        BY <3>5, <4>1, <4>2, <4>3
    <3>6. QED
      BY <2>13, <3>1, <3>2, <3>4, <3>5 DEF RunDeployment
  <2>14. CASE RotateSecrets \/ DeleteStack \/ UNCHANGED vars
    BY <2>14 DEF RotateSecrets, DeleteStack, vars, GateInv, Entitled
  <2>15. CASE Crash
    BY <2>15 DEF Crash, GateInv, Entitled, Idle, Acting, Running
  <2>16. QED
    BY <2>4, <2>5, <2>6, <2>7, <2>8, <2>9, <2>10, <2>11, <2>12, <2>13, <2>14, <2>15
       DEF Next, Continue, Procs, Runners
<1>3. QED
  BY <1>1, <1>2, TypeCorrect, PTL DEF Spec

\* A held deployment leaves that state only by being rejected or after its
\* approval was audited.
THEOREM GateAlwaysHolds == Spec => GateHolds
<1> DEFINE Step == \A d \in Deployments :
             dep[d] = "pending_approval" /\ dep'[d] \notin {"pending_approval", "rejected"}
               => d \in granted
<1>1. TypeOK /\ GateInv /\ [Next]_vars => [Step]_vars
  <2> SUFFICES ASSUME TypeOK, GateInv, Next, NEW d \in Deployments, dep[d] = "pending_approval",
                      dep'[d] \notin {"pending_approval", "rejected"}
               PROVE  d \in granted
    OBVIOUS
  <2>0. g \in [Procs -> Goroutine] /\ dep \in [Deployments -> DepStatus]
    BY DEF TypeOK
  <2> USE DEF At, Become, Goto, UpdateDeployment
  <2>1. ASSUME NEW p \in Procs, RunDeployment(p) PROVE d \in granted
    <3>1. g[p].pc \in Running
      BY <2>1 DEF RunDeployment, HostUnresolved, MarkStack, MarkDeployment, SnapshotSecrets,
        SecretsUnreadable, CloneRepo, ExecuteOk, ExecuteFailed, FinishDeployment, FinishStack, Running
    <3>2. dep' = dep \/ \E s : dep' = [dep EXCEPT ![g[p].cur] = s]
      BY <2>1 DEF RunDeployment, HostUnresolved, MarkStack, MarkDeployment, SnapshotSecrets,
        SecretsUnreadable, CloneRepo, ExecuteOk, ExecuteFailed, FinishDeployment, FinishStack
    <3>3. d = g[p].cur
      BY <2>0, <3>2
    <3>4. QED
      BY <3>1, <3>3 DEF GateInv, Entitled
  <2>2. ASSUME NEW p \in Procs, Continue(p) PROVE d \in granted
    <3>1. CASE Deploy(p) \/ RequestApproval(p)
      BY <2>0, <3>1 DEF Deploy, RequestApproval
    <3>2. CASE CheckPending(p) \/ DeployUnrecorded(p)
      BY <3>2 DEF CheckPending, DeployUnrecorded
    <3>3. QED
      BY <2>1, <2>2, <3>1, <3>2 DEF Continue
  <2>3. ASSUME NEW p \in Procs, Reject(p) PROVE FALSE
    BY <2>0, <2>3 DEF Reject
  <2>4. QED
    BY <2>1, <2>2, <2>3 DEF Next, Procs, Runners, DeployStack, LegacyWebhook, ReconcileLoad,
       ReconcileNoDeploy, ReconcilePersist, GrantApproval, ApproveCheck, ApproveLoad,
       RejectCheck, PutRead, PutWrite, RotateSecrets, DeleteStack, Crash
<1>2. QED
  BY <1>1, TypeCorrect, GateInvariant, PTL DEF Spec, GateHolds

-----------------------------------------------------------------------------
(* The dedupe of requestApproval. *)

\* Unless two requests were past the check at once, the one that is past it
\* has found no open approval and there is none until it inserts its own.
RequestInv ==
  ~raced =>
    /\ OneOpenApproval
    /\ \A p \in Runners : At(p, "request") =>
         ~PendingApproval /\ \A q \in Runners : At(q, "request") => q = p

\* A step of goroutine p that holds no record and does not get past the check.
LEMMA RequestFrame ==
  ASSUME TypeOK, RequestInv, NEW p \in Procs,
         \A q \in Procs \ {p} : g'[q] = g[q], g'[p].pc # "request", raced => raced',
         \A d \in Deployments : dep'[d] = "pending_approval" => dep[d] = "pending_approval"
  PROVE  RequestInv'
<1>1. \A q \in Runners : At(q, "request")' => At(q, "request")
  BY DEF At, Procs
<1>2. PendingApproval' => PendingApproval
  BY DEF PendingApproval
<1>3. OneOpenApproval => OneOpenApproval'
  BY DEF OneOpenApproval
<1>4. QED
  BY <1>1, <1>2, <1>3 DEF RequestInv

\* What runDeployment does to its own goroutine and its record.
LEMMA RunSteps ==
  ASSUME TypeOK, GateInv, NEW p \in Procs, RunDeployment(p)
  PROVE  /\ g[p].pc \in Running /\ g[p].cur \in Deployments
         /\ \A q \in Procs \ {p} : g'[q] = g[q]
         /\ g'[p].pc \in Running \cup {"idle", "persist"}
         /\ g'[p].pc \in Running => g'[p].cur = g[p].cur
         /\ UNCHANGED <<granted, raced, overlapped, secrets>>
         /\ \/ dep' = dep
            \/ \E s \in {"in_progress", "completed", "failed"} :
                 dep' = [dep EXCEPT ![g[p].cur] = s]
<1>0. g \in [Procs -> Goroutine] /\ dep \in [Deployments -> DepStatus] /\ Entitled(g[p])
  BY DEF TypeOK, GateInv
<1>1. g[p].pc \in Running
  BY DEF RunDeployment, HostUnresolved, MarkStack, MarkDeployment, SnapshotSecrets, At,
    SecretsUnreadable, CloneRepo, ExecuteOk, ExecuteFailed, FinishDeployment, FinishStack, Running
<1>2. g[p].cur \in Deployments
  BY <1>0, <1>1 DEF Entitled, Acting
<1>3. /\ UNCHANGED <<granted, raced, overlapped, secrets>>
      /\ \/ dep' = dep
         \/ \E s \in {"in_progress", "completed", "failed"} :
              dep' = [dep EXCEPT ![g[p].cur] = s]
  BY DEF RunDeployment, HostUnresolved, MarkStack, MarkDeployment, SnapshotSecrets, histVars,
    SecretsUnreadable, CloneRepo, ExecuteOk, ExecuteFailed, FinishDeployment, FinishStack,
    UpdateDeployment
<1>4. \E x : g' = [g EXCEPT ![p] = x]
  BY DEF RunDeployment, HostUnresolved, MarkStack, MarkDeployment, SnapshotSecrets, Goto, Become,
    SecretsUnreadable, CloneRepo, ExecuteOk, ExecuteFailed, FinishDeployment, FinishStack
<1>5. g'[p].pc \in Running \cup {"idle", "persist"} /\ (g'[p].pc \in Running => g'[p].cur = g[p].cur)
  <2>1. CASE \E r : g' = [g EXCEPT ![p] = Returned(p, r)]
    BY <1>0, <2>1, ReturnedPc, NotActing DEF Acting
  <2>2. CASE \E label \in Running : g' = [g EXCEPT ![p] = [g[p] EXCEPT !.pc = label]]
    BY <1>0, <2>2 DEF Goroutine
  <2>3. CASE MarkStack(p)
    <3> DEFINE r == [g[p].copy EXCEPT !.status = "deploying"]
    <3>1. g' = [g EXCEPT ![p] = [g[p] EXCEPT !.pc = "mark", !.copy = r]]
      BY <2>3 DEF MarkStack, Become
    <3> HIDE DEF r
    <3>2. QED
      BY <1>0, <3>1 DEF Goroutine, Running
  <2>4. CASE SnapshotSecrets(p)
    BY <1>0, <2>4 DEF SnapshotSecrets, Become, Goroutine, Running
  <2>5. CASE SecretsUnreadable(p) \/ FinishStack(p)
    BY <2>1, <2>5 DEF SecretsUnreadable, FinishStack, Become
  <2>6. CASE HostUnresolved(p) \/ MarkDeployment(p) \/ CloneRepo(p) \/ FinishDeployment(p)
             \/ ExecuteOk(p) \/ ExecuteFailed(p)
    BY <2>2, <2>6 DEF HostUnresolved, MarkDeployment, CloneRepo, FinishDeployment, ExecuteOk,
      ExecuteFailed, Goto, Become, Running
  <2>7. QED
    BY <2>3, <2>4, <2>5, <2>6 DEF RunDeployment
<1>6. QED
  BY <1>0, <1>1, <1>2, <1>3, <1>4, <1>5

\* Steps that neither hold nor run a record: they move one goroutine outside
\* the dedupe window and outside runDeployment.
Idles(p) ==
  \/ DeployStack(p) \/ LegacyWebhook(p) \/ PutRead(p) \/ PutWrite(p)
  \/ ReconcileLoad(p) \/ ReconcileNoDeploy(p) \/ ReconcilePersist(p) \/ DeployUnrecorded(p)

\* They leave the records alone and the goroutine with nothing to do on one.
LEMMA IdlesSteps ==
  ASSUME TypeOK, NEW p \in Procs, Idles(p)
  PROVE  /\ \A q \in Procs \ {p} : g'[q] = g[q]
         /\ g'[p].pc \in {"deploy", "patch", "idle", "persist"}
         /\ UNCHANGED <<dep, granted, raced, overlapped, secrets, containers>>
<1>0. g \in [Procs -> Goroutine]
  BY DEF TypeOK
<1>1. UNCHANGED <<dep, granted, raced, overlapped, secrets, containers>>
  BY DEF Idles, DeployStack, LegacyWebhook, PutRead, PutWrite, ReconcileLoad, ReconcileNoDeploy,
    ReconcilePersist, DeployUnrecorded, histVars
<1>2. CASE \E label \in {"deploy", "patch"} : ReadStack(p, label)
  BY <1>0, <1>1, <1>2 DEF ReadStack, Become, Goroutine
<1>3. CASE \E r : g' = [g EXCEPT ![p] = Returned(p, r)] \/ g' = [g EXCEPT ![p] = Idle]
  BY <1>0, <1>1, <1>3, ReturnedPc
<1>4. QED
  BY <1>2, <1>3 DEF Idles, DeployStack, LegacyWebhook, PutRead, PutWrite, ReconcileLoad,
    ReconcileNoDeploy, ReconcilePersist, DeployUnrecorded, Become

\* The steps of the approve and the reject requests outside runDeployment.
LEMMA DecideSteps ==
  ASSUME TypeOK, GateInv, NEW p \in Procs,
         \/ \E d \in Deployments : GrantApproval(p, d) \/ RejectCheck(p, d)
         \/ ApproveCheck(p) \/ ApproveLoad(p) \/ Reject(p)
  PROVE  /\ \A q \in Procs \ {p} : g'[q] = g[q]
         /\ g'[p].pc \in {"granted", "approve", "run", "reject", "idle"}
         /\ granted \subseteq granted' /\ raced' = raced
         /\ \/ dep' = dep
            \/ /\ g[p].pc = "reject" /\ g'[p].pc = "idle" /\ g[p].cur \in Deployments
               /\ dep' = [dep EXCEPT ![g[p].cur] = "rejected"]
<1>0. g \in [Procs -> Goroutine] /\ Entitled(g[p]) /\ Idle.pc = "idle"
  BY DEF TypeOK, GateInv, Idle
<1> USE DEF Become, Goto, At, histVars
<1>1. ASSUME NEW d \in Deployments, GrantApproval(p, d) \/ RejectCheck(p, d)
      PROVE  /\ \A q \in Procs \ {p} : g'[q] = g[q]
             /\ g'[p].pc \in {"granted", "reject"}
             /\ granted \subseteq granted' /\ raced' = raced /\ dep' = dep
  BY <1>0, <1>1 DEF GrantApproval, RejectCheck, Idle
<1>2. CASE ApproveCheck(p)
  BY <1>0, <1>2 DEF ApproveCheck, Goroutine
<1>3. CASE ApproveLoad(p)
  BY <1>0, <1>3 DEF ApproveLoad, ReadStack, Goroutine
<1>4. CASE Reject(p)
  BY <1>0, <1>4 DEF Reject, UpdateDeployment, Entitled, Acting
<1>5. QED
  BY <1>1, <1>2, <1>3, <1>4

\* What requestApproval has seen of the open approvals still holds when it
\* inserts its own, outside the window between the two.
THEOREM RequestInvariant == Spec => []RequestInv
<1> USE LifecycleAssumption
<1>1. Init => RequestInv
  BY DEF Init, RequestInv, OneOpenApproval, PendingApproval, At, Idle, Procs
<1>2. TypeOK /\ GateInv /\ RequestInv /\ [Next]_vars => RequestInv'
  <2> SUFFICES ASSUME TypeOK, GateInv, RequestInv, [Next]_vars PROVE RequestInv'
    OBVIOUS
  <2>0. g \in [Procs -> Goroutine] /\ dep \in [Deployments -> DepStatus] /\ Runners \subseteq Procs
    BY DEF TypeOK, Procs
  <2>1. ASSUME NEW p \in Procs, Idles(p) PROVE RequestInv'
    BY <2>1, IdlesSteps, RequestFrame
  <2>2. ASSUME NEW p \in Procs,
               \/ \E d \in Deployments : GrantApproval(p, d) \/ RejectCheck(p, d)
               \/ ApproveCheck(p) \/ ApproveLoad(p) \/ Reject(p)
        PROVE RequestInv'
    <3>1. \A d \in Deployments : dep'[d] = "pending_approval" => dep[d] = "pending_approval"
      BY <2>0, <2>2, DecideSteps
    <3>2. QED
      BY <2>2, <3>1, DecideSteps, RequestFrame
  <2>3. ASSUME NEW p \in Procs, RunDeployment(p) PROVE RequestInv'
    <3>1. \A d \in Deployments : dep'[d] = "pending_approval" => dep[d] = "pending_approval"
      BY <2>0, <2>3, RunSteps
    <3>2. g'[p].pc # "request"
      BY <2>3, RunSteps DEF Running
    <3>3. QED
      BY <2>3, <3>1, <3>2, RunSteps, RequestFrame
  <2>4. ASSUME NEW p \in Procs, Deploy(p) PROVE RequestInv'
    <3>1. PICK d \in Deployments :
            /\ dep[d] = "none" /\ dep' = [dep EXCEPT ![d] = "pending"]
            /\ g' = [g EXCEPT ![p] = [g[p] EXCEPT !.pc = "run", !.cur = d]]
      BY <2>4 DEF Deploy, UpdateDeployment, Become
    <3>2. g'[p].pc = "run" /\ \A q \in Procs \ {p} : g'[q] = g[q]
      BY <2>0, <3>1 DEF Goroutine
    <3>3. raced' = raced /\ \A e \in Deployments :
            dep'[e] = "pending_approval" => dep[e] = "pending_approval"
      BY <2>0, <2>4, <3>1 DEF Deploy
    <3>4. QED
      BY <3>2, <3>3, RequestFrame
  <2>5. ASSUME NEW p \in Runners, CheckPending(p) PROVE RequestInv'
    <3>1. CASE PendingApproval
      <4>1. g'[p].pc # "request" /\ \A q \in Procs \ {p} : g'[q] = g[q]
        BY <2>0, <2>5, <3>1, ReturnedPc DEF CheckPending, Become
      <4>2. dep' = dep /\ raced' = raced
        BY <2>5, <3>1 DEF CheckPending, TypeOK
      <4>3. QED
        BY <2>0, <4>1, <4>2, RequestFrame
    <3>2. CASE ~PendingApproval
      <4>1. \A q \in Runners \ {p} : At(q, "request")' <=> At(q, "request")
        BY <2>0, <2>5, <3>2 DEF CheckPending, Goto, Become, At
      <4>2. /\ ~PendingApproval'
            /\ OneOpenApproval' <=> OneOpenApproval
        BY <2>5, <3>2 DEF CheckPending, PendingApproval, OneOpenApproval
      <4>3. ~raced' => ~raced /\ \A q \in Runners \ {p} : ~At(q, "request")
        BY <2>5, <3>2 DEF CheckPending
      <4>4. QED
        BY <4>1, <4>2, <4>3 DEF RequestInv
    <3>3. QED
      BY <3>1, <3>2
  <2>6. ASSUME NEW p \in Runners, RequestApproval(p) PROVE RequestInv'
    <3>1. PICK d \in Deployments : dep[d] = "none" /\ dep' = [dep EXCEPT ![d] = "pending_approval"]
      BY <2>6 DEF RequestApproval, UpdateDeployment
    <3>2. g'[p].pc # "request" /\ \A q \in Procs \ {p} : g'[q] = g[q]
      BY <2>0, <2>6, ReturnedPc DEF RequestApproval, Become
    <3>3. raced' = raced /\ At(p, "request")
      BY <2>6 DEF RequestApproval, histVars
    <3>4. SUFFICES ASSUME ~raced PROVE OneOpenApproval' /\ \A q \in Runners : ~At(q, "request")'
      BY <3>3 DEF RequestInv
    <3>5. ~PendingApproval /\ \A q \in Runners : At(q, "request") => q = p
      BY <3>3, <3>4 DEF RequestInv
    <3>6. \A q \in Runners : ~At(q, "request")'
      BY <2>0, <3>2, <3>5 DEF At
    <3>7. \A e \in Deployments : dep'[e] = "pending_approval" => e = d
      BY <2>0, <3>1, <3>5 DEF PendingApproval
    <3>8. QED
      BY <3>6, <3>7 DEF OneOpenApproval
  <2>7. CASE RotateSecrets \/ DeleteStack \/ UNCHANGED vars
    BY <2>7 DEF RotateSecrets, DeleteStack, vars, histVars, RequestInv, OneOpenApproval,
      PendingApproval, At
  <2>8. CASE Crash
    <3>1. dep' = dep /\ raced' = raced /\ \A q \in Runners : g'[q].pc = "idle"
      BY <2>0, <2>8 DEF Crash, histVars, Idle
    <3>2. QED
      BY <3>1 DEF RequestInv, OneOpenApproval, At
  <2>9. QED
    BY <2>1, <2>2, <2>3, <2>4, <2>5, <2>6, <2>7, <2>8
       DEF Next, Continue, Procs, Runners, Idles
<1>3. QED
  BY <1>1, <1>2, TypeCorrect, GateInvariant, PTL DEF Spec

\* The dedupe of requestApproval is exact outside the window between its check
\* and its insert.
THEOREM DedupeIsExact == Spec => []DedupeOutsideWindow
<1>1. RequestInv => DedupeOutsideWindow
  BY DEF RequestInv, DedupeOutsideWindow
<1>2. QED
  BY <1>1, RequestInvariant, PTL

-----------------------------------------------------------------------------
(* The outcome of a deployment. *)

\* A record that went through no approval is held and rejected, or it is run
\* by the one goroutine that created it; only that one decides its outcome.
Owned(x) ==
  x.cur \notin granted =>
    /\ x.pc = "reject" => dep[x.cur] \in {"pending_approval", "rejected"}
    /\ x.pc \in Running \ {"okRow", "failRow"} => dep[x.cur] \in {"pending", "in_progress"}

OwnerInv ==
  /\ \A p \in Procs : Owned(g[p])
  /\ \A p, q \in Procs :
       g[p].pc \in Running /\ g[q].pc \in Running /\ g[p].cur = g[q].cur /\ p # q
         => g[p].cur \in granted

\* A step of p that leaves the records alone.
LEMMA OwnerFrame ==
  ASSUME OwnerInv, NEW p \in Procs, \A q \in Procs \ {p} : g'[q] = g[q],
         dep' = dep, granted \subseteq granted', Owned(g[p])',
         g'[p].pc \in Running /\ g'[p].cur \notin granted'
           => g[p].pc \in Running /\ g'[p].cur = g[p].cur
  PROVE  OwnerInv'
<1>1. ASSUME NEW q \in Procs PROVE Owned(g[q])'
  <2>1. CASE q = p
    BY <2>1
  <2>2. CASE q # p
    BY <2>2 DEF OwnerInv, Owned
  <2>3. QED
    BY <2>1, <2>2
<1>2. ASSUME NEW q \in Procs, NEW r \in Procs, q # r, g'[q].pc \in Running, g'[r].pc \in Running,
             g'[q].cur = g'[r].cur
      PROVE  g'[q].cur \in granted'
  <2>1. CASE q # p /\ r # p
    BY <1>2, <2>1 DEF OwnerInv
  <2>2. CASE q = p \/ r = p
    BY <1>2, <2>2 DEF OwnerInv
  <2>3. QED
    BY <2>1, <2>2
<1>3. QED
  BY <1>1, <1>2 DEF OwnerInv

\* A step of p that writes the record it works on.
LEMMA OwnerWrites ==
  ASSUME TypeOK, GateInv, OwnerInv, NEW p \in Procs, \A q \in Procs \ {p} : g'[q] = g[q],
         NEW s, dep' = [dep EXCEPT ![g[p].cur] = s], granted' = granted,
         g[p].pc \in Running \ {"okRow", "failRow"} \/ (g[p].pc = "reject" /\ s = "rejected"),
         Owned(g[p])',
         g'[p].pc \in Running => g[p].pc \in Running /\ g'[p].cur = g[p].cur
  PROVE  OwnerInv'
<1>0. dep \in [Deployments -> DepStatus] /\ g[p].cur \in Deployments
  BY DEF TypeOK, GateInv, Entitled, Acting
<1>1. ASSUME NEW q \in Procs, q # p PROVE Owned(g[q])'
  <2>1. CASE g[q].cur # g[p].cur \/ g[q].cur \in granted
    BY <1>0, <1>1, <2>1 DEF OwnerInv, Owned
  <2>2. CASE g[q].cur = g[p].cur /\ g[q].cur \notin granted
    <3>1. Owned(g[p]) /\ Owned(g[q]) /\ ~(g[p].pc \in Running /\ g[q].pc \in Running)
      BY <1>1, <2>2 DEF OwnerInv
    <3>2. CASE g[p].pc = "reject"
      BY <1>0, <1>1, <2>2, <3>1, <3>2 DEF Owned, Running
    <3>3. CASE g[p].pc \in Running \ {"okRow", "failRow"}
      BY <1>0, <1>1, <2>2, <3>1, <3>3 DEF Owned
    <3>4. QED
      BY <3>2, <3>3
  <2>3. QED
    BY <2>1, <2>2
<1>2. ASSUME NEW q \in Procs, NEW r \in Procs, q # r, g'[q].pc \in Running, g'[r].pc \in Running,
             g'[q].cur = g'[r].cur
      PROVE  g'[q].cur \in granted'
  <2>1. CASE q # p /\ r # p
    BY <1>2, <2>1 DEF OwnerInv
  <2>2. CASE q = p \/ r = p
    BY <1>2, <2>2 DEF OwnerInv
  <2>3. QED
    BY <2>1, <2>2
<1>3. QED
  BY <1>1, <1>2 DEF OwnerInv

\* runDeployment keeps the ownership: after the outcome is written, only the
\* stack row is left to write.
LEMMA OwnerRuns ==
  ASSUME TypeOK, GateInv, OwnerInv, NEW p \in Procs, RunDeployment(p)
  PROVE  OwnerInv'
<1>0. /\ g \in [Procs -> Goroutine] /\ dep \in [Deployments -> DepStatus]
      /\ Owned(g[p]) /\ g[p].cur \in Deployments /\ g[p].pc \in Running
      /\ \A q \in Procs \ {p} : g'[q] = g[q]
      /\ g'[p].pc \in Running => g'[p].cur = g[p].cur
      /\ granted' = granted
  BY RunSteps DEF TypeOK, OwnerInv
<1> USE DEF At, Goto, Become, UpdateDeployment
<1>1. CASE g'[p].pc \notin Running /\ dep' = dep
  <2>1. g'[p].pc # "reject"
    BY <1>1, RunSteps DEF Running
  <2>2. QED
    BY <1>0, <1>1, <2>1, OwnerFrame DEF Owned
<1>2. CASE dep' = dep /\ g[p].pc \notin {"okRow", "failRow"} /\ g'[p].pc \in Running
  BY <1>0, <1>2, OwnerFrame DEF Owned, Running
<1>3. CASE /\ dep' = [dep EXCEPT ![g[p].cur] = "in_progress"]
           /\ g[p].pc \in Running \ {"okRow", "failRow"}
  <2>1. Owned(g[p])'
    <3>1. CASE g'[p].pc \in Running
      BY <1>0, <1>3, <3>1 DEF Owned, Running
    <3>2. CASE g'[p].pc \notin Running
      BY <3>2, RunSteps DEF Owned, Running
    <3>3. QED
      BY <3>1, <3>2
  <2>2. QED
    BY <1>0, <1>3, <2>1, OwnerWrites
<1>4. CASE /\ \E s \in {"completed", "failed"} : dep' = [dep EXCEPT ![g[p].cur] = s]
           /\ g[p].pc \in Running \ {"okRow", "failRow"} /\ g'[p].pc \in {"okRow", "failRow"}
  <2>1. Owned(g[p])'
    BY <1>4 DEF Owned, Running
  <2>2. QED
    BY <1>0, <1>4, <2>1, OwnerWrites
<1>5. CASE HostUnresolved(p) \/ FinishDeployment(p)
  <2>1. CASE HostUnresolved(p)
    BY <1>0, <1>4, <2>1 DEF HostUnresolved, Running, Goroutine
  <2>2. CASE FinishDeployment(p)
    BY <1>0, <1>4, <2>2 DEF FinishDeployment, Running, Goroutine
  <2>3. QED
    BY <1>5, <2>1, <2>2
<1>6. CASE MarkDeployment(p) \/ SecretsUnreadable(p)
  BY <1>3, <1>6 DEF MarkDeployment, SecretsUnreadable, Running
<1>7. CASE CloneRepo(p)
  <2>1. g'[p].pc \in {"exec", "fail"}
    BY <1>0, <1>7 DEF CloneRepo, Goroutine
  <2>2. QED
    BY <1>2, <1>3, <1>7, <2>1 DEF CloneRepo, Running
<1>8. CASE MarkStack(p) \/ SnapshotSecrets(p) \/ ExecuteOk(p) \/ ExecuteFailed(p)
  <2>1. dep' = dep /\ g[p].pc \notin {"okRow", "failRow"}
    BY <1>8 DEF MarkStack, SnapshotSecrets, ExecuteOk, ExecuteFailed
  <2>2. QED
    BY <1>1, <1>2, <2>1
<1>9. CASE FinishStack(p)
  <2>1. dep' = dep /\ g'[p].pc \notin Running
    BY <1>0, <1>9, ReturnedPc, NotActing DEF FinishStack, Acting
  <2>2. QED
    BY <1>1, <2>1
<1>10. QED
  BY <1>5, <1>6, <1>7, <1>8, <1>9 DEF RunDeployment

\* A record that never went through the approve endpoint is written by one
\* goroutine only, the one that created it.
THEOREM OwnerInvariant == Spec => []OwnerInv
<1> USE LifecycleAssumption
<1>1. Init => OwnerInv
  BY DEF Init, OwnerInv, Owned, Idle, Running
<1>2. TypeOK /\ GateInv /\ OwnerInv /\ [Next]_vars => OwnerInv'
  <2> SUFFICES ASSUME TypeOK, GateInv, OwnerInv, [Next]_vars PROVE OwnerInv'
    OBVIOUS
  <2>0. /\ g \in [Procs -> Goroutine] /\ dep \in [Deployments -> DepStatus]
        /\ \A p \in Procs : Owned(g[p]) /\ Entitled(g[p])
    BY DEF TypeOK, OwnerInv, GateInv
  <2> USE DEF At, Goto, Become, UpdateDeployment, histVars
  <2>1. ASSUME NEW p \in Procs, \A q \in Procs \ {p} : g'[q] = g[q],
               g'[p].pc \in {"deploy", "patch", "idle", "persist", "request"},
               dep' = dep, granted' = granted
        PROVE  OwnerInv'
    <3>1. g'[p].pc \notin Running /\ g'[p].pc # "reject"
      BY <2>1 DEF Running
    <3>2. QED
      BY <2>1, <3>1, OwnerFrame DEF Owned
  <2>2. ASSUME NEW p \in Procs, Idles(p) PROVE OwnerInv'
    BY <2>1, <2>2, IdlesSteps
  <2>3. ASSUME NEW p \in Procs, CheckPending(p) PROVE OwnerInv'
    <3>1. g'[p].pc \in {"idle", "persist", "request"}
      BY <2>0, <2>3, ReturnedPc DEF CheckPending, Goroutine
    <3>2. dep' = dep /\ granted' = granted /\ \A q \in Procs \ {p} : g'[q] = g[q]
      BY <2>0, <2>3 DEF CheckPending
    <3>3. QED
      BY <2>1, <3>1, <3>2
  <2>4. ASSUME NEW p \in Procs, NEW d \in Deployments, GrantApproval(p, d) \/ RejectCheck(p, d)
        PROVE OwnerInv'
    <3>1. /\ g'[p].pc \in {"granted", "reject"} /\ g'[p].cur = d
          /\ dep' = dep /\ dep[d] = "pending_approval" /\ granted \subseteq granted'
          /\ \A q \in Procs \ {p} : g'[q] = g[q]
      <4>1. CASE GrantApproval(p, d)
        BY <2>0, <4>1 DEF GrantApproval, Idle
      <4>2. CASE RejectCheck(p, d)
        BY <2>0, <4>2 DEF RejectCheck, Idle
      <4>3. QED
        BY <2>4, <4>1, <4>2
    <3>2. QED
      BY <3>1, OwnerFrame DEF Owned, Running
  <2>5. ASSUME NEW p \in Procs, ApproveCheck(p) \/ ApproveLoad(p) PROVE OwnerInv'
    <3>1. g[p].cur \in granted /\ dep' = dep /\ granted' = granted
      BY <2>0, <2>5 DEF ApproveCheck, ApproveLoad, Entitled
    <3>2. /\ \A q \in Procs \ {p} : g'[q] = g[q]
          /\ g'[p].pc = "idle" \/ (g'[p].pc \in {"approve", "run"} /\ g'[p].cur = g[p].cur)
      <4>1. CASE g' = [g EXCEPT ![p] = Idle]
        BY <2>0, <4>1 DEF Idle
      <4>2. CASE g' = [g EXCEPT ![p] = [g[p] EXCEPT !.pc = "approve"]]
        BY <2>0, <4>2 DEF Goroutine
      <4>3. CASE g' = [g EXCEPT ![p] = [g[p] EXCEPT !.pc = "run", !.copy = row]]
        BY <2>0, <4>3 DEF Goroutine
      <4>4. QED
        BY <2>5, <4>1, <4>2, <4>3 DEF ApproveCheck, ApproveLoad, ReadStack
    <3>3. QED
      BY <3>1, <3>2, OwnerFrame DEF Owned, Running
  <2>6. ASSUME NEW p \in Procs, Reject(p) PROVE OwnerInv'
    <3>1. g'[p].pc = "idle" /\ \A q \in Procs \ {p} : g'[q] = g[q]
      BY <2>0, <2>6 DEF Reject, Idle
    <3>2. dep' = [dep EXCEPT ![g[p].cur] = "rejected"] /\ granted' = granted /\ g[p].pc = "reject"
      BY <2>6 DEF Reject
    <3>3. Owned(g[p])' /\ g'[p].pc \notin Running
      BY <3>1 DEF Owned, Running
    <3>4. QED
      BY <3>1, <3>2, <3>3, OwnerWrites
  <2>7. ASSUME NEW p \in Procs, RunDeployment(p) PROVE OwnerInv'
    BY <2>7, OwnerRuns
  \* A record that is created is nobody's yet.
  <2>8. ASSUME NEW p \in Procs, NEW d \in Deployments, NEW s \in DepStatus, dep[d] = "none",
               dep' = [dep EXCEPT ![d] = s], granted' = granted,
               \A q \in Procs \ {p} : g'[q] = g[q],
               g'[p].pc \in {"idle", "persist"} \/ (g'[p].pc = "run" /\ g'[p].cur = d /\ s = "pending")
        PROVE  OwnerInv'
    <3>1. \A q \in Procs : g[q].pc \in Running \cup {"reject"} => g[q].cur # d
      BY <2>0, <2>8 DEF Entitled, Acting
    <3>2. Owned(g[p])'
      BY <2>0, <2>8 DEF Owned, Running
    <3>3. \A q \in Procs \ {p} : Owned(g[q])'
      <4> SUFFICES ASSUME NEW q \in Procs \ {p} PROVE Owned(g[q])'
        OBVIOUS
      <4>1. Owned(g[q]) /\ g'[q] = g[q]
        BY <2>0, <2>8
      <4>2. g[q].pc \in Running \cup {"reject"} => dep'[g[q].cur] = dep[g[q].cur]
        BY <2>0, <2>8, <3>1 DEF Entitled, Acting
      <4>3. QED
        BY <2>8, <4>1, <4>2 DEF Owned
    <3>4. ASSUME NEW q \in Procs, NEW r \in Procs, q # r, g'[q].pc \in Running,
                 g'[r].pc \in Running, g'[q].cur = g'[r].cur
          PROVE  g'[q].cur \in granted'
      <4>1. CASE q # p /\ r # p
        BY <2>8, <3>4, <4>1 DEF OwnerInv
      <4>2. CASE q = p \/ r = p
        BY <2>8, <3>1, <3>4, <4>2 DEF Running
      <4>3. QED
        BY <4>1, <4>2
    <3>5. QED
      BY <3>2, <3>3, <3>4 DEF OwnerInv
  <2>9. ASSUME NEW p \in Procs, Deploy(p) PROVE OwnerInv'
    <3>1. PICK d \in Deployments :
            /\ dep[d] = "none" /\ dep' = [dep EXCEPT ![d] = "pending"]
            /\ g' = [g EXCEPT ![p] = [g[p] EXCEPT !.pc = "run", !.cur = d]]
      BY <2>9 DEF Deploy
    <3>2. g'[p].pc = "run" /\ g'[p].cur = d /\ \A q \in Procs \ {p} : g'[q] = g[q]
      BY <2>0, <3>1 DEF Goroutine
    <3>3. granted' = granted /\ "pending" \in DepStatus
      BY <2>9 DEF Deploy, DepStatus
    <3>4. QED
      BY <2>8, <3>1, <3>2, <3>3
  <2>10. ASSUME NEW p \in Procs, RequestApproval(p) PROVE OwnerInv'
    <3>1. PICK d \in Deployments :
            dep[d] = "none" /\ dep' = [dep EXCEPT ![d] = "pending_approval"]
      BY <2>10 DEF RequestApproval
    <3>2. g'[p].pc \in {"idle", "persist"} /\ \A q \in Procs \ {p} : g'[q] = g[q]
      BY <2>0, <2>10, ReturnedPc DEF RequestApproval
    <3>3. granted' = granted /\ "pending_approval" \in DepStatus
      BY <2>10 DEF RequestApproval, DepStatus
    <3>4. QED
      BY <2>8, <3>1, <3>2, <3>3
  <2>11. CASE RotateSecrets \/ DeleteStack \/ UNCHANGED vars
    BY <2>11 DEF RotateSecrets, DeleteStack, vars, OwnerInv, Owned
  <2>12. CASE Crash
    BY <2>12 DEF Crash, OwnerInv, Owned, Idle, Running
  <2>13. QED
    BY <2>2, <2>3, <2>4, <2>5, <2>6, <2>7, <2>9, <2>10, <2>11, <2>12
       DEF Next, Continue, Procs, Runners, Idles
<1>3. QED
  BY <1>1, <1>2, TypeCorrect, GateInvariant, PTL DEF Spec

\* The outcome of a deployment is final unless its record went through the
\* approve endpoint.
THEOREM OutcomeIsFinal == Spec => OutcomeKept
<1> DEFINE Step == \A d \in Deployments :
             dep[d] \in {"completed", "failed"} /\ dep'[d] # dep[d] => d \in granted
<1>1. TypeOK /\ GateInv /\ OwnerInv /\ [Next]_vars => [Step]_vars
  <2> SUFFICES ASSUME TypeOK, GateInv, OwnerInv, Next, NEW d \in Deployments,
                      dep[d] \in {"completed", "failed"}, dep'[d] # dep[d]
               PROVE  d \in granted
    OBVIOUS
  <2>0. dep \in [Deployments -> DepStatus] /\ \A p \in Procs : Owned(g[p])
    BY DEF TypeOK, OwnerInv
  <2>1. ASSUME NEW p \in Procs, RunDeployment(p) PROVE d \in granted
    <3>1. g[p].pc \in Running /\ d = g[p].cur
      BY <2>0, <2>1, RunSteps
    <3>2. g[p].pc \notin {"okRow", "failRow"}
      BY <2>1 DEF RunDeployment, HostUnresolved, MarkStack, MarkDeployment, SnapshotSecrets, At,
        SecretsUnreadable, CloneRepo, ExecuteOk, ExecuteFailed, FinishDeployment, FinishStack
    <3>3. QED
      BY <2>0, <3>1, <3>2 DEF Owned
  <2>2. ASSUME NEW p \in Procs, Reject(p) PROVE d \in granted
    <3>1. d = g[p].cur /\ g[p].pc = "reject"
      BY <2>0, <2>2 DEF Reject, UpdateDeployment, At
    <3>2. QED
      BY <2>0, <3>1 DEF Owned
  <2>3. ASSUME NEW p \in Procs, Deploy(p) \/ RequestApproval(p) PROVE FALSE
    BY <2>0, <2>3 DEF Deploy, RequestApproval, UpdateDeployment
  <2>4. QED
    BY <2>1, <2>2, <2>3 DEF Next, Continue, Procs, Runners, DeployStack, LegacyWebhook,
       ReconcileLoad, ReconcileNoDeploy, ReconcilePersist, GrantApproval, ApproveCheck,
       ApproveLoad, RejectCheck, PutRead, PutWrite, RotateSecrets, DeleteStack, Crash,
       CheckPending, DeployUnrecorded
<1>2. QED
  BY <1>1, TypeCorrect, GateInvariant, OwnerInvariant, PTL DEF Spec, OutcomeKept

-----------------------------------------------------------------------------
(* The secrets hash. *)

\* Only goroutines that deploy are inside runDeployment, and only one of them
\* unless the history says otherwise.
OneRunning ==
  \A p \in Procs : g[p].pc \in Running =>
    p \in Runners /\ (~overlapped => \A q \in Procs : g[q].pc \in Running => q = p)

\* Nobody has seen a secret set that is yet to come.
VersionsPast ==
  /\ row.hash <= secrets /\ \A c \in containers : c.carries <= secrets
  /\ \A p \in Procs : g[p].copy.hash <= secrets /\ g[p].snap <= secrets

\* The hash of the current secrets is in a row somewhere, or will be.
Acclaims(x) == x.copy.hash = secrets \/ (x.pc \in {"ok", "okRow"} /\ x.snap = secrets)
HashKnown == row.hash = secrets \/ \E p \in Procs : Acclaims(g[p])

\* Then a deployment has succeeded with them: no container carries others,
\* except those it left behind, and a deployment that is about to create
\* containers has read them too.
Applied ==
  /\ \A c \in containers : c.carries = secrets \/ c.left
  /\ \A p \in Procs : g[p].pc \in {"clone", "exec"} => g[p].snap = secrets

HashInv ==
  /\ OneRunning
  /\ ~MayReuse => VersionsPast
  /\ ~MayReuse /\ ~overlapped /\ HashKnown => Applied

\* A step of p that leaves the secrets and the containers alone: it may take
\* over the row, put back its own copy of it, or read the secrets.
Carries(p) ==
  /\ \A q \in Procs \ {p} : g'[q] = g[q]
  /\ secrets' = secrets /\ containers' = containers /\ (overlapped => overlapped')
  /\ \/ g'[p].copy.hash \in {g[p].copy.hash, row.hash, 0}
     \/ g[p].pc = "okRow" /\ g'[p].copy.hash = g[p].snap
  /\ \/ row'.hash \in {row.hash, g[p].copy.hash}
     \/ g[p].pc = "okRow" /\ row'.hash = g[p].snap
  /\ g'[p].snap \in {g[p].snap, secrets, 0}
  /\ g'[p].pc \in {"clone", "exec"} =>
       g'[p].snap = secrets \/ (g[p].pc \in {"clone", "exec"} /\ g'[p].snap = g[p].snap)
  /\ g'[p].pc \in {"ok", "okRow"} =>
       g[p].pc \in {"ok", "okRow"} /\ g'[p].snap = g[p].snap

\* Such a step keeps the hash honest, when there is still one deployment.
LEMMA HashFrame ==
  ASSUME TypeOK, TypeOK', HashInv, NEW p \in Procs, Carries(p), OneRunning'
  PROVE  HashInv'
<1>0. /\ g \in [Procs -> Goroutine] /\ g' \in [Procs -> Goroutine]
      /\ row \in Row /\ row' \in Row /\ secrets \in Version /\ Version \subseteq Nat
      /\ \A q \in Procs : /\ g[q].copy.hash \in Nat /\ g[q].snap \in Nat
                          /\ g'[q].copy.hash \in Nat /\ g'[q].snap \in Nat
      /\ row.hash \in Nat /\ row'.hash \in Nat /\ secrets \in Nat
      /\ \A c \in containers : c.carries \in Nat
  BY LifecycleAssumption DEF TypeOK, Goroutine, Row, Version, Container
<1>1. CASE MayReuse
  BY <1>1 DEF HashInv
<1>2. CASE ~MayReuse
  <2>1. VersionsPast
    BY <1>2 DEF HashInv
  <2>2. g'[p].copy.hash <= secrets /\ g'[p].snap <= secrets /\ row'.hash <= secrets
    BY <1>0, <2>1 DEF Carries, VersionsPast
  <2>3. VersionsPast'
    BY <1>0, <2>1, <2>2 DEF Carries, VersionsPast
  <2>4. ASSUME ~overlapped', HashKnown' PROVE Applied'
    <3>1. CASE HashKnown
      <4>1. Applied
        BY <1>2, <2>4, <3>1 DEF HashInv, Carries
      <4>2. QED
        BY <4>1 DEF Applied, Carries
    <3>2. CASE ~HashKnown
      <4>1. row'.hash = secrets \/ Acclaims(g[p])' => secrets = 0
        BY <3>2 DEF HashKnown, Acclaims, Carries
      <4>2. \A q \in Procs \ {p} : ~Acclaims(g[q])'
        BY <3>2 DEF HashKnown, Acclaims, Carries
      <4>3. secrets = 0
        BY <2>4, <4>1, <4>2 DEF HashKnown, Carries
      <4>4. (\A c \in containers : c.carries = 0) /\ \A q \in Procs : g'[q].snap = 0
        <5>1. secrets' = 0 /\ containers' = containers
          BY <4>3 DEF Carries
        <5>2. \A c \in containers : c.carries <= 0
          BY <2>1, <4>3 DEF VersionsPast
        <5>3. \A q \in Procs : g'[q].snap <= 0
          BY <2>3, <5>1 DEF VersionsPast
        <5>4. QED
          BY <1>0, <5>2, <5>3
      <4>5. QED
        BY <4>3, <4>4 DEF Applied, Carries
    <3>3. QED
      BY <3>1, <3>2
  <2>5. QED
    BY <2>3, <2>4 DEF HashInv
<1>3. QED
  BY <1>1, <1>2

\* No deployment begins.
LEMMA RunningFrame ==
  ASSUME OneRunning, NEW p \in Procs, \A q \in Procs \ {p} : g'[q] = g[q],
         overlapped => overlapped', g'[p].pc \in Running => g[p].pc \in Running
  PROVE  OneRunning'
BY DEF OneRunning

\* A deployment begins, and the history notes whether one is running.
LEMMA RunningBegins ==
  ASSUME OneRunning, NEW p \in Runners, \A q \in Procs \ {p} : g'[q] = g[q], NoteOverlap(p)
  PROVE  OneRunning'
<1>1. ~overlapped' => ~overlapped /\ \A q \in Procs \ {p} : g[q].pc \notin Running
  BY DEF NoteOverlap, OneRunning
<1>2. QED
  BY <1>1 DEF OneRunning, NoteOverlap, Procs

\* What Deploy leaves behind has the row it was given, or a new one.
LEMMA ReturnedHash ==
  ASSUME NEW p, NEW r
  PROVE  /\ Returned(p, r).copy.hash \in {r.hash, 0} /\ Returned(p, r).snap = 0
         /\ Idle.copy.hash = 0 /\ Idle.snap = 0
<1>1. /\ Idle.copy.hash = 0 /\ Idle.snap = 0
      /\ [Idle EXCEPT !.pc = "persist", !.copy = r].copy = r
      /\ [Idle EXCEPT !.pc = "persist", !.copy = r].snap = 0
  BY DEF Idle, NewRow
<1>2. QED
  BY <1>1 DEF Returned

\* Steps outside runDeployment.
LEMMA HashOutside ==
  ASSUME TypeOK, TypeOK', HashInv, NEW p \in Procs,
         \/ Idles(p) \/ CheckPending(p) \/ RequestApproval(p) \/ ApproveCheck(p) \/ Reject(p)
         \/ \E d \in Deployments : GrantApproval(p, d) \/ RejectCheck(p, d)
  PROVE  HashInv'
<1>0. /\ g \in [Procs -> Goroutine] /\ row \in Row /\ OneRunning
      /\ g[p].copy \in Row /\ (overlapped' = overlapped => (overlapped => overlapped'))
  BY DEF TypeOK, HashInv, Goroutine
<1> USE DEF At, Become, Goto, histVars
<1>1. secrets' = secrets /\ containers' = containers /\ overlapped' = overlapped
  BY DEF Idles, DeployStack, LegacyWebhook, PutRead, PutWrite, ReconcileLoad, ReconcileNoDeploy,
    ReconcilePersist, DeployUnrecorded, CheckPending, RequestApproval, ApproveCheck, Reject,
    GrantApproval, RejectCheck
<1>2. row'.hash \in {row.hash, g[p].copy.hash}
  <2>1. CASE PutWrite(p)
    <3>1. \A r \in Patched(g[p].copy) : r.hash = g[p].copy.hash
      BY <1>0 DEF Patched, Row
    <3>2. QED
      BY <2>1, <3>1 DEF PutWrite, UpdateStack
  <2>2. CASE ~PutWrite(p)
    BY <2>2 DEF Idles, DeployStack, LegacyWebhook, PutRead, ReconcileLoad, ReconcileNoDeploy,
      ReconcilePersist, DeployUnrecorded, CheckPending, RequestApproval, ApproveCheck, Reject,
      GrantApproval, RejectCheck, UpdateStack
  <2>3. QED
    BY <2>1, <2>2
<1>3. ASSUME \A q \in Procs \ {p} : g'[q] = g[q],
             g'[p].copy.hash \in {g[p].copy.hash, row.hash, 0}, g'[p].snap \in {g[p].snap, 0},
             g'[p].pc \notin Running
      PROVE  HashInv'
  <2>1. Carries(p)
    BY <1>1, <1>2, <1>3 DEF Carries, Running
  <2>2. OneRunning'
    BY <1>0, <1>1, <1>3, RunningFrame
  <2>3. QED
    BY <2>1, <2>2, HashFrame
<1>4. CASE g' = [g EXCEPT ![p] = Returned(p, g[p].copy)] \/ g' = [g EXCEPT ![p] = Idle]
  <2>1. g'[p].pc \notin Running
    BY <1>0, <1>4, ReturnedPc, NotActing DEF Acting
  <2>2. QED
    BY <1>0, <1>3, <1>4, <2>1, ReturnedHash
<1>5. CASE \E label \in {"deploy", "patch"} : g' = [g EXCEPT ![p] = [g[p] EXCEPT !.pc = label, !.copy = row]]
  BY <1>0, <1>3, <1>5 DEF Goroutine, Running
<1>6. CASE \E label \in {"request", "approve"} : g' = [g EXCEPT ![p] = [g[p] EXCEPT !.pc = label]]
  BY <1>0, <1>3, <1>6 DEF Goroutine, Running
<1>7. CASE \E label \in {"granted", "reject"}, d \in Deployments :
             g' = [g EXCEPT ![p] = [Idle EXCEPT !.pc = label, !.cur = d]]
  <2>1. PICK label \in {"granted", "reject"}, d \in Deployments :
             g' = [g EXCEPT ![p] = [Idle EXCEPT !.pc = label, !.cur = d]]
    BY <1>7
  <2>2. g'[p].copy.hash = 0 /\ g'[p].snap = 0 /\ g'[p].pc = label
    BY <1>0, <2>1 DEF Idle, NewRow
  <2>3. QED
    BY <1>0, <1>3, <2>1, <2>2 DEF Running
<1>8. QED
  <2>1. CASE Idles(p)
    BY <1>4, <1>5, <2>1 DEF Idles, DeployStack, LegacyWebhook, PutRead, PutWrite, ReconcileLoad,
      ReconcileNoDeploy, ReconcilePersist, DeployUnrecorded, ReadStack
  <2>2. CASE CheckPending(p) \/ RequestApproval(p) \/ ApproveCheck(p) \/ Reject(p)
    BY <1>4, <1>6, <2>2 DEF CheckPending, RequestApproval, ApproveCheck, Reject
  <2>3. CASE \E d \in Deployments : GrantApproval(p, d) \/ RejectCheck(p, d)
    BY <1>7, <2>3 DEF GrantApproval, RejectCheck
  <2>4. QED
    BY <2>1, <2>2, <2>3

\* Steps of runDeployment that leave the containers alone.
LEMMA HashRuns ==
  ASSUME TypeOK, TypeOK', GateInv, HashInv, NEW p \in Procs, RunDeployment(p),
         containers' = containers, ~ExecuteOk(p)
  PROVE  HashInv'
<1>0. /\ g \in [Procs -> Goroutine] /\ row \in Row /\ OneRunning /\ g[p].copy \in Row
      /\ secrets' = secrets /\ overlapped' = overlapped
      /\ \A q \in Procs \ {p} : g'[q] = g[q]
      /\ g[p].pc \in Running
  BY RunSteps DEF TypeOK, HashInv, Goroutine
<1>1. OneRunning'
  BY <1>0, RunningFrame
<1> USE DEF At, Become, Goto
<1>2. CASE /\ row' = row
           /\ \E label \in {"failRow", "secrets", "exec", "fail", "okRow"} :
                /\ g' = [g EXCEPT ![p] = [g[p] EXCEPT !.pc = label]]
                /\ label = "exec" => g[p].pc = "clone"
                /\ label = "okRow" => g[p].pc = "ok"
  <2>1. Carries(p)
    BY <1>0, <1>2 DEF Carries, Goroutine
  <2>2. QED
    BY <1>1, <2>1, HashFrame
<1>3. CASE MarkStack(p)
  <2> DEFINE r == [g[p].copy EXCEPT !.status = "deploying"]
  <2>1. r.hash = g[p].copy.hash
    BY <1>0 DEF Row
  <2>2. /\ g' = [g EXCEPT ![p] = [g[p] EXCEPT !.pc = "mark", !.copy = r]]
        /\ row' = IF row.exists THEN r ELSE row
    BY <1>3 DEF MarkStack, UpdateStack
  <2> HIDE DEF r
  <2>3. Carries(p)
    BY <1>0, <2>1, <2>2 DEF Carries, Goroutine
  <2>4. QED
    BY <1>1, <2>3, HashFrame
<1>4. CASE SnapshotSecrets(p)
  <2>1. Carries(p)
    BY <1>0, <1>4 DEF SnapshotSecrets, Carries, Goroutine
  <2>2. QED
    BY <1>1, <2>1, HashFrame
<1>5. CASE SecretsUnreadable(p)
  <2>1. g' = [g EXCEPT ![p] = Returned(p, g[p].copy)] /\ row' = row
    BY <1>5 DEF SecretsUnreadable
  <2>2. g'[p].copy.hash \in {g[p].copy.hash, 0} /\ g'[p].snap = 0 /\ g'[p].pc \in {"idle", "persist"}
    BY <1>0, <2>1, ReturnedHash, ReturnedPc
  <2>3. Carries(p)
    BY <1>0, <2>1, <2>2 DEF Carries
  <2>4. QED
    BY <1>1, <2>3, HashFrame
<1>6. CASE FinishStack(p)
  <2>1. PICK r \in Row : r = FinalRow(p)
    BY FinalRowTyped
  <2>2. r.hash = g[p].copy.hash \/ (g[p].pc = "okRow" /\ r.hash = g[p].snap)
    BY <1>0, <2>1 DEF FinalRow, Row
  <2>3. /\ g' = [g EXCEPT ![p] = Returned(p, r)] /\ row' = IF row.exists THEN r ELSE row
    BY <1>6, <2>1 DEF FinishStack, UpdateStack
  <2>4. g'[p].copy.hash \in {r.hash, 0} /\ g'[p].snap = 0 /\ g'[p].pc \in {"idle", "persist"}
    BY <1>0, <2>3, ReturnedHash, ReturnedPc
  <2>5. Carries(p)
    BY <1>0, <2>2, <2>3, <2>4 DEF Carries
  <2>6. QED
    BY <1>1, <2>5, HashFrame
<1>7. CASE HostUnresolved(p) \/ MarkDeployment(p) \/ CloneRepo(p) \/ FinishDeployment(p)
           \/ ExecuteFailed(p)
  BY <1>2, <1>7 DEF HostUnresolved, MarkDeployment, CloneRepo, FinishDeployment, ExecuteFailed
<1>8. QED
  BY <1>3, <1>4, <1>5, <1>6, <1>7 DEF RunDeployment

\* The rollout: containers with the secrets the deployment has read.
LEMMA HashRollout ==
  ASSUME TypeOK, TypeOK', GateInv, HashInv, NEW p \in Procs, ExecuteOk(p) \/ ExecuteFailed(p)
  PROVE  HashInv'
<1>0. /\ g \in [Procs -> Goroutine] /\ OneRunning /\ RunDeployment(p)
      /\ secrets' = secrets /\ overlapped' = overlapped
      /\ \A q \in Procs \ {p} : g'[q] = g[q]
      /\ g[p].pc \in Running
      /\ g[p].snap \in Nat /\ secrets \in Nat
  <2>1. RunDeployment(p)
    BY DEF RunDeployment
  <2>2. QED
    BY <2>1, RunSteps, LifecycleAssumption DEF TypeOK, HashInv, Goroutine, Version
<1>1. OneRunning'
  BY <1>0, RunningFrame
<1>2. /\ g[p].pc = "exec" /\ row' = row
      /\ \E label \in {"ok", "fail"} : g' = [g EXCEPT ![p] = [g[p] EXCEPT !.pc = label]]
  BY DEF ExecuteOk, ExecuteFailed, Goto, Become, At
<1>3. /\ g'[p].pc \in {"ok", "fail"} /\ g'[p].snap = g[p].snap /\ g'[p].copy = g[p].copy
  BY <1>0, <1>2 DEF Goroutine
<1>4. \A c \in containers' :
        \/ c \in containers
        \/ c.carries = g[p].snap
        \/ c.left /\ \E b \in containers : c.carries = b.carries
  BY RolledOut
<1>5. \A c \in containers : c.carries \in Nat
  BY LifecycleAssumption DEF TypeOK, Container, Version
<1>6. CASE MayReuse
  BY <1>1, <1>6 DEF HashInv
<1>7. CASE ~MayReuse
  <2>1. VersionsPast
    BY <1>7 DEF HashInv
  <2>2. VersionsPast'
    BY <1>0, <1>2, <1>3, <1>4, <1>5, <2>1 DEF VersionsPast
  <2>3. ASSUME ~overlapped, HashKnown' PROVE Applied'
    <3>1. CASE HashKnown
      <4>1. Applied
        BY <1>7, <2>3, <3>1 DEF HashInv
      <4>2. g[p].snap = secrets
        BY <1>2, <4>1 DEF Applied
      <4>3. QED
        BY <1>0, <1>3, <1>4, <1>5, <4>1, <4>2 DEF Applied
    <3>2. CASE ~HashKnown
      <4>1. g'[p].pc = "ok" /\ g[p].snap = secrets
        BY <1>0, <1>2, <1>3, <2>3, <3>2 DEF HashKnown, Acclaims
      <4>2. ExecuteOk(p)
        BY <1>0, <4>1 DEF ExecuteFailed, Goto, Become, Goroutine
      <4>3. SecretsChanged(p)
        BY <3>2, <4>1 DEF SecretsChanged, HashKnown, Acclaims
      <4>4. \A c \in containers' : c.carries = secrets \/ c.left
        BY <4>1, <4>2, <4>3, RolledOut
      <4>5. \A q \in Procs \ {p} : g'[q].pc \notin {"clone", "exec"}
        BY <1>0, <2>3 DEF OneRunning, Running
      <4>6. QED
        BY <1>0, <4>1, <4>4, <4>5 DEF Applied
    <3>3. QED
      BY <3>1, <3>2
  <2>4. QED
    BY <1>0, <1>1, <2>2, <2>3 DEF HashInv
<1>8. QED
  BY <1>6, <1>7

\* A goroutine enters runDeployment.
LEMMA HashBegins ==
  ASSUME TypeOK, TypeOK', HashInv, NEW p \in Runners, Deploy(p) \/ ApproveLoad(p)
  PROVE  HashInv'
<1>0. g \in [Procs -> Goroutine] /\ row \in Row /\ OneRunning /\ p \in Procs
  BY DEF TypeOK, HashInv, Procs
<1>1. /\ row' = row /\ secrets' = secrets /\ containers' = containers
  BY DEF Deploy, ApproveLoad
<1> USE DEF Become
<1>2. CASE g' = [g EXCEPT ![p] = Idle] /\ overlapped' = overlapped
  <2>1. g'[p].copy.hash = 0 /\ g'[p].snap = 0 /\ g'[p].pc = "idle"
    BY <1>0, <1>2 DEF Idle, NewRow
  <2>2. Carries(p)
    BY <1>0, <1>1, <1>2, <2>1 DEF Carries
  <2>3. OneRunning'
    BY <1>0, <1>2, <2>1, RunningFrame DEF Running
  <2>4. QED
    BY <1>0, <2>2, <2>3, HashFrame
<1>3. CASE /\ NoteOverlap(p)
           /\ \/ \E d \in Deployments : g' = [g EXCEPT ![p] = [g[p] EXCEPT !.pc = "run", !.cur = d]]
              \/ g' = [g EXCEPT ![p] = [g[p] EXCEPT !.pc = "run", !.copy = row]]
  <2>1. /\ g'[p].pc = "run" /\ g'[p].snap = g[p].snap
        /\ g'[p].copy.hash \in {g[p].copy.hash, row.hash}
        /\ \A q \in Procs \ {p} : g'[q] = g[q]
    BY <1>0, <1>3 DEF Goroutine
  <2>2. OneRunning' /\ (overlapped => overlapped')
    BY <1>0, <1>3, <2>1, RunningBegins DEF NoteOverlap
  <2>3. Carries(p)
    BY <1>1, <2>1, <2>2 DEF Carries
  <2>4. QED
    BY <1>0, <2>2, <2>3, HashFrame
<1>4. QED
  BY <1>2, <1>3 DEF Deploy, ApproveLoad, ReadStack

\* What runDeployment relies on when it records the hash of the secrets it read:
\* the deployment under way is the only one, and knows what its rollout applied.
THEOREM HashInvariant == Spec => []HashInv
<1> USE LifecycleAssumption
<1>1. Init => HashInv
  <2> SUFFICES ASSUME Init PROVE HashInv
    OBVIOUS
  <2>1. row.hash = 0 /\ secrets = 0 /\ containers = {}
    BY DEF Init, NewRow
  <2>2. \A p \in Procs : g[p].pc = "idle" /\ g[p].copy.hash = 0 /\ g[p].snap = 0
    BY DEF Init, Idle, NewRow
  <2>3. QED
    BY <2>1, <2>2 DEF HashInv, OneRunning, VersionsPast, Applied, Running
<1>2. TypeOK /\ TypeOK' /\ GateInv /\ HashInv /\ [Next]_vars => HashInv'
  <2> SUFFICES ASSUME TypeOK, TypeOK', GateInv, HashInv, [Next]_vars PROVE HashInv'
    OBVIOUS
  <2>0. /\ g \in [Procs -> Goroutine] /\ secrets \in Nat /\ row \in Row /\ row.hash \in Nat
        /\ \A p \in Procs : g[p].copy.hash \in Nat /\ g[p].snap \in Nat
        /\ \A c \in containers : c.carries \in Nat
    BY DEF TypeOK, Goroutine, Row, Version, Container
  <2>1. ASSUME NEW p \in Procs, RunDeployment(p) PROVE HashInv'
    <3>1. CASE ExecuteOk(p) \/ ExecuteFailed(p)
      BY <3>1, HashRollout
    <3>2. CASE ~ExecuteOk(p) /\ ~ExecuteFailed(p)
      <4>1. containers' = containers
        BY <2>1, <3>2 DEF RunDeployment, HostUnresolved, MarkStack, MarkDeployment,
          SnapshotSecrets, SecretsUnreadable, CloneRepo, FinishDeployment, FinishStack
      <4>2. QED
        BY <2>1, <3>2, <4>1, HashRuns
    <3>3. QED
      BY <3>1, <3>2
  <2>2. CASE RotateSecrets
    <3>1. /\ UNCHANGED <<row, containers, g, overlapped>> /\ secrets' \in Nat
          /\ ~MayReuse => secrets' > secrets
      BY <2>2 DEF RotateSecrets, histVars, Version
    <3>2. OneRunning'
      BY <3>1 DEF HashInv, OneRunning
    <3>3. ~MayReuse => VersionsPast'
      BY <2>0, <3>1 DEF HashInv, VersionsPast
    <3>4. ~MayReuse => ~HashKnown'
      BY <2>0, <3>1 DEF HashInv, VersionsPast, HashKnown, Acclaims
    <3>5. QED
      BY <3>2, <3>3, <3>4 DEF HashInv
  <2>3. CASE DeleteStack
    <3>1. row'.hash = row.hash /\ UNCHANGED <<secrets, containers, g, overlapped>>
      BY <2>0, <2>3 DEF DeleteStack, histVars, Row
    <3>2. QED
      BY <3>1 DEF HashInv, OneRunning, VersionsPast, HashKnown, Acclaims, Applied
  <2>4. CASE Crash
    <3>1. /\ UNCHANGED <<row, secrets, containers, overlapped>>
          /\ \A p \in Procs : g'[p].pc = "idle" /\ g'[p].copy.hash = 0 /\ g'[p].snap = 0
      BY <2>4 DEF Crash, histVars, Idle, NewRow
    <3>2. OneRunning' /\ (~MayReuse => VersionsPast')
      BY <2>0, <3>1 DEF HashInv, OneRunning, VersionsPast, Running
    <3>3. ASSUME ~MayReuse, ~overlapped', HashKnown' PROVE Applied'
      <4>1. HashKnown \/ secrets = 0
        BY <3>1, <3>3 DEF HashKnown, Acclaims
      <4>2. \A c \in containers : c.carries = secrets \/ c.left
        BY <2>0, <3>1, <3>3, <4>1 DEF HashInv, Applied, VersionsPast
      <4>3. QED
        BY <3>1, <4>2 DEF Applied
    <3>4. QED
      BY <3>2, <3>3 DEF HashInv
  <2>5. CASE UNCHANGED vars
    BY <2>5 DEF vars, HashInv, OneRunning, VersionsPast, HashKnown, Acclaims, Applied
  <2>6. QED
    BY <2>1, <2>2, <2>3, <2>4, <2>5, HashOutside, HashBegins
       DEF Next, Continue, Procs, Runners, Idles
<1>3. QED
  BY <1>1, <1>2, TypeCorrect, GateInvariant, PTL DEF Spec

\* When deployments do not overlap and no old secret set is put back, the hash
\* in the row is that of the current secrets only if every container has them
\* or was left behind by a rollout that succeeded.
THEOREM HashStaysHonest == Spec => []HashIsHonest
<1>1. HashInv => HashIsHonest
  BY DEF HashInv, HashIsHonest, HashKnown, Applied
<1>2. QED
  BY <1>1, HashInvariant, PTL
=============================================================================
