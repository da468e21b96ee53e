------------------------------ MODULE Lifecycle ------------------------------
(***************************************************************************)
(* The life of one stack's deployments: Deployer.Deploy, requestApproval,  *)
(* ApproveDeployment, RejectDeployment, ExpirePendingApprovals and         *)
(* runDeployment of internal/stack, with the HTTP handlers, the reconcile  *)
(* loop and the approval-timeout sweep that call them.  Every call to the  *)
(* store is its own SQLite statement and nothing holds a lock or a         *)
(* transaction across two of them, so each store call is one action and    *)
(* the goroutines interleave between them.  A goroutine works on its own   *)
(* copy of the stack row and UpdateStack writes every column of that copy. *)
(*                                                                         *)
(* The rollout itself (executeDeploy, module Rollout) is one step with its *)
(* effect on the secrets the containers carry.                             *)
(***************************************************************************)
EXTENDS Naturals

CONSTANTS
  Deployments,   \* ids of deployment records
  Triggers,      \* goroutines of DeployStack and the webhook
  Loops,         \* reconcile loops of the stack
  Approvers,     \* goroutines of the approve endpoint
  Rejecters,     \* reject requests, and sweeps of the approval timeout
  Operators,     \* PUT /stacks/{id} requests
  Patches,       \* what they may carry: "gate" (requires_approval) or a status
  MaxVersion,    \* bound: secret sets are numbered 0 (none) .. MaxVersion
  MayReuse,      \* whether an operator may put an earlier secret set back
  MaxCrashes,    \* bound: crashes of the process
  None           \* no deployment

ASSUME LifecycleAssumption ==
  /\ MaxVersion \in Nat /\ MaxCrashes \in Nat /\ MayReuse \in BOOLEAN
  /\ None \notin Deployments
  /\ Patches \subseteq {"gate", "active", "paused"}
  /\ Loops \cap (Triggers \cup Approvers \cup Rejecters \cup Operators) = {}

VARIABLES
  row,         \* the stack's row
  dep,         \* status of every deployment record ("none": not created)
  secrets,     \* current secret set of the stack
  containers,  \* the stack's containers, told apart by the secrets they carry
  g,           \* per goroutine: position, copy of the row, deployment, secrets read
  granted,     \* history: deployments with an approval.granted audit entry
  raced,       \* history: two requests for approval were past the dedupe check
  overlapped,  \* history: two deployments of the stack ran at once
  crashes

vars == <<row, dep, secrets, containers, g, granted, raced, overlapped, crashes>>
histVars == <<granted, raced, overlapped>>

Runners == Triggers \cup Loops \cup Approvers
Procs == Runners \cup Rejecters \cup Operators
Version == 0..MaxVersion

StackStatus == {"active", "paused", "deploying", "error"}
Row == [exists : BOOLEAN, status : StackStatus, gate : BOOLEAN, hash : Version]

\* A container: the secret set it was created with, and whether a rollout that
\* succeeded with another set left it behind.
Container == [carries : Version, left : BOOLEAN]
New(v) == [carries |-> v, left |-> FALSE]
LeftBehind(c) == [carries |-> c.carries, left |-> TRUE]

DepStatus == {"none", "pending", "pending_approval", "in_progress",
              "completed", "failed", "rejected"}
PC == {"idle", "deploy", "request", "granted", "approve", "run", "mark", "secrets",
       "clone", "exec", "ok", "fail", "okRow", "failRow", "persist", "reject", "patch"}

\* A goroutine: its position and its local variables.
Goroutine == [pc : PC, copy : Row, cur : Deployments \cup {None}, snap : Version]

NewRow(gate) == [exists |-> TRUE, status |-> "active", gate |-> gate, hash |-> 0]

\* A goroutine that has ended, or has not begun.
Idle == [pc |-> "idle", copy |-> NewRow(FALSE), cur |-> None, snap |-> 0]

\* Positions inside runDeployment.
Running == {"run", "mark", "secrets", "clone", "exec", "ok", "fail", "okRow", "failRow"}

TypeOK ==
  /\ row \in Row
  /\ dep \in [Deployments -> DepStatus]
  /\ secrets \in Version /\ containers \in SUBSET Container
  /\ g \in [Procs -> Goroutine]
  /\ granted \in SUBSET Deployments
  /\ raced \in BOOLEAN /\ overlapped \in BOOLEAN
  /\ crashes \in 0..MaxCrashes

\* A stack as CreateStack leaves it, with or without requires_approval.
Init ==
  /\ row \in {NewRow(gate) : gate \in BOOLEAN}
  /\ dep = [d \in Deployments |-> "none"]
  /\ secrets = 0 /\ containers = {}
  /\ g = [p \in Procs |-> Idle]
  /\ granted = {}
  /\ raced = FALSE /\ overlapped = FALSE
  /\ crashes = 0

-----------------------------------------------------------------------------
(* Store calls and goroutine bookkeeping. *)

At(p, label) == g[p].pc = label
Become(p, new) == g' = [g EXCEPT ![p] = new]
Goto(p, label) == Become(p, [g[p] EXCEPT !.pc = label])

\* Deploy returns with the goroutine's row at r: a loop still persists it.
Returned(p, r) == IF p \in Loops THEN [Idle EXCEPT !.pc = "persist", !.copy = r] ELSE Idle

\* Mutated form: INSERT OR REPLACE instead of UPDATE.
UpsertStack(r) == row' = r

\* UPDATE stacks SET <every column> WHERE id: nothing if the row is gone.
UpdateStack(r) == row' = IF row.exists THEN r ELSE row

UpdateDeployment(d, s) == dep' = [dep EXCEPT ![d] = s]

PendingApproval == \E d \in Deployments : dep[d] = "pending_approval"

\* History: another goroutine is already inside runDeployment.
NoteOverlap(p) ==
  overlapped' = (overlapped \/ \E q \in Runners \ {p} : g[q].pc \in Running)

-----------------------------------------------------------------------------
(* Triggers. *)

\* GetStack in a handler or a loop: the row this goroutine works on from now on.
ReadStack(p, label) ==
  /\ row.exists
  /\ Become(p, [g[p] EXCEPT !.pc = label, !.copy = row])

\* DeployStack answers 409 when it reads "deploying".
DeployStack(t) ==
  /\ At(t, "idle")
  /\ row.status # "deploying"
  /\ ReadStack(t, "deploy")
  /\ UNCHANGED <<row, dep, secrets, containers, histVars, crashes>>

\* The webhook deploys whatever the status is.
LegacyWebhook(t) ==
  /\ At(t, "idle")
  /\ ReadStack(t, "deploy")
  /\ UNCHANGED <<row, dep, secrets, containers, histVars, crashes>>

\* reconcileOnce reloads the stack and only continues for active and error.
ReconcileLoad(l) ==
  /\ At(l, "idle")
  /\ row.status \in {"active", "error"}
  /\ ReadStack(l, "deploy")
  /\ UNCHANGED <<row, dep, secrets, containers, histVars, crashes>>

\* No drift, no auto_deploy, an open breaker (persist) or a failed drift check.
ReconcileNoDeploy(l) ==
  /\ At(l, "deploy")
  /\ Become(l, Returned(l, g[l].copy)) \/ Become(l, Idle)
  /\ UNCHANGED <<row, dep, secrets, containers, histVars, crashes>>

\* The LastReconciledAt write: the loop's whole copy.
ReconcilePersist(l) ==
  /\ At(l, "persist")
  /\ Become(l, Idle)
  /\ UpdateStack(g[l].copy)
  /\ UNCHANGED <<dep, secrets, containers, histVars, crashes>>

-----------------------------------------------------------------------------
(* Deploy and the approval gate. *)

\* Deploy of an ungated stack inserts a record with a fresh id and runs it.
Deploy(p) ==
  /\ At(p, "deploy") /\ ~g[p].copy.gate
  /\ \E d \in Deployments :
       /\ dep[d] = "none"
       /\ UpdateDeployment(d, "pending")
       /\ Become(p, [g[p] EXCEPT !.pc = "run", !.cur = d])
  /\ NoteOverlap(p)
  /\ UNCHANGED <<row, secrets, containers, granted, raced, crashes>>

\* Mutated form: an open approval is not looked for.
CheckPendingDropped(p) ==
  /\ At(p, "deploy") /\ g[p].copy.gate
  /\ Goto(p, "request")
  /\ raced' = (raced \/ \E q \in Runners \ {p} : At(q, "request"))
  /\ UNCHANGED <<row, dep, secrets, containers, granted, overlapped, crashes>>

\* requestApproval: GetPendingApproval; an open approval is returned as it is.
CheckPending(p) ==
  /\ At(p, "deploy") /\ g[p].copy.gate
  /\ IF PendingApproval THEN Become(p, Returned(p, g[p].copy)) ELSE Goto(p, "request")
  /\ raced' = (raced \/ (~PendingApproval /\ \E q \in Runners \ {p} : At(q, "request")))
  /\ UNCHANGED <<row, dep, secrets, containers, granted, overlapped, crashes>>

\* Mutated form: after holding the record, Deploy goes on and runs it.
RequestApprovalRuns(p) ==
  /\ At(p, "request")
  /\ \E d \in Deployments :
       /\ dep[d] = "none"
       /\ UpdateDeployment(d, "pending_approval")
       /\ Become(p, [g[p] EXCEPT !.pc = "run", !.cur = d])
  /\ UNCHANGED <<row, secrets, containers, histVars, crashes>>

\* requestApproval: the held record is inserted, then audited.
RequestApproval(p) ==
  /\ At(p, "request")
  /\ \E d \in Deployments :
       /\ dep[d] = "none"
       /\ UpdateDeployment(d, "pending_approval")
  /\ Become(p, Returned(p, g[p].copy))
  /\ UNCHANGED <<row, secrets, containers, histVars, crashes>>

\* The store refuses the lookup or the insert: Deploy returns an error.
DeployUnrecorded(p) ==
  /\ At(p, "deploy") \/ At(p, "request")
  /\ Become(p, Returned(p, g[p].copy))
  /\ UNCHANGED <<row, dep, secrets, containers, histVars, crashes>>

\* Approve endpoint: pendingApprovalFor, audit approval.granted, goroutine.
GrantApproval(a, d) ==
  /\ At(a, "idle")
  /\ row.exists
  /\ dep[d] = "pending_approval"
  /\ Become(a, [Idle EXCEPT !.pc = "granted", !.cur = d])
  /\ granted' = granted \cup {d}
  /\ UNCHANGED <<row, dep, secrets, containers, raced, overlapped, crashes>>

\* Deployer.ApproveDeployment: the record must still be pending ...
ApproveCheck(a) ==
  /\ At(a, "granted")
  /\ IF dep[g[a].cur] = "pending_approval" THEN Goto(a, "approve") ELSE Become(a, Idle)
  /\ UNCHANGED <<row, dep, secrets, containers, histVars, crashes>>

\* ... then the stack is loaded, and its absence ends the approval.
ApproveLoad(a) ==
  /\ At(a, "approve")
  /\ \/ ReadStack(a, "run") /\ NoteOverlap(a)
     \/ ~row.exists /\ Become(a, Idle) /\ UNCHANGED overlapped
  /\ UNCHANGED <<row, dep, secrets, containers, granted, raced, crashes>>

\* Mutated form: any record may be rejected.
RejectCheckDropped(r, d) ==
  /\ At(r, "idle")
  /\ dep[d] # "none"
  /\ Become(r, [Idle EXCEPT !.pc = "reject", !.cur = d])
  /\ UNCHANGED <<row, dep, secrets, containers, histVars, crashes>>

\* RejectDeployment, or the timeout sweep's list: the record is read as pending ...
RejectCheck(r, d) ==
  /\ At(r, "idle")
  /\ dep[d] = "pending_approval"
  /\ Become(r, [Idle EXCEPT !.pc = "reject", !.cur = d])
  /\ UNCHANGED <<row, dep, secrets, containers, histVars, crashes>>

\* ... and written as rejected, whatever it has become since.
Reject(r) ==
  /\ At(r, "reject")
  /\ UpdateDeployment(g[r].cur, "rejected")
  /\ Become(r, Idle)
  /\ UNCHANGED <<row, secrets, containers, histVars, crashes>>

-----------------------------------------------------------------------------
(* runDeployment. *)

\* forHost fails: the record is failed at once, the stack row follows.
HostUnresolved(p) ==
  /\ At(p, "run")
  /\ Goto(p, "failRow")
  /\ UpdateDeployment(g[p].cur, "failed")
  /\ UNCHANGED <<row, secrets, containers, histVars, crashes>>

\* The stack is marked deploying ...
MarkStack(p) ==
  LET r == [g[p].copy EXCEPT !.status = "deploying"] IN
  /\ At(p, "run")
  /\ Become(p, [g[p] EXCEPT !.pc = "mark", !.copy = r])
  /\ UpdateStack(r)
  /\ UNCHANGED <<dep, secrets, containers, histVars, crashes>>

\* ... and its record in progress.
MarkDeployment(p) ==
  /\ At(p, "mark")
  /\ Goto(p, "secrets")
  /\ UpdateDeployment(g[p].cur, "in_progress")
  /\ UNCHANGED <<row, secrets, containers, histVars, crashes>>

\* ListStackSecrets, once per deployment.
SnapshotSecrets(p) ==
  /\ At(p, "secrets")
  /\ Become(p, [g[p] EXCEPT !.pc = "clone", !.snap = secrets])
  /\ UNCHANGED <<row, dep, secrets, containers, histVars, crashes>>

\* ListStackSecrets fails (a value does not decrypt, the database is busy):
\* runDeployment returns with both rows as it marked them.
SecretsUnreadable(p) ==
  /\ At(p, "secrets")
  /\ Become(p, Returned(p, g[p].copy))
  /\ UpdateDeployment(g[p].cur, "in_progress")
  /\ UNCHANGED <<row, secrets, containers, histVars, crashes>>

\* executeDeploy clones the repository and records the commit, with the status
\* the goroutine knows; a clone that fails records nothing.
CloneRepo(p) ==
  /\ At(p, "clone")
  /\ \/ Goto(p, "exec") /\ UpdateDeployment(g[p].cur, "in_progress")
     \/ Goto(p, "fail") /\ UNCHANGED dep
  /\ UNCHANGED <<row, secrets, containers, histVars, crashes>>

SecretsChanged(p) == g[p].snap # g[p].copy.hash

\* executeDeploy succeeded.  When the secrets changed, every service rolled out
\* got new containers; what stays of the old ones was left behind: a removal
\* that failed is only logged, and services outside the filter or no longer
\* declared are not looked at.  Otherwise any of them may have been recreated
\* (new image, unhealthy).
ExecuteOk(p) ==
  /\ At(p, "exec")
  /\ Goto(p, "ok")
  /\ \E stay \in SUBSET containers :
       IF SecretsChanged(p)
       THEN containers' = {New(g[p].snap)} \cup {LeftBehind(c) : c \in stay}
       ELSE containers' \in {containers, stay \cup {New(g[p].snap)}}
  /\ UNCHANGED <<row, dep, secrets, histVars, crashes>>

\* executeDeploy failed, with or without replacing part of the containers:
\* the service that failed keeps the replicas it had already replaced.
ExecuteFailed(p) ==
  /\ At(p, "exec")
  /\ Goto(p, "fail")
  /\ containers' \in {containers, containers \cup {New(g[p].snap)}}
  /\ UNCHANGED <<row, dep, secrets, histVars, crashes>>

FinishDeployment(p) ==
  /\ \/ At(p, "ok") /\ Goto(p, "okRow") /\ UpdateDeployment(g[p].cur, "completed")
     \/ At(p, "fail") /\ Goto(p, "failRow") /\ UpdateDeployment(g[p].cur, "failed")
  /\ UNCHANGED <<row, secrets, containers, histVars, crashes>>

\* Mutated forms: a failure records the hash too; the row gets the record's status.
FinalRowAlwaysHashes(p) ==
  [g[p].copy EXCEPT !.status = IF At(p, "okRow") THEN "active" ELSE "error",
                    !.hash = g[p].snap]
FinalRowMixesStatus(p) ==
  IF At(p, "okRow") THEN [g[p].copy EXCEPT !.status = "completed", !.hash = g[p].snap]
                    ELSE [g[p].copy EXCEPT !.status = "failed"]

\* Only a success records the hash of the secrets it applied.
FinalRow(p) ==
  IF At(p, "okRow") THEN [g[p].copy EXCEPT !.status = "active", !.hash = g[p].snap]
                    ELSE [g[p].copy EXCEPT !.status = "error"]

FinishStack(p) ==
  /\ At(p, "okRow") \/ At(p, "failRow")
  /\ Become(p, Returned(p, FinalRow(p)))
  /\ UpdateStack(FinalRow(p))
  /\ UNCHANGED <<dep, secrets, containers, histVars, crashes>>

-----------------------------------------------------------------------------
(* Operators and failures. *)

\* PUT /stacks/{id}: read ...
PutRead(o) ==
  /\ At(o, "idle")
  /\ ReadStack(o, "patch")
  /\ UNCHANGED <<row, dep, secrets, containers, histVars, crashes>>

\* What a PUT may make of the row it read: requires_approval or status patched.
Patched(r) ==
  {[r EXCEPT !.gate = b] : b \in IF "gate" \in Patches THEN BOOLEAN ELSE {}}
    \cup {[r EXCEPT !.status = s] : s \in Patches \ {"gate"}}

\* ... and write back.
PutWrite(o) ==
  /\ At(o, "patch")
  /\ \E r \in Patched(g[o].copy) : UpdateStack(r)
  /\ Become(o, Idle)
  /\ UNCHANGED <<dep, secrets, containers, histVars, crashes>>

\* SetStackSecret or DeleteStackSecret: another secret set.
RotateSecrets ==
  /\ row.exists
  /\ secrets' \in Version \ {secrets}
  /\ MayReuse \/ secrets' > secrets
  /\ UNCHANGED <<row, dep, containers, g, histVars, crashes>>

\* DELETE /stacks/{id}; the secrets go with the row.
DeleteStack ==
  /\ row.exists
  /\ row' = [row EXCEPT !.exists = FALSE]
  /\ UNCHANGED <<dep, secrets, containers, g, histVars, crashes>>

\* The process dies and is started again: goroutines are gone, rows stay, and
\* nothing at startup looks at deployments that were running.
Crash ==
  /\ crashes < MaxCrashes
  /\ crashes' = crashes + 1
  /\ g' = [p \in Procs |-> Idle]
  /\ UNCHANGED <<row, dep, secrets, containers, histVars>>

-----------------------------------------------------------------------------
RunDeployment(p) ==
  \/ HostUnresolved(p) \/ MarkStack(p) \/ MarkDeployment(p)
  \/ SnapshotSecrets(p) \/ SecretsUnreadable(p) \/ CloneRepo(p)
  \/ ExecuteOk(p) \/ ExecuteFailed(p)
  \/ FinishDeployment(p) \/ FinishStack(p)

Continue(p) ==
  \/ Deploy(p) \/ CheckPending(p) \/ RequestApproval(p) \/ DeployUnrecorded(p)
  \/ RunDeployment(p)

Next ==
  \/ \E t \in Triggers : DeployStack(t) \/ LegacyWebhook(t) \/ Continue(t)
  \/ \E l \in Loops :
       ReconcileLoad(l) \/ ReconcileNoDeploy(l) \/ ReconcilePersist(l) \/ Continue(l)
  \/ \E a \in Approvers :
       \/ \E d \in Deployments : GrantApproval(a, d)
       \/ ApproveCheck(a) \/ ApproveLoad(a) \/ RunDeployment(a)
  \/ \E r \in Rejecters : (\E d \in Deployments : RejectCheck(r, d)) \/ Reject(r)
  \/ \E o \in Operators : PutRead(o) \/ PutWrite(o)
  \/ RotateSecrets \/ DeleteStack \/ Crash

Spec == Init /\ [][Next]_vars

-----------------------------------------------------------------------------
(* What the lifecycle guarantees. *)

\* At most one approval of the stack is open.
OneOpenApproval ==
  \A d, e \in Deployments :
    dep[d] = "pending_approval" /\ dep[e] = "pending_approval" => d = e

\* A deployment held for approval leaves that state only by being rejected or
\* after an approval.granted entry of its own was audited, whatever the
\* goroutines, the operators and the crashes do in between.
GateHolds ==
  [][\A d \in Deployments :
       dep[d] = "pending_approval" /\ dep'[d] \notin {"pending_approval", "rejected"}
         => d \in granted]_vars

\* The dedupe of requestApproval is exact outside the window between its check
\* and its insert: a stack has two open approvals only if two requests were in
\* that window at once.
DedupeOutsideWindow == ~raced => OneOpenApproval

\* Deployments that do not overlap keep the secrets hash honest: when the row's
\* hash is that of the current secrets, a container with other secrets is one
\* that a rollout which succeeded left behind.  So comparing hashes detects
\* every rotation that has not been rolled out, also after failed, crashed or
\* half-way deployments and with concurrent whole-row writes; what it never
\* shows again are the containers of failed removals and of services outside
\* the rollout.
HashIsHonest ==
  row.exists /\ ~overlapped /\ ~MayReuse /\ row.hash = secrets
    => \A c \in containers : c.carries = secrets \/ c.left

\* A deleted stack stays deleted: whole-row writes of goroutines that outlive
\* the DELETE do not bring the row back.
NoResurrection == [][~row.exists => ~row'.exists]_vars

\* The outcome of a deployment is final unless its record went through the
\* approve endpoint, where two requests can act on the same record.
OutcomeKept ==
  [][\A d \in Deployments :
       dep[d] \in {"completed", "failed"} /\ dep'[d] # dep[d] => d \in granted]_vars

-----------------------------------------------------------------------------
(* What the documentation and the comments say, and the code does not do. *)

\* A deployment that was rejected, or that timed out, is cancelled: the approve
\* endpoint answers 409 from then on and its rollout does not start.
RejectedNeverStarts ==
  [][\A d \in Deployments : dep[d] = "rejected" => dep'[d] # "in_progress"]_vars

\* "deploying" means that a deploy is in flight.
DeployingMeansInFlight ==
  row.exists /\ row.status = "deploying" => \E p \in Runners : g[p].pc \in Running
=============================================================================
