----------------------------- MODULE AutoDeploy -----------------------------
(***************************************************************************)
(* The reconcile loops of one stack against its circuit breaker:           *)
(* reconcileOnce of internal/reconciler, from the reload of the stack row  *)
(* to the write of LastReconciledAt, with the deploys of HTTP handlers     *)
(* running beside it.  Stacks never share a breaker entry, so one stack is *)
(* enough.  The stack is one with auto_deploy set and without              *)
(* requires_approval (module Lifecycle has the approval gate); its rollout *)
(* is reduced to its outcome: it fails while the stack is broken (bad      *)
(* image, revoked credentials, malformed compose) and removes the drift    *)
(* otherwise.                                                              *)
(*                                                                         *)
(* A loop is normally alone, but RefreshStack can leave two running for    *)
(* one stack (module ReconcilerLoops), so loops are started at any time.   *)
(***************************************************************************)
EXTENDS Breaker

CONSTANTS Loops,    \* reconcile goroutines that may run for the stack
          Handlers, \* handler goroutines that deploy it (manual, webhook)
          first     \* the loop that Start launched

ASSUME AutoDeployAssumption == first \in Loops /\ Loops \cap Handlers = {}

VARIABLES
  entry,    \* the stack's breaker entry
  status,   \* Status column of the stack row
  drift,    \* whether containers differ from git
  broken,   \* whether a rollout (or a drift check) would fail now
  started,  \* loops that were launched
  pc,       \* where each goroutine is
  row,      \* Status in a loop's own copy of the stack row
  reports,  \* history: trips reported since the last recorded success (2: too many)
  quiet     \* history: ticks since the only loop last recorded a failure

vars == <<entry, status, drift, broken, started, pc, row, reports, quiet>>
Procs == Loops \cup Handlers

\* "left" is the value deploying as well, of a row that a deployment marked
\* and gave up (SecretsUnreadable): no deployment will write it again.
Status == {"active", "error", "deploying", "left"}
PC == {"idle", "check", "clean", "drifted", "deploy", "running",
       "succeeded", "failed", "persist"}

TypeOK ==
  /\ entry \in Entry
  /\ status \in Status
  /\ drift \in BOOLEAN /\ broken \in BOOLEAN
  /\ reports \in 0..2
  /\ started \in SUBSET Loops
  /\ pc \in [Procs -> PC]
  /\ row \in [Loops -> Status]
  /\ quiet \in 0..Cooldown

Init ==
  /\ entry = NewEntry
  /\ status \in {"active", "error"}
  /\ drift \in BOOLEAN /\ broken \in BOOLEAN
  /\ started = {first}
  /\ pc = [p \in Procs |-> "idle"]
  /\ row = [l \in Loops |-> "active"]
  /\ reports = 0
  /\ quiet = Cooldown

Goto(p, from, to) == pc[p] = from /\ pc' = [pc EXCEPT ![p] = to]

\* A loop sets the status in its copy of the row; a handler's copy is dropped
\* when its deployment ends, and nothing reads it before.
SetCopy(p, s) == row' = [l \in Loops |-> IF l = p THEN s ELSE row[l]]

\* Deploy returns: a loop goes on with its outcome, a handler's goroutine ends.
Return(p, from, outcome) == Goto(p, from, IF p \in Loops THEN outcome ELSE "idle")

shouldReconcile(s) == s \in {"active", "error"}

-----------------------------------------------------------------------------
(* The world around the reconciler. *)

\* startStackLoop: one more loop runs for the stack.
StartLoop(l) ==
  /\ l \notin started
  /\ started' = started \cup {l}
  /\ quiet' = Cooldown \* not counted with several loops
  /\ UNCHANGED <<entry, status, drift, broken, pc, row, reports>>

\* A push, a dead container, an operator's repair: drift comes and goes, and
\* so does whatever makes rollouts fail.
Environment ==
  /\ \/ drift' = ~drift /\ UNCHANGED broken
     \/ broken' = ~broken /\ UNCHANGED drift
  /\ UNCHANGED <<entry, status, started, pc, row, reports, quiet>>

Tick ==
  /\ entry' = Aged(entry)
  /\ quiet' = IF quiet < Cooldown THEN quiet + 1 ELSE quiet
  /\ UNCHANGED <<status, drift, broken, started, pc, row, reports>>

\* DeployStack and the webhook start a goroutine, which never touches the breaker.
HandlerDeploys(h) ==
  /\ Goto(h, "idle", "deploy")
  /\ UNCHANGED <<entry, status, drift, broken, started, row, reports, quiet>>

-----------------------------------------------------------------------------
(* reconcileOnce, one action per call it makes. *)

\* GetStack and shouldReconcile; a tick that finds another status does nothing.
Load(l) ==
  /\ l \in started
  /\ Goto(l, "idle", "check")
  /\ shouldReconcile(status)
  /\ SetCopy(l, status)
  /\ UNCHANGED <<entry, status, drift, broken, started, reports, quiet>>

\* checkDrift: an error ends the tick before anything is written.
CheckDrift(l) ==
  /\ \/ broken /\ Goto(l, "check", "idle")
     \/ drift /\ Goto(l, "check", "drifted")
     \/ ~drift /\ Goto(l, "check", "clean")
  /\ UNCHANGED <<entry, status, drift, broken, started, row, reports, quiet>>

\* No drift: a healthy stack clears its breaker.
NoDrift(l) ==
  /\ Goto(l, "clean", "persist")
  /\ entry' = AfterSuccess(entry)
  /\ reports' = 0
  /\ UNCHANGED <<status, drift, broken, started, row, quiet>>

\* Drift: the breaker decides whether to deploy or to skip this cycle.
Gate(l) ==
  /\ IF Allow(entry) THEN Goto(l, "drifted", "deploy")
                     ELSE Goto(l, "drifted", "persist")
  /\ entry' = AfterAllow(entry)
  /\ UNCHANGED <<status, drift, broken, started, row, reports, quiet>>

\* Deploy fails before the stack row is touched (its record cannot be made).
DeployRefused(p) ==
  /\ broken
  /\ Return(p, "deploy", "failed")
  /\ UNCHANGED <<entry, status, drift, broken, started, row, reports, quiet>>

\* runDeployment marks the stack deploying ...
BeginDeploy(p) ==
  /\ Goto(p, "deploy", "running")
  /\ status' = "deploying"
  /\ SetCopy(p, "deploying")
  /\ UNCHANGED <<entry, drift, broken, started, reports, quiet>>

\* Mutated form: the deployment's status is written to the stack's row.
FinishDeployMixesStatus(p) ==
  LET outcome == IF broken THEN "failed" ELSE "completed" IN
  /\ Return(p, "running", IF broken THEN "failed" ELSE "succeeded")
  /\ drift' = (drift /\ broken)
  /\ status' = outcome
  /\ SetCopy(p, outcome)
  /\ UNCHANGED <<entry, broken, started, reports, quiet>>

\* Mutated form: the outcome is written, but not to the caller's copy of the row.
FinishDeployKeepsCopy(p) ==
  /\ Return(p, "running", IF broken THEN "failed" ELSE "succeeded")
  /\ drift' = (drift /\ broken)
  /\ status' = IF broken THEN "error" ELSE "active"
  /\ UNCHANGED <<entry, broken, started, row, reports, quiet>>

\* ... and writes the outcome of the rollout back.
FinishDeploy(p) ==
  LET outcome == IF broken THEN "error" ELSE "active" IN
  /\ Return(p, "running", IF broken THEN "failed" ELSE "succeeded")
  /\ drift' = (drift /\ broken)
  /\ status' = outcome
  /\ SetCopy(p, outcome)
  /\ UNCHANGED <<entry, broken, started, reports, quiet>>

\* The secrets cannot be read after the row was marked: runDeployment returns
\* the error and leaves the stack deploying.
SecretsUnreadable(p) ==
  /\ broken
  /\ Return(p, "running", "failed")
  /\ status' = IF status = "deploying" THEN "left" ELSE status
  /\ SetCopy(p, "left")
  /\ UNCHANGED <<entry, drift, broken, started, reports, quiet>>

\* A loop's RecordSuccess after its deploy.
RecordSuccess(l) ==
  /\ Goto(l, "succeeded", "persist")
  /\ entry' = AfterSuccess(entry)
  /\ reports' = 0
  /\ UNCHANGED <<status, drift, broken, started, row, quiet>>

\* A loop's RecordFailure after its deploy, with the audit of a fresh trip.
RecordFailure(l) ==
  /\ Goto(l, "failed", "persist")
  /\ entry' = AfterFailure(entry)
  /\ reports' = IF JustTripped(entry) /\ reports < 2 THEN reports + 1 ELSE reports
  /\ quiet' = IF started = {l} THEN 0 ELSE quiet
  /\ UNCHANGED <<status, drift, broken, started, row>>

\* UpdateStack writes the loop's whole row back with LastReconciledAt.
Persist(l) ==
  /\ Goto(l, "persist", "idle")
  /\ status' = row[l]
  /\ SetCopy(l, "active") \* the next cycle reloads it
  /\ UNCHANGED <<entry, drift, broken, started, reports, quiet>>

-----------------------------------------------------------------------------
RunDeployment(p) ==
  DeployRefused(p) \/ BeginDeploy(p) \/ SecretsUnreadable(p) \/ FinishDeploy(p)

LoopStep(l) ==
  \/ Load(l) \/ CheckDrift(l) \/ NoDrift(l) \/ Gate(l)
  \/ RunDeployment(l) \/ RecordSuccess(l) \/ RecordFailure(l) \/ Persist(l)

HandlerStep(h) == HandlerDeploys(h) \/ RunDeployment(h)

Next ==
  \/ \E l \in Loops : StartLoop(l) \/ LoopStep(l)
  \/ \E h \in Handlers : HandlerStep(h)
  \/ Environment
  \/ Tick

Spec == Init /\ [][Next]_vars

\* Goroutines are scheduled, tickers fire and time passes; a goroutine that
\* entered Deploy finishes it.  Nothing makes operators or the world act.
Fairness ==
  /\ \A l \in Loops : WF_vars(LoopStep(l))
  /\ \A h \in Handlers : WF_vars(RunDeployment(h))
  /\ WF_vars(Tick)

FairSpec == Spec /\ Fairness

-----------------------------------------------------------------------------
(* Safety. *)

\* The breaker is closed exactly while the failures recorded since the last
\* success are below the threshold, whatever loops record concurrently: a
\* failure recorded by one loop while another's trial is undecided can
\* neither close the breaker nor leave it closed at the threshold.
CountMatches == Enabled => CountMatchesState(entry)

\* A half-open breaker always has an auto-deploy in flight whose outcome will
\* decide it: no path through reconcileOnce takes the trial (Allow) and then
\* returns without recording success or failure, which would leave the stack
\* half-open with the throttle gone.
TrialInFlight ==
  entry.state = StateHalfOpen =>
    \E l \in Loops : pc[l] \in {"deploy", "running", "succeeded", "failed"}

\* The trip of an outage is reported (log, metric, audit row) exactly once: a
\* tripped breaker has been reported, a closed one has not, and the failed
\* trials of a persistently broken stack do not report again.
TripReportedOnce ==
  Enabled => reports = IF entry.state = StateClosed THEN 0 ELSE 1

\* While a single loop runs for the stack and its breaker is tripped, an
\* auto-deploy starts only when no auto-deploy has failed for a whole
\* cooldown: the throttle on a persistently failing stack.
OneTrialPerCooldown ==
  [][\A l \in Loops :
       /\ started = {l}
       /\ entry.state # StateClosed
       /\ pc[l] = "drifted" /\ pc'[l] = "deploy"
       => quiet = Cooldown]_vars

(* Liveness. *)

\* A stack whose problem is fixed for good, and that nobody deploys by hand
\* any more, ends with its breaker closed for good: neither the breaker nor
\* the statuses that goroutines write over each other lock it out, and no copy
\* of a row that still reads deploying is written back.  The one lockout is
\* the row that a deployment with unreadable secrets left deploying, which no
\* cycle looks at again (Lifecycle's DeployingMeansInFlight shows it).
Recovers ==
  <>[](~broken /\ \A h \in Handlers : pc[h] = "idle")
     => <>[](entry.state = StateClosed) \/ <>[](status = "left")
=============================================================================
