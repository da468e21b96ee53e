--------------------------- MODULE ReconcilerLoops ---------------------------
(***************************************************************************)
(* The per-stack goroutines of internal/reconciler: Start, RefreshStack,   *)
(* startStackLoop, runLoop and Stop, with the handlers that call           *)
(* RefreshStack after they changed a stack's row, the deployments that     *)
(* rewrite that row, and the shutdown of main.                             *)
(*                                                                         *)
(* r.mu guards the registry of loops and is held by RefreshStack while it  *)
(* waits for the loop it cancelled.  The row is read and the new loop      *)
(* registered after the mutex is released.                                 *)
(*                                                                         *)
(* A request is served once and starts at most one loop, so a loop is      *)
(* named by what started it: the stack, for Start, or the request.  What a *)
(* cycle decides is module AutoDeploy; reading and rewriting the row       *)
(* inside one request is module Lifecycle.                                 *)
(***************************************************************************)
EXTENDS Naturals

CONSTANTS
  Stacks,
  Requests,     \* POST, PUT and DELETE requests on stacks
  Deployers,    \* deployments started by handlers
  StoreFails,   \* whether GetStack and ListStacks may fail
  None

ASSUME LoopsAssumption ==
  /\ StoreFails \in BOOLEAN
  /\ Stacks \cap Requests = {}
  /\ None \notin Stacks \cup Requests \cup Deployers

VARIABLES
  row,      \* per stack: its row
  reg,      \* r.loops: per stack, the registered loop
  loop,     \* per loop: position of its goroutine, stack, copy of the row
  stopped,  \* loops whose context was cancelled
  mu,       \* holder of r.mu
  req,      \* per request: position and stack
  job,      \* per handler deployment: stack and copy of the row
  main,     \* position of main
  raced     \* history: stacks two refreshes of which were past the mutex

vars == <<row, reg, loop, stopped, mu, req, job, main, raced>>

Loops == Stacks \cup Requests
Status == {"active", "paused", "deploying", "error"}

\* wanted: reconcile_interval_seconds > 0.
Row == [exists : BOOLEAN, wanted : BOOLEAN, status : Status]
NoRow == [exists |-> FALSE, wanted |-> FALSE, status |-> "active"]
NewRow(w) == [exists |-> TRUE, wanted |-> w, status |-> "active"]

\* Positions of a loop's goroutine that the wait group counts.
Counted == {"select", "cycle", "deploying", "persist"}
Live == Counted \cup {"registered"}
Loop == [at : Live \cup {"unused", "done"}, of : Stacks \cup {None}, copy : Row]
Request == [at : {"new", "lock", "wait", "load", "start", "spawn", "served"},
            of : Stacks \cup {None}]
Job == [of : Stacks \cup {None}, copy : Row]

Unused == [at |-> "unused", of |-> None, copy |-> NoRow]
NoJob == [of |-> None, copy |-> NoRow]

TypeOK ==
  /\ row \in [Stacks -> Row]
  /\ reg \in [Stacks -> Loops \cup {None}]
  /\ loop \in [Loops -> Loop]
  /\ stopped \in SUBSET Loops
  /\ mu \in Requests \cup {None}
  /\ req \in [Requests -> Request]
  /\ job \in [Deployers -> Job]
  /\ main \in {"boot", "serving", "signalled", "stopping", "exited"}
  /\ raced \in SUBSET Stacks

\* The process starts on the rows an earlier one left.
Init ==
  /\ row \in [Stacks -> {NoRow, NewRow(TRUE)}]
  /\ reg = [s \in Stacks |-> None]
  /\ loop = [l \in Loops |-> Unused]
  /\ stopped = {}
  /\ mu = None
  /\ req = [r \in Requests |-> [at |-> "new", of |-> None]]
  /\ job = [d \in Deployers |-> NoJob]
  /\ main = "boot"
  /\ raced = {}

-----------------------------------------------------------------------------
shouldReconcile(s) == s \in {"active", "error"}

\* Mutated form: RefreshStack does not notice that the row is gone.
NeedsLoopIfGone(r) == r.wanted /\ shouldReconcile(r.status)

\* What makes Start and RefreshStack start a loop for the row they read.
NeedsLoop(r) == r.exists /\ r.wanted /\ shouldReconcile(r.status)

UpdateStack(s, r) == row' = [row EXCEPT ![s] = IF @.exists THEN r ELSE @]

Goto(r, label) == req' = [req EXCEPT ![r].at = label]
Step(l, label) == loop' = [loop EXCEPT ![l].at = label]
Back(l) == loop' = [loop EXCEPT ![l].at = "select", ![l].copy = NoRow]

\* Mutated form: loops run on a context of their own.
CancelledAlone(l) == l \in stopped

\* The loop's context: its own cancel, or the root context of main.
Cancelled(l) == l \in stopped \/ main \in {"signalled", "stopping"}

Running == main \notin {"boot", "exited"}

-----------------------------------------------------------------------------
(* main: Start, the shutdown signal, Stop. *)

\* Start, before the server listens; a failing ListStacks starts no loop.
Start ==
  LET started == {s \in Stacks : NeedsLoop(row[s])} IN
  /\ main = "boot" /\ main' = "serving"
  /\ \/ /\ reg' = [s \in Stacks |-> IF s \in started THEN s ELSE None]
        /\ loop' = [l \in Loops |-> IF l \in started THEN [Unused EXCEPT !.at = "select", !.of = l]
                                    ELSE Unused]
     \/ StoreFails /\ UNCHANGED <<reg, loop>>
  /\ UNCHANGED <<row, stopped, mu, req, job, raced>>

\* SIGTERM: the root context is cancelled and the server stops listening.
Signal ==
  /\ main = "serving" /\ main' = "signalled"
  /\ UNCHANGED <<row, reg, loop, stopped, mu, req, job, raced>>

\* Stop: every registered loop is cancelled and dropped, under the mutex.
StopLoops ==
  /\ main = "signalled" /\ mu = None
  /\ main' = "stopping"
  /\ stopped' = stopped \cup {reg[s] : s \in {t \in Stacks : reg[t] # None}}
  /\ reg' = [s \in Stacks |-> None]
  /\ UNCHANGED <<row, loop, mu, req, job, raced>>

\* Stop: wg.Wait returns, main returns, the process is gone.
Exit ==
  /\ main = "stopping"
  /\ \A l \in Loops : loop[l].at \notin Counted
  /\ main' = "exited"
  /\ UNCHANGED <<row, reg, loop, stopped, mu, req, job, raced>>

-----------------------------------------------------------------------------
(* Requests: the row is written, then RefreshStack runs in the handler. *)

Begin(r, s, new) ==
  /\ main = "serving" /\ req[r].at = "new"
  /\ row' = [row EXCEPT ![s] = new]
  /\ req' = [req EXCEPT ![r] = [at |-> "lock", of |-> s]]
  /\ UNCHANGED <<reg, loop, stopped, mu, job, main, raced>>

\* POST: a fresh id, so a row that was deleted does not come back.
CreateStack(r, s) ==
  /\ row[s] = NoRow /\ \A q \in Requests : req[q].of # s
  /\ \E w \in BOOLEAN : Begin(r, s, NewRow(w))

\* PUT patches the interval or the status.
PutStack(r, s) ==
  /\ row[s].exists
  /\ \/ \E w \in BOOLEAN : Begin(r, s, [row[s] EXCEPT !.wanted = w])
     \/ \E st \in {"active", "paused"} : Begin(r, s, [row[s] EXCEPT !.status = st])

DeleteStack(r, s) == row[s].exists /\ Begin(r, s, [row[s] EXCEPT !.exists = FALSE])

\* Mutated forms: the loop is waited for but not cancelled; the entry is used
\* without looking whether there is one.
RefreshLockNoCancel(r) ==
  /\ Running /\ req[r].at = "lock" /\ mu = None
  /\ mu' = r
  /\ Goto(r, "wait")
  /\ UNCHANGED <<row, reg, loop, stopped, job, main, raced>>
RefreshLockUnchecked(r) ==
  /\ Running /\ req[r].at = "lock" /\ mu = None
  /\ mu' = r
  /\ Goto(r, "wait")
  /\ stopped' = stopped \cup {reg[req[r].of]}
  /\ UNCHANGED <<row, reg, loop, job, main, raced>>

\* RefreshStack holds the mutex and cancels the registered loop, or finds none.
RefreshLock(r) ==
  LET s == req[r].of IN
  /\ Running /\ req[r].at = "lock" /\ mu = None
  /\ mu' = r
  /\ Goto(r, "wait")
  /\ stopped' = stopped \cup ({reg[s]} \ {None})
  /\ UNCHANGED <<row, reg, loop, job, main, raced>>

\* Mutated form: the cancelled loop is not waited for.
RefreshUnlockAtOnce(r) ==
  LET s == req[r].of IN
  /\ Running /\ req[r].at = "wait"
  /\ mu' = None
  /\ reg' = [reg EXCEPT ![s] = None]
  /\ Goto(r, "load")
  /\ raced' = IF \E q \in Requests \ {r} : req[q].of = s /\ req[q].at \in {"load", "start"}
              THEN raced \cup {s} ELSE raced
  /\ UNCHANGED <<row, loop, stopped, job, main>>

\* <-existing.done, the loop is dropped from the registry, the mutex released.
RefreshUnlock(r) ==
  LET s == req[r].of IN
  /\ Running /\ req[r].at = "wait"
  /\ reg[s] # None => loop[reg[s]].at = "done"
  /\ mu' = None
  /\ reg' = [reg EXCEPT ![s] = None]
  /\ Goto(r, "load")
  /\ raced' = IF \E q \in Requests \ {r} : req[q].of = s /\ req[q].at \in {"load", "start"}
              THEN raced \cup {s} ELSE raced
  /\ UNCHANGED <<row, loop, stopped, job, main>>

\* GetStack: the loop is started from this row, or not at all.
RefreshLoad(r) ==
  LET s == req[r].of IN
  /\ Running /\ req[r].at = "load"
  /\ \/ Goto(r, IF NeedsLoop(row[s]) THEN "start" ELSE "served")
     \/ StoreFails /\ Goto(r, "served")
  /\ UNCHANGED <<row, reg, loop, stopped, mu, job, main, raced>>

\* startStackLoop: the loop takes the stack's entry, whatever is there.
RefreshRegister(r) ==
  LET s == req[r].of IN
  /\ Running /\ req[r].at = "start" /\ mu = None
  /\ reg' = [reg EXCEPT ![s] = r]
  /\ loop' = [loop EXCEPT ![r] = [Unused EXCEPT !.at = "registered", !.of = s]]
  /\ Goto(r, "spawn")
  /\ UNCHANGED <<row, stopped, mu, job, main, raced>>

\* ... wg.Add and the goroutine follow outside the mutex.
RefreshSpawn(r) ==
  /\ Running /\ req[r].at = "spawn"
  /\ Step(r, "select")
  /\ Goto(r, "served")
  /\ UNCHANGED <<row, reg, stopped, mu, job, main, raced>>

-----------------------------------------------------------------------------
(* runLoop. *)

\* The ticker fires; select may take it although the context is done.
LoopTick(l) ==
  LET s == loop[l].of IN
  /\ Running /\ loop[l].at = "select"
  /\ row[s].exists /\ shouldReconcile(row[s].status)
  /\ loop' = [loop EXCEPT ![l].at = "cycle", ![l].copy = row[s]]
  /\ UNCHANGED <<row, reg, stopped, mu, req, job, main, raced>>

\* The cycle deploys: the row is marked deploying.
LoopDeploys(l) ==
  LET r == [loop[l].copy EXCEPT !.status = "deploying"] IN
  /\ Running /\ loop[l].at = "cycle"
  /\ UpdateStack(loop[l].of, r)
  /\ loop' = [loop EXCEPT ![l].at = "deploying", ![l].copy = r]
  /\ UNCHANGED <<reg, stopped, mu, req, job, main, raced>>

\* The deployment ends, well or badly.
LoopDeployed(l) ==
  /\ Running /\ loop[l].at = "deploying"
  /\ \E st \in {"active", "error"} :
       LET r == [loop[l].copy EXCEPT !.status = st] IN
       /\ UpdateStack(loop[l].of, r)
       /\ loop' = [loop EXCEPT ![l].at = "persist", ![l].copy = r]
  /\ UNCHANGED <<reg, stopped, mu, req, job, main, raced>>

\* Nothing to deploy, or the drift check failed and the cycle is over.
LoopSkips(l) ==
  /\ Running /\ loop[l].at = "cycle"
  /\ Step(l, "persist") \/ Back(l)
  /\ UNCHANGED <<row, reg, stopped, mu, req, job, main, raced>>

\* The LastReconciledAt write of the loop's copy.
LoopPersist(l) ==
  /\ Running /\ loop[l].at = "persist"
  /\ UpdateStack(loop[l].of, loop[l].copy)
  /\ Back(l)
  /\ UNCHANGED <<reg, stopped, mu, req, job, main, raced>>

\* ctx.Done: the goroutine closes its done channel and leaves the wait group.
LoopExit(l) ==
  /\ Running /\ loop[l].at = "select" /\ Cancelled(l)
  /\ Step(l, "done")
  /\ UNCHANGED <<row, reg, stopped, mu, req, job, main, raced>>

-----------------------------------------------------------------------------
(* Deployments of the handlers, on their own copy of the row. *)

DeployBegin(d, s) ==
  LET r == [row[s] EXCEPT !.status = "deploying"] IN
  /\ main = "serving" /\ job[d] = NoJob
  /\ row[s].exists /\ row[s].status # "deploying"
  /\ UpdateStack(s, r)
  /\ job' = [job EXCEPT ![d] = [of |-> s, copy |-> r]]
  /\ UNCHANGED <<reg, loop, stopped, mu, req, main, raced>>

DeployEnd(d) ==
  /\ Running /\ job[d] # NoJob
  /\ \E st \in {"active", "error"} :
       UpdateStack(job[d].of, [job[d].copy EXCEPT !.status = st])
  /\ job' = [job EXCEPT ![d] = NoJob]
  /\ UNCHANGED <<reg, loop, stopped, mu, req, main, raced>>

-----------------------------------------------------------------------------
Refresh(r) ==
  \/ RefreshLock(r) \/ RefreshUnlock(r) \/ RefreshLoad(r)
  \/ RefreshRegister(r) \/ RefreshSpawn(r)

Cycle(l) == LoopDeploys(l) \/ LoopDeployed(l) \/ LoopSkips(l) \/ LoopPersist(l)

Next ==
  \/ Start \/ Signal \/ StopLoops \/ Exit
  \/ \E r \in Requests :
       \/ \E s \in Stacks : CreateStack(r, s) \/ PutStack(r, s) \/ DeleteStack(r, s)
       \/ Refresh(r)
  \/ \E l \in Loops : LoopTick(l) \/ Cycle(l) \/ LoopExit(l)
  \/ \E d \in Deployers : (\E s \in Stacks : DeployBegin(d, s)) \/ DeployEnd(d)

Spec == Init /\ [][Next]_vars

\* A goroutine that can run does; a mutex is not denied for ever (Go's mutex
\* has a starvation mode); select does not prefer the ticker for ever; a cycle
\* ends (every call it makes has a timeout or the loop's context).  A request
\* and a loop end once, so fairness to all of them together is fairness to each.
Fairness ==
  /\ SF_vars(StopLoops \/ Exit \/ (\E r \in Requests : Refresh(r)) \/ (\E l \in Loops : LoopExit(l)))
  /\ \A l \in Loops : WF_vars(Cycle(l))

FairSpec == Spec /\ Fairness

-----------------------------------------------------------------------------
LiveLoops(s) == {l \in Loops : loop[l].of = s /\ loop[l].at \in Live}
BeforeStop == main \in {"serving", "signalled"}
Refreshing(s) == \E r \in Requests : req[r].of = s /\ req[r].at \notin {"new", "served"}

\* Until Stop empties the registry, a stack has at most one loop goroutine and
\* it is the registered one, unless two refreshes of the stack were between
\* unlocking r.mu and registering: RefreshStack waits for the old loop to be
\* gone, so cycles of an old and a new loop do not run side by side.
OneLoopPerStack ==
  \A s \in Stacks : BeforeStop /\ s \notin raced => LiveLoops(s) \subseteq {reg[s]}

\* Outside that window, once the refresh of a DELETE has returned no loop of
\* the stack is left.
DeletedHasNoLoop ==
  \A s \in Stacks :
    BeforeStop /\ s \notin raced /\ ~Refreshing(s) /\ ~row[s].exists => LiveLoops(s) = {}

\* RefreshStack always returns, although it waits for a loop's cycle with the
\* mutex held and other requests and Stop contend for the mutex: again and
\* again no request is inside it, unless the process ends first.
RefreshReturns ==
  []<>(main = "exited" \/ \A r \in Requests : req[r].at \in {"new", "served"})

\* Stop ends every loop and returns, also with loops that lost their entry in
\* the registry and with refreshes still running in handlers.
StopReturns == []<>(main \notin {"signalled", "stopping"})

-----------------------------------------------------------------------------
(* What the comments say, and the code does not do. *)

\* A refresh stops the stack's loop and, if reconciliation is enabled, starts a
\* new one: when a deployment ends and leaves an eligible row, with no request on
\* the stack in progress, a stack that has had a loop has one.
EnabledStackHasLoop ==
  [][\A s \in Stacks :
       /\ main = "serving" /\ ~Refreshing(s)
       /\ row[s].wanted /\ row[s].status = "deploying" /\ NeedsLoop(row'[s])
       /\ \E l \in Loops : loop[l].of = s
       => LiveLoops(s)' # {} \/ Refreshing(s)']_vars
=============================================================================
