-------------------------- MODULE AutoDeployProofs --------------------------
(***************************************************************************)
(* Proofs about the reconcile loops and their breaker, for every           *)
(* threshold, cooldown, number of loops and number of handlers.            *)
(***************************************************************************)
EXTENDS AutoDeploy, TLAPS

InFlight == {"deploy", "running", "succeeded", "failed"}

(***************************************************************************)
(* What each breaker method does to an entry.                              *)
(***************************************************************************)

\* Every method of the breaker, and the passing of time, keeps an entry an entry.
LEMMA EntryTyping ==
  ASSUME NEW e \in Entry
  PROVE  /\ AfterAllow(e) \in Entry
         /\ AfterSuccess(e) \in Entry
         /\ AfterFailure(e) \in Entry
         /\ Aged(e) \in Entry
<1> USE BreakerAssumption DEF Entry, State, StateClosed, StateOpen, StateHalfOpen
<1>1. AfterAllow(e) \in Entry
  BY DEF AfterAllow
<1>2. AfterSuccess(e) \in Entry
  <2>1. 0 \in 0..FailureCap
    OBVIOUS
  <2>2. [e EXCEPT !.consecutiveFailures = 0] \in Entry
    BY <2>1
  <2>3. [[e EXCEPT !.consecutiveFailures = 0] EXCEPT !.state = StateClosed] \in Entry
    BY <2>2
  <2>4. QED
    BY <2>3 DEF AfterSuccess
<1>3. AfterFailure(e) \in Entry
  BY DEF AfterFailure, Bump
<1>4. Aged(e) \in Entry
  BY DEF Aged
<1>5. QED
  BY <1>1, <1>2, <1>3, <1>4

\* Every method of an enabled breaker keeps the failure count on the side of
\* the threshold that the state says.
LEMMA CountKept ==
  ASSUME NEW e \in Entry, Enabled, CountMatchesState(e)
  PROVE  /\ CountMatchesState(AfterAllow(e))
         /\ CountMatchesState(AfterSuccess(e))
         /\ CountMatchesState(AfterFailure(e))
         /\ CountMatchesState(Aged(e))
<1> USE BreakerAssumption
    DEF Entry, State, StateClosed, StateOpen, StateHalfOpen, CountMatchesState, Enabled
<1>1. CountMatchesState(AfterAllow(e))
  BY DEF AfterAllow
<1>2. CountMatchesState(AfterSuccess(e))
  BY DEF AfterSuccess
<1>3. CountMatchesState(AfterFailure(e))
  BY DEF AfterFailure, Opens, JustTripped, Bump
<1>4. CountMatchesState(Aged(e))
  BY DEF Aged
<1>5. QED
  BY <1>1, <1>2, <1>3, <1>4

\* The breaker is half-open only after Allow took an expired open breaker
\* there, or because it was half-open and nothing was recorded since.
LEMMA HalfOpenOrigin ==
  ASSUME NEW e \in Entry
  PROVE  /\ AfterSuccess(e).state = StateHalfOpen => e.state = StateHalfOpen /\ ~Enabled
         /\ AfterFailure(e).state = StateHalfOpen => e.state = StateHalfOpen /\ ~Enabled
         /\ Aged(e).state = e.state
         /\ AfterAllow(e).state = StateHalfOpen => e.state = StateHalfOpen \/ Allow(e)
         /\ ~Enabled => AfterAllow(e) = e
<1> USE BreakerAssumption DEF Entry, State, StateClosed, StateOpen, StateHalfOpen
<1>1. AfterSuccess(e).state = StateHalfOpen => e.state = StateHalfOpen /\ ~Enabled
  BY DEF AfterSuccess
<1>2. AfterFailure(e).state = StateHalfOpen => e.state = StateHalfOpen /\ ~Enabled
  BY DEF AfterFailure, Opens
<1>3. Aged(e).state = e.state
  BY DEF Aged
<1>4. AfterAllow(e).state = StateHalfOpen => e.state = StateHalfOpen \/ Allow(e)
  BY DEF AfterAllow, Allow
<1>5. ~Enabled => AfterAllow(e) = e
  BY DEF AfterAllow
<1>6. QED
  BY <1>1, <1>2, <1>3, <1>4, <1>5

-----------------------------------------------------------------------------
(***************************************************************************)
(* Type correctness.                                                       *)
(***************************************************************************)

\* Every variable keeps its type, for every value of the constants.
THEOREM TypeCorrect == Spec => []TypeOK
<1> USE BreakerAssumption, AutoDeployAssumption
<1>1. Init => TypeOK
  BY DEF Init, TypeOK, Entry, NewEntry, State, StateClosed, Status, PC, Procs
<1>2. TypeOK /\ [Next]_vars => TypeOK'
  <2> SUFFICES ASSUME TypeOK, [Next]_vars PROVE TypeOK'
    OBVIOUS
  <2> USE EntryTyping DEF TypeOK, Status, PC, Procs, Goto, Return, SetCopy
  <2>1. ASSUME NEW l \in Loops, StartLoop(l) PROVE TypeOK'
    BY <2>1 DEF StartLoop
  <2>2. ASSUME NEW l \in Loops, Load(l) PROVE TypeOK'
    BY <2>2 DEF Load
  <2>3. ASSUME NEW l \in Loops, CheckDrift(l) PROVE TypeOK'
    BY <2>3 DEF CheckDrift
  <2>4. ASSUME NEW l \in Loops, NoDrift(l) PROVE TypeOK'
    BY <2>4 DEF NoDrift
  <2>5. ASSUME NEW l \in Loops, Gate(l) PROVE TypeOK'
    BY <2>5 DEF Gate
  <2>6. ASSUME NEW p \in Procs, RunDeployment(p) PROVE TypeOK'
    <3>1. CASE DeployRefused(p) BY <3>1 DEF DeployRefused
    <3>2. CASE BeginDeploy(p) BY <3>2 DEF BeginDeploy
    <3>3. CASE FinishDeploy(p) BY <3>3 DEF FinishDeploy
    <3>4. CASE SecretsUnreadable(p) BY <3>4 DEF SecretsUnreadable
    <3>5. QED BY <2>6, <3>1, <3>2, <3>3, <3>4 DEF RunDeployment
  <2>7. ASSUME NEW l \in Loops, RecordSuccess(l) PROVE TypeOK'
    BY <2>7 DEF RecordSuccess
  <2>8. ASSUME NEW l \in Loops, RecordFailure(l) PROVE TypeOK'
    BY <2>8 DEF RecordFailure
  <2>9. ASSUME NEW l \in Loops, Persist(l) PROVE TypeOK'
    BY <2>9 DEF Persist
  <2>10. ASSUME NEW h \in Handlers, HandlerDeploys(h) PROVE TypeOK'
    BY <2>10 DEF HandlerDeploys
  <2>11. CASE Environment
    BY <2>11 DEF Environment
  <2>12. CASE Tick
    BY <2>12 DEF Tick
  <2>13. CASE UNCHANGED vars
    BY <2>13 DEF vars
  <2>14. QED
    BY <2>1, <2>2, <2>3, <2>4, <2>5, <2>6, <2>7, <2>8, <2>9, <2>10, <2>11, <2>12, <2>13
       DEF Next, LoopStep, HandlerStep
<1>3. QED
  BY <1>1, <1>2, PTL DEF Spec

-----------------------------------------------------------------------------
(***************************************************************************)
(* The breaker's safety.  TrialInFlight is inductive because every record  *)
(* leaves the half-open state, so the loop that took the trial is still in *)
(* flight as long as the breaker is half-open; the disabled breaker never  *)
(* leaves the closed state.                                                *)
(***************************************************************************)
DisabledClosed == ~Enabled => entry.state = StateClosed

BreakerInv == CountMatches /\ TrialInFlight /\ TripReportedOnce /\ DisabledClosed

\* Steps that leave the breaker and its history alone and move no loop out of flight.
LEMMA BreakerInvFrame ==
  ASSUME TypeOK, BreakerInv, entry' = entry, reports' = reports,
         \A l \in Loops : pc[l] \in InFlight => pc'[l] \in InFlight
  PROVE  BreakerInv'
BY DEF BreakerInv, CountMatches, TrialInFlight, TripReportedOnce, DisabledClosed, InFlight

\* The failure count, the trial in flight and the single report of a trip hold
\* in every reachable state, whatever the number of loops.
THEOREM BreakerSafe == Spec => []BreakerInv
<1> USE BreakerAssumption, AutoDeployAssumption
<1>1. Init => BreakerInv
  BY DEF Init, BreakerInv, CountMatches, TrialInFlight, TripReportedOnce, DisabledClosed,
         CountMatchesState, Enabled, NewEntry, StateClosed, StateHalfOpen
<1>2. TypeOK /\ BreakerInv /\ [Next]_vars => BreakerInv'
  <2> SUFFICES ASSUME TypeOK, BreakerInv, [Next]_vars PROVE BreakerInv'
    OBVIOUS
  <2> entry \in Entry /\ pc \in [Procs -> PC] /\ reports \in 0..2
    BY DEF TypeOK
  <2>1. ASSUME NEW l \in Loops, StartLoop(l) \/ Load(l) \/ CheckDrift(l) \/ Persist(l)
        PROVE BreakerInv'
    BY <2>1, BreakerInvFrame DEF StartLoop, Load, CheckDrift, Persist, Goto, InFlight, Procs
  <2>2. ASSUME NEW p \in Procs, RunDeployment(p) PROVE BreakerInv'
    BY <2>2, BreakerInvFrame
       DEF RunDeployment, DeployRefused, BeginDeploy, SecretsUnreadable, FinishDeploy,
           Return, Goto, InFlight, Procs
  <2>3. ASSUME NEW l \in Loops, entry' = AfterSuccess(entry), reports' = 0
        PROVE BreakerInv'
    <3>1. CountMatches'
      BY <2>3, CountKept DEF BreakerInv, CountMatches
    <3>2. TrialInFlight'
      BY <2>3, HalfOpenOrigin
         DEF BreakerInv, DisabledClosed, TrialInFlight, StateClosed, StateHalfOpen
    <3>3. TripReportedOnce'
      BY <2>3 DEF TripReportedOnce, AfterSuccess, Entry
    <3>4. DisabledClosed'
      BY <2>3 DEF BreakerInv, DisabledClosed, AfterSuccess
    <3>5. QED
      BY <3>1, <3>2, <3>3, <3>4 DEF BreakerInv
  <2>4. ASSUME NEW l \in Loops, Gate(l) PROVE BreakerInv'
    <3>1. entry' = AfterAllow(entry) /\ reports' = reports
      BY <2>4 DEF Gate
    <3>2. CountMatches'
      BY <3>1, CountKept DEF BreakerInv, CountMatches
    <3>3. TrialInFlight'
      <4>1. CASE Allow(entry)
        BY <4>1, <2>4 DEF Gate, Goto, TrialInFlight, Procs
      <4>2. CASE ~Allow(entry)
        <5>1. entry' = entry
          BY <3>1, <4>2 DEF AfterAllow, Allow
        <5>2. \A m \in Loops : pc[m] \in InFlight => pc'[m] \in InFlight
          BY <4>2, <2>4 DEF Gate, Goto, InFlight, Procs
        <5>3. QED
          BY <5>1, <5>2 DEF BreakerInv, TrialInFlight, InFlight
      <4>3. QED
        BY <4>1, <4>2
    <3>4. TripReportedOnce'
      BY <3>1 DEF BreakerInv, TripReportedOnce, AfterAllow, Entry, StateOpen, StateHalfOpen,
                  StateClosed
    <3>5. DisabledClosed'
      BY <3>1 DEF BreakerInv, DisabledClosed, AfterAllow
    <3>6. QED
      BY <3>2, <3>3, <3>4, <3>5 DEF BreakerInv
  <2>5. ASSUME NEW l \in Loops, RecordFailure(l) PROVE BreakerInv'
    <3>1. /\ entry' = AfterFailure(entry)
          /\ reports' = IF JustTripped(entry) /\ reports < 2 THEN reports + 1 ELSE reports
      BY <2>5 DEF RecordFailure
    <3>2. CountMatches'
      BY <3>1, CountKept DEF BreakerInv, CountMatches
    <3>3. TrialInFlight'
      BY <3>1, HalfOpenOrigin
         DEF BreakerInv, DisabledClosed, TrialInFlight, StateClosed, StateHalfOpen
    <3>4. TripReportedOnce'
      BY <3>1 DEF BreakerInv, TripReportedOnce, AfterFailure, Opens, JustTripped, Entry, State,
                  StateOpen, StateHalfOpen, StateClosed
    <3>5. DisabledClosed'
      BY <3>1 DEF BreakerInv, DisabledClosed, AfterFailure
    <3>6. QED
      BY <3>2, <3>3, <3>4, <3>5 DEF BreakerInv
  <2>6. ASSUME NEW h \in Handlers, HandlerDeploys(h) PROVE BreakerInv'
    BY <2>6, BreakerInvFrame DEF HandlerDeploys, Goto, InFlight, Procs
  <2>7. CASE Environment
    BY <2>7, BreakerInvFrame DEF Environment
  <2>8. CASE Tick
    <3>1. entry' = Aged(entry) /\ reports' = reports /\ pc' = pc
      BY <2>8 DEF Tick
    <3>2. entry'.state = entry.state /\ (Enabled => CountMatchesState(entry'))
      BY <3>1, CountKept, HalfOpenOrigin DEF BreakerInv, CountMatches
    <3>3. QED
      BY <3>1, <3>2 DEF BreakerInv, CountMatches, TrialInFlight, TripReportedOnce, DisabledClosed
  <2>9. CASE UNCHANGED vars
    BY <2>9, BreakerInvFrame DEF vars
  <2>10. ASSUME NEW l \in Loops, NoDrift(l) \/ RecordSuccess(l) PROVE BreakerInv'
    BY <2>10, <2>3 DEF NoDrift, RecordSuccess
  <2>11. QED
    BY <2>1, <2>2, <2>4, <2>5, <2>6, <2>7, <2>8, <2>9, <2>10
       DEF Next, LoopStep, HandlerStep, Procs
<1>3. QED
  BY <1>1, <1>2, TypeCorrect, PTL DEF Spec

\* The count of failures since the last success decides the state.
COROLLARY CountMatchesAlways == Spec => []CountMatches
<1>1. BreakerInv => CountMatches
  BY DEF BreakerInv
<1>2. QED
  BY <1>1, BreakerSafe, PTL

\* A half-open breaker always has a trial in flight.
COROLLARY TrialInFlightAlways == Spec => []TrialInFlight
<1>1. BreakerInv => TrialInFlight
  BY DEF BreakerInv
<1>2. QED
  BY <1>1, BreakerSafe, PTL

\* The trip of an outage is reported exactly once.
COROLLARY TripReportedOnceAlways == Spec => []TripReportedOnce
<1>1. BreakerInv => TripReportedOnce
  BY DEF BreakerInv
<1>2. QED
  BY <1>1, BreakerSafe, PTL

-----------------------------------------------------------------------------
(***************************************************************************)
(* The throttle.  For a stack with one loop, no failure is recorded while  *)
(* the breaker is open (the loop is in flight only when it is closed or    *)
(* half-open), so openedAt is the instant of the last failure, and Allow's *)
(* comparison with openedAt bounds the time since that failure.            *)
(***************************************************************************)
UnstartedIdle == first \in started /\ \A l \in Loops : l \notin started => pc[l] = "idle"

SoleLoopInv ==
  \A l \in Loops : started = {l} =>
    /\ pc[l] \in InFlight => entry.state # StateOpen
    /\ entry.state = StateOpen => entry.age <= quiet

ThrottleInv == UnstartedIdle /\ SoleLoopInv

\* The throttle's invariant, for every threshold and cooldown.
THEOREM ThrottleInvariant == Spec => []ThrottleInv
<1> USE BreakerAssumption, AutoDeployAssumption
<1>1. Init => ThrottleInv
  BY DEF Init, ThrottleInv, UnstartedIdle, SoleLoopInv, InFlight, NewEntry, StateClosed,
         StateOpen, Procs
<1>2. TypeOK /\ BreakerInv /\ ThrottleInv /\ [Next]_vars => ThrottleInv'
  <2> SUFFICES ASSUME TypeOK, BreakerInv, ThrottleInv, [Next]_vars PROVE ThrottleInv'
    OBVIOUS
  <2> /\ entry \in Entry /\ pc \in [Procs -> PC] /\ quiet \in 0..Cooldown
      /\ started \in SUBSET Loops
    BY DEF TypeOK
  <2> USE DEF ThrottleInv, UnstartedIdle, SoleLoopInv, InFlight
  <2>1. ASSUME NEW l \in Loops, StartLoop(l) PROVE ThrottleInv'
    BY <2>1 DEF StartLoop
  <2>2. ASSUME NEW l \in Loops, Load(l) \/ CheckDrift(l) \/ Persist(l) PROVE ThrottleInv'
    BY <2>2 DEF Load, CheckDrift, Persist, Goto, Procs
  <2>3. ASSUME NEW p \in Procs, RunDeployment(p) PROVE ThrottleInv'
    BY <2>3 DEF RunDeployment, DeployRefused, BeginDeploy, SecretsUnreadable, FinishDeploy,
                Return, Goto, Procs
  <2>4. ASSUME NEW l \in Loops, NoDrift(l) \/ RecordSuccess(l) PROVE ThrottleInv'
    <3>1. entry' = AfterSuccess(entry) /\ started' = started /\ quiet' = quiet
      BY <2>4 DEF NoDrift, RecordSuccess
    <3>2. entry'.state # StateOpen
      BY <3>1 DEF AfterSuccess, Entry, StateClosed, StateOpen, BreakerInv, DisabledClosed
    <3>3. UnstartedIdle'
      BY <2>4 DEF NoDrift, RecordSuccess, Goto, Procs
    <3>4. QED
      BY <3>1, <3>2, <3>3
  <2>5. ASSUME NEW l \in Loops, Gate(l) PROVE ThrottleInv'
    <3>1. /\ entry' = AfterAllow(entry) /\ started' = started /\ quiet' = quiet
          /\ pc' = [pc EXCEPT ![l] = IF Allow(entry) THEN "deploy" ELSE "persist"]
      BY <2>5 DEF Gate, Goto
    <3>2. /\ Allow(entry) => entry'.state # StateOpen
          /\ entry'.state = StateOpen => entry'.age = entry.age /\ entry.state = StateOpen
      BY <3>1 DEF AfterAllow, Allow, Entry, StateHalfOpen, StateOpen, StateClosed, BreakerInv,
                  DisabledClosed
    <3>3. UnstartedIdle'
      BY <2>5, <3>1 DEF Gate, Goto, Procs
    <3>4. QED
      BY <3>1, <3>2, <3>3 DEF Procs
  <2>6. ASSUME NEW l \in Loops, RecordFailure(l) PROVE ThrottleInv'
    <3>1. /\ entry' = AfterFailure(entry) /\ started' = started
          /\ started = {l} => quiet' = 0
          /\ pc[l] = "failed" /\ pc' = [pc EXCEPT ![l] = "persist"]
      BY <2>6 DEF RecordFailure, Goto
    <3>2. ASSUME NEW m \in Loops, started = {m} PROVE m = l /\ entry.state # StateOpen
      BY <3>1, <3>2
    <3>3. entry.state # StateOpen /\ entry'.state = StateOpen => entry'.age = 0
      BY <3>1 DEF AfterFailure, Opens, Entry
    <3>4. UnstartedIdle'
      BY <3>1 DEF Procs
    <3>5. QED
      BY <3>1, <3>2, <3>3, <3>4 DEF Procs
  <2>7. ASSUME NEW h \in Handlers, HandlerDeploys(h) PROVE ThrottleInv'
    BY <2>7 DEF HandlerDeploys, Goto, Procs
  <2>8. CASE Environment
    BY <2>8 DEF Environment
  <2>9. CASE Tick
    <3>1. /\ entry' = Aged(entry) /\ started' = started /\ pc' = pc
          /\ quiet' = IF quiet < Cooldown THEN quiet + 1 ELSE quiet
      BY <2>9 DEF Tick
    <3>2. /\ entry'.state = entry.state
          /\ entry'.age = IF entry.age < Cooldown THEN entry.age + 1 ELSE entry.age
          /\ entry.age \in 0..Cooldown
      BY <3>1 DEF Aged, Entry
    <3>3. QED
      BY <3>1, <3>2
  <2>10. CASE UNCHANGED vars
    BY <2>10 DEF vars
  <2>11. QED
    BY <2>1, <2>2, <2>3, <2>4, <2>5, <2>6, <2>7, <2>8, <2>9, <2>10
       DEF Next, LoopStep, HandlerStep, Procs
<1>3. QED
  BY <1>1, <1>2, TypeCorrect, BreakerSafe, PTL DEF Spec

\* A tripped stack with one loop is auto-deployed at most once per cooldown.
THEOREM Throttled == Spec => OneTrialPerCooldown
<1> USE BreakerAssumption, AutoDeployAssumption
<1> DEFINE Spaced == \A l \in Loops :
             /\ started = {l}
             /\ entry.state # StateClosed
             /\ pc[l] = "drifted" /\ pc'[l] = "deploy"
             => quiet = Cooldown
<1>1. TypeOK /\ BreakerInv /\ ThrottleInv /\ [Next]_vars => [Spaced]_vars
  <2> SUFFICES ASSUME TypeOK, BreakerInv, ThrottleInv, Next, NEW l \in Loops,
                      started = {l}, entry.state # StateClosed,
                      pc[l] = "drifted", pc'[l] = "deploy"
               PROVE  quiet = Cooldown
    OBVIOUS
  <2>1. entry \in Entry /\ pc \in [Procs -> PC] /\ quiet \in 0..Cooldown
    BY DEF TypeOK
  <2>2. Gate(l)
    BY <2>1 DEF Next, LoopStep, HandlerStep, RunDeployment, StartLoop, Load, CheckDrift, NoDrift,
           Gate, DeployRefused, BeginDeploy, SecretsUnreadable, FinishDeploy, RecordSuccess,
           RecordFailure, Persist,
           HandlerDeploys, Environment, Tick, Return, Goto, Procs
  <2>3. Allow(entry) /\ Enabled
    BY <2>1, <2>2 DEF Gate, Goto, BreakerInv, DisabledClosed, Procs
  <2>4. entry.state # StateHalfOpen
    BY DEF BreakerInv, TrialInFlight, ThrottleInv, UnstartedIdle
  <2>5. entry.state = StateOpen /\ entry.age >= Cooldown
    BY <2>1, <2>3, <2>4 DEF Allow, CooledDown, Entry, State
  <2>6. entry.age <= quiet /\ entry.age \in 0..Cooldown
    BY <2>1, <2>5 DEF ThrottleInv, SoleLoopInv, Entry
  <2>7. QED
    BY <2>1, <2>5, <2>6
<1>2. QED
  BY <1>1, TypeCorrect, BreakerSafe, ThrottleInvariant, PTL DEF Spec, OneTrialPerCooldown
=============================================================================
