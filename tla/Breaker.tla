------------------------------- MODULE Breaker -------------------------------
(***************************************************************************)
(* The per-key circuit breaker of internal/breaker.  Every method takes    *)
(* b.mu for its whole body, so each is one function from the key's entry   *)
(* to its next entry; modules that compose the breaker with its callers    *)
(* apply them in one atomic step.                                          *)
(*                                                                         *)
(* An entry keeps the age of openedAt instead of the instant itself: the   *)
(* code only ever compares now() - openedAt with the cooldown, so ages at  *)
(* or past Cooldown are one value.  The failure counter saturates at       *)
(* FailureCap for the same reason: it is only compared with Threshold.     *)
(***************************************************************************)
EXTENDS Naturals

CONSTANTS Threshold,   \* consecutive failures that trip the breaker; 0 disables it
          Cooldown,    \* ticks the breaker stays open before a trial
          FailureCap   \* bound: where the failure counter saturates

ASSUME BreakerAssumption ==
  /\ Threshold \in Nat
  /\ Cooldown \in Nat
  /\ FailureCap \in Nat
  /\ FailureCap >= Threshold

StateClosed   == "closed"
StateOpen     == "open"
StateHalfOpen == "half-open"
State == {StateClosed, StateOpen, StateHalfOpen}

Entry == [consecutiveFailures : 0..FailureCap, state : State, age : 0..Cooldown]

\* entryFor: an unseen key has a closed entry with no failures.
NewEntry == [consecutiveFailures |-> 0, state |-> StateClosed, age |-> 0]

Enabled == Threshold > 0

\* b.now().Sub(e.openedAt) >= b.cooldown
CooledDown(e) == e.age >= Cooldown

\* The result of Allow for a key with entry e ...
Allow(e) == ~Enabled \/ e.state # StateOpen \/ CooledDown(e)

\* ... and the entry it leaves: an open breaker past its cooldown is half-open.
AfterAllow(e) ==
  IF Enabled /\ e.state = StateOpen /\ CooledDown(e)
    THEN [e EXCEPT !.state = StateHalfOpen]
    ELSE e

\* RecordSuccess closes the breaker and clears the count; openedAt stays.
AfterSuccess(e) ==
  IF Enabled
    THEN [e EXCEPT !.consecutiveFailures = 0, !.state = StateClosed]
    ELSE e

Bump(n) == IF n < FailureCap THEN n + 1 ELSE n

\* Mutated forms: trips one failure late; reports a failed trial as a trip.
JustTrippedLate(e) ==
  Enabled /\ e.state = StateClosed /\ Bump(e.consecutiveFailures) > Threshold
JustTrippedAgain(e) ==
  Enabled /\ e.state # StateOpen /\ Bump(e.consecutiveFailures) >= Threshold

\* RecordFailure returns true only for a trip from closed.
JustTripped(e) ==
  /\ Enabled
  /\ e.state = StateClosed
  /\ Bump(e.consecutiveFailures) >= Threshold

\* Mutated form: a failed trial leaves the breaker half-open.
OpensFromClosedOnly(e) == JustTripped(e)

\* The failures after which RecordFailure (re)opens with a fresh openedAt.
Opens(e) == JustTripped(e) \/ (Enabled /\ e.state = StateHalfOpen)

\* Mutated form: a failed trial does not restart the cooldown.
AfterFailureKeepsAge(e) ==
  IF ~Enabled THEN e
  ELSE [consecutiveFailures |-> Bump(e.consecutiveFailures),
        state |-> IF Opens(e) THEN StateOpen ELSE e.state,
        age   |-> IF JustTripped(e) THEN 0 ELSE e.age]

AfterFailure(e) ==
  IF ~Enabled THEN e
  ELSE [consecutiveFailures |-> Bump(e.consecutiveFailures),
        state |-> IF Opens(e) THEN StateOpen ELSE e.state,
        age   |-> IF Opens(e) THEN 0 ELSE e.age]

\* One unit of time passes.
Aged(e) == [e EXCEPT !.age = IF @ < Cooldown THEN @ + 1 ELSE @]

(***************************************************************************)
(* What the three states mean: closed below the threshold, tripped at or   *)
(* above it.                                                               *)
(***************************************************************************)
CountMatchesState(e) == (e.state = StateClosed) <=> (e.consecutiveFailures < Threshold)
=============================================================================
