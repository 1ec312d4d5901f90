------------------------------- MODULE Backoff -------------------------------
(***************************************************************************)
(* The polling backoff state machine of                                    *)
(* packages/core/src/scheduler/backoff.ts.  It is pure: the scheduler      *)
(* keeps one state per venue.  Delays are counted in units of the base     *)
(* interval; jitter only adds to them, so Delay is their floor.            *)
(***************************************************************************)
EXTENDS Naturals

CONSTANTS
  MaxMultiplier,   \* the cap on the multiplier
  PauseThreshold,  \* consecutive challenges that pause a venue
  MaxDelay         \* MAX_DELAY_MS, in base intervals

ASSUME BackoffConstants ==
  /\ MaxMultiplier \in Nat \ {0}
  /\ PauseThreshold \in Nat \ {0}
  /\ MaxDelay \in Nat \ {0}

Outcomes == {"success", "error", "challenged"}

(* consecutiveChallenges matters up to the threshold only and is capped    *)
(* there.                                                                  *)
BackoffState == [multiplier : 1 .. MaxMultiplier, challenges : 0 .. PauseThreshold,
                 paused : BOOLEAN]

initialBackoffState == [multiplier |-> 1, challenges |-> 0, paused |-> FALSE]

Lesser(a, b)  == IF a <= b THEN a ELSE b
Greater(a, b) == IF a >= b THEN a ELSE b

(* A success halves the multiplier and clears any pause.                   *)
AfterSuccess(s) ==
  [multiplier |-> Greater(1, s.multiplier \div 2), challenges |-> 0, paused |-> FALSE]

(* A plain error doubles it, and leaves a pause in place.                  *)
AfterError(s) ==
  [multiplier |-> Lesser(2 * s.multiplier, MaxMultiplier), challenges |-> 0, paused |-> s.paused]

(* Mutant of AfterChallenge: paused at the threshold only, not beyond it.  *)
AfterChallengeAtThreshold(s) ==
  [multiplier |-> Lesser(2 * s.multiplier, MaxMultiplier),
   challenges |-> Lesser(s.challenges + 1, PauseThreshold),
   paused |-> s.challenges + 1 = PauseThreshold]

(* Challenges in a row pause the venue.                                    *)
AfterChallenge(s) ==
  [multiplier |-> Lesser(2 * s.multiplier, MaxMultiplier),
   challenges |-> Lesser(s.challenges + 1, PauseThreshold),
   paused |-> s.paused \/ s.challenges + 1 >= PauseThreshold]

nextDelay(s, outcome) ==
  CASE outcome = "success"    -> AfterSuccess(s)
    [] outcome = "error"      -> AfterError(s)
    [] outcome = "challenged" -> AfterChallenge(s)

backoffDelay(s) == Lesser(s.multiplier, MaxDelay)

=============================================================================
