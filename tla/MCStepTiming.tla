---------------------------- MODULE MCStepTiming ----------------------------
(***************************************************************************)
(* Policies for StepTiming: the defaults; a timer that setTimeout cannot   *)
(* hold, as a timeout and as a delay; a delay that grows to Infinity, by   *)
(* halves or that shrinks; no attempt at all; no delay; no timeout.        *)
(***************************************************************************)
EXTENDS StepTiming

Half == Parts \div 2

MCPolicies == {
    StepPolicy(DefaultRetryPolicy, 3),
    StepPolicy(DefaultRetryPolicy, 0),
    StepPolicy(DefaultCompensationRetryPolicy, 2),
    StepPolicy(Retry(Unset, FixedDelay(0)), 2),
    StepPolicy(Retry(2, FixedDelay(TimerMax + 1)), TimerMax + 1),
    StepPolicy(Retry(4, ExponentialBackoff(1, 4 * Parts, 5)), 1),
    StepPolicy(Retry(4, ExponentialBackoff(1, 12 * Parts, Infinite)), 1),
    StepPolicy(Retry(4, ExponentialBackoff(0, 12 * Parts, Unset)), 1),
    StepPolicy(Retry(4, ExponentialBackoff(3, Parts + Half, Unset)), 1),
    StepPolicy(Retry(4, ExponentialBackoff(5, Half, Unset)), 2),
    StepPolicy(Retry(4, ExponentialBackoffWithJitter(3, Parts + Half, 5)), 1),
    StepPolicy(Retry(0, FixedDelay(1)), 1)}
=============================================================================
