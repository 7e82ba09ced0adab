----------------------------- MODULE StepTiming -----------------------------
(***************************************************************************)
(* One step in time: withRetry around executeWithTimeout, as executeStep   *)
(* and compensate call them, on a clock of ticks.  The other modules know  *)
(* only that an attempt ends; here are the delays between the attempts,    *)
(* the timers of Node and the calls that a timeout abandons.               *)
(***************************************************************************)
EXTENDS Integers, FiniteSetsExt

CONSTANTS
    Second,         \* ticks in a second
    TimerMax,       \* the longest delay setTimeout can hold (2^31 - 1 ms)
    Infinite,       \* from here on a number of JavaScript is Infinity
    Parts,          \* the parts of 1 that a multiplier is counted in
    Policies,       \* [attempts, strategy, timeout]: the steps to look at
    MaxTime         \* bound on the clock

Unset == -1

ASSUME ClockAssumption ==
    /\ {Second, TimerMax, Infinite, Parts, MaxTime} \subseteq Nat \ {0}
    /\ TimerMax < Infinite

\* The types of a policy; nothing checks its numbers.  A multiplier is counted
\* in Parts, so it may be between two whole numbers, or below 1; numbers below 0
\* are left out.
Strategy == [type : {"fixed", "exponential", "exponential-jitter"}, initial : Nat,
             multiplier : Nat \cup {Unset}, max : Nat \cup {Unset}]

ASSUME PolicyAssumption ==
    Policies \subseteq [attempts : Nat, strategy : Strategy, timeout : Nat]

-----------------------------------------------------------------------------
(* The constructors of strategies.ts; an option may be Unset. *)

FixedDelay(d) == [type |-> "fixed", initial |-> d, multiplier |-> Unset, max |-> Unset]

ExponentialBackoff(d, m, max) ==
    [type |-> "exponential", initial |-> d, multiplier |-> m, max |-> max]

ExponentialBackoffWithJitter(d, m, max) ==
    [ExponentialBackoff(d, m, max) EXCEPT !.type = "exponential-jitter"]

Retry(n, strategy) ==
    [attempts |-> IF n = Unset THEN 3 ELSE n, strategy |-> strategy]

DefaultRetryPolicy == Retry(3, ExponentialBackoff(Second, Unset, Unset))

DefaultCompensationRetryPolicy ==
    Retry(5, ExponentialBackoffWithJitter(Second \div 2, Unset, Unset))

\* timeout 0 is none: the code tests its truth.
StepPolicy(retry, timeout) ==
    [attempts |-> retry.attempts, strategy |-> retry.strategy, timeout |-> timeout]

Or(option, default) == IF option = Unset THEN default ELSE option

Least(a, b) == IF a < b THEN a ELSE b

\* Math.pow, of whole numbers.
Power(b) ==
    LET p[n \in Nat] == IF n = 0 THEN 1 ELSE b * p[n - 1] IN p

\* With a multiplier in Parts, the delay after attempt n is counted in Unit(n)
\* of a tick.
Unit(n) == Power(Parts)[n - 1]

Multiplier(s) == Or(s.multiplier, 2 * Parts)

\* Wrong on purpose: the exponent is the attempt itself.
GrownNext(s, n) ==
    s.initial * Least(Power(Multiplier(s))[n] \div Parts, Infinite * Unit(n))

\* initial * multiplier^(attempt - 1) before the cap.  Math.pow may give
\* Infinity; 0 * Infinity is NaN, which setTimeout takes as it takes 0.
Grown(s, n) == s.initial * Least(Power(Multiplier(s))[n - 1], Infinite * Unit(n))

Cap(s) == Or(s.max, 60 * Second)

Capped(s, n) == Least(Grown(s, n), Cap(s) * Unit(n))

\* Math.random() is below 1: what Math.floor may leave of a delay is whole and
\* below it, or 0.
Below(delay, unit) == {d * unit : d \in 0..((Least(delay, Infinite * unit) - 1) \div unit) \cup {0}}

\* What calculateDelay may return.
CalculateDelay(s, n) ==
    CASE s.type = "fixed"              -> {s.initial * Unit(n)}
      [] s.type = "exponential"        -> {Capped(s, n)}
      [] s.type = "exponential-jitter" -> Below(Capped(s, n), Unit(n))

\* How many ticks setTimeout waits: a delay that it cannot hold, or less than
\* one tick, is 1; a fraction is cut off.
Timer(d, unit) == IF d < unit \/ d > TimerMax * unit THEN 1 ELSE d \div unit

-----------------------------------------------------------------------------
VARIABLES
    policy,         \* the step's policy, fixed by Init
    now,
    phase,          \* "new", "running", "sleeping", "settled"
    attempt,
    running,        \* the attempts whose call of the action has not ended
    aborted,        \* the attempts whose signal was aborted
    timeouts,       \* pending timers of executeWithTimeout: [of, at]
    wake,           \* when the sleep between two attempts ends
    outcome         \* "none", "returned", "threw"

vars == <<policy, now, phase, attempt, running, aborted, timeouts, wake, outcome>>

Init ==
    /\ policy \in Policies
    /\ now = 0
    /\ phase = "new"
    /\ attempt = 0
    /\ running = {}
    /\ aborted = {}
    /\ timeouts = {}
    /\ wake = 0
    /\ outcome = "none"

Settle(o) ==
    /\ phase' = "settled"
    /\ outcome' = o

\* Wrong on purpose: only the first attempt has a timer.
TimerOnce(k) ==
    IF policy.timeout = 0 \/ k > 1 THEN {} ELSE {[of |-> k, at |-> now + Timer(policy.timeout, 1)]}

NewTimer(k) ==
    IF policy.timeout = 0 THEN {} ELSE {[of |-> k, at |-> now + Timer(policy.timeout, 1)]}

\* An attempt: the timer is set, then the action is called.
Begin(k) ==
    /\ phase' = "running"
    /\ attempt' = k
    /\ running' = running \cup {k}
    /\ timeouts' = timeouts \cup NewTimer(k)

Execute ==
    /\ phase = "new"
    /\ \/ policy.attempts >= 1 /\ Begin(1) /\ UNCHANGED outcome
       \/ policy.attempts < 1 /\ Settle("threw") /\ UNCHANGED <<attempt, running, timeouts>>
    /\ UNCHANGED <<policy, now, aborted, wake>>

\* Wrong on purpose: the finally block clears nothing.
NotCleared(k) == timeouts

\* clearTimeout in the finally block of executeWithTimeout.
Cleared(k) == {t \in timeouts : t.of # k}

\* Wrong on purpose: one attempt too many.
IsBeforeLast == attempt <= policy.attempts

IsNotLast == attempt < policy.attempts

\* The catch block of withRetry.
FailOrSleep(retryable) ==
    \/ /\ retryable /\ IsNotLast
       /\ phase' = "sleeping"
       /\ \E d \in CalculateDelay(policy.strategy, attempt) : wake' = now + Timer(d, Unit(attempt))
       /\ UNCHANGED outcome
    \/ /\ ~(retryable /\ IsNotLast)
       /\ Settle("threw")
       /\ UNCHANGED wake

Awaited(k) == phase = "running" /\ k = attempt

CallEnds(k) ==
    /\ k \in running
    /\ running' = running \ {k}
    /\ UNCHANGED <<policy, now, attempt, aborted>>

ActionReturns(k) ==
    /\ Awaited(k)
    /\ CallEnds(k)
    /\ timeouts' = Cleared(k)
    /\ Settle("returned")
    /\ UNCHANGED wake

ActionThrows(k) ==
    /\ Awaited(k)
    /\ CallEnds(k)
    /\ timeouts' = Cleared(k)
    /\ \E retryable \in BOOLEAN : FailOrSleep(retryable)

\* A call that nobody awaits any more ends: the race was lost long ago.
AbandonedEnds(k) ==
    /\ ~Awaited(k)
    /\ CallEnds(k)
    /\ UNCHANGED <<phase, timeouts, wake, outcome>>

\* Wrong on purpose: the signal is not aborted.
NotAborted(k) == aborted

Aborted(k) == aborted \cup {k}

\* The timer fires: it aborts the signal and rejects, which matters only to a
\* race that is not decided.
TimesOut(t) ==
    /\ t.at <= now
    /\ aborted' = Aborted(t.of)
    /\ timeouts' = Cleared(t.of) \ {t}
    /\ IF Awaited(t.of) THEN FailOrSleep(TRUE) ELSE UNCHANGED <<phase, wake, outcome>>
    /\ UNCHANGED <<policy, now, attempt, running>>

Wakes ==
    /\ phase = "sleeping"
    /\ wake <= now
    /\ Begin(attempt + 1)
    /\ UNCHANGED <<policy, now, aborted, wake, outcome>>

\* The event loop runs every timer that is due before time goes on.
Tick ==
    /\ phase = "sleeping" => wake > now
    /\ \A t \in timeouts : t.at > now
    /\ phase \in {"running", "sleeping"} \/ timeouts # {}
    /\ now < MaxTime
    /\ now' = now + 1
    /\ UNCHANGED <<policy, phase, attempt, running, aborted, timeouts, wake, outcome>>

Timers == (\E t \in timeouts : TimesOut(t)) \/ Wakes

Next ==
    \/ Execute
    \/ \E k \in running : ActionReturns(k) \/ ActionThrows(k) \/ AbandonedEnds(k)
    \/ Timers
    \/ Tick

Spec == Init /\ [][Next]_vars

\* Node runs what is due and time passes; an action need never end.
FairSpec == Spec /\ WF_vars(Execute) /\ WF_vars(Timers) /\ WF_vars(Tick)

-----------------------------------------------------------------------------
\* A call that goes on while withRetry sleeps, tries again or has given up was
\* told to stop by its signal, and the call that is awaited never was: the
\* only overlap of a step with itself is with calls that were aborted.
OverlapIsAborted == \A k \in running : k \in aborted <=> ~Awaited(k)

\* When the race is over its timer is gone: no signal is aborted after the
\* action has ended, and no timer keeps the process alive.
NoTimerLeftBehind == \A t \in timeouts : Awaited(t.of)

LongestWait(s, n) == Max({Timer(d, Unit(n)) : d \in CalculateDelay(s, n)})

\* The longest waits before attempt n, together.
LongestWaits(s) ==
    LET w[n \in Nat] == IF n <= 1 THEN 0 ELSE w[n - 1] + LongestWait(s, n - 1) IN w

\* A step with a timeout has settled when every attempt has timed out and the
\* longest waits between them have passed: what a lease must outlast.
SettlesInTime ==
    policy.timeout # 0 /\ phase # "settled" =>
        now <= policy.attempts * Timer(policy.timeout, 1)
                 + LongestWaits(policy.strategy)[policy.attempts]

\* Backing off means no wait is shorter than the one before it, up to the
\* point where setTimeout cannot hold it, and the first one is the initial
\* delay: for every multiplier that is not below 1, also when multiplier^attempt
\* has become Infinity.
BacksOff ==
    LET s == policy.strategy IN
    s.type = "exponential" /\ Multiplier(s) >= Parts =>
        /\ LongestWait(s, 1) = Timer(Least(s.initial, Cap(s)), 1)
        /\ \A n \in 1..policy.attempts :
               LongestWait(s, n + 1) >= LongestWait(s, n)
                  \/ Capped(s, n + 1) > TimerMax * Unit(n + 1)

\* A step with a timeout settles although its action never ends.
AlwaysSettles == policy.timeout # 0 ~> phase = "settled"
=============================================================================
