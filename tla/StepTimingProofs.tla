-------------------------- MODULE StepTimingProofs --------------------------
(***************************************************************************)
(* What a step promises about the calls it abandons, for every policy,     *)
(* timeout and clock: theorems of StepTiming, checked by TLAPS.            *)
(***************************************************************************)
EXTENDS StepTiming, WellFoundedInduction, TLAPS

\* The attempts are numbered as they begin, and only begun ones have calls.
Numbered ==
    /\ attempt \in Nat
    /\ running \subseteq 1..attempt
    /\ aborted \subseteq 1..attempt
    /\ phase = "new" => attempt = 0
    /\ phase = "running" => attempt >= 1

\* The inductive invariant.
StepInv == Numbered /\ OverlapIsAborted /\ NoTimerLeftBehind

\* Nothing has begun.
LEMMA StepInitially == Init => StepInv
BY DEF Init, StepInv, Numbered, OverlapIsAborted, NoTimerLeftBehind, Awaited

\* A new attempt begins only when no call is awaited: every call that still
\* runs was aborted, and no timer is pending.
LEMMA BeginKeeps ==
    ASSUME StepInv, phase # "running", Begin(attempt + 1), UNCHANGED aborted
    PROVE  StepInv'
<1>1. timeouts = {}
  BY DEF StepInv, NoTimerLeftBehind, Awaited
<1>2. running \subseteq aborted
  BY DEF StepInv, OverlapIsAborted, Awaited
<1>3. attempt' = attempt + 1 /\ phase' = "running" /\ running' = running \cup {attempt + 1}
  BY DEF Begin
<1>4. Numbered'
  BY <1>3 DEF StepInv, Numbered
<1>5. OverlapIsAborted'
  BY <1>2, <1>3 DEF StepInv, Numbered, OverlapIsAborted, Awaited
<1>6. NoTimerLeftBehind'
  BY <1>1, <1>3 DEF Begin, NewTimer, NoTimerLeftBehind, Awaited
<1> QED
  BY <1>4, <1>5, <1>6 DEF StepInv

\* However the awaited call ends, nothing is awaited after it.
LEMMA EndKeeps ==
    ASSUME StepInv, NEW k, Awaited(k), CallEnds(k), timeouts' = Cleared(k),
           phase' \in {"sleeping", "settled"}
    PROVE  StepInv'
BY DEF StepInv, Numbered, OverlapIsAborted, NoTimerLeftBehind, Awaited, CallEnds, Cleared

\* A timer that fires is the awaited call's, whose signal it aborts.
LEMMA TimeoutKeeps ==
    ASSUME StepInv, NEW t \in timeouts, TimesOut(t)
    PROVE  StepInv'
<1>1. Awaited(t.of)
  BY DEF StepInv, NoTimerLeftBehind
<1>2. phase' \in {"sleeping", "settled"}
  BY <1>1 DEF TimesOut, FailOrSleep, Settle
<1>3. /\ UNCHANGED <<attempt, running>>
      /\ aborted' = aborted \cup {t.of}
      /\ timeouts' = {u \in timeouts : u.of # t.of} \ {t}
  BY DEF TimesOut, Aborted, Cleared
<1>4. Numbered'
  <2>1. attempt \in 1..attempt
    BY <1>1 DEF StepInv, Numbered, Awaited
  <2> QED
    BY <1>1, <1>2, <1>3, <2>1 DEF StepInv, Numbered, Awaited
<1>5. OverlapIsAborted'
  BY <1>1, <1>2, <1>3 DEF StepInv, OverlapIsAborted, Awaited
<1>6. NoTimerLeftBehind'
  BY <1>1, <1>2, <1>3 DEF StepInv, NoTimerLeftBehind, Awaited
<1> QED
  BY <1>4, <1>5, <1>6 DEF StepInv

\* Every step keeps the invariant.
LEMMA StepStep == StepInv /\ [Next]_vars => StepInv'
<1> SUFFICES ASSUME StepInv, [Next]_vars PROVE StepInv'
  OBVIOUS
<1>1. CASE Execute
  <2>1. phase # "running" /\ attempt = 0 /\ UNCHANGED aborted
    BY <1>1 DEF Execute, StepInv, Numbered
  <2>2. CASE Begin(1)
    BY <2>1, <2>2, BeginKeeps
  <2>3. CASE Settle("threw") /\ UNCHANGED <<attempt, running, timeouts>>
    BY <2>1, <2>3 DEF Settle, StepInv, Numbered, OverlapIsAborted, NoTimerLeftBehind, Awaited
  <2> QED
    BY <1>1, <2>2, <2>3 DEF Execute
<1>2. ASSUME NEW k \in running, ActionReturns(k) PROVE StepInv'
  BY <1>2, EndKeeps DEF ActionReturns, Settle
<1>3. ASSUME NEW k \in running, ActionThrows(k) PROVE StepInv'
  BY <1>3, EndKeeps DEF ActionThrows, FailOrSleep, Settle
<1>4. ASSUME NEW k \in running, AbandonedEnds(k) PROVE StepInv'
  BY <1>4 DEF AbandonedEnds, CallEnds, StepInv, Numbered, OverlapIsAborted,
              NoTimerLeftBehind, Awaited
<1>5. ASSUME NEW t \in timeouts, TimesOut(t) PROVE StepInv'
  BY <1>5, TimeoutKeeps
<1>6. CASE Wakes
  BY <1>6, BeginKeeps DEF Wakes
<1>7. CASE Tick \/ UNCHANGED vars
  BY <1>7 DEF Tick, vars, StepInv, Numbered, OverlapIsAborted, NoTimerLeftBehind, Awaited
<1> QED
  BY <1>1, <1>2, <1>3, <1>4, <1>5, <1>6, <1>7 DEF Next, Timers

\* A call of the action that goes on while it is not awaited was told to stop,
\* and the awaited one never was, for every policy.
THEOREM OverlapsAreAborted == Spec => []OverlapIsAborted
<1>1. Spec => []StepInv
  BY StepInitially, StepStep, PTL DEF Spec
<1> QED
  BY <1>1, PTL DEF StepInv

\* The only timer that is ever pending is the awaited call's.
THEOREM TimersAreCleared == Spec => []NoTimerLeftBehind
<1>1. Spec => []StepInv
  BY StepInitially, StepStep, PTL DEF Spec
<1> QED
  BY <1>1, PTL DEF StepInv
-----------------------------------------------------------------------------
(* Numbers defined by recursion.  Every set of numbers has a least one;    *)
(* from that alone it follows that what is defined step by step exists and *)
(* is what its definition says, and that what grows at each step grows.    *)

LEMMA LeastOne ==
    ASSUME NEW S \in SUBSET Nat, S # {}
    PROVE  \E n \in S : \A m \in S : n <= m
<1> DEFINE R == OpToRel(<, Nat)
<1>1. IsWellFoundedOn(R, Nat)
  BY NatLessThanWellFounded
<1>2. PICK n \in S : \A m \in S : ~(<<m, n>> \in R)
  <2> HIDE DEF R
  <2> QED
    BY <1>1, WFMin
<1>3. \A m \in S : ~(m < n)
  BY <1>2 DEF OpToRel
<1> QED
  BY <1>3

LEMMA GreatestOne ==
    ASSUME NEW S \in SUBSET Nat, S # {}, NEW b \in Nat, \A x \in S : x <= b
    PROVE  Max(S) \in S /\ \A x \in S : x <= Max(S)
<1> DEFINE U == {n \in Nat : \A x \in S : x <= n}
<1>1. PICK u \in U : \A m \in U : u <= m
  <2>1. U \in SUBSET Nat /\ U # {}
    OBVIOUS
  <2> HIDE DEF U
  <2> QED
    BY <2>1, LeastOne
<1>2. u \in S
  <2> SUFFICES ASSUME u \notin S PROVE FALSE
    OBVIOUS
  <2>1. \A x \in S : x <= u - 1
    BY <1>1
  <2>2. PICK x : x \in S
    OBVIOUS
  <2>3. u \in Nat /\ x \in Nat /\ x <= u - 1
    BY <1>1, <2>1, <2>2
  <2>4. u - 1 \in U
    BY <2>1, <2>3
  <2> QED
    BY <1>1, <2>3, <2>4
<1>3. \E x \in S : \A y \in S : x >= y
  BY <1>1, <1>2
<1> QED
  BY <1>3 DEF Max

LEMMA Monotone ==
    ASSUME NEW f \in [Nat -> Nat], \A n \in Nat : f[n] <= f[n + 1]
    PROVE  \A n, m \in Nat : n <= m => f[n] <= f[m]
<1> SUFFICES ASSUME NEW n \in Nat PROVE \A m \in Nat : n <= m => f[n] <= f[m]
  OBVIOUS
<1> DEFINE S == {m \in Nat : n <= m /\ ~(f[n] <= f[m])}
<1>1. S = {}
  <2> SUFFICES ASSUME S # {} PROVE FALSE
    OBVIOUS
  <2>1. S \in SUBSET Nat
    OBVIOUS
  <2>2. PICK m \in S : \A k \in S : m <= k
    <3> HIDE DEF S
    <3> QED
      BY <2>1, LeastOne
  <2>3. m # n /\ m - 1 \in Nat /\ n <= m - 1
    BY <2>2
  <2>4. f[n] <= f[m - 1]
    BY <2>2, <2>3
  <2>5. f[m - 1] <= f[m]
    <3>1. (m - 1) + 1 = m
      BY <2>2
    <3> QED
      BY <2>3, <3>1
  <2> QED
    BY <2>2, <2>3, <2>4, <2>5
<1> QED
  BY <1>1

\* The first values of what begins with a and goes on by step.
Begun(a, step, n) ==
    {g \in [0..n -> Nat] : g[0] = a /\ \A k \in 1..n : g[k] = step[<<k, g[k - 1]>>]}

LEMMA BegunOnce ==
    ASSUME NEW a \in Nat, NEW step \in [Nat \X Nat -> Nat], NEW n \in Nat, NEW m \in Nat,
           NEW g \in Begun(a, step, n), NEW h \in Begun(a, step, m)
    PROVE  \A k \in Nat : k <= n /\ k <= m => g[k] = h[k]
<1> DEFINE S == {k \in Nat : k <= n /\ k <= m /\ g[k] # h[k]}
<1>1. S = {}
  <2> SUFFICES ASSUME S # {} PROVE FALSE
    OBVIOUS
  <2>1. S \in SUBSET Nat
    OBVIOUS
  <2>2. PICK k \in S : \A j \in S : k <= j
    <3> HIDE DEF S
    <3> QED
      BY <2>1, LeastOne
  <2>3. k # 0
    BY <2>2 DEF Begun
  <2>4. k - 1 \in Nat /\ k - 1 \notin S
    BY <2>2, <2>3
  <2>5. g[k - 1] = h[k - 1]
    BY <2>2, <2>4
  <2>6. g[k] = step[<<k, g[k - 1]>>] /\ h[k] = step[<<k, h[k - 1]>>]
    <3>1. k \in 1..n /\ k \in 1..m
      BY <2>2, <2>3
    <3> QED
      BY <3>1 DEF Begun
  <2> QED
    BY <2>2, <2>5, <2>6
<1> QED
  BY <1>1

LEMMA BegunSomehow ==
    ASSUME NEW a \in Nat, NEW step \in [Nat \X Nat -> Nat]
    PROVE  \A n \in Nat : Begun(a, step, n) # {}
<1> DEFINE S == {n \in Nat : Begun(a, step, n) = {}}
<1>1. S = {}
  <2> SUFFICES ASSUME S # {} PROVE FALSE
    OBVIOUS
  <2>1. S \in SUBSET Nat
    OBVIOUS
  <2>2. PICK n \in S : \A j \in S : n <= j
    <3> HIDE DEF S
    <3> QED
      BY <2>1, LeastOne
  <2>3. n \in Nat /\ Begun(a, step, n) = {}
    BY <2>2
  <2>4. n # 0
    <3>1. [k \in 0..0 |-> a] \in Begun(a, step, 0)
      BY DEF Begun
    <3> QED
      BY <2>3, <3>1
  <2>5. n - 1 \in Nat /\ n - 1 \notin S
    BY <2>2, <2>3, <2>4
  <2>6. PICK g : g \in Begun(a, step, n - 1)
    BY <2>5
  <2>7. /\ g \in [0..(n - 1) -> Nat] /\ g[0] = a
        /\ \A k \in 1..(n - 1) : g[k] = step[<<k, g[k - 1]>>]
    BY <2>6 DEF Begun
  <2> DEFINE h == [k \in 0..n |-> IF k = n THEN step[<<n, g[n - 1]>>] ELSE g[k]]
  <2>8. step[<<n, g[n - 1]>>] \in Nat
    BY <2>3, <2>5, <2>7
  <2>9. h \in [0..n -> Nat] /\ h[0] = a
    BY <2>3, <2>4, <2>7, <2>8
  <2>10. ASSUME NEW k \in 1..n PROVE h[k] = step[<<k, h[k - 1]>>]
    <3>1. k - 1 \in 0..(n - 1) /\ h[k - 1] = g[k - 1]
      BY <2>3, <2>10
    <3>2. CASE k = n
      <4>1. k \in 0..n /\ h[k] = step[<<n, g[n - 1]>>]
        BY <2>3, <3>2
      <4>2. h[k - 1] = g[n - 1]
        BY <3>1, <3>2
      <4> HIDE DEF h
      <4> QED
        BY <3>2, <4>1, <4>2
    <3>3. CASE k # n
      <4>1. k \in 1..(n - 1) /\ k \in 0..n
        BY <2>3, <2>10, <3>3
      <4>2. h[k] = g[k] /\ g[k] = step[<<k, g[k - 1]>>]
        BY <2>7, <3>3, <4>1
      <4> HIDE DEF h
      <4> QED
        BY <3>1, <4>2
    <3> QED
      BY <3>2, <3>3
  <2>11. h \in Begun(a, step, n)
    <3> HIDE DEF h
    <3> QED
      BY <2>9, <2>10 DEF Begun
  <2> QED
    BY <2>3, <2>11
<1> QED
  BY <1>1

LEMMA Recursion ==
    ASSUME NEW a \in Nat, NEW step \in [Nat \X Nat -> Nat]
    PROVE  \E f \in [Nat -> Nat] : f[0] = a /\ \A n \in Nat : f[n + 1] = step[<<n + 1, f[n]>>]
<1> DEFINE first(n) == CHOOSE g : g \in Begun(a, step, n)
           f == [n \in Nat |-> first(n)[n]]
<1>1. \A n \in Nat : first(n) \in Begun(a, step, n)
  BY BegunSomehow
<1> HIDE DEF first
<1>2. ASSUME NEW n \in Nat PROVE f[n] \in Nat
  BY <1>1 DEF Begun
<1>3. f \in [Nat -> Nat]
  BY <1>2
<1>4. f[0] = a
  BY <1>1 DEF Begun
<1>5. ASSUME NEW n \in Nat PROVE f[n + 1] = step[<<n + 1, f[n]>>]
  <2>1. first(n + 1)[n] = first(n)[n]
    BY <1>1, BegunOnce
  <2>2. first(n + 1)[n + 1] = step[<<n + 1, first(n + 1)[n]>>]
    <3>1. n + 1 \in Nat /\ n + 1 \in 1..(n + 1) /\ (n + 1) - 1 = n
      OBVIOUS
    <3> QED
      BY <1>1, <3>1 DEF Begun
  <2> QED
    BY <2>1, <2>2
<1> QED
  BY <1>3, <1>4, <1>5

\* What satisfies the equations of a recursion of numbers is a function of
\* numbers.
LEMMA AreNumbers ==
    ASSUME NEW g, \A n \in Nat : n = 0 \/ g[n - 1] \in Nat => g[n] \in Nat
    PROVE  \A n \in Nat : g[n] \in Nat
<1> DEFINE S == {n \in Nat : g[n] \notin Nat}
<1>1. S = {}
  <2> SUFFICES ASSUME S # {} PROVE FALSE
    OBVIOUS
  <2>1. S \in SUBSET Nat
    OBVIOUS
  <2>2. PICK n \in S : \A m \in S : n <= m
    <3> HIDE DEF S
    <3> QED
      BY <2>1, LeastOne
  <2>3. n # 0 /\ n - 1 \in Nat /\ n - 1 \notin S
    BY <2>2
  <2> QED
    BY <2>2, <2>3
<1> QED
  BY <1>1

\* Math.pow multiplies.
LEMMA PowerMultiplies ==
    ASSUME NEW b \in Nat
    PROVE  /\ Power(b) \in [Nat -> Nat]
           /\ Power(b)[0] = 1
           /\ \A n \in Nat : Power(b)[n + 1] = b * Power(b)[n]
<1> DEFINE step == [x \in Nat \X Nat |-> b * x[2]]
           Is(g) == g = [n \in Nat |-> IF n = 0 THEN 1 ELSE b * g[n - 1]]
<1>1. step \in [Nat \X Nat -> Nat]
  OBVIOUS
<1>2. PICK f \in [Nat -> Nat] :
          f[0] = 1 /\ \A n \in Nat : f[n + 1] = step[<<n + 1, f[n]>>]
  <2>1. 1 \in Nat
    OBVIOUS
  <2> HIDE DEF step
  <2> QED
    BY <1>1, <2>1, Recursion, Zenon
<1>3. ASSUME NEW n \in Nat PROVE f[n + 1] = b * f[n]
  <2>1. <<n + 1, f[n]>> \in Nat \X Nat
    OBVIOUS
  <2>2. step[<<n + 1, f[n]>>] = b * f[n]
    BY <2>1
  <2> HIDE DEF step
  <2> QED
    BY <1>2, <2>2
<1>4. Is(f)
  <2>1. ASSUME NEW n \in Nat, n # 0 PROVE f[n] = b * f[n - 1]
    <3>1. n - 1 \in Nat /\ (n - 1) + 1 = n
      BY <2>1
    <3> QED
      BY <1>3, <3>1
  <2> QED
    BY <1>2, <2>1
<1> DEFINE P == Power(b)
<1>5. P = CHOOSE g : Is(g)
  BY DEF Power
<1>6. Is(P)
  <2> HIDE DEF Is, P
  <2> QED
    BY <1>4, <1>5
<1>7. P[0] = 1 /\ \A n \in Nat \ {0} : P[n] = b * P[n - 1]
  <2> HIDE DEF P
  <2> QED
    BY <1>6
<1>8. \A n \in Nat : P[n] \in Nat
  <2> HIDE DEF P
  <2>1. \A n \in Nat : n = 0 \/ P[n - 1] \in Nat => P[n] \in Nat
    BY <1>7
  <2> QED
    BY <2>1, AreNumbers
<1>9. P \in [Nat -> Nat]
  <2> HIDE DEF P
  <2> QED
    BY <1>6, <1>8
<1>10. ASSUME NEW n \in Nat PROVE P[n + 1] = b * P[n]
  <2>1. n + 1 \in Nat \ {0} /\ (n + 1) - 1 = n
    OBVIOUS
  <2> HIDE DEF P
  <2> QED
    BY <1>7, <2>1
<1> QED
  BY <1>7, <1>9, <1>10
-----------------------------------------------------------------------------
(* Products and quotients. *)

LEMMA ProductGrows ==
    ASSUME NEW i \in Nat, NEW j \in Nat, NEW k \in Nat, i <= j
    PROVE  k * i <= k * j
<1>1. j - i \in Nat /\ k * (j - i) \in Nat
  OBVIOUS
<1>2. k * j = k * i + k * (j - i)
  OBVIOUS
<1>3. k * i \in Nat /\ k * j \in Nat
  OBVIOUS
<1> QED
  BY <1>1, <1>2, <1>3

LEMMA ProductIsPositive ==
    ASSUME NEW i \in Nat \ {0}, NEW j \in Nat \ {0}
    PROVE  i * j \in Nat \ {0}
OBVIOUS

LEMMA Quotient ==
    ASSUME NEW a \in Nat, NEW b \in Nat \ {0}
    PROVE  (a \div b) \in Nat /\ b * (a \div b) <= a /\ a < b * (a \div b) + b
OBVIOUS
-----------------------------------------------------------------------------
(* The waits between two attempts. *)

\* What a delay is counted in: a part of a tick, and no multiplier makes it a
\* negative number.
LEMMA UnitIsNumber ==
    ASSUME NEW n \in Nat \ {0}
    PROVE  /\ Unit(n) \in Nat \ {0} /\ Unit(1) = 1
           /\ Unit(n + 1) = Parts * Unit(n)
<1>1. /\ Parts \in Nat \ {0} /\ n - 1 \in Nat /\ 1 - 1 = 0 /\ (n + 1) - 1 = (n - 1) + 1
  BY ClockAssumption
<1>2. /\ Power(Parts) \in [Nat -> Nat] /\ Power(Parts)[0] = 1
      /\ \A k \in Nat : Power(Parts)[k + 1] = Parts * Power(Parts)[k]
  BY <1>1, PowerMultiplies
<1> DEFINE P == Power(Parts)
           S == {k \in Nat : P[k] = 0}
<1>3. S = {}
  <2> SUFFICES ASSUME S # {} PROVE FALSE
    OBVIOUS
  <2>1. PICK k \in S : \A m \in S : k <= m
    <3>1. S \in SUBSET Nat
      OBVIOUS
    <3> HIDE DEF S
    <3> QED
      BY <3>1, LeastOne
  <2>2. k # 0 /\ k - 1 \in Nat /\ (k - 1) + 1 = k /\ k - 1 \notin S
    BY <1>2, <2>1
  <2>3. P[k - 1] \in Nat \ {0} /\ P[k] = Parts * P[k - 1] /\ P[k] = 0
    BY <1>2, <2>1, <2>2
  <2> HIDE DEF P
  <2> QED
    BY <1>1, <2>3, ProductIsPositive
<1>4. Unit(n) = P[n - 1] /\ Unit(1) = P[0] /\ Unit(n + 1) = P[(n - 1) + 1]
  BY <1>1 DEF Unit
<1>5. P[n - 1] \in Nat /\ n - 1 \notin S
  BY <1>1, <1>2, <1>3
<1> QED
  BY <1>1, <1>2, <1>4, <1>5

\* Every delay of every policy is a number, and there is one.
LEMMA DelaysAreNumbers ==
    ASSUME NEW s \in Strategy, NEW n \in Nat \ {0}
    PROVE  /\ Grown(s, n) \in Nat /\ Capped(s, n) \in Nat
           /\ CalculateDelay(s, n) \in SUBSET Nat
           /\ CalculateDelay(s, n) # {}
<1> DEFINE u == Unit(n)
           i == Power(Multiplier(s))[n - 1]
<1>1. /\ Multiplier(s) \in Nat /\ Cap(s) \in Nat /\ Infinite \in Nat /\ u \in Nat \ {0}
      /\ s.initial \in Nat /\ s.type \in {"fixed", "exponential", "exponential-jitter"}
  BY ClockAssumption, UnitIsNumber DEF Strategy, Multiplier, Cap, Or, Unset
<1>2. i \in Nat
  <2>1. n - 1 \in Nat
    OBVIOUS
  <2> QED
    BY <1>1, <2>1, PowerMultiplies
<1> HIDE DEF u, i
<1>3. Infinite * u \in Nat /\ Cap(s) * u \in Nat /\ s.initial * u \in Nat
  BY <1>1
<1>4. Grown(s, n) \in Nat
  <2>1. Least(i, Infinite * u) \in Nat
    BY <1>2, <1>3 DEF Least
  <2> QED
    BY <1>1, <2>1 DEF Grown, i, u
<1>5. Capped(s, n) \in Nat
  BY <1>3, <1>4 DEF Capped, Least, u
<1>6. CASE s.type = "fixed"
  BY <1>3, <1>4, <1>5, <1>6 DEF CalculateDelay, u
<1>7. CASE s.type = "exponential"
  BY <1>4, <1>5, <1>7 DEF CalculateDelay
<1>8. CASE s.type = "exponential-jitter"
  <2>1. CalculateDelay(s, n) = Below(Capped(s, n), u)
    BY <1>8 DEF CalculateDelay, u
  <2>2. Below(Capped(s, n), u) \in SUBSET Nat /\ 0 * u \in Below(Capped(s, n), u)
    BY <1>1 DEF Below
  <2> QED
    BY <1>4, <1>5, <2>1, <2>2
<1> QED
  BY <1>1, <1>6, <1>7, <1>8

\* A timer waits a tick at least, and never longer than setTimeout can hold.
LEMMA TimerWaits ==
    \A d \in Nat, unit \in Nat \ {0} : Timer(d, unit) \in Nat \ {0} /\ Timer(d, unit) <= TimerMax
<1> SUFFICES ASSUME NEW d \in Nat, NEW unit \in Nat \ {0}
             PROVE  Timer(d, unit) \in Nat \ {0} /\ Timer(d, unit) <= TimerMax
  OBVIOUS
<1>1. TimerMax \in Nat \ {0} /\ TimerMax * unit \in Nat
  BY ClockAssumption
<1>2. CASE d < unit \/ d > TimerMax * unit
  BY <1>1, <1>2 DEF Timer
<1>3. CASE ~(d < unit \/ d > TimerMax * unit)
  <2> DEFINE q == d \div unit
  <2>1. q \in Nat /\ unit * q <= d /\ d < unit * q + unit
    BY Quotient
  <2>2. Timer(d, unit) = q
    BY <1>3 DEF Timer
  <2> HIDE DEF q
  <2>3. q # 0
    BY <1>3, <2>1
  <2>4. q <= TimerMax
    <3> SUFFICES ASSUME TimerMax + 1 <= q PROVE FALSE
      BY <1>1, <2>1
    <3>1. unit * (TimerMax + 1) <= unit * q
      BY <1>1, <2>1, ProductGrows
    <3>2. unit * (TimerMax + 1) = TimerMax * unit + unit
      BY <1>1
    <3>3. unit * q \in Nat
      BY <2>1
    <3> QED
      BY <1>1, <1>3, <2>1, <3>1, <3>2, <3>3
  <2> QED
    BY <2>1, <2>2, <2>3, <2>4
<1> QED
  BY <1>2, <1>3

\* No wait is longer than the longest.
LEMMA LongestIsLongest ==
    ASSUME NEW s \in Strategy, NEW n \in Nat \ {0}
    PROVE  /\ LongestWait(s, n) \in Nat
           /\ \A d \in CalculateDelay(s, n) : Timer(d, Unit(n)) <= LongestWait(s, n)
<1> DEFINE u == Unit(n)
           S == {Timer(d, u) : d \in CalculateDelay(s, n)}
<1>1. S \in SUBSET Nat /\ S # {} /\ TimerMax \in Nat /\ \A x \in S : x <= TimerMax
  <2>1. u \in Nat \ {0}
    BY UnitIsNumber
  <2> HIDE DEF u
  <2> QED
    BY <2>1, DelaysAreNumbers, TimerWaits, ClockAssumption
<1>2. Max(S) \in S /\ \A x \in S : x <= Max(S)
  <2> HIDE DEF S
  <2> QED
    BY <1>1, GreatestOne
<1>3. LongestWait(s, n) = Max(S)
  BY DEF LongestWait
<1>4. \A d \in CalculateDelay(s, n) : Timer(d, u) \in S
  OBVIOUS
<1> HIDE DEF S
<1>5. Max(S) \in Nat
  <2>1. \A x \in S : x \in Nat
    BY <1>1
  <2> QED
    BY <1>2, <2>1, Zenon
<1>6. ASSUME NEW d \in CalculateDelay(s, n) PROVE Timer(d, u) <= LongestWait(s, n)
  <2>1. Timer(d, u) \in S
    BY <1>4
  <2>2. Timer(d, u) <= Max(S)
    BY <1>2, <2>1
  <2> QED
    BY <1>3, <2>2
<1> QED
  BY <1>3, <1>5, <1>6

\* The longest waits add up.
LEMMA WaitsAddUp ==
    ASSUME NEW s \in Strategy
    PROVE  /\ LongestWaits(s) \in [Nat -> Nat]
           /\ LongestWaits(s)[1] = 0
           /\ \A n \in Nat \ {0} : LongestWaits(s)[n + 1] = LongestWaits(s)[n] + LongestWait(s, n)
<1> DEFINE wait(n) == LongestWait(s, n)
           step == [x \in Nat \X Nat |-> IF x[1] <= 1 THEN 0 ELSE x[2] + wait(x[1] - 1)]
           Is(g) == g = [n \in Nat |-> IF n <= 1 THEN 0 ELSE g[n - 1] + wait(n - 1)]
<1>0. \A n \in Nat \ {0} : wait(n) \in Nat
  BY LongestIsLongest
<1> HIDE DEF wait
<1>1. step \in [Nat \X Nat -> Nat]
  <2>1. ASSUME NEW x \in Nat \X Nat, ~(x[1] <= 1) PROVE x[2] + wait(x[1] - 1) \in Nat
    <3>1. x[1] - 1 \in Nat \ {0} /\ x[2] \in Nat
      BY <2>1
    <3> QED
      BY <1>0, <3>1
  <2> QED
    BY <2>1
<1>2. PICK f \in [Nat -> Nat] :
          f[0] = 0 /\ \A n \in Nat : f[n + 1] = step[<<n + 1, f[n]>>]
  <2>1. 0 \in Nat
    OBVIOUS
  <2> HIDE DEF step
  <2> QED
    BY <1>1, <2>1, Recursion, Zenon
<1>3. ASSUME NEW n \in Nat PROVE f[n + 1] = IF n + 1 <= 1 THEN 0 ELSE f[n] + wait(n)
  <2>1. <<n + 1, f[n]>> \in Nat \X Nat /\ (n + 1) - 1 = n
    OBVIOUS
  <2>2. step[<<n + 1, f[n]>>] = IF n + 1 <= 1 THEN 0 ELSE f[n] + wait(n)
    BY <2>1
  <2> HIDE DEF step
  <2> QED
    BY <1>2, <2>2
<1>4. Is(f)
  <2>1. ASSUME NEW n \in Nat, n # 0 PROVE f[n] = IF n <= 1 THEN 0 ELSE f[n - 1] + wait(n - 1)
    <3>1. n - 1 \in Nat /\ (n - 1) + 1 = n
      BY <2>1
    <3> HIDE DEF step
    <3> QED
      BY <1>3, <3>1
  <2> HIDE DEF step
  <2> QED
    BY <1>2, <2>1
<1> HIDE DEF step
<1> DEFINE W == LongestWaits(s)
<1>5. W = CHOOSE g : Is(g)
  BY DEF LongestWaits, wait
<1>6. Is(W)
  <2> HIDE DEF Is, W
  <2> QED
    BY <1>4, <1>5
<1> HIDE DEF W
<1>7. W[0] = 0 /\ W[1] = 0 /\ \A n \in Nat \ {0, 1} : W[n] = W[n - 1] + wait(n - 1)
  BY <1>6
<1>8. \A n \in Nat : W[n] \in Nat
  <2>1. ASSUME NEW n \in Nat, n = 0 \/ W[n - 1] \in Nat PROVE W[n] \in Nat
    <3>1. CASE n \in {0, 1}
      BY <1>7, <3>1
    <3>2. CASE n \notin {0, 1}
      <4>1. n - 1 \in Nat \ {0}
        BY <3>2
      <4> QED
        BY <1>0, <1>7, <2>1, <3>2, <4>1
    <3> QED
      BY <3>1, <3>2
  <2> QED
    BY <2>1, AreNumbers
<1>9. W \in [Nat -> Nat]
  BY <1>6, <1>8
<1>10. ASSUME NEW n \in Nat \ {0} PROVE W[n + 1] = W[n] + wait(n)
  <2>1. n + 1 \in Nat \ {0, 1} /\ (n + 1) - 1 = n
    OBVIOUS
  <2> QED
    BY <1>7, <2>1
<1> QED
  BY <1>7, <1>9, <1>10 DEF W, wait
-----------------------------------------------------------------------------
(* Backing off. *)

\* The policy is the one the step was given.
PolicyGiven == policy \in Policies

LEMMA PolicyKept == PolicyGiven /\ [Next]_vars => PolicyGiven'
BY DEF PolicyGiven, Next, vars, Execute, ActionReturns, ActionThrows, AbandonedEnds, CallEnds,
       Timers, TimesOut, Wakes, Tick

LEMMA PolicyStays == Spec => []PolicyGiven
<1>1. Init => PolicyGiven
  BY DEF Init, PolicyGiven
<1> QED
  BY <1>1, PolicyKept, PTL DEF Spec

LEMMA LeastGrows ==
    ASSUME NEW k \in Nat, NEW a \in Nat, NEW b \in Nat, NEW c \in Nat, NEW d \in Nat,
           k * a <= c, k * b <= d
    PROVE  k * Least(a, b) <= Least(c, d)
<1>1. Least(a, b) \in Nat /\ Least(a, b) <= a /\ Least(a, b) <= b
  BY DEF Least
<1> DEFINE l == Least(a, b)
<1> HIDE DEF l
<1>2. l \in Nat /\ l <= a /\ l <= b
  BY <1>1 DEF l
<1>3. k * l <= k * a /\ k * l <= k * b
  BY <1>2, ProductGrows
<1>4. k * l \in Nat /\ k * a \in Nat /\ k * b \in Nat
  BY <1>2
<1>5. k * l <= c /\ k * l <= d
  BY <1>3, <1>4
<1> QED
  BY <1>5 DEF Least, l

\* With a multiplier of 1 or more the delay grows, before the cap and after it.
LEMMA CappedGrows ==
    ASSUME NEW s \in Strategy, Multiplier(s) >= Parts, NEW n \in Nat \ {0}
    PROVE  Parts * Capped(s, n) <= Capped(s, n + 1)
<1> DEFINE b == Multiplier(s)
           c == Cap(s)
           d == s.initial
           i == Power(b)[n - 1]
           j == Power(b)[n]
           u == Unit(n)
           v == Unit(n + 1)
<1>1. /\ b \in Nat /\ c \in Nat /\ d \in Nat /\ Infinite \in Nat /\ Parts \in Nat \ {0}
      /\ Parts <= b
  BY ClockAssumption DEF Strategy, Multiplier, Cap, Or, Unset
<1>2. i \in Nat /\ j = b * i
  <2> HIDE DEF b
  <2>1. n - 1 \in Nat /\ (n - 1) + 1 = n
    OBVIOUS
  <2>2. /\ Power(b) \in [Nat -> Nat]
        /\ \A m \in Nat : Power(b)[m + 1] = b * Power(b)[m]
    BY <1>1, PowerMultiplies
  <2>3. Power(b)[(n - 1) + 1] = b * Power(b)[n - 1]
    BY <2>1, <2>2
  <2> QED
    BY <2>1, <2>2, <2>3
<1>3. u \in Nat \ {0} /\ v = Parts * u
  BY UnitIsNumber
<1>4. Grown(s, n) = d * Least(i, Infinite * u) /\ Grown(s, n + 1) = d * Least(j, Infinite * v)
  <2>1. (n + 1) - 1 = n
    OBVIOUS
  <2> QED
    BY <2>1 DEF Grown
<1>5. Capped(s, n) = Least(Grown(s, n), c * u) /\ Capped(s, n + 1) = Least(Grown(s, n + 1), c * v)
  BY DEF Capped
<1> HIDE DEF b, c, d, i, j, u, v
<1>6. Parts * i <= j
  <2>1. i * Parts <= i * b
    BY <1>1, <1>2, ProductGrows
  <2>2. i * Parts = Parts * i /\ i * b = b * i
    BY <1>1, <1>2
  <2> QED
    BY <1>2, <2>1, <2>2
<1>7. /\ Parts * (Infinite * u) = Infinite * v /\ Parts * (c * u) = c * v
      /\ Infinite * u \in Nat /\ Infinite * v \in Nat /\ c * u \in Nat /\ c * v \in Nat
      /\ j \in Nat
  BY <1>1, <1>2, <1>3
<1> DEFINE x == Least(i, Infinite * u)
           y == Least(j, Infinite * v)
<1>8. x \in Nat /\ y \in Nat /\ Parts * x <= y
  <2>1. x \in Nat /\ y \in Nat
    BY <1>2, <1>7 DEF Least
  <2>2. Parts * (Infinite * u) <= Infinite * v
    BY <1>7
  <2> QED
    BY <1>1, <1>2, <1>6, <1>7, <2>1, <2>2, LeastGrows
<1> HIDE DEF x, y
<1>9. Parts * (d * x) <= d * y
  <2>1. Parts * x \in Nat /\ d * (Parts * x) = Parts * (d * x)
    BY <1>1, <1>8
  <2>2. d * (Parts * x) <= d * y
    BY <1>1, <1>8, <2>1, ProductGrows
  <2> QED
    BY <2>1, <2>2
<1>10. d * x \in Nat /\ d * y \in Nat
  BY <1>1, <1>8
<1>11. Parts * Least(d * x, c * u) <= Least(d * y, c * v)
  <2>1. Parts * (c * u) <= c * v
    BY <1>7
  <2> QED
    BY <1>1, <1>7, <1>9, <1>10, <2>1, LeastGrows
<1> QED
  BY <1>4, <1>5, <1>11 DEF x, y

\* A timer for a delay that is no smaller waits no less.
LEMMA TimerGrows ==
    ASSUME NEW d \in Nat, NEW e \in Nat, NEW u \in Nat \ {0},
           Parts * d <= e, e <= TimerMax * (Parts * u)
    PROVE  Timer(d, u) <= Timer(e, Parts * u)
<1> DEFINE v == Parts * u
<1>1. Parts \in Nat \ {0} /\ TimerMax \in Nat \ {0} /\ v \in Nat \ {0}
  BY ClockAssumption, ProductIsPositive
<1>2. Parts * u = v
  OBVIOUS
<1> HIDE DEF v
<1>3. CASE d < u \/ d > TimerMax * u
  <2>1. Timer(d, u) = 1
    BY <1>3 DEF Timer
  <2>2. Timer(e, v) \in Nat \ {0}
    BY <1>1, TimerWaits
  <2> QED
    BY <1>2, <2>1, <2>2
<1>4. CASE ~(d < u \/ d > TimerMax * u)
  <2> DEFINE q == d \div u
             r == e \div v
  <2>1. q \in Nat /\ u * q <= d /\ r \in Nat /\ e < v * r + v
    BY <1>1, Quotient
  <2>2. Parts * u <= Parts * d /\ Parts * (u * q) <= Parts * d
    <3>1. u \in Nat /\ u <= d /\ u * q \in Nat /\ Parts \in Nat
      BY <1>1, <1>4, <2>1
    <3> HIDE DEF q
    <3> QED
      BY <2>1, <3>1, ProductGrows
  <2>3. v <= e
    <3>1. Parts * d \in Nat
      BY <1>1
    <3> QED
      BY <1>1, <1>2, <2>2, <3>1
  <2>4. Timer(d, u) = q /\ Timer(e, v) = r
    BY <1>1, <1>2, <1>4, <2>3 DEF Timer
  <2> HIDE DEF q, r
  <2>5. v * q <= e
    <3>1. Parts * (u * q) = v * q
      BY <1>1, <1>2, <2>1
    <3>2. Parts * d \in Nat /\ v * q \in Nat
      BY <1>1, <2>1
    <3> QED
      BY <2>2, <3>1, <3>2
  <2>6. q <= r
    <3> SUFFICES ASSUME r + 1 <= q PROVE FALSE
      BY <2>1
    <3>1. v * (r + 1) <= v * q
      BY <1>1, <2>1, ProductGrows
    <3>2. v * (r + 1) = v * r + v /\ v * r \in Nat /\ v * q \in Nat
      BY <1>1, <2>1
    <3> QED
      BY <1>1, <2>1, <2>5, <3>1, <3>2
  <2> QED
    BY <1>2, <2>4, <2>6
<1> QED
  BY <1>3, <1>4

\* A strategy without jitter has one wait.
LEMMA WaitIsCapped ==
    ASSUME NEW s \in Strategy, s.type = "exponential", NEW n \in Nat \ {0}
    PROVE  LongestWait(s, n) = Timer(Capped(s, n), Unit(n))
<1>1. CalculateDelay(s, n) = {Capped(s, n)}
  BY DEF CalculateDelay
<1> DEFINE w == Timer(Capped(s, n), Unit(n))
<1>2. {Timer(d, Unit(n)) : d \in CalculateDelay(s, n)} = {w}
  BY <1>1
<1>3. w \in Nat
  BY DelaysAreNumbers, TimerWaits, UnitIsNumber
<1> HIDE DEF w
<1>4. Max({w}) = w
  <2>1. {w} \in SUBSET Nat /\ {w} # {} /\ \A x \in {w} : x <= w
    BY <1>3
  <2>2. Max({w}) \in {w}
    BY <1>3, <2>1, GreatestOne
  <2> QED
    BY <2>2
<1> QED
  BY <1>2, <1>4 DEF LongestWait, w

\* Every exponential policy whose multiplier is not below 1, a whole number or
\* not, backs off: no wait is shorter than the one before it while setTimeout
\* can hold it, and the first is the initial delay.
THEOREM WaitsGrow == Spec => []BacksOff
<1>1. PolicyGiven => BacksOff
  <2> SUFFICES ASSUME PolicyGiven, policy.strategy.type = "exponential",
                      Multiplier(policy.strategy) >= Parts
               PROVE  BacksOff
    BY DEF BacksOff
  <2> DEFINE s == policy.strategy
  <2>1. s \in Strategy /\ Multiplier(s) >= Parts /\ s.type = "exponential" /\ policy.attempts \in Nat
    BY PolicyAssumption DEF PolicyGiven
  <2> HIDE DEF s
  <2>2. LongestWait(s, 1) = Timer(Least(s.initial, Cap(s)), 1)
    <3>1. /\ Multiplier(s) \in Nat /\ s.initial \in Nat /\ Cap(s) \in Nat
          /\ Infinite \in Nat \ {0} /\ Unit(1) = 1
      BY <2>1, ClockAssumption, UnitIsNumber DEF Strategy, Multiplier, Cap, Or, Unset
    <3>2. Power(Multiplier(s))[1 - 1] = 1
      <4>1. 1 - 1 = 0
        OBVIOUS
      <4>2. Power(Multiplier(s))[0] = 1
        BY <3>1, PowerMultiplies, Zenon
      <4> QED
        BY <4>1, <4>2
    <3>3. Least(1, Infinite * 1) = 1 /\ s.initial * 1 = s.initial /\ Cap(s) * 1 = Cap(s)
      BY <3>1 DEF Least
    <3>4. Grown(s, 1) = s.initial
      BY <3>1, <3>2, <3>3 DEF Grown
    <3>5. Capped(s, 1) = Least(s.initial, Cap(s))
      BY <3>1, <3>3, <3>4 DEF Capped
    <3> QED
      BY <2>1, <3>1, <3>5, WaitIsCapped
  <2>3. ASSUME NEW n \in 1..policy.attempts
        PROVE  LongestWait(s, n + 1) >= LongestWait(s, n)
                  \/ Capped(s, n + 1) > TimerMax * Unit(n + 1)
    <3>1. n \in Nat \ {0} /\ n + 1 \in Nat \ {0}
      BY <2>1
    <3>2. /\ LongestWait(s, n) = Timer(Capped(s, n), Unit(n))
          /\ LongestWait(s, n + 1) = Timer(Capped(s, n + 1), Unit(n + 1))
      BY <2>1, <3>1, WaitIsCapped
    <3>3. Parts * Capped(s, n) <= Capped(s, n + 1)
      BY <2>1, <3>1, CappedGrows
    <3>4. /\ Capped(s, n) \in Nat /\ Capped(s, n + 1) \in Nat
          /\ TimerMax \in Nat \ {0} /\ Parts \in Nat \ {0}
      BY <2>1, <3>1, DelaysAreNumbers, ClockAssumption
    <3>5. Unit(n) \in Nat \ {0} /\ Unit(n + 1) \in Nat \ {0} /\ Unit(n + 1) = Parts * Unit(n)
      BY <3>1, UnitIsNumber
    <3>6. CASE Capped(s, n + 1) <= TimerMax * (Parts * Unit(n))
      <4>1. Timer(Capped(s, n), Unit(n)) <= Timer(Capped(s, n + 1), Parts * Unit(n))
        BY <3>3, <3>4, <3>5, <3>6, TimerGrows
      <4>2. /\ Timer(Capped(s, n), Unit(n)) \in Nat
            /\ Timer(Capped(s, n + 1), Parts * Unit(n)) \in Nat
        BY <3>4, <3>5, TimerWaits
      <4> QED
        BY <3>2, <3>5, <4>1, <4>2
    <3>7. CASE ~(Capped(s, n + 1) <= TimerMax * (Parts * Unit(n)))
      BY <3>4, <3>5, <3>7
    <3> QED
      BY <3>6, <3>7
  <2>4. \A n \in 1..policy.attempts :
            LongestWait(s, n + 1) >= LongestWait(s, n)
               \/ Capped(s, n + 1) > TimerMax * Unit(n + 1)
    BY <2>3
  <2> QED
    BY <2>2, <2>4, Zenon DEF BacksOff, s
<1> QED
  BY <1>1, PolicyStays, PTL
-----------------------------------------------------------------------------
(* A step with a timeout settles in time. *)

\* What may have passed when attempt k times out: k timeouts, and the waits
\* before it.
Spent(k) == k * Timer(policy.timeout, 1) + LongestWaits(policy.strategy)[k]

Clocked ==
    /\ phase \in {"new", "running", "sleeping", "settled"}
    /\ now \in Nat /\ wake \in Nat
    /\ \A t \in timeouts : t.at \in Nat

\* The awaited attempt has a timer that is set within what may be spent, and
\* the clock never passes it; no more does a sleep.
OnTime ==
    policy.timeout # 0 =>
        /\ phase = "new" => now = 0
        /\ phase = "running" =>
               /\ attempt <= policy.attempts
               /\ \E t \in timeouts : t.of = attempt /\ now <= t.at /\ t.at <= Spent(attempt)
        /\ phase = "sleeping" =>
               /\ attempt \in 1..policy.attempts - 1
               /\ now <= wake
               /\ wake <= Spent(attempt) + LongestWait(policy.strategy, attempt)

\* The inductive invariant.
TimeInv == PolicyGiven /\ StepInv /\ Clocked /\ OnTime

LEMMA TimeInitially == Init => TimeInv
<1> SUFFICES ASSUME Init PROVE TimeInv
  OBVIOUS
<1>1. StepInv
  BY StepInitially
<1> QED
  BY <1>1 DEF Init, TimeInv, PolicyGiven, Clocked, OnTime

\* The numbers of the step's own policy.
LEMMA PolicyTyped ==
    ASSUME PolicyGiven
    PROVE  /\ policy.attempts \in Nat /\ policy.strategy \in Strategy /\ policy.timeout \in Nat
           /\ Timer(policy.timeout, 1) \in Nat \ {0}
<1>1. policy.attempts \in Nat /\ policy.strategy \in Strategy /\ policy.timeout \in Nat
  BY PolicyAssumption DEF PolicyGiven
<1> QED
  BY <1>1, TimerWaits

\* An attempt more costs a timeout and the wait before it.
LEMMA SpentAddsUp ==
    ASSUME PolicyGiven, NEW k \in Nat \ {0}
    PROVE  /\ Spent(k) \in Nat /\ Spent(1) = Timer(policy.timeout, 1)
           /\ LongestWait(policy.strategy, k) \in Nat
           /\ Spent(k + 1) = Spent(k) + Timer(policy.timeout, 1) + LongestWait(policy.strategy, k)
<1> DEFINE T == Timer(policy.timeout, 1)
           W == LongestWaits(policy.strategy)
           w == LongestWait(policy.strategy, k)
<1>1. T \in Nat
  BY PolicyTyped
<1>2. W \in [Nat -> Nat] /\ W[1] = 0 /\ W[k + 1] = W[k] + w
  BY PolicyTyped, WaitsAddUp
<1>3. w \in Nat
  BY PolicyTyped, LongestIsLongest
<1>4. Spent(k) = k * T + W[k] /\ Spent(k + 1) = (k + 1) * T + W[k + 1] /\ Spent(1) = 1 * T + W[1]
  BY DEF Spent
<1> HIDE DEF T, W, w
<1>5. W[k] \in Nat /\ k * T \in Nat /\ (k + 1) * T = k * T + T
  BY <1>1, <1>2
<1>6. Spent(k) \in Nat /\ Spent(1) = T /\ Spent(k + 1) = Spent(k) + T + w
  BY <1>1, <1>2, <1>3, <1>4, <1>5
<1> QED
  BY <1>3, <1>6 DEF T, w

LEMMA SpentGrows ==
    ASSUME PolicyGiven, NEW k \in Nat \ {0}, NEW m \in Nat, k <= m
    PROVE  Spent(k) <= Spent(m)
<1> DEFINE f == [n \in Nat |-> IF n = 0 THEN 0 ELSE Spent(n)]
<1>1. \A n \in Nat \ {0} : Spent(n) \in Nat
  BY SpentAddsUp
<1>2. f \in [Nat -> Nat]
  BY <1>1
<1>3. ASSUME NEW n \in Nat PROVE f[n] <= f[n + 1]
  <2>1. CASE n = 0
    <3>1. f[n + 1] \in Nat /\ f[n] = 0
      BY <1>2, <2>1
    <3> HIDE DEF f
    <3> QED
      BY <3>1
  <2>2. CASE n # 0
    <3>1. f[n] = Spent(n) /\ f[n + 1] = Spent(n + 1)
      BY <2>2
    <3>2. Spent(n) <= Spent(n + 1) /\ Spent(n) \in Nat
      BY <2>2, SpentAddsUp, PolicyTyped
    <3> QED
      BY <3>1, <3>2
  <2> QED
    BY <2>1, <2>2
<1>4. f[k] = Spent(k) /\ f[m] = Spent(m)
  OBVIOUS
<1> HIDE DEF f
<1> QED
  BY <1>2, <1>3, <1>4, Monotone

\* A catch block that sleeps does so when the awaited attempt has ended in
\* time.
LEMMA CatchIsOnTime ==
    ASSUME TimeInv, phase = "running", NEW retryable \in BOOLEAN, FailOrSleep(retryable),
           UNCHANGED <<policy, now, attempt>>, timeouts' \subseteq timeouts
    PROVE  Clocked' /\ OnTime'
<1>1. /\ PolicyGiven /\ now \in Nat /\ wake \in Nat /\ attempt \in Nat \ {0}
      /\ \A t \in timeouts : t.at \in Nat
  BY DEF TimeInv, Clocked, StepInv, Numbered
<1>2. policy.strategy \in Strategy /\ policy.attempts \in Nat
  BY <1>1, PolicyTyped
<1>3. CASE phase' = "sleeping"
  <2>1. IsNotLast /\ \E d \in CalculateDelay(policy.strategy, attempt) : wake' = now + Timer(d, Unit(attempt))
    BY <1>3 DEF FailOrSleep, Settle
  <2>2. PICK d \in CalculateDelay(policy.strategy, attempt) : wake' = now + Timer(d, Unit(attempt))
    BY <2>1
  <2>3. Timer(d, Unit(attempt)) \in Nat
        /\ Timer(d, Unit(attempt)) <= LongestWait(policy.strategy, attempt)
    <3>1. d \in Nat
      BY <1>1, <1>2, DelaysAreNumbers
    <3>2. Timer(d, Unit(attempt)) \in Nat
      BY <1>1, <3>1, TimerWaits, UnitIsNumber
    <3>3. Timer(d, Unit(attempt)) <= LongestWait(policy.strategy, attempt)
      BY <1>1, <1>2, LongestIsLongest
    <3> QED
      BY <3>2, <3>3
  <2>4. LongestWait(policy.strategy, attempt) \in Nat /\ Spent(attempt) \in Nat
    BY <1>1, SpentAddsUp
  <2>5. Clocked'
    BY <1>1, <1>3, <2>2, <2>3 DEF Clocked
  <2>6. ASSUME policy.timeout # 0
        PROVE  /\ attempt \in 1..policy.attempts - 1
               /\ now <= wake'
               /\ wake' <= Spent(attempt) + LongestWait(policy.strategy, attempt)
    <3>1. PICK t \in timeouts : now <= t.at /\ t.at <= Spent(attempt)
      BY <2>6 DEF TimeInv, OnTime
    <3>2. t.at \in Nat
      BY <1>1
    <3>3. now <= Spent(attempt)
      BY <1>1, <2>4, <3>1, <3>2
    <3> QED
      BY <1>1, <1>2, <2>1, <2>2, <2>3, <2>4, <3>3 DEF IsNotLast
  <2>7. Spent(attempt)' = Spent(attempt)
    BY DEF Spent
  <2> QED
    BY <1>3, <2>5, <2>6, <2>7 DEF OnTime, LongestWait
<1>4. CASE phase' = "settled" /\ UNCHANGED wake
  BY <1>1, <1>4 DEF Clocked, OnTime
<1> QED
  BY <1>3, <1>4 DEF FailOrSleep, Settle

\* An attempt that begins within what may be spent before it has a timer that
\* is set within what may be spent.
LEMMA BeginIsOnTime ==
    ASSUME TimeInv, NEW k \in Nat \ {0}, Begin(k), k <= policy.attempts,
           UNCHANGED <<policy, now, wake>>,
           policy.timeout # 0 => now + Timer(policy.timeout, 1) <= Spent(k)
    PROVE  Clocked' /\ OnTime'
<1>1. PolicyGiven /\ now \in Nat /\ wake \in Nat /\ \A t \in timeouts : t.at \in Nat
  BY DEF TimeInv, Clocked
<1>2. Timer(policy.timeout, 1) \in Nat
  BY <1>1, PolicyTyped
<1>3. phase' = "running" /\ attempt' = k /\ timeouts' = timeouts \cup NewTimer(k)
  BY DEF Begin
<1>4. \A t \in timeouts' : t.at \in Nat
  BY <1>1, <1>2, <1>3 DEF NewTimer
<1>5. Clocked'
  BY <1>1, <1>3, <1>4 DEF Clocked
<1>6. ASSUME policy.timeout # 0
      PROVE  \E t \in timeouts' : t.of = k /\ now <= t.at /\ t.at <= Spent(k)
  <2> DEFINE t == [of |-> k, at |-> now + Timer(policy.timeout, 1)]
  <2>1. t \in timeouts'
    BY <1>3, <1>6 DEF NewTimer
  <2>2. t.of = k /\ now <= t.at /\ t.at <= Spent(k)
    BY <1>1, <1>2, <1>6
  <2> QED
    BY <2>1, <2>2
<1>7. Spent(k)' = Spent(k)
  BY DEF Spent
<1> QED
  BY <1>3, <1>5, <1>6, <1>7 DEF OnTime

\* The clock never passes what is pending, whatever step is taken.
LEMMA ClockIsOnTime ==
    ASSUME TimeInv, [Next]_vars
    PROVE  Clocked' /\ OnTime'
<1>1. /\ PolicyGiven /\ Clocked /\ OnTime /\ StepInv
      /\ now \in Nat /\ wake \in Nat /\ attempt \in Nat /\ \A t \in timeouts : t.at \in Nat
  BY DEF TimeInv, Clocked, StepInv, Numbered
<1>2. policy.attempts \in Nat /\ Timer(policy.timeout, 1) \in Nat
  BY <1>1, PolicyTyped
<1>3. CASE Execute
  <2>1. CASE policy.attempts >= 1 /\ Begin(1)
    <3>1. policy.timeout # 0 => now + Timer(policy.timeout, 1) <= Spent(1)
      BY <1>1, <1>2, <1>3, SpentAddsUp DEF Execute, OnTime
    <3> QED
      BY <1>2, <1>3, <2>1, <3>1, BeginIsOnTime DEF Execute
  <2>2. CASE Settle("threw") /\ UNCHANGED timeouts
    BY <1>1, <1>3, <2>2 DEF Execute, Settle, Clocked, OnTime
  <2> QED
    BY <1>3, <2>1, <2>2 DEF Execute
<1>4. ASSUME NEW k \in running, ActionReturns(k) PROVE Clocked' /\ OnTime'
  BY <1>1, <1>4 DEF ActionReturns, CallEnds, Settle, Cleared, Clocked, OnTime
<1>5. ASSUME NEW k \in running, ActionThrows(k) PROVE Clocked' /\ OnTime'
  <2>1. PICK retryable \in BOOLEAN : FailOrSleep(retryable)
    BY <1>5 DEF ActionThrows
  <2>2. phase = "running" /\ UNCHANGED <<policy, now, attempt>> /\ timeouts' \subseteq timeouts
    BY <1>5 DEF ActionThrows, Awaited, CallEnds, Cleared
  <2> QED
    BY <2>1, <2>2, CatchIsOnTime
<1>6. ASSUME NEW k \in running, AbandonedEnds(k) PROVE Clocked' /\ OnTime'
  <2>1. UNCHANGED <<policy, now, attempt, phase, timeouts, wake>>
    BY <1>6 DEF AbandonedEnds, CallEnds
  <2> QED
    BY <1>1, <2>1 DEF Clocked, OnTime, Spent, LongestWait
<1>7. ASSUME NEW t \in timeouts, TimesOut(t) PROVE Clocked' /\ OnTime'
  <2>1. Awaited(t.of)
    BY <1>1 DEF StepInv, NoTimerLeftBehind
  <2>2. /\ phase = "running" /\ FailOrSleep(TRUE)
        /\ UNCHANGED <<policy, now, attempt>> /\ timeouts' \subseteq timeouts
    BY <1>7, <2>1 DEF TimesOut, Awaited, Cleared
  <2> QED
    BY <2>2, CatchIsOnTime
<1>8. CASE Wakes
  <2>1. phase = "sleeping" /\ wake <= now /\ Begin(attempt + 1) /\ UNCHANGED <<policy, now, wake>>
    BY <1>8 DEF Wakes
  <2>2. CASE policy.timeout # 0
    <3>1. /\ attempt \in 1..policy.attempts - 1 /\ now <= wake
          /\ wake <= Spent(attempt) + LongestWait(policy.strategy, attempt)
      BY <1>1, <2>1, <2>2 DEF OnTime
    <3>2. attempt \in Nat \ {0} /\ attempt + 1 \in Nat \ {0} /\ attempt + 1 <= policy.attempts
      BY <1>1, <1>2, <3>1
    <3>3. /\ Spent(attempt) \in Nat /\ LongestWait(policy.strategy, attempt) \in Nat
          /\ Spent(attempt + 1) = Spent(attempt) + Timer(policy.timeout, 1)
                                     + LongestWait(policy.strategy, attempt)
      BY <1>1, <3>2, SpentAddsUp
    <3>4. now + Timer(policy.timeout, 1) <= Spent(attempt + 1)
      BY <1>1, <1>2, <3>1, <3>3
    <3> QED
      BY <2>1, <3>2, <3>4, BeginIsOnTime
  <2>3. CASE policy.timeout = 0
    <3>1. phase' = "running" /\ timeouts' = timeouts /\ policy'.timeout = 0
      BY <2>1, <2>3 DEF Begin, NewTimer
    <3> QED
      BY <1>1, <2>1, <3>1 DEF Clocked, OnTime
  <2> QED
    BY <2>2, <2>3
<1>9. CASE Tick
  <2>1. /\ now' = now + 1 /\ UNCHANGED <<policy, phase, attempt, timeouts, wake>>
        /\ phase = "sleeping" => wake > now
        /\ \A t \in timeouts : t.at > now
        /\ phase \in {"running", "sleeping"} \/ timeouts # {}
    BY <1>9 DEF Tick
  <2>2. phase # "new"
    BY <1>1, <2>1 DEF StepInv, NoTimerLeftBehind, Awaited
  <2>3. /\ phase = "sleeping" => now + 1 <= wake
        /\ \A t \in timeouts : now + 1 <= t.at
    BY <1>1, <2>1
  <2>4. Clocked'
    BY <1>1, <2>1 DEF Clocked
  <2>5. Spent(attempt)' = Spent(attempt)
        /\ LongestWait(policy.strategy, attempt)' = LongestWait(policy.strategy, attempt)
    BY <2>1 DEF Spent, LongestWait
  <2> QED
    BY <1>1, <2>1, <2>2, <2>3, <2>4, <2>5 DEF OnTime
<1>10. CASE UNCHANGED vars
  BY <1>1, <1>10 DEF vars, Clocked, OnTime, Spent, LongestWait
<1> QED
  BY <1>3, <1>4, <1>5, <1>6, <1>7, <1>8, <1>9, <1>10 DEF Next, Timers

\* Every step keeps the invariant.
LEMMA TimeStep == TimeInv /\ [Next]_vars => TimeInv'
BY StepStep, PolicyKept, ClockIsOnTime DEF TimeInv

\* A step with a timeout has settled when all its attempts have timed out and
\* the longest waits between them have passed, for every policy: a lease that
\* is longer outlasts it.
THEOREM StepsSettleInTime == Spec => []SettlesInTime
<1>1. Spec => []TimeInv
  BY TimeInitially, TimeStep, PTL DEF Spec
<1>2. TimeInv => SettlesInTime
  <2> SUFFICES ASSUME TimeInv, policy.timeout # 0, phase # "settled"
               PROVE  now <= Spent(policy.attempts)
    BY DEF SettlesInTime, Spent
  <2>1. /\ PolicyGiven /\ now \in Nat /\ wake \in Nat /\ attempt \in Nat
        /\ \A t \in timeouts : t.at \in Nat
        /\ policy.attempts \in Nat
    BY PolicyTyped DEF TimeInv, Clocked, StepInv, Numbered
  <2>2. CASE phase = "new"
    <3>1. now = 0
      BY <2>2 DEF TimeInv, OnTime
    <3>2. CASE policy.attempts = 0
      <4>1. LongestWaits(policy.strategy)[0] \in Nat /\ Timer(policy.timeout, 1) \in Nat
        BY <2>1, PolicyTyped, WaitsAddUp
      <4> QED
        BY <3>1, <3>2, <4>1 DEF Spent
    <3>3. CASE policy.attempts # 0
      BY <2>1, <3>1, <3>3, SpentAddsUp
    <3> QED
      BY <3>2, <3>3
  <2>3. CASE phase = "running"
    <3>1. PICK t \in timeouts : now <= t.at /\ t.at <= Spent(attempt)
      BY <2>3 DEF TimeInv, OnTime
    <3>2. attempt \in Nat \ {0} /\ attempt <= policy.attempts
      BY <2>3 DEF TimeInv, OnTime, StepInv, Numbered
    <3>3. Spent(attempt) \in Nat /\ Spent(policy.attempts) \in Nat
      BY <2>1, <3>2, SpentAddsUp
    <3>4. Spent(attempt) <= Spent(policy.attempts)
      BY <2>1, <3>2, SpentGrows
    <3> QED
      BY <2>1, <3>1, <3>3, <3>4
  <2>4. CASE phase = "sleeping"
    <3>1. /\ attempt \in 1..policy.attempts - 1 /\ now <= wake
          /\ wake <= Spent(attempt) + LongestWait(policy.strategy, attempt)
      BY <2>4 DEF TimeInv, OnTime
    <3>2. attempt \in Nat \ {0} /\ attempt + 1 \in Nat \ {0} /\ attempt + 1 <= policy.attempts
      BY <2>1, <3>1
    <3>3. /\ Spent(attempt) \in Nat /\ LongestWait(policy.strategy, attempt) \in Nat
          /\ Spent(policy.attempts) \in Nat
          /\ Spent(attempt + 1) = Spent(attempt) + Timer(policy.timeout, 1)
                                     + LongestWait(policy.strategy, attempt)
      BY <2>1, <3>2, SpentAddsUp
    <3>4. Spent(attempt + 1) <= Spent(policy.attempts)
      BY <2>1, <3>2, SpentGrows
    <3>5. Timer(policy.timeout, 1) \in Nat
      BY <2>1, PolicyTyped
    <3> QED
      BY <2>1, <3>1, <3>3, <3>4, <3>5
  <2> QED
    BY <2>2, <2>3, <2>4 DEF TimeInv, Clocked
<1> QED
  BY <1>1, <1>2, PTL
=============================================================================
