-------------------------- MODULE LeasedSagaProofs --------------------------
(***************************************************************************)
(* Leases that outlast the resumes they were taken for give the executor   *)
(* the environment it needs, for any number of workers, crashes and        *)
(* rejections: theorems of LeasedSaga, checked by TLAPS.                   *)
(***************************************************************************)
EXTENDS LeasedSaga, SagaExecutorProofs

\* A poll that runs the saga holds its lease, which is good, and no other does.
LeaseHeld ==
    /\ live \in BOOLEAN
    /\ \A p \in Workers : pc[p] # "idle" => p \in holding
    /\ holding # {} => live
    /\ \A p, q \in holding : p = q

\* The inductive invariant.
LeaseInv == Typed /\ LeaseHeld

\* Nobody runs and nobody holds.
LEMMA LeasedInitially == LeasedInit => Init /\ LeaseInv
BY InitTyped DEF LeasedInit, Init, LeaseInv, LeaseHeld, Proc

\* Every step of the composition is one of the executor, or changes nothing
\* of it, if its claims are made as the executor has them.
LEMMA LeasedStepIsStep ==
    ASSUME [LeasedNext]_leaseVars,
           \A p \in Workers : ClaimOrphaned(p) /\ Exclusive => Quiet
    PROVE  [Next]_vars
<1>1. ASSUME NEW p \in Workers, ClaimOrphaned(p) PROVE Next
  <2>1. Claim(p)
    BY <1>1 DEF ClaimOrphaned, Claim
  <2> QED
    BY <2>1 DEF Next
<1>2. ASSUME NEW p \in Workers, ReleaseSaga(p) \/ ReleaseLost(p) PROVE UNCHANGED vars
  BY <1>2 DEF ReleaseSaga, ReleaseLost
<1>3. CASE Expire
  BY <1>3 DEF Expire
<1>4. ASSUME NEW p \in Proc, CrashHolding(p) PROVE Next
  BY <1>4 DEF CrashHolding, Next
<1>5. CASE /\ \/ Create \/ Resume
              \/ \E p \in Proc : Run(p) \/ Reject(p) \/ ReplyLost(p)
              \/ \E call \in Call : CompletesLate(call)
           /\ UNCHANGED lease
  BY <1>5 DEF Next
<1>6. CASE UNCHANGED leaseVars
  BY <1>6 DEF leaseVars
<1> QED
  BY <1>1, <1>2, <1>3, <1>4, <1>5, <1>6 DEF LeasedNext

\* The only claim that a good lease allows finds nobody at work.
LEMMA ClaimFindsNobody ==
    ASSUME Orphaned, LeaseHeld, NEW p \in Workers, ClaimOrphaned(p)
    PROVE  Quiet
BY DEF ClaimOrphaned, Free, LeaseHeld, Quiet, Proc

\* Every step keeps the leases right.
LEMMA LeaseHeldStep ==
    ASSUME Typed, LongLease, LeaseHeld, [LeasedNext]_leaseVars
    PROVE  LeaseHeld'
<1> USE DEF LeaseHeld
<1>1. pc \in [Proc -> Site] /\ Workers \subseteq Proc
  BY DEF Typed, TypeOK, Proc
<1>2. ASSUME NEW p \in Workers, ClaimOrphaned(p) PROVE LeaseHeld'
  BY <1>1, <1>2 DEF ClaimOrphaned, Free, Goto
<1>3. ASSUME NEW p \in Workers, ReleaseSaga(p) PROVE LeaseHeld'
  BY <1>3 DEF ReleaseSaga, vars
<1>4. ASSUME NEW p \in Workers, ReleaseLost(p) PROVE LeaseHeld'
  BY <1>4 DEF ReleaseLost, vars
<1>5. CASE Expire
  BY <1>5 DEF Expire, vars
<1>6. ASSUME NEW p \in Proc, CrashHolding(p) PROVE LeaseHeld'
  <2>1. pc'[p] = "idle"
    BY <1>1, <1>6 DEF CrashHolding, Crash, Leave
  <2>2. \A q \in Proc : q # p => pc'[q] = pc[q]
    BY <1>6, OthersKept DEF CrashHolding, Keeps
  <2> QED
    BY <1>1, <1>6, <2>1, <2>2 DEF CrashHolding
<1>7. ASSUME NEW p \in Proc, Run(p) \/ Reject(p) \/ ReplyLost(p), UNCHANGED lease
      PROVE  LeaseHeld'
  <2>1. pc[p] # "idle"
    BY <1>7, RunNotIdle, LostGoes, EnvironmentAssumption
       DEF Reject, MayReject, AwaitSites, StartSites, StepSites, TrySites, CatchSites, UndoSites,
           CompSites, EndSites
  <2>2. \A q \in Proc : q # p => pc'[q] = pc[q]
    BY <1>7, OthersKept DEF Keeps
  <2> QED
    BY <1>1, <1>7, <2>1, <2>2 DEF lease
<1>8. CASE (Create \/ Resume) /\ UNCHANGED lease
  BY <1>1, <1>8, EnvironmentAssumption DEF Create, Resume, Goto, lease
<1>9. ASSUME NEW call \in Call, CompletesLate(call), UNCHANGED lease PROVE LeaseHeld'
  BY <1>9 DEF CompletesLate, lease
<1>10. CASE UNCHANGED leaseVars
  BY <1>10 DEF leaseVars, vars, lease
<1> QED
  BY <1>2, <1>3, <1>4, <1>5, <1>6, <1>7, <1>8, <1>9, <1>10 DEF LeasedNext

LEMMA AlwaysLeased ==
    ASSUME Orphaned, LongLease
    PROVE  LeasedSpec => Spec /\ []LeaseInv
<1>1. LeaseInv /\ [LeasedNext]_leaseVars => [Next]_vars /\ LeaseInv'
  BY LeasedStepIsStep, ClaimFindsNobody, LeaseHeldStep, NextTyped DEF LeaseInv
<1> QED
  BY <1>1, LeasedInitially, PTL DEF LeasedSpec, Spec

\* Leases that outlast the resumes, taken by recovery alone, are all that an
\* executor needs to be alone with its saga.
THEOREM LeasesSuffice ==
    ASSUME Orphaned, LongLease
    PROVE  LeasedSpec => LeasesExclude
BY AlwaysLeased, PTL DEF LeasesExclude

\* So everything proved of one process at a time holds of workers that only
\* know the leases.  No step is started before the earlier ones are settled.
THEOREM LeasedNoHoles ==
    ASSUME Exclusive, Orphaned, LongLease
    PROVE  LeasedSpec => []NoStepAheadOfAnother
BY AlwaysLeased, NoHoles, PTL

\* A step is undone after the later ones, whoever runs the compensation.
THEOREM LeasedDependantsFirst ==
    ASSUME Exclusive, Orphaned, LongLease
    PROVE  LeasedSpec => []LaterStepsUndoneFirst
BY AlwaysLeased, DependantsFirst, PTL

\* When the saga is COMPENSATED nothing compensable is left but the known
\* residues, however many workers had a part in the compensation.
THEOREM LeasedCompensationClears ==
    ASSUME Exclusive, Orphaned, LongLease
    PROVE  LeasedSpec => []CompensatedResidue
BY AlwaysLeased, CompensationClears, PTL

\* A step that is settled is never started again by the next worker.
THEOREM LeasedSettledForGood ==
    ASSUME Exclusive, Orphaned, LongLease
    PROVE  LeasedSpec => SettledStepsStaySettled
BY AlwaysLeased, SettledForGood, PTL

\* And the next worker reads a context with the patches of all completed steps.
THEOREM LeasedContextIsComplete ==
    ASSUME Exclusive, Orphaned, LongLease
    PROVE  LeasedSpec => []CompletedStepsInContext
BY AlwaysLeased, ContextIsComplete, PTL

\* And those who only read the rows see them change in order.
THEOREM LeasedRowsInOrder ==
    ASSUME Exclusive, Orphaned, LongLease
    PROVE  LeasedSpec => RowsInOrder
BY AlwaysLeased, RowsAreInOrder, PTL

\* And those who consume the outbox are told a story they can follow, in which
\* no completion is repeated but for awaits that rejected.
THEOREM LeasedStoryIsTold ==
    ASSUME Exclusive, Orphaned, LongLease, MaxResumes = 0
    PROVE  LeasedSpec => []OutboxTellsTheStory
BY AlwaysLeased, StoryIsTold, PTL

\* And the outbox misses one completion at most for each fault, however many
\* workers take turns.
THEOREM LeasedFewCompletionsLost ==
    ASSUME Exclusive, Orphaned, LongLease
    PROVE  LeasedSpec => []CompletionsLost
BY AlwaysLeased, FewCompletionsLost, PTL

-----------------------------------------------------------------------------
(* Leases that expire at any time, beside an application that is still at  *)
(* work: the composition is then an executor that others may join.         *)

\* No effect is without the record that its step was started, whatever the
\* leases do.
THEOREM LeasedWriteAhead ==
    ASSUME ~Exclusive
    PROVE  LeasedSpec => []NoEffectWithoutRecord
<1>1. [LeasedNext]_leaseVars => [Next]_vars
  BY LeasedStepIsStep
<1>2. LeasedSpec => Spec
  BY <1>1, LeasedInitially, PTL DEF LeasedSpec, Spec
<1> QED
  BY <1>2, WriteAhead, PTL
=============================================================================
