------------------------- MODULE SagaExecutorProofs -------------------------
(***************************************************************************)
(* Theorems about SagaExecutor, for every definition, every set of         *)
(* workers, every policy and every bound on the faults.                    *)
(***************************************************************************)
EXTENDS SagaExecutor, FiniteSetTheorems, TLAPS

-----------------------------------------------------------------------------
(* Types.  TypeOK is not inductive: the index of the current step must be  *)
(* the index of a step wherever the code uses it, and a running call must  *)
(* have a row to read its answer from.                                     *)

CurSites == StepSites \cup TrySites \cup CatchSites \cup UndoSites
                \cup {"action", "compensation"}

CurInStep == \A p \in Proc : pc[p] \in CurSites => cur[p] \in Step

CallHasRow == \A p \in Proc : pc[p] # "idle" => status # "NONE"

Typed == TypeOK /\ CurInStep /\ CallHasRow

LEMMA AppendOutboxType ==
    ASSUME outbox \in Seq(Event), NEW t \in OutboxType, NEW i \in 0..N,
           AppendOutbox(t, i)
    PROVE  outbox' \in Seq(Event)
<1>1. [type |-> t, step |-> i] \in Event
  BY DEF Event
<1>2. outbox' = outbox \/ outbox' = Append(outbox, [type |-> t, step |-> i])
  BY EnvironmentAssumption DEF AppendOutbox
<1>3. QED
  BY <1>1, <1>2

LEMMA GotoType ==
    ASSUME pc \in [Proc -> Site], NEW p \in Proc, NEW site \in Site, Goto(p, site)
    PROVE  pc' \in [Proc -> Site]
BY DEF Goto

LEMMA RetryType ==
    ASSUME attempt \in [Proc -> Nat], pc \in [Proc -> Site], NEW p \in Proc,
           NEW max \in Nat, NEW retryable \in BOOLEAN, NEW giveUp \in Site,
           RetryOr(p, max, retryable, giveUp)
    PROVE  /\ attempt' \in [Proc -> Nat]
           /\ pc' \in [Proc -> Site]
<1>1. CASE /\ attempt' = [attempt EXCEPT ![p] = attempt[p] + 1]
           /\ UNCHANGED pc
  BY <1>1
<1>2. CASE /\ attempt' = [attempt EXCEPT ![p] = 0]
           /\ Goto(p, giveUp)
  BY <1>2, GotoType
<1>3. QED
  BY <1>1, <1>2 DEF RetryOr

LEMMA TakePatchType ==
    ASSUME attempt \in [Proc -> Nat], pc \in [Proc -> Site],
           mem \in [Proc -> SUBSET Call], NEW p \in Proc, NEW call \in Call,
           NEW save \in Site, NEW after \in Site,
           TakePatch(p, call, save, after)
    PROVE  /\ attempt' \in [Proc -> Nat]
           /\ pc' \in [Proc -> Site]
           /\ mem' \in [Proc -> SUBSET Call]
<1>1. attempt' \in [Proc -> Nat]
  BY DEF TakePatch
<1>2. CASE call \in Patching
  BY <1>1, <1>2, GotoType DEF TakePatch
<1>3. CASE call \notin Patching
  BY <1>1, <1>3, GotoType DEF TakePatch
<1>4. QED
  BY <1>2, <1>3

LEMMA LeaveType ==
    ASSUME TypeOK, NEW p \in Proc, NEW answer \in {"none", "rejected"} \cup SagaStatus,
           Leave(p, answer)
    PROVE  /\ pc' \in [Proc -> Site]
           /\ LocalsOK'
           /\ result' \in {"none", "rejected"} \cup SagaStatus
<1>1. NoSteps \in [Step -> StepStatus \cup {"NONE"}]
  BY DEF NoSteps
<1>2. 0 \in 0..(N + 1) /\ 0 \in 0..N
  BY DefinitionAssumption
<1>3. /\ cur' \in [Proc -> 0..(N + 1)]
      /\ pushed' \in [Proc -> 0..N]
      /\ attempt' \in [Proc -> Nat]
  BY <1>2 DEF TypeOK, LocalsOK, Leave
<1>4. /\ seen' \in [Proc -> [Step -> StepStatus \cup {"NONE"}]]
      /\ mem' \in [Proc -> SUBSET Call]
  BY <1>1 DEF TypeOK, LocalsOK, Leave
<1>5. pc' \in [Proc -> Site]
  BY DEF TypeOK, Leave, Site, OtherSites
<1>6. result' \in {"none", "rejected"} \cup SagaStatus
  BY DEF TypeOK, Leave
<1>7. QED
  BY <1>3, <1>4, <1>5, <1>6 DEF LocalsOK

LEMMA TypeRun ==
    ASSUME Typed, NEW p \in Proc, Run(p)
    PROVE  TypeOK'
<1> USE DEF Typed, TypeOK, StoreOK, LocalsOK, store, world, locals, budget, Goto,
            UpdateSagaStatus, UpdateStepStatus, Site, AwaitSites, OtherSites,
            StartSites, StepSites, TrySites, CatchSites, UndoSites, CompSites, EndSites
<1>1. CASE GetSaga(p)
  BY <1>1 DEF GetSaga
<1>2. CASE SetRunning(p)
  BY <1>2 DEF SetRunning, SagaStatus, WriteStatus
<1>3. CASE SagaStarted(p)
  <2>1. outbox' \in Seq(Event)
    <3>1. "SagaStarted" \in OutboxType /\ 0 \in 0..N
      BY <1>3, DefinitionAssumption DEF OutboxType
    <3>2. QED
      BY <1>3, <3>1, AppendOutboxType DEF SagaStarted, Announce
  <2>2. QED
    BY <1>3, <2>1 DEF SagaStarted, Announce
<1>4. CASE GetSteps(p)
  BY <1>4, DefinitionAssumption DEF GetSteps
<1>5. CASE NextStep(p)
  <2>1. CASE cur[p] > N /\ Goto(p, "setCompleted") /\ UNCHANGED <<cur, pushed>>
    BY <1>5, <2>1 DEF NextStep
  <2>2. CASE /\ cur[p] \in Step
             /\ pushed' = [pushed EXCEPT ![p] = cur[p]]
             /\ cur' = [cur EXCEPT ![p] = cur[p] + 1]
             /\ UNCHANGED pc
    <3>1. cur[p] \in 0..N /\ cur[p] + 1 \in 0..(N + 1)
      BY <2>2, DefinitionAssumption DEF Step
    <3>2. cur' \in [Proc -> 0..(N + 1)] /\ pushed' \in [Proc -> 0..N]
      BY <2>2, <3>1
    <3>3. QED
      BY <1>5, <2>2, <3>2 DEF NextStep
  <2>3. CASE /\ Goto(p, IF seen[p][cur[p]] = "RUNNING" THEN "setStepRunning" ELSE "createStep")
             /\ UNCHANGED <<cur, pushed>>
    BY <1>5, <2>3 DEF NextStep
  <2>4. QED
    BY <1>5, <2>1, <2>2, <2>3 DEF NextStep
<1>6. CASE CreateStep(p)
  BY <1>6 DEF CreateStep, StepStatus
<1>7. CASE SetStepRunning(p)
  BY <1>7 DEF SetStepRunning, StepStatus, WriteStep
<1>8. CASE StepStarted(p)
  <2>1. cur[p] \in Step
    BY <1>8 DEF CurInStep, CurSites, StepStarted
  <2>2. outbox' \in Seq(Event)
    <3>1. "StepStarted" \in OutboxType /\ cur[p] \in 0..N
      BY <1>8, <2>1, DefinitionAssumption DEF OutboxType, Step
    <3>2. QED
      BY <1>8, <3>1, AppendOutboxType DEF StepStarted
  <2>3. attempt' \in [Proc -> Nat]
    BY <1>8 DEF StepStarted
  <2>4. QED
    BY <1>8, <2>2, <2>3 DEF StepStarted
<1>9. CASE ActionSucceeds(p)
  <2>1. cur[p] \in Step
    BY <1>9 DEF CurInStep, CurSites, ActionSucceeds
  <2>2. <<"do", cur[p]>> \in Call
    BY <2>1 DEF Call
  <2>3. /\ attempt' \in [Proc -> Nat]
        /\ pc' \in [Proc -> Site]
        /\ mem' \in [Proc -> SUBSET Call]
    <3>1. "patchContext" \in Site /\ "setStepCompleted" \in Site
      OBVIOUS
    <3>2. QED
      BY <1>9, <2>2, <3>1, TakePatchType DEF ActionSucceeds
  <2>4. effects' \subseteq Step
    BY <1>9, <2>1 DEF ActionSucceeds
  <2>5. QED
    BY <1>9, <2>3, <2>4 DEF ActionSucceeds
<1>10. CASE ActionFails(p)
  <2>1. cur[p] \in Step
    BY <1>10 DEF CurInStep, CurSites, ActionFails
  <2>2. /\ attempt' \in [Proc -> Nat]
        /\ pc' \in [Proc -> Site]
    <3>1. Attempts[cur[p]] \in Nat /\ "setStepFailed" \in Site
      BY <2>1, DefinitionAssumption
    <3>2. QED
      BY <1>10, <3>1, RetryType DEF ActionFails
  <2>3. QED
    BY <1>10, <2>2 DEF ActionFails
<1>11. CASE ActionTimesOut(p)
  <2>1. cur[p] \in Step
    BY <1>11 DEF CurInStep, CurSites, ActionTimesOut
  <2>2. /\ attempt' \in [Proc -> Nat]
        /\ pc' \in [Proc -> Site]
    <3>1. Attempts[cur[p]] \in Nat /\ "setStepFailed" \in Site
      BY <2>1, DefinitionAssumption
    <3>2. QED
      BY <1>11, <3>1, RetryType DEF ActionTimesOut
  <2>3. late' \subseteq Call
    BY <1>11, <2>1 DEF ActionTimesOut, Call
  <2>4. QED
    BY <1>11, <2>2, <2>3 DEF ActionTimesOut
<1>12. CASE PatchContext(p)
  BY <1>12 DEF PatchContext, WriteContext
<1>13. CASE SetStepCompleted(p)
  <2>1. cur[p] \in Step
    BY <1>13 DEF CurInStep, CurSites, SetStepCompleted
  <2>2. steps' \in [Step -> StepStatus \cup {"NONE"}]
    BY <1>13 DEF SetStepCompleted, StepStatus
  <2>3. pushed' \in [Proc -> 0..N]
    BY <1>13, <2>1, DefinitionAssumption DEF SetStepCompleted, Step
  <2>4. QED
    BY <1>13, <2>2, <2>3 DEF SetStepCompleted
<1>14. CASE StepCompleted(p)
  <2>1. cur[p] \in Step
    BY <1>14 DEF CurInStep, CurSites, StepCompleted
  <2>2. outbox' \in Seq(Event)
    <3>1. "StepCompleted" \in OutboxType /\ cur[p] \in 0..N
      BY <1>14, <2>1, DefinitionAssumption DEF OutboxType, Step
    <3>2. QED
      BY <1>14, <3>1, AppendOutboxType DEF StepCompleted
  <2>3. cur' \in [Proc -> 0..(N + 1)]
    BY <1>14, <2>1, DefinitionAssumption DEF StepCompleted, Step
  <2>4. QED
    BY <1>14, <2>2, <2>3 DEF StepCompleted
<1>15. CASE SetCompleted(p)
  BY <1>15 DEF SetCompleted, SagaStatus, WriteStatus
<1>16. CASE SagaCompleted(p)
  <2>1. outbox' \in Seq(Event)
    <3>1. "SagaCompleted" \in OutboxType /\ 0 \in 0..N
      BY <1>16, DefinitionAssumption DEF OutboxType
    <3>2. QED
      BY <1>16, <3>1, AppendOutboxType DEF SagaCompleted
  <2>2. QED
    BY <1>16, <2>1, LeaveType DEF SagaCompleted, SagaStatus
<1>17. CASE SetStepFailed(p)
  BY <1>17 DEF SetStepFailed, StepStatus, WriteStep
<1>18. CASE SetFailed(p)
  BY <1>18 DEF SetFailed, SagaStatus, WriteStatus
<1>19. CASE SagaFailed(p)
  <2>1. cur[p] \in Step
    BY <1>19 DEF CurInStep, CurSites, SagaFailed, Announce
  <2>2. outbox' \in Seq(Event)
    <3>1. "SagaFailed" \in OutboxType /\ cur[p] \in 0..N
      BY <1>19, <2>1, DefinitionAssumption DEF OutboxType, Step
    <3>2. QED
      BY <1>19, <3>1, AppendOutboxType DEF SagaFailed, Announce
  <2>3. QED
    BY <1>19, <2>2 DEF SagaFailed, Announce
<1>20. CASE SetCompensating(p)
  BY <1>20 DEF SetCompensating, SagaStatus, WriteStatus
<1>21. CASE CompensationStarted(p)
  <2>1. cur' \in [Proc -> 0..(N + 1)]
    BY <1>21, DefinitionAssumption DEF CompensationStarted, FirstUndo
  <2>2. QED
    BY <1>21, <2>1 DEF CompensationStarted
<1>22. CASE NextUndo(p)
  <2>1. CASE Goto(p, "setCompensated") /\ UNCHANGED <<cur, attempt>>
    BY <1>22, <2>1 DEF NextUndo
  <2>2. CASE /\ cur[p] \in Step \ Compensable
             /\ cur' = [cur EXCEPT ![p] = cur[p] - 1]
             /\ UNCHANGED <<pc, attempt>>
    <3>1. cur[p] - 1 \in 0..(N + 1)
      BY <2>2, DefinitionAssumption DEF Step
    <3>2. cur' \in [Proc -> 0..(N + 1)]
      BY <2>2, <3>1
    <3>3. QED
      BY <1>22, <2>2, <3>2 DEF NextUndo
  <2>3. CASE /\ attempt' = [attempt EXCEPT ![p] = 1]
             /\ Goto(p, "compensation")
             /\ UNCHANGED cur
    BY <1>22, <2>3 DEF NextUndo
  <2>4. QED
    BY <1>22, <2>1, <2>2, <2>3 DEF NextUndo
<1>23. CASE CompensationSucceeds(p)
  <2>1. cur[p] \in Step
    BY <1>23 DEF CurInStep, CurSites, CompensationSucceeds
  <2>2. <<"undo", cur[p]>> \in Call
    BY <2>1 DEF Call
  <2>3. /\ attempt' \in [Proc -> Nat]
        /\ pc' \in [Proc -> Site]
        /\ mem' \in [Proc -> SUBSET Call]
    <3>1. "patchUndo" \in Site /\ "setStepCompensated" \in Site
      OBVIOUS
    <3>2. QED
      BY <1>23, <2>2, <3>1, TakePatchType DEF CompensationSucceeds
  <2>4. effects' \subseteq Step
    BY <1>23, <2>1 DEF CompensationSucceeds
  <2>5. QED
    BY <1>23, <2>3, <2>4 DEF CompensationSucceeds
<1>24. CASE CompensationFails(p)
  <2>1. cur[p] \in Step
    BY <1>24 DEF CurInStep, CurSites, CompensationFails
  <2>2. /\ attempt' \in [Proc -> Nat]
        /\ pc' \in [Proc -> Site]
    <3>1. CompAttempts[cur[p]] \in Nat /\ "setCompensationFailed" \in Site
      BY <2>1, DefinitionAssumption
    <3>2. QED
      BY <1>24, <3>1, RetryType DEF CompensationFails
  <2>3. QED
    BY <1>24, <2>2 DEF CompensationFails
<1>25. CASE CompensationTimesOut(p)
  <2>1. cur[p] \in Step
    BY <1>25 DEF CurInStep, CurSites, CompensationTimesOut
  <2>2. /\ attempt' \in [Proc -> Nat]
        /\ pc' \in [Proc -> Site]
    <3>1. CompAttempts[cur[p]] \in Nat /\ "setCompensationFailed" \in Site
      BY <2>1, DefinitionAssumption
    <3>2. QED
      BY <1>25, <3>1, RetryType DEF CompensationTimesOut
  <2>3. late' \subseteq Call
    BY <1>25, <2>1 DEF CompensationTimesOut, Call
  <2>4. QED
    BY <1>25, <2>2, <2>3 DEF CompensationTimesOut
<1>26. CASE PatchUndo(p)
  BY <1>26 DEF PatchUndo, WriteContext
<1>27. CASE SetStepCompensated(p)
  <2>1. cur[p] \in Step
    BY <1>27 DEF CurInStep, CurSites, SetStepCompensated
  <2>2. steps' \in [Step -> StepStatus \cup {"NONE"}]
    BY <1>27 DEF SetStepCompensated, StepStatus
  <2>3. cur' \in [Proc -> 0..(N + 1)]
    BY <1>27, <2>1, DefinitionAssumption DEF SetStepCompensated, Step
  <2>4. QED
    BY <1>27, <2>2, <2>3 DEF SetStepCompensated
<1>28. CASE SetCompensationFailed(p)
  BY <1>28 DEF SetCompensationFailed, SagaStatus, WriteStatus
<1>29. CASE CompensationFailed(p)
  BY <1>29 DEF CompensationFailed, Publish
<1>30. CASE SetCompensated(p)
  BY <1>30 DEF SetCompensated, SagaStatus, WriteStatus
<1>31. CASE CompensationCompleted(p)
  BY <1>31 DEF CompensationCompleted, Publish
<1>32. CASE ReadBack(p)
  <2>1. status \in SagaStatus
    BY <1>32 DEF ReadBack, CallHasRow
  <2>2. QED
    BY <1>32, <2>1, LeaveType DEF ReadBack
<1>33. QED
  BY <1>1, <1>2, <1>3, <1>4, <1>5, <1>6, <1>7, <1>8, <1>9, <1>10, <1>11,
     <1>12, <1>13, <1>14, <1>15, <1>16, <1>17, <1>18, <1>19, <1>20, <1>21,
     <1>22, <1>23, <1>24, <1>25, <1>26, <1>27, <1>28, <1>29, <1>30, <1>31,
     <1>32 DEF Run

LEMMA CurRun ==
    ASSUME Typed, NEW p \in Proc, Run(p)
    PROVE  CurInStep'
<1> USE DEF Typed, TypeOK, LocalsOK, CurInStep, CurSites, locals, Goto, StepSites,
            TrySites, CatchSites, UndoSites
<1>1. CASE GetSaga(p)
  BY <1>1 DEF GetSaga
<1>2. CASE SetRunning(p)
  BY <1>2 DEF SetRunning, WriteStatus
<1>3. CASE SagaStarted(p)
  BY <1>3 DEF SagaStarted, Announce
<1>4. CASE GetSteps(p)
  BY <1>4 DEF GetSteps
<1>5. CASE NextStep(p)
  BY <1>5, DefinitionAssumption DEF NextStep, IsDone, Settled
<1>6. CASE CreateStep(p)
  BY <1>6 DEF CreateStep
<1>7. CASE SetStepRunning(p)
  BY <1>7 DEF SetStepRunning, WriteStep
<1>8. CASE StepStarted(p)
  BY <1>8 DEF StepStarted
<1>9. CASE ActionSucceeds(p)
  BY <1>9 DEF ActionSucceeds, TakePatch
<1>10. CASE ActionFails(p)
  BY <1>10 DEF ActionFails, RetryOr
<1>11. CASE ActionTimesOut(p)
  BY <1>11 DEF ActionTimesOut, RetryOr
<1>12. CASE PatchContext(p)
  BY <1>12 DEF PatchContext, WriteContext
<1>13. CASE SetStepCompleted(p)
  BY <1>13 DEF SetStepCompleted
<1>14. CASE StepCompleted(p)
  BY <1>14 DEF StepCompleted
<1>15. CASE SetCompleted(p)
  BY <1>15 DEF SetCompleted, WriteStatus
<1>16. CASE SagaCompleted(p)
  BY <1>16 DEF SagaCompleted, Leave
<1>17. CASE SetStepFailed(p)
  BY <1>17 DEF SetStepFailed, WriteStep
<1>18. CASE SetFailed(p)
  BY <1>18 DEF SetFailed, WriteStatus
<1>19. CASE SagaFailed(p)
  BY <1>19 DEF SagaFailed, Announce
<1>20. CASE SetCompensating(p)
  BY <1>20 DEF SetCompensating, WriteStatus
<1>21. CASE CompensationStarted(p)
  BY <1>21 DEF CompensationStarted, FirstUndo
<1>22. CASE NextUndo(p)
  <2>1. CASE pc' = [pc EXCEPT ![p] = "compensation"] /\ cur[p] \in Compensable /\ UNCHANGED cur
    BY <2>1, DefinitionAssumption
  <2>2. CASE pc'[p] \notin CurSites /\ \A q \in Proc \ {p} : pc'[q] = pc[q] /\ cur'[q] = cur[q]
    BY <2>2
  <2>3. QED
    BY <1>22, <2>1, <2>2 DEF NextUndo
<1>23. CASE CompensationSucceeds(p)
  BY <1>23 DEF CompensationSucceeds, TakePatch
<1>24. CASE CompensationFails(p)
  BY <1>24 DEF CompensationFails, RetryOr
<1>25. CASE CompensationTimesOut(p)
  BY <1>25 DEF CompensationTimesOut, RetryOr
<1>26. CASE PatchUndo(p)
  BY <1>26 DEF PatchUndo, WriteContext
<1>27. CASE SetStepCompensated(p)
  BY <1>27 DEF SetStepCompensated
<1>28. CASE SetCompensationFailed(p)
  BY <1>28 DEF SetCompensationFailed, WriteStatus
<1>29. CASE CompensationFailed(p)
  BY <1>29 DEF CompensationFailed, Publish
<1>30. CASE SetCompensated(p)
  BY <1>30 DEF SetCompensated, WriteStatus
<1>31. CASE CompensationCompleted(p)
  BY <1>31 DEF CompensationCompleted, Publish
<1>32. CASE ReadBack(p)
  BY <1>32 DEF ReadBack, Leave
<1>33. QED
  BY <1>1, <1>2, <1>3, <1>4, <1>5, <1>6, <1>7, <1>8, <1>9, <1>10, <1>11,
     <1>12, <1>13, <1>14, <1>15, <1>16, <1>17, <1>18, <1>19, <1>20, <1>21,
     <1>22, <1>23, <1>24, <1>25, <1>26, <1>27, <1>28, <1>29, <1>30, <1>31,
     <1>32 DEF Run

LEMMA RowRun ==
    ASSUME Typed, NEW p \in Proc, Run(p)
    PROVE  CallHasRow'
<1> USE DEF Typed, TypeOK, LocalsOK, CallHasRow, store, Goto, UpdateSagaStatus
<1>1. CASE GetSaga(p)
  BY <1>1 DEF GetSaga
<1>2. CASE SetRunning(p)
  BY <1>2 DEF SetRunning, WriteStatus
<1>3. CASE SagaStarted(p)
  BY <1>3 DEF SagaStarted, Announce
<1>4. CASE GetSteps(p)
  BY <1>4 DEF GetSteps
<1>5. CASE NextStep(p)
  BY <1>5 DEF NextStep, IsDone, Settled
<1>6. CASE CreateStep(p)
  BY <1>6 DEF CreateStep
<1>7. CASE SetStepRunning(p)
  BY <1>7 DEF SetStepRunning, WriteStep
<1>8. CASE StepStarted(p)
  BY <1>8 DEF StepStarted
<1>9. CASE ActionSucceeds(p)
  BY <1>9 DEF ActionSucceeds, TakePatch
<1>10. CASE ActionFails(p)
  BY <1>10 DEF ActionFails, RetryOr
<1>11. CASE ActionTimesOut(p)
  BY <1>11 DEF ActionTimesOut, RetryOr
<1>12. CASE PatchContext(p)
  BY <1>12 DEF PatchContext, WriteContext
<1>13. CASE SetStepCompleted(p)
  BY <1>13 DEF SetStepCompleted
<1>14. CASE StepCompleted(p)
  BY <1>14 DEF StepCompleted
<1>15. CASE SetCompleted(p)
  BY <1>15 DEF SetCompleted, WriteStatus
<1>16. CASE SagaCompleted(p)
  BY <1>16 DEF SagaCompleted, Leave
<1>17. CASE SetStepFailed(p)
  BY <1>17 DEF SetStepFailed, WriteStep
<1>18. CASE SetFailed(p)
  BY <1>18 DEF SetFailed, WriteStatus
<1>19. CASE SagaFailed(p)
  BY <1>19 DEF SagaFailed, Announce
<1>20. CASE SetCompensating(p)
  BY <1>20 DEF SetCompensating, WriteStatus
<1>21. CASE CompensationStarted(p)
  BY <1>21 DEF CompensationStarted, FirstUndo
<1>22. CASE NextUndo(p)
  BY <1>22 DEF NextUndo
<1>23. CASE CompensationSucceeds(p)
  BY <1>23 DEF CompensationSucceeds, TakePatch
<1>24. CASE CompensationFails(p)
  BY <1>24 DEF CompensationFails, RetryOr
<1>25. CASE CompensationTimesOut(p)
  BY <1>25 DEF CompensationTimesOut, RetryOr
<1>26. CASE PatchUndo(p)
  BY <1>26 DEF PatchUndo, WriteContext
<1>27. CASE SetStepCompensated(p)
  BY <1>27 DEF SetStepCompensated
<1>28. CASE SetCompensationFailed(p)
  BY <1>28 DEF SetCompensationFailed, WriteStatus
<1>29. CASE CompensationFailed(p)
  BY <1>29 DEF CompensationFailed, Publish
<1>30. CASE SetCompensated(p)
  BY <1>30 DEF SetCompensated, WriteStatus
<1>31. CASE CompensationCompleted(p)
  BY <1>31 DEF CompensationCompleted, Publish
<1>32. CASE ReadBack(p)
  BY <1>32 DEF ReadBack, Leave
<1>33. QED
  BY <1>1, <1>2, <1>3, <1>4, <1>5, <1>6, <1>7, <1>8, <1>9, <1>10, <1>11,
     <1>12, <1>13, <1>14, <1>15, <1>16, <1>17, <1>18, <1>19, <1>20, <1>21,
     <1>22, <1>23, <1>24, <1>25, <1>26, <1>27, <1>28, <1>29, <1>30, <1>31,
     <1>32 DEF Run

LEMMA ThrownTyped ==
    ASSUME Typed, NEW p \in Proc, MayReject(p), Thrown(p), StoreOK',
           status # "NONE" => status' # "NONE", UNCHANGED world,
           {crashes, rejects, claims, resumes}' \subseteq Nat
    PROVE  Typed'
<1> USE DEF Typed, TypeOK, world
<1>1. CASE Leave(p, "rejected")
  <2>1. TypeOK'
    BY <1>1, LeaveType
  <2>2. CurInStep' /\ CallHasRow'
    BY <1>1 DEF Leave, LocalsOK, CurInStep, CallHasRow, CurSites, StepSites,
                TrySites, CatchSites, UndoSites
  <2>3. QED
    BY <2>1, <2>2
<1>2. CASE /\ Catcher(pc[p]) # "idle"
           /\ Goto(p, Catcher(pc[p]))
           /\ UNCHANGED <<locals, result>>
  <2>1. \/ Catcher(pc[p]) = "setStepFailed" /\ pc[p] \in TrySites
        \/ Catcher(pc[p]) = "setCompensationFailed"
        \/ Catcher(pc[p]) = "readBack"
    BY <1>2 DEF Catcher
  <2>2. Catcher(pc[p]) \in Site
    BY <2>1 DEF Site, AwaitSites, CatchSites, CompSites, EndSites
  <2>3. TypeOK'
    BY <1>2, <2>2, GotoType DEF LocalsOK, locals
  <2>4. CurInStep'
    BY <1>2, <2>1 DEF Goto, LocalsOK, locals, CurInStep, CurSites, StepSites,
                TrySites, CatchSites, UndoSites
  <2>5. CallHasRow'
    <3>1. pc[p] # "idle"
      BY EnvironmentAssumption DEF MayReject, AwaitSites, StartSites, StepSites, TrySites,
                CatchSites, UndoSites, CompSites, EndSites
    <3>2. QED
      BY <1>2, <3>1 DEF Goto, CallHasRow
  <2>6. QED
    BY <2>3, <2>4, <2>5
<1>3. QED
  BY <1>1, <1>2 DEF Thrown

LEMMA RejectTyped ==
    ASSUME Typed, NEW p \in Proc, Reject(p)
    PROVE  Typed'
<1>1. StoreOK' /\ (status # "NONE" => status' # "NONE")
  BY DEF Reject, Typed, TypeOK, StoreOK, store
<1>2. {crashes, rejects, claims, resumes}' \subseteq Nat
  BY DEF Reject, Typed, TypeOK
<1>3. QED
  BY <1>1, <1>2, ThrownTyped DEF Reject

\* What the statement of a lost acknowledgement writes, by what it writes to.
LEMMA LostWrites ==
    ASSUME NEW p \in Proc, ReplyLost(p)
    PROVE  /\ \/ UNCHANGED <<status, reason>>
              \/ pc[p] = "setRunning" /\ status' = "RUNNING" /\ reason' = "none"
              \/ pc[p] = "setCompleted" /\ status' = "COMPLETED" /\ reason' = "none"
              \/ pc[p] = "setFailed" /\ status' = "FAILED" /\ reason' = "step"
              \/ pc[p] = "setCompensating" /\ status' = "COMPENSATING" /\ reason' = "none"
              \/ pc[p] = "setCompensated" /\ status' = "COMPENSATED" /\ reason' = "none"
              \/ /\ pc[p] = "setCompensationFailed"
                 /\ status' = "COMPENSATION_FAILED" /\ reason' = "compensation"
           /\ UNCHANGED context \/ (pc[p] \in {"patchContext", "patchUndo"} /\ context' = mem[p])
           /\ \/ UNCHANGED steps
              \/ pc[p] = "createStep" /\ steps[cur[p]] = "NONE" /\ UpdateStepStatus(cur[p], "PENDING")
              \/ pc[p] = "setStepRunning" /\ UpdateStepStatus(cur[p], "RUNNING")
              \/ pc[p] = "setStepCompleted" /\ UpdateStepStatus(cur[p], "COMPLETED")
              \/ pc[p] = "setStepFailed" /\ UpdateStepStatus(cur[p], "FAILED")
              \/ /\ pc[p] = "setStepCompensated" /\ steps[cur[p]] # "NONE"
                 /\ UpdateStepStatus(cur[p], "COMPENSATED")
           /\ \/ UNCHANGED outbox
              \/ /\ HasOutbox
                 /\ \/ pc[p] = "sagaStarted" /\ AppendOutbox("SagaStarted", 0)
                    \/ pc[p] = "stepStarted" /\ AppendOutbox("StepStarted", cur[p])
                    \/ pc[p] = "stepCompleted" /\ AppendOutbox("StepCompleted", cur[p])
                    \/ pc[p] = "sagaFailed" /\ AppendOutbox("SagaFailed", cur[p])
                    \/ pc[p] = "sagaCompleted" /\ AppendOutbox("SagaCompleted", 0)
           /\ UNCHANGED world
           /\ rejects' = rejects + 1
BY DEF ReplyLost, Written, UpdateSagaStatus

\* One statement writes to one table.
LEMMA LostOnce ==
    ASSUME NEW p \in Proc, ReplyLost(p)
    PROVE  /\ UNCHANGED status \/ UNCHANGED <<context, steps, outbox>>
           /\ UNCHANGED steps \/ UNCHANGED <<status, reason, context, outbox>>
           /\ UNCHANGED outbox \/ UNCHANGED <<status, reason, context, steps>>
BY DEF ReplyLost, Written

\* Where the error goes.
LEMMA LostGoes ==
    ASSUME Typed, NEW p \in Proc, ReplyLost(p)
    PROVE  /\ pc[p] # "idle"
           /\ \/ pc'[p] = "idle" /\ pushed'[p] = 0
              \/ /\ UNCHANGED <<locals, result>>
                 /\ \/ pc[p] \in TrySites /\ pc'[p] = "setStepFailed"
                    \/ pc[p] \in UndoSites /\ pc'[p] = "setCompensationFailed"
                    \/ pc[p] \in CompSites /\ pc'[p] = "readBack"
<1>1. pc[p] # "idle"
  BY EnvironmentAssumption DEF ReplyLost, MayReject, AwaitSites, StartSites, StepSites,
     TrySites, CatchSites, UndoSites, CompSites, EndSites
<1>2. pc \in [Proc -> Site] /\ pushed \in [Proc -> 0..N]
  BY DEF Typed, TypeOK, LocalsOK
<1>3. CASE Catcher(pc[p]) = "idle"
  BY <1>1, <1>2, <1>3 DEF ReplyLost, Thrown, Leave
<1>4. CASE Catcher(pc[p]) # "idle"
  BY <1>1, <1>2, <1>4 DEF ReplyLost, Thrown, Goto, Catcher
<1> QED
  BY <1>3, <1>4

LEMMA LostTyped ==
    ASSUME Typed, NEW p \in Proc, ReplyLost(p)
    PROVE  Typed'
<1>1. status' \in SagaStatus \cup {"NONE"} /\ reason' \in {"none", "step", "compensation"}
      /\ (status # "NONE" => status' # "NONE")
  BY LostWrites DEF Typed, TypeOK, StoreOK, SagaStatus
<1>2. context' \subseteq Call
  BY LostWrites DEF Typed, TypeOK, StoreOK, LocalsOK
<1>3. steps' \in [Step -> StepStatus \cup {"NONE"}]
  BY LostWrites DEF Typed, TypeOK, StoreOK, UpdateStepStatus, StepStatus
<1>4. outbox' \in Seq(Event)
  <2>1. pc[p] \in {"stepStarted", "stepCompleted", "sagaFailed"} => cur[p] \in 0..N
    BY DefinitionAssumption DEF Typed, CurInStep, CurSites, StepSites, TrySites, CatchSites, Step
  <2>2. 0 \in 0..N /\ outbox \in Seq(Event)
    BY DefinitionAssumption DEF Typed, TypeOK, StoreOK
  <2>3. QED
    BY <2>1, <2>2, LostWrites, AppendOutboxType DEF OutboxType
<1>5. StoreOK'
  BY <1>1, <1>2, <1>3, <1>4 DEF StoreOK
<1>6. {crashes, rejects, claims, resumes}' \subseteq Nat
  BY DEF ReplyLost, Typed, TypeOK
<1>7. QED
  BY <1>1, <1>5, <1>6, ThrownTyped DEF ReplyLost

LEMMA CrashTyped ==
    ASSUME Typed, NEW p \in Proc, Crash(p)
    PROVE  Typed'
<1> USE DEF Typed, TypeOK, StoreOK, store, world, budget
<1>1. TypeOK'
  BY LeaveType DEF Crash
<1>2. CurInStep' /\ CallHasRow'
  BY DEF Crash, Leave, LocalsOK, CurInStep, CallHasRow, CurSites, StepSites,
         TrySites, CatchSites, UndoSites
<1>3. QED
  BY <1>1, <1>2

LEMMA InitTyped == Init => Typed
<1> SUFFICES ASSUME Init PROVE Typed
  OBVIOUS
<1>1. StoreOK
  BY DEF Init, StoreOK, NoSteps, Event
<1>2. LocalsOK
  BY DefinitionAssumption DEF Init, LocalsOK, NoSteps
<1>3. CurInStep /\ CallHasRow
  BY DEF Init, CurInStep, CallHasRow, CurSites, StepSites, TrySites, CatchSites,
         UndoSites
<1>4. QED
  BY <1>1, <1>2, <1>3 DEF Init, Typed, TypeOK, Site, OtherSites

LEMMA NextTyped ==
    ASSUME Typed, [Next]_vars
    PROVE  Typed'
<1>1. ASSUME NEW p \in Proc, Run(p) PROVE Typed'
  BY <1>1, TypeRun, CurRun, RowRun DEF Typed
<1>2. ASSUME NEW p \in Proc, Reject(p) PROVE Typed'
  BY <1>2, RejectTyped
<1>3. ASSUME NEW p \in Proc, Crash(p) PROVE Typed'
  BY <1>3, CrashTyped
<1>10. ASSUME NEW p \in Proc, ReplyLost(p) PROVE Typed'
  BY <1>10, LostTyped
<1> USE DEF Typed, TypeOK, LocalsOK, CurInStep, CallHasRow, CurSites, StepSites,
            TrySites, CatchSites, UndoSites, store, world, locals, budget, Goto
<1>4. CASE Create
  <2>1. Caller \in Proc
    BY DEF Proc
  <2>2. StoreOK'
    BY <1>4 DEF Create, StoreOK, UpdateSagaStatus, SagaStatus
  <2>3. pc' \in [Proc -> Site]
    BY <1>4, <2>1, GotoType DEF Create, Site, AwaitSites, StartSites
  <2>4. QED
    BY <1>4, <2>1, <2>2, <2>3 DEF Create, UpdateSagaStatus
<1>5. CASE Resume
  <2>1. Caller \in Proc
    BY DEF Proc
  <2>2. pc' \in [Proc -> Site]
    BY <1>5, <2>1, GotoType DEF Resume, Site, AwaitSites, StartSites
  <2>3. QED
    BY <1>5, <2>1, <2>2 DEF Resume, StoreOK
<1>6. ASSUME NEW p \in Workers, Claim(p) PROVE Typed'
  <2>1. p \in Proc
    BY DEF Proc
  <2>2. pc' \in [Proc -> Site]
    BY <1>6, <2>1, GotoType DEF Claim, Site, AwaitSites, StartSites
  <2>3. QED
    BY <1>6, <2>1, <2>2 DEF Claim, StoreOK, Claimable
<1>7. ASSUME NEW call \in Call, CompletesLate(call) PROVE Typed'
  BY <1>7 DEF CompletesLate, StoreOK, Call
<1>8. CASE UNCHANGED vars
  BY <1>8 DEF vars, StoreOK
<1>9. QED
  BY <1>1, <1>2, <1>3, <1>4, <1>5, <1>6, <1>7, <1>8, <1>10 DEF Next

LEMMA AlwaysTyped == Spec => []Typed
BY InitTyped, NextTyped, PTL DEF Spec

\* Type correctness of the executor, its rows and its locals, for every
\* definition and every environment.
THEOREM TypeCorrect == Spec => []TypeOK
<1>1. Typed => TypeOK
  BY DEF Typed
<1>2. QED
  BY AlwaysTyped, <1>1, PTL

-----------------------------------------------------------------------------
(* Frames: which actions of a call write which variable, and what they     *)
(* leave alone of the other calls.                                         *)

LEMMA StepsWriters ==
    ASSUME NEW p \in Proc, Run(p)
    PROVE  \/ UNCHANGED steps
           \/ CreateStep(p) \/ SetStepRunning(p) \/ SetStepCompleted(p)
           \/ SetStepFailed(p) \/ SetStepCompensated(p)
BY DEF Run, GetSaga, SetRunning, SagaStarted, GetSteps, NextStep, StepStarted,
       ActionSucceeds, ActionFails, ActionTimesOut, PatchContext, StepCompleted,
       SetCompleted, SagaCompleted, SetFailed, SagaFailed, SetCompensating,
       CompensationStarted, NextUndo, CompensationSucceeds, CompensationFails,
       CompensationTimesOut, PatchUndo, SetCompensationFailed, CompensationFailed,
       SetCompensated, CompensationCompleted, ReadBack, store, WriteContext,
       WriteStatus, Announce, Publish

LEMMA WorldWriters ==
    ASSUME NEW p \in Proc, Run(p)
    PROVE  \/ UNCHANGED world
           \/ ActionSucceeds(p) \/ ActionTimesOut(p)
           \/ CompensationSucceeds(p) \/ CompensationTimesOut(p)
BY DEF Run, GetSaga, SetRunning, SagaStarted, GetSteps, NextStep, CreateStep,
         SetStepRunning, StepStarted, ActionFails, PatchContext, SetStepCompleted,
         StepCompleted, SetCompleted, SagaCompleted, SetStepFailed, SetFailed,
         SagaFailed, SetCompensating, CompensationStarted, NextUndo,
         CompensationFails, PatchUndo, SetStepCompensated, SetCompensationFailed,
         CompensationFailed, SetCompensated, CompensationCompleted, ReadBack, world,
         WriteContext, WriteStatus, Announce, WriteStep, Publish

\* A call never touches the locals of another.
Keeps(q) ==
    /\ pc'[q] = pc[q]
    /\ cur'[q] = cur[q]
    /\ pushed'[q] = pushed[q]
    /\ seen'[q] = seen[q]

LEMMA OthersKept ==
    ASSUME Typed, NEW p \in Proc, NEW q \in Proc, q # p,
           Run(p) \/ Reject(p) \/ ReplyLost(p) \/ Crash(p)
    PROVE  Keeps(q)
<1> USE DEF Keeps, Typed, TypeOK, LocalsOK, locals, Goto, Leave
<1>1. CASE GetSaga(p)
  BY <1>1 DEF GetSaga
<1>2. CASE SetRunning(p)
  BY <1>2 DEF SetRunning, WriteStatus
<1>3. CASE SagaStarted(p)
  BY <1>3 DEF SagaStarted, Announce
<1>4. CASE GetSteps(p)
  BY <1>4 DEF GetSteps
<1>5. CASE NextStep(p)
  BY <1>5 DEF NextStep
<1>6. CASE CreateStep(p)
  BY <1>6 DEF CreateStep
<1>7. CASE SetStepRunning(p)
  BY <1>7 DEF SetStepRunning, WriteStep
<1>8. CASE StepStarted(p)
  BY <1>8 DEF StepStarted
<1>9. CASE ActionSucceeds(p)
  BY <1>9 DEF ActionSucceeds, TakePatch
<1>10. CASE ActionFails(p)
  BY <1>10 DEF ActionFails, RetryOr
<1>11. CASE ActionTimesOut(p)
  BY <1>11 DEF ActionTimesOut, RetryOr
<1>12. CASE PatchContext(p)
  BY <1>12 DEF PatchContext, WriteContext
<1>13. CASE SetStepCompleted(p)
  BY <1>13 DEF SetStepCompleted
<1>14. CASE StepCompleted(p)
  BY <1>14 DEF StepCompleted
<1>15. CASE SetCompleted(p)
  BY <1>15 DEF SetCompleted, WriteStatus
<1>16. CASE SagaCompleted(p)
  BY <1>16 DEF SagaCompleted
<1>17. CASE SetStepFailed(p)
  BY <1>17 DEF SetStepFailed, WriteStep
<1>18. CASE SetFailed(p)
  BY <1>18 DEF SetFailed, WriteStatus
<1>19. CASE SagaFailed(p)
  BY <1>19 DEF SagaFailed, Announce
<1>20. CASE SetCompensating(p)
  BY <1>20 DEF SetCompensating, WriteStatus
<1>21. CASE CompensationStarted(p)
  BY <1>21 DEF CompensationStarted
<1>22. CASE NextUndo(p)
  BY <1>22 DEF NextUndo
<1>23. CASE CompensationSucceeds(p)
  BY <1>23 DEF CompensationSucceeds, TakePatch
<1>24. CASE CompensationFails(p)
  BY <1>24 DEF CompensationFails, RetryOr
<1>25. CASE CompensationTimesOut(p)
  BY <1>25 DEF CompensationTimesOut, RetryOr
<1>26. CASE PatchUndo(p)
  BY <1>26 DEF PatchUndo, WriteContext
<1>27. CASE SetStepCompensated(p)
  BY <1>27 DEF SetStepCompensated
<1>28. CASE SetCompensationFailed(p)
  BY <1>28 DEF SetCompensationFailed, WriteStatus
<1>29. CASE CompensationFailed(p)
  BY <1>29 DEF CompensationFailed, Publish
<1>30. CASE SetCompensated(p)
  BY <1>30 DEF SetCompensated, WriteStatus
<1>31. CASE CompensationCompleted(p)
  BY <1>31 DEF CompensationCompleted, Publish
<1>32. CASE ReadBack(p)
  BY <1>32 DEF ReadBack
<1>33. CASE Reject(p)
  BY <1>33 DEF Reject, Thrown
<1>34. CASE Crash(p)
  BY <1>34 DEF Crash
<1>36. CASE ReplyLost(p)
  BY <1>36 DEF ReplyLost, Thrown
<1>35. QED
  BY <1>1, <1>2, <1>3, <1>4, <1>5, <1>6, <1>7, <1>8, <1>9, <1>10, <1>11, <1>12, <1>13,
         <1>14, <1>15, <1>16, <1>17, <1>18, <1>19, <1>20, <1>21, <1>22, <1>23,
         <1>24, <1>25, <1>26, <1>27, <1>28, <1>29, <1>30, <1>31, <1>32, <1>33, <1>34,
         <1>36 DEF Run

-----------------------------------------------------------------------------
(* Write-ahead.  The effect of a step comes from a call that stands after  *)
(* the write of RUNNING, and no write takes a row back before that.        *)

Started(i) == steps[i] \notin {"NONE", "PENDING"}

StartedSites == {"stepStarted", "action"} \cup TrySites

CurStarted == \A p \in Proc : pc[p] \in StartedSites => Started(cur[p])

Recorded == CurStarted /\ NoEffectWithoutRecord

LEMMA StartedStays ==
    ASSUME Typed, NEW p \in Proc, Run(p), NEW i \in Step, Started(i)
    PROVE  Started(i)'
<1> USE DEF Typed, TypeOK, StoreOK, Started, UpdateStepStatus
<1>1. CASE UNCHANGED steps
  BY <1>1
<1>2. CASE CreateStep(p)
  BY <1>2 DEF CreateStep
<1>3. CASE SetStepRunning(p)
  BY <1>3 DEF SetStepRunning, WriteStep
<1>4. CASE SetStepCompleted(p)
  BY <1>4 DEF SetStepCompleted
<1>5. CASE SetStepFailed(p)
  BY <1>5 DEF SetStepFailed, WriteStep
<1>6. CASE SetStepCompensated(p)
  BY <1>6 DEF SetStepCompensated
<1>7. QED
  BY <1>1, <1>2, <1>3, <1>4, <1>5, <1>6, StepsWriters

LEMMA StartedStaysLost ==
    ASSUME Typed, NEW p \in Proc, ReplyLost(p), NEW i \in Step, Started(i)
    PROVE  Started(i)'
BY LostWrites DEF Typed, TypeOK, StoreOK, Started, UpdateStepStatus

LEMMA CurStartedRun ==
    ASSUME Typed, CurStarted, NEW p \in Proc, Run(p)
    PROVE  CurStarted'
<1>1. SUFFICES ASSUME NEW q \in Proc, pc'[q] \in StartedSites
               PROVE  Started(cur[q])'
  BY DEF CurStarted
<1>2. CASE q # p
  <2>1. Keeps(q)
    BY <1>2, OthersKept
  <2>2. Started(cur[q]) /\ cur[q] \in Step
    BY <1>1, <2>1 DEF Keeps, CurStarted, Typed, CurInStep, CurSites, StepSites,
           StartedSites
  <2>3. QED
    BY <2>1, <2>2, StartedStays DEF Keeps, Started
<1>3. CASE q = p
  <2> USE DEF Typed, TypeOK, StoreOK, LocalsOK, locals, Goto, Leave
  <2>1. \/ SetStepRunning(p)
        \/ SetStepCompleted(p)
        \/ pc[p] \in StartedSites /\ UNCHANGED <<cur, steps>>
    BY <1>1, <1>3 DEF Run, StartedSites, TrySites, GetSaga, SetRunning, SagaStarted,
           GetSteps, NextStep, CreateStep, StepStarted, ActionSucceeds, ActionFails,
           ActionTimesOut, PatchContext, StepCompleted, SetCompleted, SagaCompleted,
           SetStepFailed, SetFailed, SagaFailed, SetCompensating, CompensationStarted,
           NextUndo, CompensationSucceeds, CompensationFails, CompensationTimesOut,
           PatchUndo, SetStepCompensated, SetCompensationFailed, CompensationFailed,
           SetCompensated, CompensationCompleted, ReadBack, store, WriteContext,
           RetryOr, TakePatch, WriteStatus, Announce, WriteStep, Publish
  <2>2. CASE SetStepRunning(p)
    BY <1>3, <2>2 DEF SetStepRunning, CurInStep, CurSites, StepSites, Started,
           UpdateStepStatus, WriteStep
  <2>3. CASE SetStepCompleted(p)
    BY <1>3, <2>3 DEF SetStepCompleted, CurInStep, CurSites, TrySites, Started,
           UpdateStepStatus
  <2>4. CASE UNCHANGED <<cur, steps>> /\ pc[p] \in StartedSites
    BY <1>3, <2>4 DEF CurStarted, Started
  <2>5. QED
    BY <2>1, <2>2, <2>3, <2>4
<1>4. QED
  BY <1>2, <1>3

LEMMA NoEffectRun ==
    ASSUME Typed, Recorded, NEW p \in Proc, Run(p)
    PROVE  NoEffectWithoutRecord'
<1> USE DEF Recorded, NoEffectWithoutRecord
<1>1. SUFFICES ASSUME NEW i \in Step, i \in effects' \/ <<"do", i>> \in late'
               PROVE  Started(i)'
  BY DEF Started
<1>2. CASE i \in effects \/ <<"do", i>> \in late
  BY <1>2, StartedStays DEF Started
<1>3. CASE ~(i \in effects \/ <<"do", i>> \in late)
  <2>1. i = cur[p] /\ pc[p] = "action" /\ UNCHANGED steps
    <3>1. CASE UNCHANGED world
      BY <1>1, <1>3, <3>1 DEF world
    <3>2. CASE ActionSucceeds(p)
      BY <1>1, <1>3, <3>2 DEF ActionSucceeds, store
    <3>3. CASE ActionTimesOut(p)
      BY <1>1, <1>3, <3>3 DEF ActionTimesOut, store
    <3>4. CASE CompensationSucceeds(p)
      BY <1>1, <1>3, <3>4 DEF CompensationSucceeds
    <3>5. CASE CompensationTimesOut(p)
      BY <1>1, <1>3, <3>5 DEF CompensationTimesOut
    <3>6. QED
      BY <3>1, <3>2, <3>3, <3>4, <3>5, WorldWriters
  <2>2. QED
    BY <2>1 DEF CurStarted, StartedSites, Started
<1>4. QED
  BY <1>2, <1>3

LEMMA RecordedLost ==
    ASSUME Typed, Recorded, NEW p \in Proc, ReplyLost(p)
    PROVE  Recorded'
<1>1. NoEffectWithoutRecord'
  <2>1. UNCHANGED world
    BY LostWrites
  <2> QED
    BY <2>1, StartedStaysLost DEF Recorded, NoEffectWithoutRecord, Started, world
<1>2. ASSUME NEW q \in Proc, pc'[q] \in StartedSites PROVE Started(cur[q])'
  <2>1. q # p
    BY <1>2, LostGoes DEF StartedSites, TrySites
  <2>2. pc[q] \in StartedSites /\ cur'[q] = cur[q]
    BY <1>2, <2>1, OthersKept DEF Keeps
  <2>3. Started(cur[q]) /\ cur[q] \in Step
    BY <2>2 DEF Recorded, CurStarted, Typed, CurInStep, CurSites, StepSites, StartedSites
  <2> QED
    BY <2>2, <2>3, StartedStaysLost DEF Started
<1> QED
  BY <1>1, <1>2 DEF Recorded, CurStarted

LEMMA InitRecorded == Init => Recorded
BY DEF Init, Recorded, CurStarted, StartedSites, TrySites, NoEffectWithoutRecord

LEMMA NextRecorded ==
    ASSUME Typed, Recorded, [Next]_vars
    PROVE  Recorded'
<1>1. ASSUME NEW p \in Proc, Run(p) PROVE Recorded'
  BY <1>1, CurStartedRun, NoEffectRun DEF Recorded
<1>10. ASSUME NEW p \in Proc, ReplyLost(p) PROVE Recorded'
  BY <1>10, RecordedLost
<1> USE DEF Recorded, CurStarted, NoEffectWithoutRecord, Started, StartedSites,
            TrySites, Typed, TypeOK, LocalsOK, Goto, Leave, store, world, locals
<1>2. ASSUME NEW p \in Proc, Reject(p) PROVE Recorded'
  BY <1>2 DEF Reject, Thrown, Catcher
<1>3. ASSUME NEW p \in Proc, Crash(p) PROVE Recorded'
  BY <1>3 DEF Crash
<1>4. CASE Create
  BY <1>4 DEF Create
<1>5. CASE Resume
  BY <1>5 DEF Resume
<1>6. ASSUME NEW p \in Workers, Claim(p) PROVE Recorded'
  BY <1>6 DEF Claim
<1>7. ASSUME NEW call \in Call, CompletesLate(call) PROVE Recorded'
  BY <1>7 DEF CompletesLate, Call
<1>8. CASE UNCHANGED vars
  BY <1>8 DEF vars
<1>9. QED
  BY <1>1, <1>2, <1>3, <1>4, <1>5, <1>6, <1>7, <1>8, <1>10 DEF Next

LEMMA AlwaysRecorded == Spec => []Recorded
BY AlwaysTyped, InitRecorded, NextRecorded, PTL DEF Spec

\* Write-ahead: whatever fails and whatever runs beside it, no effect exists,
\* nor can one still arrive, without a row that says its step was started.
THEOREM WriteAhead == Spec => []NoEffectWithoutRecord
<1>1. Recorded => NoEffectWithoutRecord
  BY DEF Recorded
<1>2. QED
  BY AlwaysRecorded, <1>1, PTL

-----------------------------------------------------------------------------
(* One call at a time.  When a saga is resumed only while nobody runs it,  *)
(* where the call stands tells the status of the row.                      *)

RunningSites == {"sagaStarted", "getSteps", "nextStep", "action", "setStepFailed",
                 "setFailed", "setCompleted"} \cup StepSites \cup TrySites
FailedSites == {"sagaFailed", "setCompensating"}
CompensatingSites == {"compensationStarted", "nextUndo", "compensation",
                      "setCompensationFailed", "setCompensated"} \cup UndoSites

Alone == \A p, q \in Proc : pc[p] # "idle" /\ pc[q] # "idle" => p = q

StatusAt(p) ==
    /\ pc[p] \in RunningSites => status = "RUNNING"
    /\ pc[p] \in FailedSites => status = "FAILED"
    /\ pc[p] \in CompensatingSites => status = "COMPENSATING"
    /\ p \in Workers /\ pc[p] \in {"getSaga", "setRunning"} => status \in Claimable

Sequential == Alone /\ \A p \in Proc : StatusAt(p)

LEMMA RunNotIdle == ASSUME NEW p \in Proc, Run(p) PROVE pc[p] # "idle"
BY DEF Run, GetSaga, SetRunning, SagaStarted, GetSteps, NextStep, CreateStep,
       SetStepRunning, StepStarted, ActionSucceeds, ActionFails, ActionTimesOut,
       PatchContext, SetStepCompleted, StepCompleted, SetCompleted, SagaCompleted,
       SetStepFailed, SetFailed, SagaFailed, SetCompensating, CompensationStarted,
       NextUndo, CompensationSucceeds, CompensationFails, CompensationTimesOut,
       PatchUndo, SetStepCompensated, SetCompensationFailed, CompensationFailed,
       SetCompensated, CompensationCompleted, ReadBack, WriteContext, WriteStatus,
       Announce, WriteStep, Publish

LEMMA OthersIdle ==
    ASSUME Typed, Alone, NEW p \in Proc, Run(p) \/ Reject(p) \/ ReplyLost(p) \/ Crash(p),
           NEW q \in Proc, q # p
    PROVE  pc[q] = "idle" /\ pc'[q] = "idle"
<1>1. pc[p] # "idle"
  <2>1. CASE Reject(p)
    BY <2>1, EnvironmentAssumption DEF Reject, Thrown, MayReject, AwaitSites, StartSites, StepSites,
           TrySites, CatchSites, UndoSites, CompSites, EndSites
  <2>2. CASE ReplyLost(p)
    BY <2>2, LostGoes
  <2>3. QED
    BY <2>1, <2>2, RunNotIdle DEF Crash
<1>2. QED
  BY <1>1, OthersKept DEF Alone, Keeps

LEMMA AloneStays ==
    ASSUME Typed, Alone, NEW p \in Proc, Run(p) \/ Reject(p) \/ ReplyLost(p) \/ Crash(p)
    PROVE  Alone'
BY OthersIdle DEF Alone

LEMMA StatusRun ==
    ASSUME Typed, NEW p \in Proc, StatusAt(p), Run(p)
    PROVE  StatusAt(p)'
<1> USE DEF Typed, TypeOK, StatusAt, RunningSites, FailedSites, CompensatingSites,
            StepSites, TrySites, UndoSites, Goto, UpdateSagaStatus, Claimable
<1>1. CASE GetSaga(p)
  BY <1>1 DEF GetSaga, store
<1>2. CASE SetRunning(p)
  BY <1>2 DEF SetRunning, WriteStatus
<1>3. CASE SagaStarted(p)
  BY <1>3 DEF SagaStarted, Announce
<1>4. CASE GetSteps(p)
  BY <1>4 DEF GetSteps, store
<1>5. CASE NextStep(p)
  BY <1>5 DEF NextStep, store
<1>6. CASE CreateStep(p)
  BY <1>6 DEF CreateStep
<1>7. CASE SetStepRunning(p)
  BY <1>7 DEF SetStepRunning, WriteStep
<1>8. CASE StepStarted(p)
  BY <1>8 DEF StepStarted
<1>9. CASE ActionSucceeds(p)
  BY <1>9 DEF ActionSucceeds, TakePatch, store
<1>10. CASE ActionFails(p)
  BY <1>10 DEF ActionFails, RetryOr, store
<1>11. CASE ActionTimesOut(p)
  BY <1>11 DEF ActionTimesOut, RetryOr, store
<1>12. CASE PatchContext(p)
  BY <1>12 DEF PatchContext, WriteContext
<1>13. CASE SetStepCompleted(p)
  BY <1>13 DEF SetStepCompleted
<1>14. CASE StepCompleted(p)
  BY <1>14 DEF StepCompleted
<1>15. CASE SetCompleted(p)
  BY <1>15 DEF SetCompleted, WriteStatus
<1>16. CASE SagaCompleted(p)
  BY <1>16 DEF SagaCompleted, Leave
<1>17. CASE SetStepFailed(p)
  BY <1>17 DEF SetStepFailed, WriteStep
<1>18. CASE SetFailed(p)
  BY <1>18 DEF SetFailed, WriteStatus
<1>19. CASE SagaFailed(p)
  BY <1>19 DEF SagaFailed, Announce
<1>20. CASE SetCompensating(p)
  BY <1>20 DEF SetCompensating, WriteStatus
<1>21. CASE CompensationStarted(p)
  BY <1>21 DEF CompensationStarted, store
<1>22. CASE NextUndo(p)
  BY <1>22 DEF NextUndo, store
<1>23. CASE CompensationSucceeds(p)
  BY <1>23 DEF CompensationSucceeds, TakePatch, store
<1>24. CASE CompensationFails(p)
  BY <1>24 DEF CompensationFails, RetryOr, store
<1>25. CASE CompensationTimesOut(p)
  BY <1>25 DEF CompensationTimesOut, RetryOr, store
<1>26. CASE PatchUndo(p)
  BY <1>26 DEF PatchUndo, WriteContext
<1>27. CASE SetStepCompensated(p)
  BY <1>27 DEF SetStepCompensated
<1>28. CASE SetCompensationFailed(p)
  BY <1>28 DEF SetCompensationFailed, WriteStatus
<1>29. CASE CompensationFailed(p)
  BY <1>29 DEF CompensationFailed, store, Publish
<1>30. CASE SetCompensated(p)
  BY <1>30 DEF SetCompensated, WriteStatus
<1>31. CASE CompensationCompleted(p)
  BY <1>31 DEF CompensationCompleted, store, Publish
<1>32. CASE ReadBack(p)
  BY <1>32 DEF ReadBack, Leave, store
<1>33. QED
  BY <1>1, <1>2, <1>3, <1>4, <1>5, <1>6, <1>7, <1>8, <1>9, <1>10, <1>11, <1>12, <1>13,
         <1>14, <1>15, <1>16, <1>17, <1>18, <1>19, <1>20, <1>21, <1>22, <1>23, <1>24,
         <1>25, <1>26, <1>27, <1>28, <1>29, <1>30, <1>31, <1>32 DEF Run

LEMMA InitSequential == Init => Sequential
BY DEF Init, Sequential, Alone, StatusAt, RunningSites, FailedSites, CompensatingSites,
       StepSites, TrySites, UndoSites

\* Nobody comes to run the saga while another does: resumes wait for that, or
\* there are none.
OneByOne == Exclusive \/ (MaxClaims = 0 /\ MaxResumes = 0)

LEMMA NextSequential ==
    ASSUME OneByOne, Typed, Sequential, [Next]_vars
    PROVE  Sequential'
<1> USE DEF RunningSites, FailedSites, CompensatingSites, StepSites, TrySites, UndoSites
<1>1. ASSUME NEW p \in Proc, Run(p) \/ Reject(p) \/ ReplyLost(p) \/ Crash(p), StatusAt(p)'
      PROVE  Sequential'
  <2>1. ASSUME NEW q \in Proc, q # p PROVE StatusAt(q)'
    BY <1>1, <2>1, OthersIdle DEF Sequential, StatusAt
  <2>2. QED
    BY <1>1, <2>1, AloneStays DEF Sequential
<1>2. ASSUME NEW p \in Proc, Run(p) PROVE Sequential'
  BY <1>1, <1>2, StatusRun DEF Sequential
<1>3. ASSUME NEW p \in Proc, Reject(p) PROVE Sequential'
  <2>1. StatusAt(p)'
    BY <1>3 DEF Reject, Thrown, Catcher, Goto, Leave, Sequential, StatusAt, CompSites, store,
                Typed, TypeOK
  <2>2. QED
    BY <1>1, <1>3, <2>1
<1>4. ASSUME NEW p \in Proc, Crash(p) PROVE Sequential'
  <2>1. StatusAt(p)'
    BY <1>4 DEF Crash, Leave, StatusAt, Typed, TypeOK
  <2>2. QED
    BY <1>1, <1>4, <2>1
<1>11. ASSUME NEW p \in Proc, ReplyLost(p) PROVE Sequential'
  <2>1. /\ pc'[p] = "setStepFailed" => pc[p] \in TrySites
        /\ pc'[p] = "setCompensationFailed" => pc[p] \in UndoSites
        /\ pc'[p] \in {"idle", "setStepFailed", "setCompensationFailed", "readBack"}
    BY <1>11, LostGoes
  <2>2. pc[p] \in TrySites \cup UndoSites => UNCHANGED status
    BY <1>11, LostWrites
  <2>3. StatusAt(p)'
    BY <2>1, <2>2 DEF Sequential, StatusAt
  <2>4. QED
    BY <1>1, <1>11, <2>3
<1> USE DEF Sequential, Alone, StatusAt, Typed, TypeOK, Goto, store
<1>5. CASE Create
  <2>1. Quiet
    BY <1>5 DEF Create, CallHasRow, Quiet
  <2>2. QED
    BY <1>5, <2>1, EnvironmentAssumption DEF Create, Quiet, Proc
<1>6. CASE Resume
  BY <1>6, EnvironmentAssumption DEF Resume, Quiet, Proc, OneByOne
<1>7. ASSUME NEW p \in Workers, Claim(p) PROVE Sequential'
  BY <1>7 DEF Claim, Quiet, Proc, OneByOne
<1>8. ASSUME NEW call \in Call, CompletesLate(call) PROVE Sequential'
  BY <1>8 DEF CompletesLate
<1>9. CASE UNCHANGED vars
  BY <1>9 DEF vars
<1>10. QED
  BY <1>2, <1>3, <1>4, <1>5, <1>6, <1>7, <1>8, <1>9, <1>11 DEF Next

LEMMA AlwaysSequential == ASSUME Exclusive PROVE Spec => []Sequential
<1>1. OneByOne
  BY DEF OneByOne
<1> QED
  BY <1>1, AlwaysTyped, InitSequential, NextSequential, PTL DEF Spec

LEMMA StatusWriters ==
    ASSUME NEW p \in Proc, Run(p)
    PROVE  \/ UNCHANGED <<status, reason>>
           \/ SetRunning(p) \/ SetCompleted(p) \/ SetFailed(p) \/ SetCompensating(p)
           \/ SetCompensationFailed(p) \/ SetCompensated(p)
BY DEF Run, GetSaga, SagaStarted, GetSteps, NextStep, CreateStep, SetStepRunning,
       StepStarted, ActionSucceeds, ActionFails, ActionTimesOut, PatchContext,
       SetStepCompleted, StepCompleted, SagaCompleted, SetStepFailed, SagaFailed,
       CompensationStarted, NextUndo, CompensationSucceeds, CompensationFails,
       CompensationTimesOut, PatchUndo, SetStepCompensated, CompensationFailed,
       CompensationCompleted, ReadBack, store, WriteContext, Announce, WriteStep,
       Publish

\* A terminal status is left by the application's setRunning only.
LEMMA EndStays ==
    ASSUME Sequential, Typed, [Next]_vars
    PROVE  status \in Terminal => status' = status \/ pc[Caller] = "setRunning"
<1>1. SUFFICES ASSUME status \in Terminal, status' # status
               PROVE  pc[Caller] = "setRunning"
  OBVIOUS
<1> USE DEF Terminal
<1>2. ASSUME NEW p \in Proc, Run(p) PROVE pc[Caller] = "setRunning"
  <2>1. CASE SetRunning(p)
    BY <1>1, <2>1 DEF SetRunning, Sequential, StatusAt, Claimable, Proc,
           WriteStatus
  <2>2. CASE SetCompleted(p) \/ SetFailed(p)
    BY <1>1, <2>2 DEF SetCompleted, SetFailed, Sequential, StatusAt,
           RunningSites, WriteStatus
  <2>3. CASE SetCompensating(p)
    BY <1>1, <2>3 DEF SetCompensating, Sequential, StatusAt, FailedSites,
           WriteStatus
  <2>4. CASE SetCompensationFailed(p) \/ SetCompensated(p)
    BY <1>1, <2>4 DEF SetCompensationFailed, SetCompensated, Sequential,
           StatusAt, CompensatingSites, WriteStatus
  <2>5. QED
    BY <1>1, <1>2, <2>1, <2>2, <2>3, <2>4, StatusWriters
<1>3. ~Create
  BY <1>1 DEF Create
<1>5. ASSUME NEW p \in Proc, ReplyLost(p) PROVE pc[Caller] = "setRunning"
  <2>1. pc[p] \in {"setRunning", "setCompleted", "setFailed", "setCompensating",
                   "setCompensated", "setCompensationFailed"}
    BY <1>1, <1>5, LostWrites
  <2>2. StatusAt(p)
    BY DEF Sequential
  <2> QED
    BY <1>1, <2>1, <2>2 DEF StatusAt, Claimable, Proc, RunningSites, FailedSites,
       CompensatingSites
<1>4. QED
  BY <1>1, <1>2, <1>3, <1>5 DEF Next, Resume, Claim, Reject, Thrown, Crash, CompletesLate,
         store, vars

\* The end of a saga is final: with one call at a time nothing but a resume
\* by the application moves the row away from a terminal status.
THEOREM EndIsFinal == ASSUME Exclusive PROVE Spec => TerminalStable
BY EndStays, AlwaysTyped, AlwaysSequential, PTL DEF Spec, TerminalStable

-----------------------------------------------------------------------------
(* No hole in the steps.  Where the loop stands tells which steps are      *)
(* settled, which have no row, and that existingSteps is not stale for the *)
(* steps still to come.                                                    *)

\* The sites at which cur is a step that is not settled yet.
WorkSites == {"action", "patchContext", "setStepCompleted", "setStepFailed"} \cup StepSites

SettledBefore(k) == \A i \in Step : i < k => steps[i] \in Settled
NoneAfter(k) == \A i \in Step : i > k => steps[i] = "NONE"

LoopAt(p) ==
    /\ pc[p] \in WorkSites \cup {"nextStep", "stepCompleted"} => SettledBefore(cur[p])
    /\ pc[p] \in WorkSites \cup {"stepCompleted"} =>
           /\ NoneAfter(cur[p])
           /\ \A i \in Step : i > cur[p] => seen[p][i] = "NONE"
    /\ pc[p] = "stepCompleted" => steps[cur[p]] = "COMPLETED"
    /\ pc[p] = "nextStep" => \A i \in Step : i >= cur[p] => seen[p][i] = steps[i]

NoHole == NoStepAheadOfAnother /\ \A p \in Proc : LoopAt(p)

LEMMA StepOrder ==
    /\ N \in Nat
    /\ \A i, k \in Step : i # k => i < k \/ i > k
    /\ \A i, k \in Step : i < k => i # k /\ ~(i > k)
    /\ \A i, k \in Step : i >= k => i = k \/ i > k
    /\ \A i, k \in Step : i >= k + 1 <=> i > k
    /\ \A i, k \in Step : i < k + 1 <=> i < k \/ i = k
BY DefinitionAssumption DEF Step

LEMMA NoHoleRun ==
    ASSUME Typed, NoStepAheadOfAnother, NEW p \in Proc, LoopAt(p), Run(p)
    PROVE  NoStepAheadOfAnother' /\ LoopAt(p)'
<1> USE DEF LoopAt, WorkSites, StepSites, Goto
<1>a. \A i, j \in Step : i < j /\ steps[j] # "NONE" => steps[i] \in Settled
  BY DEF NoStepAheadOfAnother
<1>b. /\ pc \in [Proc -> Site]
      /\ cur \in [Proc -> 0..(N + 1)]
      /\ steps \in [Step -> StepStatus \cup {"NONE"}]
      /\ seen \in [Proc -> [Step -> StepStatus \cup {"NONE"}]]
      /\ pc[p] \in CurSites => cur[p] \in Step
  BY DEF Typed, TypeOK, StoreOK, LocalsOK, CurInStep
<1>1. CASE GetSaga(p)
  BY <1>1, <1>a, <1>b DEF GetSaga, store, NoStepAheadOfAnother, SettledBefore, NoneAfter
<1>2. CASE SetRunning(p)
  BY <1>2, <1>a, <1>b DEF SetRunning, locals, NoStepAheadOfAnother, SettledBefore,
         NoneAfter, WriteStatus
<1>3. CASE SagaStarted(p)
  BY <1>3, <1>a, <1>b DEF SagaStarted, locals, NoStepAheadOfAnother, SettledBefore,
         NoneAfter, Announce
<1>4. CASE GetSteps(p)
  BY <1>4, <1>a, <1>b, DefinitionAssumption DEF GetSteps, store, NoStepAheadOfAnother,
                             SettledBefore, Step
<1>5. CASE NextStep(p)
  <2>1. UNCHANGED <<steps, seen>> /\ pc[p] = "nextStep"
    BY <1>5 DEF NextStep, store
  <2>2. NoStepAheadOfAnother'
    BY <1>a, <2>1 DEF NoStepAheadOfAnother
  <2>3. CASE pc'[p] = "setCompleted"
    BY <2>2, <2>3
  <2>4. CASE /\ pc' = pc
             /\ cur[p] \in Step
             /\ seen[p][cur[p]] \in Settled
             /\ cur'[p] = cur[p] + 1
    <3>1. steps[cur[p]] \in Settled
      <4>1. \A i \in Step : i >= cur[p] => seen[p][i] = steps[i]
        BY <2>1
      <4>2. cur[p] >= cur[p]
        BY <2>4, DefinitionAssumption DEF Step
      <4>3. QED
        BY <2>4, <4>1, <4>2
    <3>2. \A i \in Step : i < cur[p] + 1 => i < cur[p] \/ i = cur[p]
      BY <2>4, DefinitionAssumption DEF Step
    <3>3. SettledBefore(cur[p])
      BY <2>1
    <3>4. SettledBefore(cur[p])'
      BY <2>1, <2>4, <3>1, <3>2, <3>3 DEF SettledBefore
    <3>5. \A i \in Step : i >= cur'[p] => seen'[p][i] = steps'[i]
      <4>1. \A i \in Step : i >= cur[p] => seen[p][i] = steps[i]
        BY <2>1
      <4>2. \A i \in Step : i >= cur[p] + 1 => i >= cur[p]
        BY <2>4, DefinitionAssumption DEF Step
      <4>3. QED
        BY <2>1, <2>4, <4>1, <4>2
    <3>6. QED
      BY <2>1, <2>2, <2>4, <3>4, <3>5
  <2>5. CASE /\ pc'[p] \in {"setStepRunning", "createStep"}
             /\ cur' = cur
             /\ cur[p] \in Step
             /\ seen[p][cur[p]] \notin Settled
    <3>1. steps[cur[p]] \notin Settled
      <4>1. \A i \in Step : i >= cur[p] => seen[p][i] = steps[i]
        BY <2>1
      <4>2. cur[p] >= cur[p]
        BY <2>5, DefinitionAssumption DEF Step
      <4>3. QED
        BY <2>5, <4>1, <4>2
    <3>2. NoneAfter(cur[p])
      BY <1>a, <2>5, <3>1 DEF NoneAfter
    <3>3. \A i \in Step : i > cur[p] => seen[p][i] = "NONE"
      BY <2>1, <2>5, <3>2, DefinitionAssumption DEF NoneAfter, Step
    <3>4. QED
      BY <2>1, <2>2, <2>5, <3>2, <3>3 DEF SettledBefore, NoneAfter
  <2>6. QED
    BY <1>5, <1>b, <2>3, <2>4, <2>5 DEF NextStep, IsDone
<1>6. CASE CreateStep(p)
  <2>1. /\ pc[p] = "createStep" /\ cur[p] \in Step
        /\ UNCHANGED <<cur, seen>>
    BY <1>6, <1>b DEF CreateStep, CurSites, TrySites, CatchSites, locals
  <2>2. \A i \in Step : i # cur[p] => steps'[i] = steps[i]
    BY <1>6, <1>b, <2>1 DEF CreateStep, UpdateStepStatus
  <2>3. SettledBefore(cur[p]) /\ NoneAfter(cur[p])
    BY <2>1
  <2>4. SettledBefore(cur[p])' /\ NoneAfter(cur[p])'
    BY <2>1, <2>2, <2>3, StepOrder DEF SettledBefore, NoneAfter
  <2>5. NoStepAheadOfAnother'
    BY <2>1, <2>4, StepOrder DEF NoStepAheadOfAnother, SettledBefore, NoneAfter
  <2>6. QED
    BY <1>6, <1>b, <2>1, <2>4, <2>5 DEF CreateStep
<1>7. CASE SetStepRunning(p)
  <2>1. /\ pc[p] = "setStepRunning" /\ cur[p] \in Step
        /\ UNCHANGED <<cur, seen>>
    BY <1>7, <1>b DEF SetStepRunning, CurSites, TrySites, CatchSites, locals, WriteStep
  <2>2. \A i \in Step : i # cur[p] => steps'[i] = steps[i]
    BY <1>7, <1>b, <2>1 DEF SetStepRunning, UpdateStepStatus, WriteStep
  <2>3. SettledBefore(cur[p]) /\ NoneAfter(cur[p])
    BY <2>1
  <2>4. SettledBefore(cur[p])' /\ NoneAfter(cur[p])'
    BY <2>1, <2>2, <2>3, StepOrder DEF SettledBefore, NoneAfter
  <2>5. NoStepAheadOfAnother'
    BY <2>1, <2>4, StepOrder DEF NoStepAheadOfAnother, SettledBefore, NoneAfter
  <2>6. QED
    BY <1>7, <1>b, <2>1, <2>4, <2>5 DEF SetStepRunning, WriteStep
<1>8. CASE StepStarted(p)
  BY <1>8, <1>a, <1>b DEF StepStarted, NoStepAheadOfAnother, SettledBefore, NoneAfter
<1>9. CASE ActionSucceeds(p)
  BY <1>9, <1>a, <1>b DEF ActionSucceeds, TakePatch, store, NoStepAheadOfAnother,
         SettledBefore, NoneAfter
<1>10. CASE ActionFails(p)
  BY <1>10, <1>a, <1>b DEF ActionFails, RetryOr, store, NoStepAheadOfAnother,
         SettledBefore, NoneAfter
<1>11. CASE ActionTimesOut(p)
  BY <1>11, <1>a, <1>b DEF ActionTimesOut, RetryOr, store, NoStepAheadOfAnother,
         SettledBefore, NoneAfter
<1>12. CASE PatchContext(p)
  BY <1>12, <1>a, <1>b DEF PatchContext, WriteContext, locals, NoStepAheadOfAnother,
         SettledBefore, NoneAfter
<1>13. CASE SetStepCompleted(p)
  <2>1. /\ pc[p] = "setStepCompleted" /\ cur[p] \in Step
        /\ UNCHANGED <<cur, seen>>
    BY <1>13, <1>b DEF SetStepCompleted, CurSites, TrySites, CatchSites, locals
  <2>2. \A i \in Step : i # cur[p] => steps'[i] = steps[i]
    BY <1>13, <1>b, <2>1 DEF SetStepCompleted, UpdateStepStatus
  <2>3. SettledBefore(cur[p]) /\ NoneAfter(cur[p])
    BY <2>1
  <2>4. SettledBefore(cur[p])' /\ NoneAfter(cur[p])'
    BY <2>1, <2>2, <2>3, StepOrder DEF SettledBefore, NoneAfter
  <2>5. NoStepAheadOfAnother'
    BY <2>1, <2>4, StepOrder DEF NoStepAheadOfAnother, SettledBefore, NoneAfter
  <2>6. steps'[cur'[p]] = "COMPLETED"
    BY <1>13, <1>b, <2>1 DEF SetStepCompleted, UpdateStepStatus
  <2>7. QED
    BY <1>13, <1>b, <2>1, <2>4, <2>5, <2>6 DEF SetStepCompleted
<1>14. CASE StepCompleted(p)
  <2>1. /\ pc[p] = "stepCompleted" /\ cur[p] \in Step
        /\ UNCHANGED <<steps, seen>>
        /\ cur'[p] = cur[p] + 1
    BY <1>14, <1>b DEF StepCompleted, CurSites, TrySites
  <2>2. \A i \in Step : i < cur[p] + 1 => i < cur[p] \/ i = cur[p]
    BY <2>1, DefinitionAssumption DEF Step
  <2>3. SettledBefore(cur[p])'
    BY <2>1, <2>2 DEF SettledBefore, Settled
  <2>4. \A i \in Step : i >= cur'[p] => seen'[p][i] = steps'[i]
    <3>1. \A i \in Step : i > cur[p] => seen[p][i] = "NONE" /\ steps[i] = "NONE"
      BY <2>1 DEF NoneAfter
    <3>2. QED
      BY <2>1, <3>1, StepOrder
  <2>5. NoStepAheadOfAnother'
    BY <1>a, <2>1 DEF NoStepAheadOfAnother
  <2>6. QED
    BY <1>14, <1>b, <2>3, <2>4, <2>5 DEF StepCompleted
<1>15. CASE SetCompleted(p)
  BY <1>15, <1>a, <1>b DEF SetCompleted, locals, NoStepAheadOfAnother, SettledBefore,
         NoneAfter, WriteStatus
<1>16. CASE SagaCompleted(p)
  BY <1>16, <1>a, <1>b DEF SagaCompleted, Leave, NoStepAheadOfAnother, SettledBefore,
         NoneAfter
<1>17. CASE SetStepFailed(p)
  <2>1. /\ pc[p] = "setStepFailed" /\ cur[p] \in Step
        /\ UNCHANGED <<cur, seen>>
    BY <1>17, <1>b DEF SetStepFailed, CurSites, TrySites, CatchSites, locals, WriteStep
  <2>2. \A i \in Step : i # cur[p] => steps'[i] = steps[i]
    BY <1>17, <1>b, <2>1 DEF SetStepFailed, UpdateStepStatus, WriteStep
  <2>3. SettledBefore(cur[p]) /\ NoneAfter(cur[p])
    BY <2>1
  <2>4. SettledBefore(cur[p])' /\ NoneAfter(cur[p])'
    BY <2>1, <2>2, <2>3, StepOrder DEF SettledBefore, NoneAfter
  <2>5. NoStepAheadOfAnother'
    BY <2>1, <2>4, StepOrder DEF NoStepAheadOfAnother, SettledBefore, NoneAfter
  <2>6. QED
    BY <1>17, <1>b, <2>1, <2>4, <2>5 DEF SetStepFailed, WriteStep
<1>18. CASE SetFailed(p)
  BY <1>18, <1>a, <1>b DEF SetFailed, locals, NoStepAheadOfAnother, SettledBefore,
         NoneAfter, WriteStatus
<1>19. CASE SagaFailed(p)
  BY <1>19, <1>a, <1>b DEF SagaFailed, locals, NoStepAheadOfAnother, SettledBefore,
         NoneAfter, Announce
<1>20. CASE SetCompensating(p)
  BY <1>20, <1>a, <1>b DEF SetCompensating, locals, NoStepAheadOfAnother, SettledBefore,
         NoneAfter, WriteStatus
<1>21. CASE CompensationStarted(p)
  BY <1>21, <1>a, <1>b DEF CompensationStarted, store, NoStepAheadOfAnother,
         SettledBefore, NoneAfter
<1>22. CASE NextUndo(p)
  BY <1>22, <1>a, <1>b DEF NextUndo, store, NoStepAheadOfAnother, SettledBefore,
         NoneAfter
<1>23. CASE CompensationSucceeds(p)
  BY <1>23, <1>a, <1>b DEF CompensationSucceeds, TakePatch, store, NoStepAheadOfAnother,
         SettledBefore, NoneAfter
<1>24. CASE CompensationFails(p)
  BY <1>24, <1>a, <1>b DEF CompensationFails, RetryOr, store, NoStepAheadOfAnother,
         SettledBefore, NoneAfter
<1>25. CASE CompensationTimesOut(p)
  BY <1>25, <1>a, <1>b DEF CompensationTimesOut, RetryOr, store, NoStepAheadOfAnother,
         SettledBefore, NoneAfter
<1>26. CASE PatchUndo(p)
  BY <1>26, <1>a, <1>b DEF PatchUndo, WriteContext, locals, NoStepAheadOfAnother,
         SettledBefore, NoneAfter
<1>27. CASE SetStepCompensated(p)
  <2>1. cur[p] \in Step
    BY <1>27, <1>b DEF SetStepCompensated, CurSites, UndoSites
  <2>2. \A i \in Step : steps'[i] = steps[i] \/ (steps[i] # "NONE" /\ steps'[i] = "COMPENSATED")
    BY <1>27, <1>b, <2>1 DEF SetStepCompensated, UpdateStepStatus
  <2>3. NoStepAheadOfAnother'
    BY <1>a, <2>2 DEF NoStepAheadOfAnother, Settled
  <2>4. QED
    BY <1>27, <1>b, <2>3 DEF SetStepCompensated
<1>28. CASE SetCompensationFailed(p)
  BY <1>28, <1>a, <1>b DEF SetCompensationFailed, locals, NoStepAheadOfAnother,
         SettledBefore, NoneAfter, WriteStatus
<1>29. CASE CompensationFailed(p)
  BY <1>29, <1>a, <1>b DEF CompensationFailed, store, locals, NoStepAheadOfAnother,
         SettledBefore, NoneAfter, Publish
<1>30. CASE SetCompensated(p)
  BY <1>30, <1>a, <1>b DEF SetCompensated, locals, NoStepAheadOfAnother, SettledBefore,
         NoneAfter, WriteStatus
<1>31. CASE CompensationCompleted(p)
  BY <1>31, <1>a, <1>b DEF CompensationCompleted, store, locals, NoStepAheadOfAnother,
         SettledBefore, NoneAfter, Publish
<1>32. CASE ReadBack(p)
  BY <1>32, <1>a, <1>b DEF ReadBack, Leave, store, NoStepAheadOfAnother, SettledBefore,
         NoneAfter
<1>33. QED
  BY <1>1, <1>2, <1>3, <1>4, <1>5, <1>6, <1>7, <1>8, <1>9, <1>10, <1>11, <1>12, <1>13,
         <1>14, <1>15, <1>16, <1>17, <1>18, <1>19, <1>20, <1>21, <1>22, <1>23, <1>24,
         <1>25, <1>26, <1>27, <1>28, <1>29, <1>30, <1>31, <1>32 DEF Run

LEMMA InitNoHole == Init => NoHole
BY DEF Init, NoSteps, NoHole, NoStepAheadOfAnother, LoopAt, WorkSites, StepSites

LEMMA NoHoleLost ==
    ASSUME Typed, NoHole, NEW p \in Proc, ReplyLost(p)
    PROVE  NoStepAheadOfAnother' /\ LoopAt(p)'
<1>1. /\ steps \in [Step -> StepStatus \cup {"NONE"}]
      /\ pc[p] \in CurSites => cur[p] \in Step
  BY DEF Typed, TypeOK, StoreOK, CurInStep
<1>2. LoopAt(p) /\ \A i, j \in Step : i < j /\ steps[j] # "NONE" => steps[i] \in Settled
  BY DEF NoHole, NoStepAheadOfAnother
<1>3. NoStepAheadOfAnother'
  <2>1. CASE UNCHANGED steps
    BY <1>2, <2>1 DEF NoStepAheadOfAnother
  <2>2. CASE \E s : UpdateStepStatus(cur[p], s) /\ pc[p] \in WorkSites
    <3>1. /\ cur[p] \in Step /\ SettledBefore(cur[p]) /\ NoneAfter(cur[p])
          /\ \A i \in Step : i # cur[p] => steps'[i] = steps[i]
      BY <1>1, <1>2, <2>2 DEF LoopAt, WorkSites, CurSites, StepSites, TrySites, CatchSites,
         UpdateStepStatus
    <3> QED
      BY <1>2, <3>1, StepOrder DEF NoStepAheadOfAnother, SettledBefore, NoneAfter
  <2>3. CASE steps[cur[p]] # "NONE" /\ UpdateStepStatus(cur[p], "COMPENSATED")
    BY <1>1, <1>2, <2>3 DEF UpdateStepStatus, NoStepAheadOfAnother, Settled
  <2> QED
    BY <2>1, <2>2, <2>3, LostWrites DEF WorkSites, StepSites
<1>4. CASE pc'[p] = "setStepFailed"
  <2>1. pc[p] \in TrySites /\ cur'[p] = cur[p] /\ seen'[p] = seen[p]
    BY <1>4, LostGoes DEF locals
  <2>2. /\ cur[p] \in Step /\ SettledBefore(cur[p]) /\ NoneAfter(cur[p])
        /\ \A i \in Step : i > cur[p] => seen[p][i] = "NONE"
    BY <1>1, <1>2, <2>1 DEF LoopAt, WorkSites, CurSites, TrySites
  <2>3. \A i \in Step : i # cur[p] => steps'[i] = steps[i]
    BY <1>1, LostWrites DEF UpdateStepStatus
  <2>4. SettledBefore(cur[p])' /\ NoneAfter(cur[p])'
    BY <2>1, <2>2, <2>3, StepOrder DEF SettledBefore, NoneAfter
  <2> QED
    BY <1>3, <1>4, <2>1, <2>2, <2>4 DEF LoopAt
<1>5. CASE pc'[p] # "setStepFailed"
  BY <1>3, <1>5, LostGoes DEF LoopAt, WorkSites, StepSites
<1> QED
  BY <1>4, <1>5

LEMMA NextNoHole ==
    ASSUME Typed, Sequential, NoHole, [Next]_vars
    PROVE  NoHole'
<1> USE DEF WorkSites, StepSites
<1>1. ASSUME NEW p \in Proc, Run(p) \/ Reject(p) \/ ReplyLost(p) \/ Crash(p),
             NoStepAheadOfAnother' /\ LoopAt(p)'
      PROVE  NoHole'
  <2>1. ASSUME NEW q \in Proc, q # p PROVE LoopAt(q)'
    BY <1>1, <2>1, OthersIdle DEF Sequential, LoopAt
  <2>2. QED
    BY <1>1, <2>1 DEF NoHole
<1>2. ASSUME NEW p \in Proc, Run(p) PROVE NoHole'
  BY <1>1, <1>2, NoHoleRun DEF NoHole
<1>3. ASSUME NEW p \in Proc, Reject(p) PROVE NoHole'
  <2>1. UNCHANGED steps /\ NoStepAheadOfAnother
    BY <1>3 DEF Reject, Thrown, store, NoHole
  <2>2. NoStepAheadOfAnother'
    BY <2>1 DEF NoStepAheadOfAnother
  <2>3. LoopAt(p)'
    BY <1>3, <2>1 DEF Reject, Thrown, Catcher, Goto, Leave, NoHole, LoopAt, SettledBefore,
           NoneAfter, TrySites, Typed, TypeOK, locals
  <2>4. QED
    BY <1>1, <1>3, <2>2, <2>3
<1>4. ASSUME NEW p \in Proc, Crash(p) PROVE NoHole'
  <2>1. NoStepAheadOfAnother'
    BY <1>4 DEF Crash, store, NoHole, NoStepAheadOfAnother
  <2>2. LoopAt(p)'
    BY <1>4 DEF Crash, Leave, LoopAt, Typed, TypeOK
  <2>3. QED
    BY <1>1, <1>4, <2>1, <2>2
<1>11. ASSUME NEW p \in Proc, ReplyLost(p) PROVE NoHole'
  BY <1>1, <1>11, NoHoleLost
<1> USE DEF NoHole, NoStepAheadOfAnother, LoopAt, SettledBefore, NoneAfter, Typed,
            TypeOK, Goto, store, locals
<1>5. CASE Create
  BY <1>5 DEF Create
<1>6. CASE Resume
  BY <1>6 DEF Resume
<1>7. ASSUME NEW p \in Workers, Claim(p) PROVE NoHole'
  BY <1>7 DEF Claim
<1>8. ASSUME NEW call \in Call, CompletesLate(call) PROVE NoHole'
  BY <1>8 DEF CompletesLate
<1>9. CASE UNCHANGED vars
  BY <1>9 DEF vars
<1>10. QED
  BY <1>2, <1>3, <1>4, <1>5, <1>6, <1>7, <1>8, <1>9, <1>11 DEF Next

LEMMA AlwaysNoHole == ASSUME Exclusive PROVE Spec => []NoHole
BY AlwaysTyped, AlwaysSequential, InitNoHole, NextNoHole, PTL DEF Spec

\* With one call at a time no step is started before all earlier ones are
\* settled, across any number of crashes, rejections and resumptions.
THEOREM NoHoles == ASSUME Exclusive PROVE Spec => []NoStepAheadOfAnother
<1>1. NoHole => NoStepAheadOfAnother
  BY DEF NoHole
<1>2. QED
  BY AlwaysNoHole, <1>1, PTL

-----------------------------------------------------------------------------
(* What a compensation leaves.  completedSteps holds every step before the *)
(* failed one, and the failed one itself if it had been pushed; the loop   *)
(* of compensate clears them from the last to the first.                   *)

Residue == (effects \cap Compensable) \ Timed

OnlyFailedAfter(k) == \A i \in Residue : i > k => steps[i] = "FAILED"

LateIsTimed ==
    \A i \in Step : <<"do", i>> \in late \/ <<"undo", i>> \in late => i \in Timed

UndoAt(p) ==
    /\ pc[p] \in {"idle"} \cup StartSites => pushed[p] = 0
    /\ pc[p] \in {"nextStep", "action", "patchContext", "setStepCompleted"} \cup StepSites =>
           pushed[p] + 1 = cur[p]
    /\ pc[p] = "stepCompleted" => pushed[p] = cur[p]
    /\ pc[p] \in CatchSites \cup {"setCompensating", "compensationStarted"} =>
           cur[p] \in Step /\ (pushed[p] = cur[p] \/ pushed[p] + 1 = cur[p])
    /\ pc[p] \in {"setFailed", "sagaFailed", "setCompensating", "compensationStarted"} =>
           steps[cur[p]] = "FAILED" /\ NoneAfter(cur[p])
    /\ pc[p] \in {"nextUndo", "compensation"} \cup UndoSites => OnlyFailedAfter(cur[p])
    /\ pc[p] \in UndoSites => cur[p] \notin Residue
    /\ pc[p] = "setCompensated" => OnlyFailedAfter(0)

Undoing == LateIsTimed /\ CompensatedResidue /\ \A p \in Proc : UndoAt(p)

LEMMA StepNumbers ==
    /\ N \in Nat
    /\ \A i \in Step : i > 0
    /\ \A i \in Step : i - 1 \in 0..N /\ (i - 1) + 1 = i
    /\ \A i, k \in Step : i > k - 1 => i = k \/ i > k
    /\ \A i, k \in Step, n \in 0..N : (n = k \/ n + 1 = k) /\ i > n => i = k \/ i > k
    /\ \A i \in Step, n \in 0..N : n + 1 = i => i + 1 = i + 1
BY DefinitionAssumption DEF Step

LEMMA UndoRun ==
    ASSUME Typed, Recorded, NEW p \in Proc, LoopAt(p), UndoAt(p), Run(p)
    PROVE  UndoAt(p)'
<1> USE DEF UndoAt, StartSites, StepSites, CatchSites, UndoSites, Goto
<1>a. /\ pc \in [Proc -> Site]
      /\ cur \in [Proc -> 0..(N + 1)]
      /\ pushed \in [Proc -> 0..N]
      /\ steps \in [Step -> StepStatus \cup {"NONE"}]
      /\ effects \subseteq Step
      /\ pc[p] \in CurSites => cur[p] \in Step
  BY DEF Typed, TypeOK, StoreOK, LocalsOK, CurInStep
<1>1. CASE GetSaga(p)
  BY <1>1, <1>a DEF GetSaga, store, world
<1>2. CASE SetRunning(p)
  BY <1>2, <1>a DEF SetRunning, world, locals, WriteStatus
<1>3. CASE SagaStarted(p)
  BY <1>3, <1>a DEF SagaStarted, world, locals, Announce
<1>4. CASE GetSteps(p)
  BY <1>4, <1>a, DefinitionAssumption DEF GetSteps
<1>5. CASE NextStep(p)
  <2>1. CASE pc'[p] = "setCompleted"
    BY <2>1
  <2>2. CASE /\ pc' = pc /\ pc[p] = "nextStep"
             /\ cur[p] \in Step
             /\ pushed'[p] = cur[p]
             /\ cur'[p] = cur[p] + 1
    BY <2>2
  <2>3. CASE /\ pc'[p] \in {"setStepRunning", "createStep"}
             /\ pc[p] = "nextStep"
             /\ UNCHANGED <<cur, pushed>>
    BY <2>3
  <2>4. QED
    BY <1>5, <1>a, <2>1, <2>2, <2>3 DEF NextStep
<1>6. CASE CreateStep(p)
  BY <1>6, <1>a DEF CreateStep, world, locals
<1>7. CASE SetStepRunning(p)
  BY <1>7, <1>a DEF SetStepRunning, world, locals, WriteStep
<1>8. CASE StepStarted(p)
  BY <1>8, <1>a DEF StepStarted, world
<1>9. CASE ActionSucceeds(p)
  BY <1>9, <1>a DEF ActionSucceeds, TakePatch, store
<1>10. CASE ActionFails(p)
  BY <1>10, <1>a DEF ActionFails, RetryOr, store, world, CurSites
<1>11. CASE ActionTimesOut(p)
  BY <1>11, <1>a DEF ActionTimesOut, RetryOr, store, CurSites
<1>12. CASE PatchContext(p)
  BY <1>12, <1>a DEF PatchContext, WriteContext, world, locals
<1>13. CASE SetStepCompleted(p)
  BY <1>13, <1>a DEF SetStepCompleted
<1>14. CASE StepCompleted(p)
  BY <1>14, <1>a DEF StepCompleted
<1>15. CASE SetCompleted(p)
  BY <1>15, <1>a DEF SetCompleted, world, locals, WriteStatus
<1>16. CASE SagaCompleted(p)
  BY <1>16, <1>a DEF SagaCompleted, Leave, world
<1>17. CASE SetStepFailed(p)
  <2>1. /\ pc[p] = "setStepFailed" /\ pc'[p] = "setFailed"
        /\ cur[p] \in Step
        /\ UNCHANGED <<cur, pushed>>
    BY <1>17, <1>a DEF SetStepFailed, locals, WriteStep
  <2>2. steps'[cur[p]] = "FAILED" /\ \A i \in Step : i # cur[p] => steps'[i] = steps[i]
    BY <1>17, <1>a, <2>1 DEF SetStepFailed, UpdateStepStatus, WriteStep
  <2>3. NoneAfter(cur[p])
    BY <2>1 DEF LoopAt, WorkSites
  <2>4. NoneAfter(cur[p])'
    BY <2>1, <2>2, <2>3, StepOrder DEF NoneAfter
  <2>5. QED
    BY <2>1, <2>2, <2>4
<1>18. CASE SetFailed(p)
  BY <1>18, <1>a DEF SetFailed, world, locals, NoneAfter, OnlyFailedAfter, Residue,
         WriteStatus
<1>19. CASE SagaFailed(p)
  BY <1>19, <1>a DEF SagaFailed, world, locals, NoneAfter, OnlyFailedAfter, Residue,
         Announce
<1>20. CASE SetCompensating(p)
  BY <1>20, <1>a DEF SetCompensating, world, locals, NoneAfter, OnlyFailedAfter,
         Residue, WriteStatus
<1>21. CASE CompensationStarted(p)
  <2>1. /\ pc[p] = "compensationStarted" /\ pc'[p] = "nextUndo"
        /\ cur'[p] = pushed[p] /\ pushed[p] \in 0..N
        /\ UNCHANGED <<steps, effects>>
    BY <1>21, <1>a DEF CompensationStarted, FirstUndo, store, world
  <2>2. /\ cur[p] \in Step /\ (pushed[p] = cur[p] \/ pushed[p] + 1 = cur[p])
        /\ steps[cur[p]] = "FAILED" /\ NoneAfter(cur[p])
    BY <2>1
  <2>3. ASSUME NEW i \in Residue, i > pushed[p] PROVE steps[i] = "FAILED"
    <3>1. i \in Step /\ steps[i] # "NONE"
      BY <1>a DEF Residue, Recorded, NoEffectWithoutRecord
    <3>2. i = cur[p]
      BY <2>1, <2>2, <2>3, <3>1, StepNumbers DEF NoneAfter
    <3>3. QED
      BY <2>2, <3>2
  <2>4. OnlyFailedAfter(cur[p])'
    BY <2>1, <2>3 DEF OnlyFailedAfter, Residue
  <2>5. QED
    BY <2>1, <2>4
<1>22. CASE NextUndo(p)
  <2>1. /\ pc[p] = "nextUndo" /\ OnlyFailedAfter(cur[p])
        /\ UNCHANGED <<steps, effects>>
    BY <1>22 DEF NextUndo, store, world
  <2>2. CASE pc'[p] = "setCompensated" /\ cur[p] = 0
    BY <2>1, <2>2 DEF OnlyFailedAfter, Residue
  <2>3. CASE /\ pc'[p] = "nextUndo"
             /\ cur[p] \in Step \ Compensable
             /\ cur'[p] = cur[p] - 1
    <3>1. OnlyFailedAfter(cur[p] - 1)
      BY <1>a, <2>1, <2>3, StepNumbers DEF OnlyFailedAfter, Residue
    <3>2. QED
      BY <2>1, <2>3, <3>1 DEF OnlyFailedAfter, Residue
  <2>4. CASE pc'[p] = "compensation" /\ UNCHANGED cur
    BY <2>1, <2>4 DEF OnlyFailedAfter, Residue
  <2>5. QED
    BY <1>22, <1>a, <2>2, <2>3, <2>4 DEF NextUndo
<1>23. CASE CompensationSucceeds(p)
  <2>1. /\ pc[p] = "compensation" /\ pc'[p] \in UndoSites
        /\ UNCHANGED <<steps, cur>>
        /\ effects' = effects \ {cur[p]}
    BY <1>23, <1>a DEF CompensationSucceeds, TakePatch, store
  <2>2. Residue' = Residue \ {cur[p]}
    BY <2>1 DEF Residue
  <2>3. OnlyFailedAfter(cur[p])' /\ (cur[p] \notin Residue)'
    BY <2>1, <2>2 DEF OnlyFailedAfter
  <2>4. QED
    BY <2>1, <2>3
<1>24. CASE CompensationFails(p)
  BY <1>24, <1>a DEF CompensationFails, RetryOr, store, world, NoneAfter,
         OnlyFailedAfter, Residue
<1>25. CASE CompensationTimesOut(p)
  BY <1>25, <1>a DEF CompensationTimesOut, RetryOr, store, NoneAfter, OnlyFailedAfter,
         Residue
<1>26. CASE PatchUndo(p)
  BY <1>26, <1>a DEF PatchUndo, WriteContext, world, locals, NoneAfter,
         OnlyFailedAfter, Residue
<1>27. CASE SetStepCompensated(p)
  <2>1. /\ pc[p] = "setStepCompensated" /\ pc'[p] = "nextUndo"
        /\ cur[p] \in Step /\ cur'[p] = cur[p] - 1
        /\ UNCHANGED effects
    BY <1>27, <1>a DEF SetStepCompensated, CurSites, world
  <2>2. \A i \in Step : i # cur[p] => steps'[i] = steps[i]
    BY <1>27, <1>a, <2>1 DEF SetStepCompensated, UpdateStepStatus
  <2>3. OnlyFailedAfter(cur[p]) /\ cur[p] \notin Residue /\ Residue \subseteq Step
    BY <1>a, <2>1 DEF Residue
  <2>4. \A i \in Residue : i > cur[p] - 1 => steps'[i] = "FAILED"
    BY <2>1, <2>2, <2>3, StepNumbers DEF OnlyFailedAfter
  <2>5. QED
    BY <2>1, <2>4 DEF OnlyFailedAfter, Residue
<1>28. CASE SetCompensationFailed(p)
  BY <1>28, <1>a DEF SetCompensationFailed, world, locals, WriteStatus
<1>29. CASE CompensationFailed(p)
  BY <1>29, <1>a DEF CompensationFailed, store, world, locals, Publish
<1>30. CASE SetCompensated(p)
  BY <1>30, <1>a DEF SetCompensated, world, locals, WriteStatus
<1>31. CASE CompensationCompleted(p)
  BY <1>31, <1>a DEF CompensationCompleted, store, world, locals, Publish
<1>32. CASE ReadBack(p)
  BY <1>32, <1>a DEF ReadBack, Leave, store, world
<1>33. QED
  BY <1>1, <1>2, <1>3, <1>4, <1>5, <1>6, <1>7, <1>8, <1>9, <1>10, <1>11, <1>12, <1>13,
         <1>14, <1>15, <1>16, <1>17, <1>18, <1>19, <1>20, <1>21, <1>22, <1>23, <1>24,
         <1>25, <1>26, <1>27, <1>28, <1>29, <1>30, <1>31, <1>32 DEF Run

LEMMA LateRun ==
    ASSUME LateIsTimed, NEW p \in Proc, Run(p)
    PROVE  LateIsTimed'
<1>1. CASE UNCHANGED world
  BY <1>1 DEF LateIsTimed, world
<1>2. CASE ActionSucceeds(p) \/ CompensationSucceeds(p)
  BY <1>2 DEF ActionSucceeds, CompensationSucceeds, LateIsTimed
<1>3. CASE ActionTimesOut(p)
  BY <1>3 DEF ActionTimesOut, LateIsTimed
<1>4. CASE CompensationTimesOut(p)
  BY <1>4 DEF CompensationTimesOut, LateIsTimed
<1>5. QED
  BY <1>1, <1>2, <1>3, <1>4, WorldWriters

LEMMA ResidueRun ==
    ASSUME Typed, NEW p \in Proc, StatusAt(p), UndoAt(p), CompensatedResidue, Run(p)
    PROVE  CompensatedResidue'
<1>1. SUFFICES ASSUME status' = "COMPENSATED"
               PROVE  \A i \in Residue' : steps'[i] = "FAILED"
  BY DEF CompensatedResidue, Residue
<1>2. CASE SetCompensated(p)
  <2>1. OnlyFailedAfter(0) /\ UNCHANGED <<steps, effects>>
    BY <1>2 DEF SetCompensated, UndoAt, world, WriteStatus
  <2>2. \A i \in Residue : i > 0
    BY StepNumbers DEF Residue, Typed, TypeOK
  <2>3. QED
    BY <2>1, <2>2 DEF OnlyFailedAfter, Residue
<1>3. CASE ~SetCompensated(p)
  <2>1. status = "COMPENSATED"
    BY <1>1, <1>3, StatusWriters DEF SetRunning, SetCompleted, SetFailed,
           SetCompensating, SetCompensationFailed, UpdateSagaStatus, WriteStatus
  <2>2. pc[p] \notin RunningSites \cup FailedSites \cup CompensatingSites
    BY <2>1 DEF StatusAt
  <2>3. UNCHANGED steps
    BY <2>2, StepsWriters DEF CreateStep, SetStepRunning, SetStepCompleted,
           SetStepFailed, SetStepCompensated, RunningSites, CompensatingSites,
           StepSites, TrySites, UndoSites, WriteStep
  <2>4. UNCHANGED world
    BY <2>2, WorldWriters DEF ActionSucceeds, ActionTimesOut, CompensationSucceeds,
            CompensationTimesOut, RunningSites, CompensatingSites
  <2>5. QED
    BY <2>1, <2>3, <2>4 DEF CompensatedResidue, Residue, world
<1>4. QED
  BY <1>2, <1>3

LEMMA ResidueLost ==
    ASSUME Typed, NEW p \in Proc, StatusAt(p), UndoAt(p), CompensatedResidue, ReplyLost(p)
    PROVE  CompensatedResidue'
<1>1. SUFFICES ASSUME status' = "COMPENSATED"
               PROVE  \A i \in Residue' : steps'[i] = "FAILED"
  BY DEF CompensatedResidue, Residue
<1>2. UNCHANGED world
  BY LostWrites
<1>3. CASE pc[p] = "setCompensated"
  <2>1. OnlyFailedAfter(0) /\ UNCHANGED steps
    BY <1>3, LostWrites DEF UndoAt
  <2>2. \A i \in Residue : i > 0
    BY StepNumbers DEF Residue, Typed, TypeOK
  <2> QED
    BY <1>2, <2>1, <2>2 DEF OnlyFailedAfter, Residue, world
<1>4. CASE pc[p] # "setCompensated"
  <2>1. status = "COMPENSATED"
    BY <1>1, <1>4, LostWrites
  <2>2. pc[p] \notin RunningSites \cup CompensatingSites
    BY <2>1 DEF StatusAt
  <2>3. UNCHANGED steps
    BY <2>2, LostWrites DEF RunningSites, CompensatingSites, StepSites, TrySites, UndoSites
  <2> QED
    BY <1>2, <2>1, <2>3 DEF CompensatedResidue, Residue, world
<1> QED
  BY <1>3, <1>4

LEMMA InitUndoing == Init => Undoing
BY DEF Init, Undoing, LateIsTimed, CompensatedResidue, UndoAt, StartSites, StepSites,
       CatchSites, UndoSites

LEMMA NextUndoing ==
    ASSUME Typed, Recorded, Sequential, NoHole, Undoing, [Next]_vars
    PROVE  Undoing'
<1> USE DEF StartSites, StepSites, CatchSites, UndoSites
<1>1. ASSUME NEW p \in Proc, Run(p) \/ Reject(p) \/ ReplyLost(p) \/ Crash(p),
             LateIsTimed' /\ CompensatedResidue' /\ UndoAt(p)'
      PROVE  Undoing'
  <2>1. ASSUME NEW q \in Proc, q # p PROVE UndoAt(q)'
    <3>1. pc'[q] = "idle" /\ pc[q] = "idle" /\ pushed'[q] = pushed[q]
      BY <1>1, <2>1, OthersIdle, OthersKept DEF Sequential, Keeps
    <3>2. QED
      BY <3>1 DEF Undoing, UndoAt
  <2>2. QED
    BY <1>1, <2>1 DEF Undoing
<1>2. ASSUME NEW p \in Proc, Run(p) PROVE Undoing'
  BY <1>1, <1>2, UndoRun, LateRun, ResidueRun DEF Undoing, NoHole, Sequential
<1>3. ASSUME NEW p \in Proc, Reject(p) PROVE Undoing'
  <2>1. UNCHANGED <<status, steps, effects, late>>
    BY <1>3 DEF Reject, Thrown, store, world
  <2>2. LateIsTimed' /\ CompensatedResidue'
    BY <2>1 DEF Undoing, LateIsTimed, CompensatedResidue
  <2>3. CASE Leave(p, "rejected")
    <3>1. pc'[p] = "idle" /\ pushed'[p] = 0
      BY <2>3 DEF Leave, Typed, TypeOK, LocalsOK
    <3>2. QED
      BY <1>1, <1>3, <2>2, <3>1 DEF UndoAt
  <2>4. CASE Goto(p, Catcher(pc[p])) /\ UNCHANGED locals /\ Catcher(pc[p]) # "idle"
    <3>1. \/ pc'[p] = "setStepFailed" /\ pc[p] \in TrySites
          \/ pc'[p] \in {"setCompensationFailed", "readBack"}
      BY <2>4 DEF Goto, Catcher, Typed, TypeOK
    <3>2. CASE pc'[p] = "setStepFailed" /\ pc[p] \in TrySites
      BY <1>1, <1>3, <2>2, <2>4, <3>2 DEF UndoAt, Undoing, TrySites, locals, Typed,
             CurInStep, CurSites
    <3>3. CASE pc'[p] \in {"setCompensationFailed", "readBack"}
      BY <1>1, <1>3, <2>2, <3>3 DEF UndoAt
    <3>4. QED
      BY <3>1, <3>2, <3>3
  <2>5. QED
    BY <1>3, <2>3, <2>4 DEF Reject, Thrown
<1>4. ASSUME NEW p \in Proc, Crash(p) PROVE Undoing'
  <2>1. LateIsTimed' /\ CompensatedResidue'
    BY <1>4 DEF Crash, store, world, Undoing, LateIsTimed, CompensatedResidue
  <2>2. pc'[p] = "idle" /\ pushed'[p] = 0
    BY <1>4 DEF Crash, Leave, Typed, TypeOK, LocalsOK
  <2>3. QED
    BY <1>1, <1>4, <2>1, <2>2 DEF UndoAt
<1>12. ASSUME NEW p \in Proc, ReplyLost(p) PROVE Undoing'
  <2>1. LateIsTimed'
    BY <1>12, LostWrites DEF Undoing, LateIsTimed, world
  <2>2. CompensatedResidue'
    BY <1>12, ResidueLost DEF Undoing, Sequential
  <2>3. CASE pc'[p] = "setStepFailed"
    <3>1. pc[p] \in TrySites /\ cur'[p] = cur[p] /\ pushed'[p] = pushed[p]
      BY <1>12, <2>3, LostGoes DEF locals
    <3>2. cur[p] \in Step /\ UndoAt(p)
      BY <3>1 DEF Undoing, Typed, CurInStep, CurSites
    <3>3. UndoAt(p)'
      BY <2>3, <3>1, <3>2 DEF UndoAt, TrySites
    <3> QED
      BY <1>1, <1>12, <2>1, <2>2, <3>3
  <2>4. CASE pc'[p] # "setStepFailed"
    <3>1. UndoAt(p)'
      BY <1>12, <2>4, LostGoes DEF UndoAt
    <3> QED
      BY <1>1, <1>12, <2>1, <2>2, <3>1
  <2> QED
    BY <2>3, <2>4
<1>5. ASSUME UNCHANGED <<steps, world, cur, pushed>>,
             \/ UNCHANGED status
             \/ status' # "COMPENSATED",
             \A p \in Proc : \/ pc'[p] = pc[p]
                             \/ pc[p] = "idle" /\ pc'[p] \in {"getSaga", "setRunning"}
      PROVE  Undoing'
  <2>1. LateIsTimed' /\ CompensatedResidue'
    BY <1>5 DEF Undoing, LateIsTimed, CompensatedResidue, world
  <2>2. ASSUME NEW p \in Proc PROVE UndoAt(p)'
    <3>1. CASE pc'[p] = pc[p]
      BY <1>5, <3>1 DEF Undoing, UndoAt, world, OnlyFailedAfter, Residue, NoneAfter
    <3>2. CASE pc[p] = "idle" /\ pc'[p] \in {"getSaga", "setRunning"}
      BY <1>5, <3>2 DEF Undoing, UndoAt
    <3>3. QED
      BY <1>5, <3>1, <3>2
  <2>3. QED
    BY <2>1, <2>2 DEF Undoing
<1> USE DEF Typed, TypeOK, Goto, store, locals
<1>6. CASE Create
  BY <1>5, <1>6 DEF Create, UpdateSagaStatus
<1>7. CASE Resume
  BY <1>5, <1>7 DEF Resume
<1>8. ASSUME NEW p \in Workers, Claim(p) PROVE Undoing'
  BY <1>5, <1>8 DEF Claim
<1>9. ASSUME NEW call \in Call, CompletesLate(call) PROVE Undoing'
  <2>1. UNCHANGED <<status, steps, pc, cur, pushed>> /\ late' = late \ {call}
    BY <1>9 DEF CompletesLate
  <2>2. call[2] \in Timed /\ effects' \in {effects \cup {call[2]}, effects \ {call[2]}}
    <3>1. PICK k \in {"do", "undo"}, i \in Step : call = <<k, i>>
      BY DEF Call
    <3>2. i \in Timed
      BY <1>9, <3>1 DEF CompletesLate, Undoing, LateIsTimed
    <3>3. QED
      BY <1>9, <3>1, <3>2 DEF CompletesLate
  <2>3. Residue' = Residue
    BY <2>2, DefinitionAssumption DEF Residue
  <2>4. LateIsTimed' /\ CompensatedResidue'
    BY <2>1, <2>3 DEF Undoing, LateIsTimed, CompensatedResidue, Residue
  <2>5. ASSUME NEW p \in Proc PROVE UndoAt(p)'
    BY <2>1, <2>3 DEF Undoing, UndoAt, OnlyFailedAfter, NoneAfter
  <2>6. QED
    BY <2>4, <2>5 DEF Undoing
<1>10. CASE UNCHANGED vars
  BY <1>5, <1>10 DEF vars
<1>11. QED
  BY <1>2, <1>3, <1>4, <1>6, <1>7, <1>8, <1>9, <1>10, <1>12 DEF Next

LEMMA AlwaysUndoing == ASSUME Exclusive PROVE Spec => []Undoing
BY AlwaysTyped, AlwaysRecorded, AlwaysSequential, AlwaysNoHole, InitUndoing,
       NextUndoing, PTL DEF Spec

\* With one call at a time a row that says COMPENSATED leaves behind only the
\* effect of the step recorded as FAILED, timeouts aside.
THEOREM CompensationClears == ASSUME Exclusive PROVE Spec => []CompensatedResidue
<1>1. Undoing => CompensatedResidue
  BY DEF Undoing
<1>2. QED
  BY AlwaysUndoing, <1>1, PTL

\* With one call at a time a step is undone after all later steps, with the
\* same exceptions.
THEOREM DependantsFirst == ASSUME Exclusive PROVE Spec => []LaterStepsUndoneFirst
<1>1. Undoing => LaterStepsUndoneFirst
  BY DEF Undoing, UndoAt, OnlyFailedAfter, Residue, LaterStepsUndoneFirst
<1>2. QED
  BY AlwaysUndoing, <1>1, PTL

-----------------------------------------------------------------------------
(* What the rows show.  SagaRows needs to know where a step may be RUNNING *)
(* and, when the application resumes nothing, from which statuses a call   *)
(* of execute begins.                                                      *)

SomeRunning == \E i \in Step : steps[i] = "RUNNING"

StartsAt ==
    MaxResumes = 0 =>
        /\ pc[Caller] # "getSaga"
        /\ pc[Caller] = "setRunning" => status = "PENDING"

Shown ==
    /\ SomeRunning => status = "RUNNING"
    /\ \A p \in Proc : pc[p] \in {"setFailed", "setCompleted"} => ~SomeRunning
    /\ StartsAt

LEMMA ShownInit == Init => Shown /\ Rows!Init
<1> SUFFICES ASSUME Init PROVE Shown /\ Rows!Init
  OBVIOUS
<1>1. Caller \in Proc
  BY DEF Proc
<1>2. ~SomeRunning
  BY DEF Init, NoSteps, SomeRunning
<1> QED
  BY <1>1, <1>2 DEF Init, Shown, StartsAt, SomeRunning, Rows!Init, Rows!NoRow

\* What one statement of a call does to the rows, seen from outside.
RowStep ==
    \/ UNCHANGED <<status, reason, SomeRunning>>
    \/ status = "NONE" /\ status' = "PENDING" /\ reason' = "none" /\ UNCHANGED SomeRunning
    \/ /\ status \in IF MaxResumes = 0 THEN Claimable \cup {"PENDING"} ELSE SagaStatus
       /\ status' = "RUNNING" /\ reason' = "none" /\ UNCHANGED SomeRunning
    \/ status = "RUNNING" /\ UNCHANGED <<status, reason>>
    \/ /\ status = "RUNNING" /\ ~SomeRunning /\ UNCHANGED SomeRunning
       /\ \/ status' = "COMPLETED" /\ reason' = "none"
          \/ status' = "FAILED" /\ reason' = "step"
    \/ /\ status = "FAILED" /\ UNCHANGED SomeRunning
       /\ status' = "COMPENSATING" /\ reason' = "none"
    \/ /\ status = "COMPENSATING" /\ UNCHANGED SomeRunning
       /\ \/ status' = "COMPENSATED" /\ reason' = "none"
          \/ status' = "COMPENSATION_FAILED" /\ reason' = "compensation"

RowOf(s, w, c) == [status |-> s, reason |-> w, current |-> c]

LEMMA RowMoves ==
    ASSUME NEW s, NEW w, NEW c \in BOOLEAN
    PROVE  /\ s = "NONE" => RowOf("PENDING", "none", c) \in Rows!Moves(RowOf(s, w, c))
           /\ s \in (IF MaxResumes = 0 THEN Claimable \cup {"PENDING"} ELSE SagaStatus) =>
                  RowOf("RUNNING", "none", c) \in Rows!Moves(RowOf(s, w, c))
           /\ s = "RUNNING" => RowOf(s, w, ~c) \in Rows!Moves(RowOf(s, w, c))
           /\ s = "RUNNING" /\ ~c =>
                  /\ RowOf("COMPLETED", "none", c) \in Rows!Moves(RowOf(s, w, c))
                  /\ RowOf("FAILED", "step", c) \in Rows!Moves(RowOf(s, w, c))
           /\ s = "FAILED" => RowOf("COMPENSATING", "none", c) \in Rows!Moves(RowOf(s, w, c))
           /\ s = "COMPENSATING" =>
                  /\ RowOf("COMPENSATED", "none", c) \in Rows!Moves(RowOf(s, w, c))
                  /\ RowOf("COMPENSATION_FAILED", "compensation", c)
                         \in Rows!Moves(RowOf(s, w, c))
<1>1. ASSUME NEW t, NEW v
      PROVE  Rows!Status(RowOf(s, w, c), t, v) = RowOf(t, v, c)
  <2>1. [RowOf(s, w, c) EXCEPT !.status = t] = RowOf(t, w, c)
    BY DEF RowOf
  <2>2. [RowOf(t, w, c) EXCEPT !.reason = v] = RowOf(t, v, c)
    BY DEF RowOf
  <2> QED
    BY <2>1, <2>2 DEF Rows!Status
<1>2. Rows!Current(RowOf(s, w, c), ~RowOf(s, w, c).current) = RowOf(s, w, ~c)
  BY DEF Rows!Current, RowOf
<1>3. RowOf(s, w, c).status = s /\ RowOf(s, w, c).current = c
  BY DEF RowOf
<1>4. \A t, v : Rows!Status(RowOf(s, w, c), t, v) \in Rows!NextStatus(RowOf(s, w, c)) =>
          RowOf(t, v, c) \in Rows!Moves(RowOf(s, w, c))
  BY <1>1 DEF Rows!Moves
<1>5. s = "NONE" => RowOf("PENDING", "none", c) \in Rows!Moves(RowOf(s, w, c))
  BY <1>3, <1>4 DEF Rows!NextStatus
<1>6. s \in (IF MaxResumes = 0 THEN Claimable \cup {"PENDING"} ELSE SagaStatus) =>
          RowOf("RUNNING", "none", c) \in Rows!Moves(RowOf(s, w, c))
  BY <1>1, <1>3 DEF Rows!Moves, Rows!Resumed
<1>7. s = "RUNNING" => RowOf(s, w, ~c) \in Rows!Moves(RowOf(s, w, c))
  BY <1>2, <1>3 DEF Rows!Moves, Rows!StepMoves
<1>8. s = "RUNNING" /\ ~c =>
          /\ RowOf("COMPLETED", "none", c) \in Rows!Moves(RowOf(s, w, c))
          /\ RowOf("FAILED", "step", c) \in Rows!Moves(RowOf(s, w, c))
  BY <1>3, <1>4 DEF Rows!NextStatus, Rows!MayEnd
<1>9. s = "FAILED" => RowOf("COMPENSATING", "none", c) \in Rows!Moves(RowOf(s, w, c))
  BY <1>3, <1>4 DEF Rows!NextStatus
<1>10. s = "COMPENSATING" =>
          /\ RowOf("COMPENSATED", "none", c) \in Rows!Moves(RowOf(s, w, c))
          /\ RowOf("COMPENSATION_FAILED", "compensation", c) \in Rows!Moves(RowOf(s, w, c))
  BY <1>3, <1>4 DEF Rows!NextStatus
<1> QED
  BY <1>5, <1>6, <1>7, <1>8, <1>9, <1>10

LEMMA RowStepIsMove ==
    ASSUME RowStep
    PROVE  [Rows!Next]_[status |-> status, reason |-> reason,
                        current |-> \E i \in Step : steps[i] = "RUNNING"]
<1>1. ASSUME NEW s, NEW w, NEW c \in BOOLEAN, NEW t, NEW v, NEW d \in BOOLEAN,
             \/ s = t /\ w = v /\ c = d
             \/ s = "NONE" /\ t = "PENDING" /\ v = "none" /\ c = d
             \/ /\ s \in IF MaxResumes = 0 THEN Claimable \cup {"PENDING"} ELSE SagaStatus
                /\ t = "RUNNING" /\ v = "none" /\ c = d
             \/ s = "RUNNING" /\ s = t /\ w = v
             \/ /\ s = "RUNNING" /\ ~c /\ c = d
                /\ \/ t = "COMPLETED" /\ v = "none"
                   \/ t = "FAILED" /\ v = "step"
             \/ s = "FAILED" /\ t = "COMPENSATING" /\ v = "none" /\ c = d
             \/ /\ s = "COMPENSATING" /\ c = d
                /\ \/ t = "COMPENSATED" /\ v = "none"
                   \/ t = "COMPENSATION_FAILED" /\ v = "compensation"
      PROVE  RowOf(t, v, d) = RowOf(s, w, c) \/ RowOf(t, v, d) \in Rows!Moves(RowOf(s, w, c))
  BY <1>1, RowMoves
<1>2. SomeRunning \in BOOLEAN /\ SomeRunning' \in BOOLEAN
  BY DEF SomeRunning
<1>3. \/ RowOf(status', reason', SomeRunning') = RowOf(status, reason, SomeRunning)
      \/ RowOf(status', reason', SomeRunning') \in Rows!Moves(RowOf(status, reason, SomeRunning))
  BY <1>1, <1>2, Zenon DEF RowStep
<1> QED
  BY <1>3 DEF Rows!Next, SomeRunning, RowOf

\* Where a call that comes to one of these sites comes from.
LEMMA Arrivals ==
    ASSUME pc \in [Proc -> Site], NEW p \in Proc, Run(p)
    PROVE  /\ pc'[p] = "setFailed" => SetStepFailed(p)
           /\ pc'[p] = "setCompleted" => NextStep(p)
           /\ pc'[p] = "setRunning" => GetSaga(p)
           /\ pc'[p] # "getSaga"
BY DEF Run, GetSaga, SetRunning, SagaStarted, GetSteps, NextStep, CreateStep,
       SetStepRunning, StepStarted, ActionSucceeds, ActionFails, ActionTimesOut,
       PatchContext, SetStepCompleted, StepCompleted, SetCompleted, SagaCompleted,
       SetStepFailed, SetFailed, SagaFailed, SetCompensating, CompensationStarted,
       NextUndo, CompensationSucceeds, CompensationFails, CompensationTimesOut,
       PatchUndo, SetStepCompensated, SetCompensationFailed, CompensationFailed,
       SetCompensated, CompensationCompleted, ReadBack, WriteContext, WriteStatus,
       Announce, WriteStep, Publish, Goto, Leave, TakePatch, RetryOr

LEMMA RowStepRun ==
    ASSUME Typed, Sequential, Shown, NEW p \in Proc, Run(p)
    PROVE  RowStep
<1>1. CASE SetRunning(p)
  <2>1. /\ pc[p] = "setRunning" /\ UNCHANGED steps
        /\ status' = "RUNNING" /\ reason' = "none"
    BY <1>1 DEF SetRunning, WriteStatus, UpdateSagaStatus
  <2>2. status \in SagaStatus
    BY <2>1 DEF Typed, CallHasRow, TypeOK, StoreOK
  <2>3. MaxResumes = 0 => status \in Claimable \cup {"PENDING"}
    BY <2>1 DEF Sequential, StatusAt, Shown, StartsAt, Proc
  <2> QED
    BY <2>1, <2>2, <2>3 DEF RowStep, SomeRunning
<1>2. CASE SetCompleted(p) \/ SetFailed(p)
  <2>1. /\ pc[p] \in {"setFailed", "setCompleted"} /\ UNCHANGED steps
        /\ \/ status' = "COMPLETED" /\ reason' = "none"
           \/ status' = "FAILED" /\ reason' = "step"
    BY <1>2 DEF SetCompleted, SetFailed, WriteStatus, UpdateSagaStatus
  <2>2. status = "RUNNING" /\ ~SomeRunning
    BY <2>1 DEF Sequential, StatusAt, RunningSites, Shown
  <2> QED
    BY <2>1, <2>2 DEF RowStep, SomeRunning
<1>3. CASE SetCompensating(p)
  <2>1. /\ pc[p] = "setCompensating" /\ UNCHANGED steps
        /\ status' = "COMPENSATING" /\ reason' = "none"
    BY <1>3 DEF SetCompensating, WriteStatus, UpdateSagaStatus
  <2> QED
    BY <2>1 DEF RowStep, SomeRunning, Sequential, StatusAt, FailedSites
<1>4. CASE SetCompensationFailed(p) \/ SetCompensated(p)
  <2>1. /\ pc[p] \in {"setCompensationFailed", "setCompensated"} /\ UNCHANGED steps
        /\ \/ status' = "COMPENSATED" /\ reason' = "none"
           \/ status' = "COMPENSATION_FAILED" /\ reason' = "compensation"
    BY <1>4 DEF SetCompensationFailed, SetCompensated, WriteStatus, UpdateSagaStatus
  <2> QED
    BY <2>1 DEF RowStep, SomeRunning, Sequential, StatusAt, CompensatingSites
<1>5. CASE UNCHANGED <<status, reason>>
  <2>1. CASE UNCHANGED steps
    BY <1>5, <2>1 DEF RowStep, SomeRunning
  <2>2. CASE \/ CreateStep(p) \/ SetStepRunning(p) \/ SetStepCompleted(p)
             \/ SetStepFailed(p)
    <3>1. pc[p] \in {"createStep", "setStepRunning", "setStepCompleted", "setStepFailed"}
      BY <2>2 DEF CreateStep, SetStepRunning, SetStepCompleted, SetStepFailed, WriteStep
    <3> QED
      BY <1>5, <3>1 DEF RowStep, Sequential, StatusAt, RunningSites, StepSites, TrySites
  <2>3. CASE SetStepCompensated(p)
    <3>1. pc[p] = "setStepCompensated"
      BY <2>3 DEF SetStepCompensated
    <3>2. ~SomeRunning
      BY <3>1 DEF Sequential, StatusAt, CompensatingSites, UndoSites, Shown
    <3>3. \A i \in Step : steps'[i] \in {steps[i], "COMPENSATED"}
      BY <2>3 DEF SetStepCompensated, UpdateStepStatus, Typed, TypeOK, StoreOK
    <3> QED
      BY <1>5, <3>2, <3>3 DEF RowStep, SomeRunning
  <2> QED
    BY <2>1, <2>2, <2>3, StepsWriters
<1> QED
  BY <1>1, <1>2, <1>3, <1>4, <1>5, StatusWriters

LEMMA ShownRun ==
    ASSUME Typed, Sequential, NoHole, Shown, RowStep, NEW p \in Proc, Run(p)
    PROVE  Shown'
<1>1. \A q \in Proc \ {p} : pc'[q] = "idle"
  BY RunNotIdle, OthersIdle DEF Sequential
<1>2. pc \in [Proc -> Site] /\ cur \in [Proc -> 0..(N + 1)]
      /\ steps \in [Step -> StepStatus \cup {"NONE"}]
  BY DEF Typed, TypeOK, StoreOK, LocalsOK
<1>3. SomeRunning' => status' = "RUNNING"
  BY DEF RowStep, Shown
<1>4. ASSUME NEW q \in Proc, pc'[q] \in {"setFailed", "setCompleted"}
      PROVE  ~SomeRunning'
  <2>1. q = p
    BY <1>1, <1>4
  <2>2. CASE SetStepFailed(p)
    <3>1. pc[p] = "setStepFailed" /\ steps' = [steps EXCEPT ![cur[p]] = "FAILED"]
      BY <2>2 DEF SetStepFailed, WriteStep, UpdateStepStatus
    <3>2. cur[p] \in Step /\ SettledBefore(cur[p]) /\ NoneAfter(cur[p])
      BY <3>1 DEF NoHole, LoopAt, WorkSites, Typed, CurInStep, CurSites, CatchSites
    <3> QED
      BY <1>2, <3>1, <3>2, StepOrder DEF SomeRunning, SettledBefore, NoneAfter, Settled
  <2>3. CASE NextStep(p) /\ pc'[p] = "setCompleted"
    <3>1. pc[p] = "nextStep" /\ UNCHANGED steps /\ cur[p] > N
      BY <1>2, <2>3 DEF NextStep, store, Goto
    <3>2. SettledBefore(cur[p])
      BY <3>1 DEF NoHole, LoopAt
    <3>3. \A i \in Step : i < cur[p]
      BY <1>2, <3>1, DefinitionAssumption DEF Step
    <3> QED
      BY <3>1, <3>2, <3>3 DEF SomeRunning, SettledBefore, Settled
  <2> QED
    BY <1>2, <1>4, <2>1, <2>2, <2>3, Arrivals
<1>5. StartsAt'
  <2>1. SUFFICES ASSUME MaxResumes = 0
                 PROVE  pc'[Caller] # "getSaga" /\ pc'[Caller] # "setRunning"
    BY DEF StartsAt
  <2>2. CASE p = Caller
    BY <1>2, <2>1, <2>2, Arrivals DEF GetSaga, Shown, StartsAt
  <2>3. CASE p # Caller
    BY <1>1, <2>3 DEF Proc
  <2> QED
    BY <2>2, <2>3
<1> QED
  BY <1>3, <1>4, <1>5 DEF Shown

LEMMA RowStepLost ==
    ASSUME Typed, Sequential, Shown, NEW p \in Proc, ReplyLost(p)
    PROVE  RowStep
<1>1. CASE pc[p] = "setRunning" /\ status' = "RUNNING" /\ reason' = "none" /\ UNCHANGED steps
  <2>1. status \in SagaStatus
    BY <1>1 DEF Typed, CallHasRow, TypeOK, StoreOK
  <2>2. MaxResumes = 0 => status \in Claimable \cup {"PENDING"}
    BY <1>1 DEF Sequential, StatusAt, Shown, StartsAt, Proc
  <2> QED
    BY <1>1, <2>1, <2>2 DEF RowStep, SomeRunning
<1>2. CASE /\ UNCHANGED steps
           /\ \/ pc[p] = "setCompleted" /\ status' = "COMPLETED" /\ reason' = "none"
              \/ pc[p] = "setFailed" /\ status' = "FAILED" /\ reason' = "step"
  <2>1. status = "RUNNING" /\ ~SomeRunning
    BY <1>2 DEF Sequential, StatusAt, RunningSites, Shown
  <2> QED
    BY <1>2, <2>1 DEF RowStep, SomeRunning
<1>3. CASE /\ pc[p] = "setCompensating" /\ UNCHANGED steps
           /\ status' = "COMPENSATING" /\ reason' = "none"
  BY <1>3 DEF RowStep, SomeRunning, Sequential, StatusAt, FailedSites
<1>4. CASE /\ UNCHANGED steps
           /\ \/ pc[p] = "setCompensated" /\ status' = "COMPENSATED" /\ reason' = "none"
              \/ /\ pc[p] = "setCompensationFailed"
                 /\ status' = "COMPENSATION_FAILED" /\ reason' = "compensation"
  BY <1>4 DEF RowStep, SomeRunning, Sequential, StatusAt, CompensatingSites
<1>5. CASE UNCHANGED <<status, reason>>
  <2>1. CASE UNCHANGED steps
    BY <1>5, <2>1 DEF RowStep, SomeRunning
  <2>2. CASE pc[p] \in {"createStep", "setStepRunning", "setStepCompleted", "setStepFailed"}
    BY <1>5, <2>2 DEF RowStep, Sequential, StatusAt, RunningSites, StepSites, TrySites
  <2>3. CASE pc[p] = "setStepCompensated"
    <3>1. ~SomeRunning
      BY <2>3 DEF Sequential, StatusAt, CompensatingSites, UndoSites, Shown
    <3>2. \A i \in Step : steps'[i] \in {steps[i], "COMPENSATED"}
      BY <2>3, LostWrites DEF UpdateStepStatus, Typed, TypeOK, StoreOK
    <3> QED
      BY <1>5, <3>1, <3>2 DEF RowStep, SomeRunning
  <2> QED
    BY <2>1, <2>2, <2>3, LostWrites
<1> QED
  BY <1>1, <1>2, <1>3, <1>4, <1>5, LostWrites, LostOnce

LEMMA ShownLost ==
    ASSUME Typed, Sequential, Shown, RowStep, NEW p \in Proc, ReplyLost(p)
    PROVE  Shown'
<1>1. \A q \in Proc \ {p} : pc'[q] = "idle"
  BY OthersIdle DEF Sequential
<1>2. pc'[p] \in {"idle", "setStepFailed", "setCompensationFailed", "readBack"}
  BY LostGoes
<1>3. SomeRunning' => status' = "RUNNING"
  BY DEF RowStep, Shown
<1>4. Caller \in Proc
  BY DEF Proc
<1> QED
  BY <1>1, <1>2, <1>3, <1>4 DEF Shown, StartsAt

LEMMA NextShown ==
    ASSUME Typed, Sequential, NoHole, Shown, [Next]_vars
    PROVE  RowStep /\ Shown'
<1>1. ASSUME NEW p \in Proc, Run(p) PROVE RowStep /\ Shown'
  BY <1>1, RowStepRun, ShownRun
<1>8. ASSUME NEW p \in Proc, ReplyLost(p) PROVE RowStep /\ Shown'
  BY <1>8, RowStepLost, ShownLost
<1> USE DEF Shown, StartsAt, SomeRunning, RowStep, Goto
<1>2. ASSUME NEW p \in Proc, Reject(p) \/ Crash(p) PROVE RowStep /\ Shown'
  <2>1. UNCHANGED <<status, reason, steps>>
    BY <1>2 DEF Reject, Thrown, Crash, store
  <2>2. \A q \in Proc :
            pc'[q] \in {pc[q], "idle", "setStepFailed", "setCompensationFailed", "readBack"}
    BY <1>2 DEF Reject, Thrown, Crash, Catcher, Leave, Typed, TypeOK
  <2>3. Caller \in Proc
    BY DEF Proc
  <2> QED
    BY <2>1, <2>2, <2>3
<1>3. CASE Create
  <2>1. /\ status = "NONE" /\ status' = "PENDING" /\ reason' = "none" /\ UNCHANGED steps
        /\ pc' = [pc EXCEPT ![Caller] = "setRunning"]
    BY <1>3 DEF Create, UpdateSagaStatus
  <2>2. pc \in [Proc -> Site] /\ Caller \in Proc
    BY DEF Typed, TypeOK, Proc
  <2>3. ~SomeRunning
    BY <2>1
  <2> QED
    BY <2>1, <2>2, <2>3
<1>4. CASE Resume
  <2>1. MaxResumes # 0
    BY <1>4, EnvironmentAssumption DEF Resume, Typed, TypeOK
  <2>2. UNCHANGED <<status, reason, steps>> /\ pc' = [pc EXCEPT ![Caller] = "getSaga"]
    BY <1>4 DEF Resume, store
  <2> QED
    BY <2>1, <2>2 DEF Typed, TypeOK
<1>5. ASSUME NEW p \in Workers, Claim(p) PROVE RowStep /\ Shown'
  <2>1. UNCHANGED <<status, reason, steps>> /\ pc' = [pc EXCEPT ![p] = "getSaga"]
    BY <1>5 DEF Claim, store
  <2>2. p \in Proc /\ p # Caller /\ pc \in [Proc -> Site]
    BY EnvironmentAssumption DEF Proc, Typed, TypeOK
  <2> QED
    BY <2>1, <2>2
<1>6. ASSUME NEW call \in Call, CompletesLate(call) PROVE RowStep /\ Shown'
  BY <1>6 DEF CompletesLate, store
<1>7. CASE UNCHANGED vars
  BY <1>7 DEF vars, store
<1> QED
  BY <1>1, <1>2, <1>3, <1>4, <1>5, <1>6, <1>7, <1>8 DEF Next

LEMMA AlwaysShown == ASSUME Exclusive PROVE Spec => []Shown
<1>1. Init => Shown
  BY ShownInit
<1> QED
  BY <1>1, AlwaysTyped, AlwaysSequential, AlwaysNoHole, NextShown, PTL DEF Spec

\* What the dashboard may rely on: seen through its rows, the saga lives as
\* SagaRows says, whatever crashes, rejects and is recovered.
THEOREM RowsAreInOrder == ASSUME Exclusive PROVE Spec => RowsInOrder
<1>1. Init => Rows!Init
  BY ShownInit
<1>2. Typed /\ Sequential /\ NoHole /\ Shown /\ [Next]_vars =>
          [Rows!Next]_[status |-> status, reason |-> reason,
                       current |-> \E i \in Step : steps[i] = "RUNNING"]
  BY NextShown, RowStepIsMove
<1> QED
  BY <1>1, <1>2, AlwaysTyped, AlwaysSequential, AlwaysNoHole, AlwaysShown, PTL
     DEF Spec, RowsInOrder, Rows!Spec

-----------------------------------------------------------------------------
(* What a call knows of the rows.  With one call at a time nothing that it  *)
(* has read is out of date when it writes: not existingSteps, not the      *)
(* context of its instance, not the status it answers with.                *)

\* Where a call that comes to one of these sites comes from.
ComesFrom(p) ==
    /\ pc'[p] = "createStep" => NextStep(p)
    /\ pc'[p] = "setStepRunning" => NextStep(p) \/ CreateStep(p)
    /\ pc'[p] = "patchContext" => ActionSucceeds(p)
    /\ pc'[p] = "setStepCompleted" => ActionSucceeds(p) \/ PatchContext(p)
    /\ pc'[p] = "sagaCompleted" => SetCompleted(p)
    /\ pc[p] = "getSaga" => GetSaga(p)

LEMMA MoreArrivals ==
    ASSUME pc \in [Proc -> Site], NEW p \in Proc, Run(p)
    PROVE  ComesFrom(p)
BY DEF ComesFrom, Run, GetSaga, SetRunning, SagaStarted, GetSteps, NextStep, CreateStep,
       SetStepRunning, StepStarted, ActionSucceeds, ActionFails, ActionTimesOut,
       PatchContext, SetStepCompleted, StepCompleted, SetCompleted, SagaCompleted,
       SetStepFailed, SetFailed, SagaFailed, SetCompensating, CompensationStarted,
       NextUndo, CompensationSucceeds, CompensationFails, CompensationTimesOut,
       PatchUndo, SetStepCompensated, SetCompensationFailed, CompensationFailed,
       SetCompensated, CompensationCompleted, ReadBack, WriteContext, WriteStatus,
       Announce, WriteStep, Publish, Goto, Leave, TakePatch, RetryOr

\* Who writes the context, the answer, and the instance's copy of the context.
LEMMA MoreWriters ==
    ASSUME NEW p \in Proc, Run(p)
    PROVE  /\ UNCHANGED context \/ PatchContext(p) \/ PatchUndo(p)
           /\ UNCHANGED result \/ SagaCompleted(p) \/ ReadBack(p)
           /\ \/ UNCHANGED mem \/ GetSaga(p) \/ ActionSucceeds(p)
              \/ CompensationSucceeds(p) \/ SagaCompleted(p) \/ ReadBack(p)
BY DEF Run, GetSaga, SetRunning, SagaStarted, GetSteps, NextStep, CreateStep,
       SetStepRunning, StepStarted, ActionSucceeds, ActionFails, ActionTimesOut,
       PatchContext, SetStepCompleted, StepCompleted, SetCompleted, SagaCompleted,
       SetStepFailed, SetFailed, SagaFailed, SetCompensating, CompensationStarted,
       NextUndo, CompensationSucceeds, CompensationFails, CompensationTimesOut,
       PatchUndo, SetStepCompensated, SetCompensationFailed, CompensationFailed,
       SetCompensated, CompensationCompleted, ReadBack, WriteContext, WriteStatus,
       Announce, WriteStep, Publish, store, locals

\* A call that goes on has read its saga, or created it.
NotBegun(q) == pc'[q] \in {"idle", "getSaga"} \/ pc[q] \notin {"idle", "getSaga"}

\* Everything but what the calls write leaves the rows and the copies alone.
LEMMA OtherSteps ==
    ASSUME Typed, [Next]_vars, \A p \in Proc : ~Run(p) /\ ~ReplyLost(p)
    PROVE  /\ UNCHANGED <<context, steps>>
           /\ UNCHANGED status \/ Create
           /\ \A q \in Proc : mem'[q] = mem[q] \/ pc'[q] = "idle"
           /\ \A q \in Proc :
                  \/ pc'[q] = pc[q] /\ cur'[q] = cur[q]
                  \/ pc'[q] \in {"idle", "getSaga", "setStepFailed",
                                 "setCompensationFailed", "readBack"}
                  \/ Create /\ q = Caller /\ pc'[q] = "setRunning"
           /\ \A q \in Proc : Create \/ NotBegun(q)
<1> USE DEF Typed, TypeOK, LocalsOK, Goto, store, locals
<1>1. CASE Create
  <2>1. /\ UNCHANGED <<context, steps, mem, cur>>
        /\ \A q \in Proc : pc'[q] = pc[q] \/ (q = Caller /\ pc'[q] = "setRunning")
    BY <1>1 DEF Create
  <2> QED
    BY <1>1, <2>1
<1>2. CASE Resume
  <2>1. /\ UNCHANGED <<context, steps, status, mem, cur>>
        /\ \A q \in Proc : pc'[q] \in {pc[q], "getSaga"}
    BY <1>2 DEF Resume
  <2> QED
    BY <2>1 DEF NotBegun
<1>3. ASSUME NEW p \in Workers, Claim(p)
      PROVE  /\ UNCHANGED <<context, steps, status, mem, cur>>
             /\ \A q \in Proc : pc'[q] \in {pc[q], "getSaga"}
             /\ \A q \in Proc : NotBegun(q)
  BY <1>3 DEF Claim, NotBegun
<1>4. ASSUME NEW p \in Proc, Reject(p)
      PROVE  /\ UNCHANGED <<context, steps, status>>
             /\ \A q \in Proc : mem'[q] = mem[q] \/ pc'[q] = "idle"
             /\ \A q \in Proc : \/ pc'[q] = pc[q] /\ cur'[q] = cur[q]
                                \/ pc'[q] \in {"idle", "setStepFailed",
                                               "setCompensationFailed", "readBack"}
             /\ \A q \in Proc : NotBegun(q)
  BY <1>4 DEF Reject, Thrown, Catcher, Leave, NotBegun, TrySites, UndoSites, CompSites
<1>5. ASSUME NEW p \in Proc, Crash(p)
      PROVE  /\ UNCHANGED <<context, steps, status>>
             /\ \A q \in Proc : mem'[q] = mem[q] \/ pc'[q] = "idle"
             /\ \A q \in Proc : \/ pc'[q] = "idle"
                                \/ pc'[q] = pc[q] /\ cur'[q] = cur[q]
             /\ \A q \in Proc : NotBegun(q)
  BY <1>5 DEF Crash, Leave, NotBegun
<1>6. ASSUME NEW call \in Call, CompletesLate(call)
      PROVE  UNCHANGED <<context, steps, status, mem, cur, pc>>
  BY <1>6 DEF CompletesLate
<1>7. CASE UNCHANGED vars
  BY <1>7 DEF vars, NotBegun
<1> QED
  BY <1>1, <1>2, <1>3, <1>4, <1>5, <1>6, <1>7 DEF Next, NotBegun

-----------------------------------------------------------------------------
(* Settled steps. *)

\* A step that a call is about to start is not settled.
StartsUnsettled ==
    \A p \in Proc : pc[p] \in {"createStep", "setStepRunning"} => steps[cur[p]] \notin Settled

LEMMA NextStartsUnsettled ==
    ASSUME Typed, Sequential, NoHole, StartsUnsettled, [Next]_vars
    PROVE  StartsUnsettled'
<1>1. /\ pc \in [Proc -> Site] /\ cur \in [Proc -> 0..(N + 1)]
      /\ steps \in [Step -> StepStatus \cup {"NONE"}]
  BY DEF Typed, TypeOK, StoreOK, LocalsOK
<1>2. ASSUME NEW p \in Proc, Run(p) PROVE StartsUnsettled'
  <2>1. \A q \in Proc \ {p} : pc'[q] = "idle"
    BY <1>2, OthersIdle DEF Sequential
  <2>2. CASE NextStep(p)
    <3>1. pc[p] = "nextStep" /\ UNCHANGED steps
      BY <2>2 DEF NextStep, store
    <3>2. \A i \in Step : i >= cur[p] => seen[p][i] = steps[i]
      BY <3>1 DEF NoHole, LoopAt
    <3>3. pc'[p] \in {"createStep", "setStepRunning"} =>
              cur'[p] = cur[p] /\ cur[p] \in Step /\ seen[p][cur[p]] \notin Settled
      BY <1>1, <2>2 DEF NextStep, IsDone, Goto
    <3> QED
      BY <1>1, <2>1, <3>1, <3>2, <3>3, StepOrder DEF StartsUnsettled
  <2>3. CASE CreateStep(p)
    <3>1. /\ pc[p] = "createStep" /\ UNCHANGED cur /\ cur[p] \in Step
          /\ steps' = steps \/ steps' = [steps EXCEPT ![cur[p]] = "PENDING"]
      BY <2>3 DEF CreateStep, UpdateStepStatus, locals, Typed, CurInStep, CurSites, StepSites
    <3> QED
      BY <1>1, <2>1, <3>1 DEF StartsUnsettled, Settled
  <2>4. CASE pc'[p] \notin {"createStep", "setStepRunning"}
    BY <2>1, <2>4 DEF StartsUnsettled
  <2> QED
    BY <1>1, <1>2, <2>2, <2>3, <2>4, MoreArrivals DEF ComesFrom
<1>3. ASSUME NEW p \in Proc, ReplyLost(p) PROVE StartsUnsettled'
  <2>1. \A q \in Proc \ {p} : pc'[q] = "idle"
    BY <1>3, OthersIdle DEF Sequential
  <2>2. pc'[p] \notin {"createStep", "setStepRunning"}
    BY <1>3, LostGoes
  <2> QED
    BY <2>1, <2>2 DEF StartsUnsettled
<1>4. CASE \A p \in Proc : ~Run(p) /\ ~ReplyLost(p)
  BY <1>4, OtherSteps DEF StartsUnsettled
<1> QED
  BY <1>2, <1>3, <1>4

\* With one call at a time a settled step is never started again, whatever the
\* list that a resumed call has read.
THEOREM SettledForGood == ASSUME Exclusive PROVE Spec => SettledStepsStaySettled
<1>1. Init => StartsUnsettled
  BY DEF Init, StartsUnsettled
<1>2. ASSUME Typed, StartsUnsettled, [Next]_vars
      PROVE  \A i \in Step : steps[i] \in Settled => steps'[i] # "RUNNING"
  <2> SUFFICES ASSUME NEW i \in Step, steps[i] \in Settled
               PROVE  steps'[i] # "RUNNING"
    OBVIOUS
  <2>1. steps \in [Step -> StepStatus \cup {"NONE"}] /\ steps[i] # "RUNNING"
    BY <1>2 DEF Typed, TypeOK, StoreOK, Settled
  <2>2. ASSUME NEW p \in Proc, Run(p) PROVE steps'[i] # "RUNNING"
    <3>1. CASE SetStepRunning(p)
      BY <1>2, <2>1, <3>1 DEF SetStepRunning, WriteStep, UpdateStepStatus, StartsUnsettled
    <3>2. CASE CreateStep(p) \/ SetStepCompleted(p) \/ SetStepFailed(p) \/ SetStepCompensated(p)
      BY <2>1, <3>2 DEF CreateStep, SetStepCompleted, SetStepFailed, SetStepCompensated,
             WriteStep, UpdateStepStatus
    <3> QED
      BY <2>1, <2>2, <3>1, <3>2, StepsWriters
  <2>3. ASSUME NEW p \in Proc, ReplyLost(p) PROVE steps'[i] # "RUNNING"
    <3>1. pc[p] = "setStepRunning" => i # cur[p]
      BY <1>2 DEF StartsUnsettled
    <3> QED
      BY <2>1, <2>3, <3>1, LostWrites DEF UpdateStepStatus
  <2> QED
    BY <1>2, <2>1, <2>2, <2>3, OtherSteps
<1> QED
  BY <1>1, <1>2, NextStartsUnsettled, AlwaysTyped, AlwaysSequential, AlwaysNoHole, PTL
     DEF Spec, SettledStepsStaySettled

-----------------------------------------------------------------------------
(* The context. *)

Patched(i) == steps[i] = "COMPLETED" /\ <<"do", i>> \in Patching

\* What a call has in memory, and what it has saved.
Carries(p) ==
    /\ pc[p] \notin {"idle", "getSaga"} =>
           \A i \in Step : Patched(i) => <<"do", i>> \in mem[p]
    /\ pc[p] \in {"patchContext", "setStepCompleted"} /\ <<"do", cur[p]>> \in Patching =>
           <<"do", cur[p]>> \in mem[p]
    /\ pc[p] = "setStepCompleted" /\ <<"do", cur[p]>> \in Patching =>
           <<"do", cur[p]>> \in context

Remembered ==
    /\ CompletedStepsInContext
    /\ status = "NONE" => \A i \in Step : steps[i] # "COMPLETED"
    /\ \A p \in Proc : Carries(p)

LEMMA RememberedRun ==
    ASSUME Typed, Sequential, Remembered, NEW p \in Proc, Run(p)
    PROVE  Remembered'
<1>1. /\ pc \in [Proc -> Site] /\ cur \in [Proc -> 0..(N + 1)]
      /\ steps \in [Step -> StepStatus \cup {"NONE"}]
      /\ mem \in [Proc -> SUBSET Call]
      /\ pc[p] \in CurSites => cur[p] \in Step
  BY DEF Typed, TypeOK, StoreOK, LocalsOK, CurInStep
<1>2. pc[p] # "idle" /\ \A q \in Proc \ {p} : pc'[q] = "idle"
  BY RunNotIdle, OthersIdle DEF Sequential
<1>3. Carries(p) /\ CompletedStepsInContext
  BY DEF Remembered
<1>4. \A i \in Step : steps'[i] = "COMPLETED" =>
          \/ steps[i] = "COMPLETED"
          \/ i = cur[p] /\ pc[p] = "setStepCompleted"
  BY <1>1, StepsWriters DEF CreateStep, SetStepRunning, SetStepCompleted, SetStepFailed,
         SetStepCompensated, WriteStep, UpdateStepStatus
<1>5. context' = context \/ (context' = mem[p] /\ pc[p] \in {"patchContext", "patchUndo"})
  BY MoreWriters DEF PatchContext, PatchUndo, WriteContext
<1>6. pc'[p] # "idle" =>
          mem[p] \subseteq mem'[p] \/ (mem'[p] = context /\ pc[p] = "getSaga")
  <2>1. CASE GetSaga(p)
    BY <1>1, <2>1 DEF GetSaga
  <2>2. CASE ActionSucceeds(p)
    BY <1>1, <2>2 DEF ActionSucceeds, TakePatch
  <2>3. CASE CompensationSucceeds(p)
    BY <1>1, <2>3 DEF CompensationSucceeds, TakePatch
  <2>4. CASE SagaCompleted(p) \/ ReadBack(p)
    BY <1>1, <2>4 DEF SagaCompleted, ReadBack, Leave
  <2> QED
    BY <2>1, <2>2, <2>3, <2>4, MoreWriters
<1>7. pc[p] = "getSaga" => mem'[p] = context
  BY <1>1, MoreArrivals DEF ComesFrom, GetSaga
<1>8. status' # "NONE"
  BY <1>2, StatusWriters DEF SetRunning, SetCompleted, SetFailed, SetCompensating,
         SetCompensationFailed, SetCompensated, WriteStatus, UpdateSagaStatus, Typed,
         CallHasRow
<1>9. CompletedStepsInContext'
  BY <1>2, <1>3, <1>4, <1>5 DEF CompletedStepsInContext, Carries, Patched
<1>10. Carries(p)'
  <2>1. pc'[p] \notin {"idle", "getSaga"} =>
            \A i \in Step : Patched(i)' => <<"do", i>> \in mem'[p]
    BY <1>2, <1>3, <1>4, <1>6, <1>7 DEF Carries, Patched, CompletedStepsInContext
  <2>2. CASE ActionSucceeds(p)
    <3>1. /\ cur' = cur
          /\ <<"do", cur[p]>> \in Patching =>
                 pc'[p] = "patchContext" /\ <<"do", cur[p]>> \in mem'[p]
      BY <1>1, <2>2 DEF ActionSucceeds, TakePatch, Goto
    <3> QED
      BY <2>1, <3>1 DEF Carries
  <2>3. CASE PatchContext(p)
    <3>1. /\ pc[p] = "patchContext" /\ pc'[p] = "setStepCompleted"
          /\ UNCHANGED <<cur, mem>> /\ context' = mem[p]
      BY <1>1, <2>3 DEF PatchContext, WriteContext, Goto, locals
    <3> QED
      BY <1>3, <2>1, <3>1 DEF Carries
  <2>4. CASE pc'[p] \notin {"patchContext", "setStepCompleted"}
    BY <2>1, <2>4 DEF Carries
  <2> QED
    BY <1>1, <2>2, <2>3, <2>4, MoreArrivals DEF ComesFrom
<1>11. ASSUME NEW q \in Proc \ {p} PROVE Carries(q)'
  BY <1>2 DEF Carries
<1> QED
  BY <1>8, <1>9, <1>10, <1>11 DEF Remembered

LEMMA RememberedLost ==
    ASSUME Typed, Sequential, Remembered, NEW p \in Proc, ReplyLost(p)
    PROVE  Remembered'
<1>1. /\ steps \in [Step -> StepStatus \cup {"NONE"}]
      /\ pc[p] \in CurSites => cur[p] \in Step
      /\ pc[p] # "idle" => status # "NONE"
  BY DEF Typed, TypeOK, StoreOK, CurInStep, CallHasRow
<1>2. pc[p] # "idle" /\ \A q \in Proc \ {p} : pc'[q] = "idle"
  BY LostGoes, OthersIdle DEF Sequential
<1>3. Carries(p) /\ CompletedStepsInContext
  BY DEF Remembered
<1>4. \A i \in Step : steps'[i] = "COMPLETED" =>
          \/ steps[i] = "COMPLETED"
          \/ i = cur[p] /\ pc[p] = "setStepCompleted"
  BY <1>1, LostWrites DEF UpdateStepStatus
<1>5. context' = context \/ (context' = mem[p] /\ pc[p] \in {"patchContext", "patchUndo"})
  BY LostWrites
<1>6. status' # "NONE"
  BY <1>1, <1>2, LostWrites
<1>7. CompletedStepsInContext'
  BY <1>2, <1>3, <1>4, <1>5 DEF CompletedStepsInContext, Carries, Patched
<1>8. Carries(p)'
  <2>1. CASE pc'[p] = "idle"
    BY <2>1 DEF Carries
  <2>2. CASE pc'[p] # "idle"
    <3>1. /\ mem'[p] = mem[p] /\ pc[p] # "getSaga"
          /\ pc'[p] \notin {"patchContext", "setStepCompleted"}
      BY <2>2, LostGoes DEF locals, TrySites, UndoSites, CompSites
    <3> QED
      BY <1>2, <1>3, <1>4, <3>1 DEF Carries, Patched
  <2> QED
    BY <2>1, <2>2
<1>9. ASSUME NEW q \in Proc \ {p} PROVE Carries(q)'
  BY <1>2 DEF Carries
<1> QED
  BY <1>6, <1>7, <1>8, <1>9 DEF Remembered

LEMMA NextRemembered ==
    ASSUME Typed, Sequential, Remembered, [Next]_vars
    PROVE  Remembered'
<1>1. ASSUME NEW p \in Proc, Run(p) PROVE Remembered'
  BY <1>1, RememberedRun
<1>3. ASSUME NEW p \in Proc, ReplyLost(p) PROVE Remembered'
  BY <1>3, RememberedLost
<1>2. CASE \A p \in Proc : ~Run(p) /\ ~ReplyLost(p)
  <2>1. UNCHANGED <<context, steps>> /\ (UNCHANGED status \/ Create)
    BY <1>2, OtherSteps
  <2>2. Create => status = "NONE"
    BY DEF Create
  <2>3. ASSUME NEW q \in Proc PROVE Carries(q)'
    <3>1. Carries(q) /\ (Create => \A i \in Step : ~Patched(i))
      BY <2>2 DEF Remembered, Patched
    <3>2. /\ mem'[q] = mem[q] \/ pc'[q] = "idle"
          /\ \/ pc'[q] = pc[q] /\ cur'[q] = cur[q]
             \/ pc'[q] \notin {"patchContext", "setStepCompleted"}
          /\ Create \/ NotBegun(q)
      BY <1>2, OtherSteps
    <3> QED
      BY <2>1, <3>1, <3>2 DEF Carries, Patched, NotBegun
  <2>4. CompletedStepsInContext' /\ (status' = "NONE" => \A i \in Step : steps'[i] # "COMPLETED")
    BY <2>1, <2>2 DEF Remembered, CompletedStepsInContext
  <2> QED
    BY <2>3, <2>4 DEF Remembered
<1> QED
  BY <1>1, <1>2, <1>3

\* With one call at a time the stored context has the patch of every completed
\* step, through every crash, rejection and resumption.
THEOREM ContextIsComplete == ASSUME Exclusive PROVE Spec => []CompletedStepsInContext
<1>1. Init => Remembered
  BY DEF Init, NoSteps, Remembered, CompletedStepsInContext, Carries, Patched
<1>2. Remembered => CompletedStepsInContext
  BY DEF Remembered
<1> QED
  BY <1>1, <1>2, NextRemembered, AlwaysTyped, AlwaysSequential, PTL DEF Spec

-----------------------------------------------------------------------------
(* The answer. *)

Answered ==
    /\ AnswerStands
    /\ pc[Caller] # "idle" => result \notin Terminal
    /\ \A p \in Proc : pc[p] = "sagaCompleted" => status = "COMPLETED"

LEMMA AnsweredRun ==
    ASSUME Typed, Sequential, Answered, NEW p \in Proc, Run(p)
    PROVE  Answered'
<1>1. pc \in [Proc -> Site] /\ Caller \in Proc
  BY DEF Typed, TypeOK, Proc
<1>2. pc[p] # "idle" /\ \A q \in Proc \ {p} : pc[q] = "idle" /\ pc'[q] = "idle"
  BY RunNotIdle, OthersIdle DEF Sequential
<1>3. [Next]_vars
  BY DEF Next
<1>4. status \in Terminal => status' = status \/ pc[Caller] = "setRunning"
  BY <1>3, EndStays
<1>5. \A q \in Proc : pc'[q] = "sagaCompleted" => status' = "COMPLETED"
  BY <1>1, <1>2, MoreArrivals DEF ComesFrom, SetCompleted, WriteStatus, UpdateSagaStatus
<1>6. CASE UNCHANGED result
  BY <1>1, <1>2, <1>4, <1>5, <1>6 DEF Answered, AnswerStands
<1>7. CASE SagaCompleted(p) \/ ReadBack(p)
  <2>1. /\ UNCHANGED status /\ pc'[p] = "idle"
        /\ result' = IF p = Caller THEN status ELSE result
    BY <1>1, <1>7 DEF SagaCompleted, ReadBack, Leave, store, Answered
  <2> QED
    BY <1>1, <1>2, <1>5, <2>1 DEF Answered, AnswerStands
<1> QED
  BY <1>6, <1>7, MoreWriters

LEMMA AnsweredLost ==
    ASSUME Typed, Sequential, Answered, NEW p \in Proc, ReplyLost(p)
    PROVE  Answered'
<1>1. pc \in [Proc -> Site] /\ Caller \in Proc
  BY DEF Typed, TypeOK, Proc
<1>2. pc[p] # "idle" /\ \A q \in Proc \ {p} : pc[q] = "idle" /\ pc'[q] = "idle"
  BY LostGoes, OthersIdle DEF Sequential
<1>3. [Next]_vars
  BY DEF Next
<1>4. status \in Terminal => status' = status \/ pc[Caller] = "setRunning"
  BY <1>3, EndStays
<1>5. \A q \in Proc : pc'[q] # "sagaCompleted"
  BY <1>2, LostGoes
<1>6. result' = result \/ (p = Caller /\ result' = "rejected")
  BY DEF ReplyLost, Thrown, Leave
<1> QED
  BY <1>1, <1>2, <1>4, <1>5, <1>6 DEF Answered, AnswerStands, Terminal

LEMMA NextAnswered ==
    ASSUME Typed, Sequential, Answered, [Next]_vars
    PROVE  Answered'
<1>1. ASSUME NEW p \in Proc, Run(p) PROVE Answered'
  BY <1>1, AnsweredRun
<1>3. ASSUME NEW p \in Proc, ReplyLost(p) PROVE Answered'
  BY <1>3, AnsweredLost
<1>2. CASE \A p \in Proc : ~Run(p) /\ ~ReplyLost(p)
  <2>1. pc \in [Proc -> Site] /\ Caller \in Proc /\ Caller \notin Workers
    BY EnvironmentAssumption DEF Typed, TypeOK, Proc
  <2>2. UNCHANGED status \/ Create
    BY <1>2, OtherSteps
  <2>3. Create => status = "NONE" /\ result' = result
    BY DEF Create
  <2>4. \A q \in Proc : pc'[q] = "sagaCompleted" => status' = "COMPLETED"
    BY <1>2, <2>2, <2>3, OtherSteps DEF Answered
  <2> DEFINE NoNews ==
          \/ result' \notin Terminal
          \/ result' = result /\ (pc'[Caller] # "idle" => pc[Caller] # "idle" \/ Create)
  <2>5. NoNews
    <3> USE DEF Terminal, Goto, Leave
    <3>1. ASSUME NEW q \in Proc, Reject(q) \/ Crash(q) PROVE NoNews
      BY <2>1, <3>1 DEF Reject, Thrown, Crash, MayReject, locals, AwaitSites, StartSites, StepSites,
             TrySites, CatchSites, UndoSites, CompSites, EndSites, Catcher
    <3>2. ASSUME NEW q \in Workers, Claim(q) PROVE NoNews
      BY <2>1, <3>2 DEF Claim
    <3>3. CASE Create \/ Resume \/ UNCHANGED vars \/ \E call \in Call : CompletesLate(call)
      BY <2>1, <3>3 DEF Create, Resume, vars, CompletesLate
    <3> QED
      BY <1>2, <3>1, <3>2, <3>3 DEF Next
  <2> QED
    BY <2>2, <2>3, <2>4, <2>5 DEF Answered, AnswerStands, Terminal
<1> QED
  BY <1>1, <1>2, <1>3

LEMMA AlwaysAnswered == ASSUME Exclusive PROVE Spec => []Answered
<1>1. Init => Answered
  BY DEF Init, Answered, AnswerStands, Terminal, Proc
<1> QED
  BY <1>1, NextAnswered, AlwaysTyped, AlwaysSequential, PTL DEF Spec

\* With one call at a time the terminal status that the caller was told is the
\* status of the row for good.
THEOREM AnswersStand == ASSUME Exclusive PROVE Spec => []AnswerStands
<1>1. Answered => AnswerStands
  BY DEF Answered
<1> QED
  BY <1>1, AlwaysAnswered, PTL

-----------------------------------------------------------------------------
(* The outbox.  Where no application resumes its saga, the rows of the     *)
(* outbox say no more than what the rows of the steps say.                 *)

Says(t, i) == \E k \in Index : Is(k, t, i)

Appends(t, i) ==
    /\ Len(outbox') = Len(outbox) + 1
    /\ \A k \in Index : outbox'[k] = outbox[k]
    /\ outbox'[Len(outbox) + 1] = [type |-> t, step |-> i]

LEMMA OneMore ==
    ASSUME outbox \in Seq(Event), NEW t \in OutboxType, NEW i \in 0..N, AppendOutbox(t, i),
           HasOutbox
    PROVE  Appends(t, i)
<1>1. [type |-> t, step |-> i] \in Event
  BY DEF Event
<1> QED
  BY <1>1 DEF AppendOutbox, Appends, Index

LEMMA SaysMore ==
    ASSUME outbox \in Seq(Event), NEW t, NEW i, Appends(t, i)
    PROVE  \A u, j : Says(u, j)' <=> Says(u, j) \/ (u = t /\ j = i)
<1>1. Len(outbox) \in Nat
  OBVIOUS
<1>2. Index' = Index \cup {Len(outbox) + 1}
  BY <1>1 DEF Appends, Index
<1>3. ASSUME NEW u, NEW j
      PROVE  [type |-> t, step |-> i] = [type |-> u, step |-> j] <=> u = t /\ j = i
  <2>1. ASSUME [type |-> t, step |-> i] = [type |-> u, step |-> j] PROVE u = t /\ j = i
    <3>1. [type |-> t, step |-> i].type = t /\ [type |-> u, step |-> j].type = u
      OBVIOUS
    <3>2. [type |-> t, step |-> i].step = i /\ [type |-> u, step |-> j].step = j
      OBVIOUS
    <3> QED
      BY <2>1, <3>1, <3>2
  <2> QED
    BY <2>1
<1> QED
  BY <1>2, <1>3 DEF Says, Is, Appends

\* A row that starts step i comes after every completion of it.
Open(i) == \E h \in Index : Is(h, "StepStarted", i) /\ \A g \in Tells(i) : g < h

LEMMA Completions ==
    ASSUME outbox \in Seq(Event), NEW j
    PROVE  /\ Len(outbox) \in Nat
           /\ Tells(j) \subseteq Index
           /\ \A g \in Tells(j) : g \in Nat /\ g < Len(outbox) + 1
           /\ IsFiniteSet(Tells(j))
           /\ Cardinality(Tells(j)) \in Nat
<1>1. Len(outbox) \in Nat
  OBVIOUS
<1>2. Tells(j) \subseteq Index /\ \A g \in Tells(j) : g \in Nat /\ g < Len(outbox) + 1
  BY <1>1 DEF Tells, Index
<1>3. IsFiniteSet(Index)
  BY <1>1, FS_Interval DEF Index
<1>4. IsFiniteSet(Tells(j))
  BY <1>2, <1>3, FS_Subset
<1> QED
  BY <1>1, <1>2, <1>4, FS_CardinalityType

LEMMA TellsMore ==
    ASSUME outbox \in Seq(Event), NEW t, NEW i, Appends(t, i), NEW j
    PROVE  /\ ~(t = "StepCompleted" /\ j = i) => Tells(j)' = Tells(j) /\ (Open(j) => Open(j)')
           /\ t = "StepCompleted" /\ j = i =>
                  /\ Tells(j)' = Tells(j) \cup {Len(outbox) + 1}
                  /\ Cardinality(Tells(j)') = Cardinality(Tells(j)) + 1
           /\ t = "StepStarted" /\ j = i => Open(j)'
<1>1. Len(outbox) \in Nat
  OBVIOUS
<1>2. Index' = Index \cup {Len(outbox) + 1} /\ Len(outbox) + 1 \notin Index
  BY <1>1 DEF Appends, Index
<1>3. \A u : outbox'[Len(outbox) + 1] = [type |-> u, step |-> j] <=> u = t /\ j = i
  <2>1. ASSUME NEW u, [type |-> t, step |-> i] = [type |-> u, step |-> j] PROVE u = t /\ j = i
    <3>1. [type |-> t, step |-> i].type = t /\ [type |-> u, step |-> j].type = u
      OBVIOUS
    <3>2. [type |-> t, step |-> i].step = i /\ [type |-> u, step |-> j].step = j
      OBVIOUS
    <3> QED
      BY <2>1, <3>1, <3>2
  <2>2. outbox'[Len(outbox) + 1] = [type |-> t, step |-> i]
    BY DEF Appends
  <2> HIDE DEF Appends
  <2> QED
    BY <2>1, <2>2
<1>4. Tells(j)' = IF t = "StepCompleted" /\ j = i THEN Tells(j) \cup {Len(outbox) + 1}
                                                    ELSE Tells(j)
  <2>1. Tells(j)' = {k \in Index' : outbox'[k] = [type |-> "StepCompleted", step |-> j]}
    BY DEF Tells, Is
  <2>2. Tells(j) = {k \in Index : outbox'[k] = [type |-> "StepCompleted", step |-> j]}
    BY DEF Tells, Is, Appends
  <2>3. outbox'[Len(outbox) + 1] = [type |-> "StepCompleted", step |-> j]
            <=> t = "StepCompleted" /\ j = i
    BY <1>3
  <2> HIDE DEF Index, Tells, Appends
  <2> QED
    BY <1>2, <2>1, <2>2, <2>3
<1>5. ASSUME t = "StepCompleted", j = i
      PROVE  Cardinality(Tells(j)') = Cardinality(Tells(j)) + 1
  <2>1. IsFiniteSet(Tells(j)) /\ Len(outbox) + 1 \notin Tells(j)
    BY <1>2, Completions
  <2> QED
    BY <1>4, <1>5, <2>1, FS_AddElement
<1>6. ASSUME Open(j), ~(t = "StepCompleted" /\ j = i) PROVE Open(j)'
  <2>1. PICK h \in Index : Is(h, "StepStarted", j) /\ \A g \in Tells(j) : g < h
    BY <1>6 DEF Open
  <2> QED
    <3>1. h \in Index' /\ Tells(j)' = Tells(j)
      BY <1>2, <1>4, <1>6
    <3>2. Is(h, "StepStarted", j)'
      BY <2>1 DEF Is, Appends
    <3> HIDE DEF Index, Is, Tells
    <3> QED
      BY <2>1, <3>1, <3>2 DEF Open
<1>7. ASSUME t = "StepStarted", j = i PROVE Open(j)'
  <2>1. PICK h \in Index' : h = Len(outbox) + 1
    BY <1>2
  <2>2. Is(h, "StepStarted", j)'
    BY <1>7, <2>1 DEF Is, Appends
  <2>3. \A g \in Tells(j)' : g < h
    BY <1>4, <1>7, <2>1, Completions
  <2> HIDE DEF Index, Is, Tells
  <2> QED
    BY <2>2, <2>3 DEF Open
<1> QED
  BY <1>4, <1>5, <1>6, <1>7

\* The story goes on with any row but a completion whose start is not its own
\* or that too many came before.
LEMMA StoryGoesOn ==
    ASSUME Typed, OutboxTellsTheStory, NEW t, NEW i, Appends(t, i),
           rejects' \in {rejects, rejects + 1}, ~Says("SagaCompleted", 0),
           \A j \in Step : t = "StepCompleted" /\ j = i =>
               Open(j) /\ Cardinality(Tells(j)) <= rejects
    PROVE  OutboxTellsTheStory'
<1>1. outbox \in Seq(Event) /\ Len(outbox) \in Nat /\ rejects \in Nat
  BY DEF Typed, TypeOK, StoreOK
<1>2. /\ Index' = Index \cup {Len(outbox) + 1}
      /\ \A k \in Index : k \in Nat /\ k < Len(outbox) + 1 /\ 1..(k - 1) \subseteq Index
      /\ 1..(Len(outbox) + 1 - 1) = Index
  BY <1>1 DEF Appends, Index
<1>3. \A u, j : \A k \in Index : Is(k, u, j)' <=> Is(k, u, j)
  BY DEF Is, Appends
<1>4. ASSUME NEW j \in Step PROVE Cardinality(Tells(j)') <= 1 + rejects'
  <2>1. Cardinality(Tells(j)) \in Nat /\ Cardinality(Tells(j)) <= 1 + rejects
    BY <1>1, Completions DEF OutboxTellsTheStory
  <2>2. Cardinality(Tells(j)') = Cardinality(Tells(j))
           \/ (t = "StepCompleted" /\ j = i /\ Cardinality(Tells(j)') = Cardinality(Tells(j)) + 1)
    BY <1>1, TellsMore
  <2>3. t = "StepCompleted" /\ j = i => Cardinality(Tells(j)) <= rejects
    OBVIOUS
  <2> HIDE DEF Index
  <2> QED
    BY <1>1, <2>1, <2>2, <2>3
<1>5. ASSUME NEW j \in Step, NEW k \in Tells(j)'
      PROVE  \E h \in 1..(k - 1) : /\ Is(h, "StepStarted", j)'
                                   /\ \A g \in Tells(j)' : g < h \/ k <= g
  <2>1. /\ \A g \in Tells(j)' : g \in Tells(j) \/ g = Len(outbox) + 1
        /\ k \in Tells(j) \/ (k = Len(outbox) + 1 /\ t = "StepCompleted" /\ j = i)
    BY <1>1, TellsMore
  <2>2. CASE k \in Tells(j)
    <3>1. PICK h \in 1..(k - 1) : /\ Is(h, "StepStarted", j)
                                  /\ \A g \in Tells(j) : g < h \/ k <= g
      BY <2>2 DEF OutboxTellsTheStory
    <3>2. k \in Index
      BY <2>2 DEF Tells
    <3>3. Is(h, "StepStarted", j)'
      BY <1>2, <1>3, <3>1, <3>2
    <3>4. k <= Len(outbox) + 1
      BY <1>1, <1>2, <3>2
    <3> QED
      BY <2>1, <3>1, <3>3, <3>4
  <2>3. CASE k = Len(outbox) + 1 /\ t = "StepCompleted" /\ j = i
    <3>1. PICK h \in Index : Is(h, "StepStarted", j) /\ \A g \in Tells(j) : g < h
      BY <2>3 DEF Open
    <3>2. h \in 1..(k - 1) /\ Is(h, "StepStarted", j)'
      BY <1>2, <1>3, <2>3, <3>1
    <3>3. k <= Len(outbox) + 1
      BY <1>1, <2>3
    <3> QED
      BY <2>1, <2>3, <3>1, <3>2, <3>3
  <2> QED
    BY <2>1, <2>2, <2>3
<1>6. ASSUME NEW k \in Index', Is(k, "SagaCompleted", 0)' PROVE k = Len(outbox')
  BY <1>2, <1>3, <1>6 DEF Says, Appends
<1> QED
  BY <1>4, <1>5, <1>6 DEF OutboxTellsTheStory

StartedWork == {"action"} \cup TrySites

\* While a step is worked on no more of its completions were told than awaits
\* rejected, and the last row that tells of it is its start.
Telling(p) ==
    /\ pc[p] \in WorkSites \cup {"stepCompleted"} => Cardinality(Tells(cur[p])) <= rejects
    /\ HasOutbox /\ pc[p] \in StartedWork => Open(cur[p])

Told ==
    /\ OutboxTellsTheStory
    /\ \A i \in Step : steps[i] \notin Settled => Cardinality(Tells(i)) <= rejects
    /\ Says("SagaCompleted", 0) => status = "COMPLETED" /\ \A p \in Proc : pc[p] = "idle"
    /\ \A p \in Proc : Telling(p)

\* A call at p that says nothing.
LEMMA ToldQuiet ==
    ASSUME Typed, Told, UNCHANGED outbox, rejects' \in {rejects, rejects + 1},
           NEW p \in Proc, pc[p] # "idle", \A q \in Proc \ {p} : pc'[q] = "idle",
           \A i \in Step : steps'[i] \notin Settled =>
               steps[i] \notin Settled \/ (i = cur[p] /\ pc[p] \in WorkSites),
           pc'[p] \in WorkSites \cup {"stepCompleted"} =>
               /\ cur'[p] = cur[p]
               /\ \/ pc[p] \in WorkSites \cup {"stepCompleted"}
                  \/ cur[p] \in Step /\ steps[cur[p]] \notin Settled,
           HasOutbox /\ pc'[p] \in StartedWork => pc[p] \in StartedWork /\ cur'[p] = cur[p]
    PROVE  Told'
<1>1. rejects \in Nat /\ outbox \in Seq(Event)
  BY DEF Typed, TypeOK, StoreOK
<1>2. \A j : /\ Cardinality(Tells(j)) \in Nat
             /\ Tells(j)' = Tells(j) /\ (Open(j)' <=> Open(j))
  BY <1>1, Completions DEF Tells, Open, Is, Index
<1>3. ASSUME NEW j, Cardinality(Tells(j)) <= rejects PROVE Cardinality(Tells(j)') <= rejects'
  <2>1. Cardinality(Tells(j)) \in Nat /\ Tells(j)' = Tells(j)
    BY <1>2
  <2> HIDE DEF Tells
  <2> QED
    BY <1>1, <1>3, <2>1
<1>4. Telling(p) /\ ~Says("SagaCompleted", 0)
  BY DEF Told
<1>5. ASSUME NEW i \in Step, steps'[i] \notin Settled PROVE Cardinality(Tells(i)') <= rejects'
  BY <1>3, <1>4, <1>5 DEF Told, Telling
<1>6. Telling(p)'
  <2>1. ASSUME pc'[p] \in WorkSites \cup {"stepCompleted"}
        PROVE  Cardinality(Tells(cur[p])') <= rejects' /\ cur'[p] = cur[p]
    BY <1>3, <1>4, <2>1 DEF Told, Telling
  <2>2. ASSUME HasOutbox, pc'[p] \in StartedWork PROVE Open(cur[p])' /\ cur'[p] = cur[p]
    BY <1>2, <1>4, <2>2 DEF Telling
  <2> QED
    BY <2>1, <2>2 DEF Telling, Tells, Open, Is, Index
<1>7. ASSUME NEW q \in Proc \ {p} PROVE Telling(q)'
  BY DEF Telling, WorkSites, StepSites, StartedWork, TrySites
<1>8. OutboxTellsTheStory'
  <2>1. \A i \in Step : Cardinality(Tells(i)') <= 1 + rejects'
    <3>1. \A i \in Step : Cardinality(Tells(i)) <= 1 + rejects
      BY DEF Told, OutboxTellsTheStory
    <3>2. ASSUME NEW i \in Step PROVE Cardinality(Tells(i)') <= 1 + rejects'
      <4>1. /\ Cardinality(Tells(i)) \in Nat /\ Tells(i)' = Tells(i)
            /\ Cardinality(Tells(i)) <= 1 + rejects
        BY <1>2, <3>1
      <4> HIDE DEF Tells
      <4> QED
        BY <1>1, <4>1
    <3> QED
      BY <3>2
  <2> QED
    BY <1>2, <2>1 DEF Told, OutboxTellsTheStory, Is, Index
<1>9. ~Says("SagaCompleted", 0)'
  BY <1>4 DEF Says, Is, Index
<1> QED
  BY <1>5, <1>6, <1>7, <1>8, <1>9 DEF Told

\* A call at p that appends a row to the outbox.
LEMMA ToldAloud ==
    ASSUME Typed, Told, UNCHANGED steps, rejects' \in {rejects, rejects + 1},
           NEW p \in Proc, pc[p] # "idle", \A q \in Proc \ {p} : pc'[q] = "idle",
           NEW t, NEW i, Appends(t, i),
           t = "StepCompleted" =>
               /\ HasOutbox /\ pc[p] = "stepCompleted" /\ i = cur[p]
               /\ i \in Step => steps[i] \in Settled,
           pc'[p] \in WorkSites \cup {"stepCompleted"} =>
               /\ cur'[p] = cur[p] /\ pc[p] \in WorkSites \cup {"stepCompleted"}
               /\ t = "StepCompleted" => rejects' = rejects + 1,
           pc'[p] \in StartedWork => t = "StepStarted" /\ i = cur[p] /\ cur'[p] = cur[p],
           t = "SagaCompleted" => status' = "COMPLETED" /\ pc'[p] = "idle"
    PROVE  Told'
<1>1. rejects \in Nat /\ outbox \in Seq(Event)
  BY DEF Typed, TypeOK, StoreOK
<1>2. Telling(p) /\ ~Says("SagaCompleted", 0) /\ OutboxTellsTheStory
  BY DEF Told
<1>3. OutboxTellsTheStory'
  <2>1. ASSUME t = "StepCompleted" PROVE Open(i) /\ Cardinality(Tells(i)) <= rejects
    BY <1>2, <2>1 DEF Telling, StartedWork, TrySites
  <2> QED
    BY <1>2, <2>1, StoryGoesOn
<1>4. ASSUME NEW j, Cardinality(Tells(j)) <= rejects,
             t = "StepCompleted" /\ j = i => rejects' = rejects + 1
      PROVE  Cardinality(Tells(j)') <= rejects'
  <2>1. /\ Cardinality(Tells(j)) \in Nat
        /\ \/ Cardinality(Tells(j)') = Cardinality(Tells(j))
           \/ /\ t = "StepCompleted" /\ j = i
              /\ Cardinality(Tells(j)') = Cardinality(Tells(j)) + 1
    BY <1>1, Completions, TellsMore
  <2> QED
    BY <1>1, <1>4, <2>1
<1>5. ASSUME NEW j \in Step, steps'[j] \notin Settled PROVE Cardinality(Tells(j)') <= rejects'
  BY <1>4, <1>5 DEF Told
<1>6. ASSUME NEW q \in Proc \ {p} PROVE Telling(q)'
  BY DEF Telling, WorkSites, StepSites, StartedWork, TrySites
<1>7. Telling(p)'
  <2>1. ASSUME pc'[p] \in WorkSites \cup {"stepCompleted"}
        PROVE  Cardinality(Tells(cur[p])') <= rejects' /\ cur'[p] = cur[p]
    BY <1>2, <1>4, <2>1 DEF Telling
  <2>2. ASSUME pc'[p] \in StartedWork PROVE Open(cur[p])' /\ cur'[p] = cur[p]
    BY <1>1, <2>2, TellsMore
  <2> QED
    BY <2>1, <2>2 DEF Telling, Tells, Open, Is, Index
<1>8. Says("SagaCompleted", 0)' => status' = "COMPLETED" /\ \A q \in Proc : pc'[q] = "idle"
  BY <1>1, <1>2, SaysMore
<1> QED
  BY <1>3, <1>5, <1>6, <1>7, <1>8 DEF Told

\* A call stays at its step while it works on it.
StaysAtStep(p) ==
    /\ pc'[p] \in WorkSites \cup {"stepCompleted"} =>
           \/ NextStep(p)
           \/ pc[p] \in WorkSites \cup {"stepCompleted"} /\ cur'[p] = cur[p]
    /\ pc'[p] \in StartedWork =>
           StepStarted(p) \/ (pc[p] \in StartedWork /\ cur'[p] = cur[p])

LEMMA CallsStay ==
    ASSUME pc \in [Proc -> Site], NEW p \in Proc, Run(p)
    PROVE  StaysAtStep(p)
BY DEF StaysAtStep, StartedWork, WorkSites, StepSites, TrySites, locals,
       Run, GetSaga, SetRunning, SagaStarted, GetSteps, NextStep, CreateStep,
       SetStepRunning, StepStarted, ActionSucceeds, ActionFails, ActionTimesOut,
       PatchContext, SetStepCompleted, StepCompleted, SetCompleted, SagaCompleted,
       SetStepFailed, SetFailed, SagaFailed, SetCompensating, CompensationStarted,
       NextUndo, CompensationSucceeds, CompensationFails, CompensationTimesOut,
       PatchUndo, SetStepCompensated, SetCompensationFailed, CompensationFailed,
       SetCompensated, CompensationCompleted, ReadBack, WriteContext, WriteStatus,
       Announce, WriteStep, Publish, Goto, Leave, TakePatch, RetryOr

LEMMA RunBudget == ASSUME NEW p \in Proc, Run(p) PROVE UNCHANGED budget
BY DEF Run, GetSaga, SetRunning, SagaStarted, GetSteps, NextStep, CreateStep,
       SetStepRunning, StepStarted, ActionSucceeds, ActionFails, ActionTimesOut,
       PatchContext, SetStepCompleted, StepCompleted, SetCompleted, SagaCompleted,
       SetStepFailed, SetFailed, SagaFailed, SetCompensating, CompensationStarted,
       NextUndo, CompensationSucceeds, CompensationFails, CompensationTimesOut,
       PatchUndo, SetStepCompensated, SetCompensationFailed, CompensationFailed,
       SetCompensated, CompensationCompleted, ReadBack, WriteContext, WriteStatus,
       Announce, WriteStep, Publish

LEMMA OutboxWriters ==
    ASSUME NEW p \in Proc, Run(p)
    PROVE  \/ UNCHANGED outbox
           \/ SagaStarted(p) \/ StepStarted(p) \/ StepCompleted(p) \/ SagaFailed(p)
           \/ SagaCompleted(p)
BY DEF Run, GetSaga, SetRunning, GetSteps, NextStep, CreateStep,
       SetStepRunning, ActionSucceeds, ActionFails, ActionTimesOut,
       PatchContext, SetStepCompleted, SetCompleted,
       SetStepFailed, SetFailed, SetCompensating, CompensationStarted,
       NextUndo, CompensationSucceeds, CompensationFails, CompensationTimesOut,
       PatchUndo, SetStepCompensated, SetCompensationFailed, CompensationFailed,
       SetCompensated, CompensationCompleted, ReadBack, WriteContext, WriteStatus,
       WriteStep, Publish, store

\* A step that says nothing.
LEMMA SilentRun ==
    ASSUME Typed, Sequential, NoHole, Told, NEW p \in Proc, Run(p), UNCHANGED outbox
    PROVE  Told'
<1>1. /\ pc \in [Proc -> Site] /\ cur \in [Proc -> 0..(N + 1)]
      /\ steps \in [Step -> StepStatus \cup {"NONE"}]
      /\ pc[p] \in CurSites => cur[p] \in Step
  BY DEF Typed, TypeOK, StoreOK, LocalsOK, CurInStep
<1>2. pc[p] # "idle" /\ \A q \in Proc \ {p} : pc'[q] = "idle"
  BY RunNotIdle, OthersIdle DEF Sequential
<1>3. UNCHANGED rejects
  BY RunBudget DEF budget
<1>4. ASSUME NEW i \in Step, steps'[i] \notin Settled
      PROVE  steps[i] \notin Settled \/ (i = cur[p] /\ pc[p] \in WorkSites)
  <2>1. CASE SetStepRunning(p) \/ SetStepFailed(p)
    <3>1. pc[p] \in WorkSites /\ \E s : UpdateStepStatus(cur[p], s)
      BY <2>1 DEF SetStepRunning, SetStepFailed, WriteStep, WorkSites, StepSites
    <3> QED
      BY <1>1, <1>4, <3>1 DEF UpdateStepStatus
  <2>2. CASE CreateStep(p) \/ SetStepCompleted(p) \/ SetStepCompensated(p)
    BY <1>1, <1>4, <2>2
       DEF CreateStep, SetStepCompleted, SetStepCompensated, UpdateStepStatus, Settled
  <2> QED
    BY <1>4, <2>1, <2>2, StepsWriters
<1>5. ASSUME NextStep(p), pc'[p] \in WorkSites \cup {"stepCompleted"}
      PROVE  cur'[p] = cur[p] /\ cur[p] \in Step /\ steps[cur[p]] \notin Settled
  <2>1. /\ cur'[p] = cur[p] /\ cur[p] \in Step /\ seen[p][cur[p]] \notin Settled
        /\ pc[p] = "nextStep"
    BY <1>1, <1>5 DEF NextStep, IsDone, Goto, WorkSites, StepSites
  <2> QED
    BY <1>1, <2>1, StepOrder DEF NoHole, LoopAt
<1>6. ~StepStarted(p) \/ ~HasOutbox
  <2>1. SUFFICES ASSUME StepStarted(p), HasOutbox PROVE FALSE
    OBVIOUS
  <2>2. cur[p] \in 0..N
    BY <1>1, <2>1, DefinitionAssumption DEF StepStarted, CurSites, StepSites, Step
  <2>3. Appends("StepStarted", cur[p])
    BY <2>1, <2>2, OneMore DEF StepStarted, OutboxType, Typed, TypeOK, StoreOK
  <2> QED
    BY <2>3 DEF Appends, Typed, TypeOK, StoreOK
<1>7. StaysAtStep(p)
  BY <1>1, CallsStay
<1>8. HasOutbox /\ pc'[p] \in StartedWork => pc[p] \in StartedWork /\ cur'[p] = cur[p]
  BY <1>6, <1>7 DEF StaysAtStep
<1>9. pc'[p] \in WorkSites \cup {"stepCompleted"} =>
          /\ cur'[p] = cur[p]
          /\ \/ pc[p] \in WorkSites \cup {"stepCompleted"}
             \/ cur[p] \in Step /\ steps[cur[p]] \notin Settled
  BY <1>5, <1>7 DEF StaysAtStep
<1> QED
  BY <1>2, <1>3, <1>4, <1>8, <1>9, ToldQuiet

\* A step that writes a row of the outbox.
LEMMA AloudRun ==
    ASSUME Typed, Sequential, NoHole, Answered, Told, HasOutbox, NEW p \in Proc, Run(p),
           \/ SagaStarted(p) \/ StepStarted(p) \/ StepCompleted(p) \/ SagaFailed(p)
           \/ SagaCompleted(p)
    PROVE  Told'
<1>1. /\ pc \in [Proc -> Site] /\ cur \in [Proc -> 0..(N + 1)]
      /\ outbox \in Seq(Event)
      /\ pc[p] \in CurSites => cur[p] \in Step
  BY DEF Typed, TypeOK, StoreOK, LocalsOK, CurInStep
<1>2. pc[p] # "idle" /\ \A q \in Proc \ {p} : pc'[q] = "idle"
  BY RunNotIdle, OthersIdle DEF Sequential
<1>3. UNCHANGED rejects
  BY RunBudget DEF budget
<1>4. Step \subseteq 0..N /\ 0 \in 0..N
  BY DefinitionAssumption DEF Step
<1> USE DEF OutboxType, CurSites, StepSites, TrySites, CatchSites, Goto, Announce
<1>5. CASE StepStarted(p)
  <2>1. /\ pc[p] = "stepStarted" /\ pc'[p] = "action" /\ cur'[p] = cur[p]
        /\ UNCHANGED steps /\ Appends("StepStarted", cur[p])
    BY <1>1, <1>4, <1>5, OneMore DEF StepStarted
  <2> QED
    BY <1>2, <1>3, <2>1, ToldAloud DEF WorkSites, StartedWork
<1>6. CASE StepCompleted(p)
  <2>1. /\ pc[p] = "stepCompleted" /\ pc'[p] = "nextStep"
        /\ UNCHANGED steps /\ Appends("StepCompleted", cur[p])
    BY <1>1, <1>4, <1>6, OneMore DEF StepCompleted
  <2>2. steps[cur[p]] \in Settled
    BY <2>1 DEF NoHole, LoopAt, Settled
  <2> QED
    BY <1>2, <1>3, <2>1, <2>2, ToldAloud DEF WorkSites, StartedWork
<1>7. CASE SagaStarted(p) \/ SagaFailed(p)
  <2>1. PICK t \in {"SagaStarted", "SagaFailed"}, i \in 0..N : Appends(t, i)
    BY <1>1, <1>4, <1>7, OneMore DEF SagaStarted, SagaFailed
  <2>2. pc'[p] \in {"getSteps", "setCompensating"} /\ UNCHANGED steps
    BY <1>1, <1>7 DEF SagaStarted, SagaFailed
  <2> QED
    BY <1>2, <1>3, <2>1, <2>2, ToldAloud DEF WorkSites, StartedWork
<1>8. CASE SagaCompleted(p)
  <2>1. /\ pc[p] = "sagaCompleted" /\ pc'[p] = "idle" /\ UNCHANGED <<status, steps>>
        /\ Appends("SagaCompleted", 0)
    BY <1>1, <1>4, <1>8, OneMore DEF SagaCompleted, Leave
  <2>2. status' = "COMPLETED"
    BY <2>1 DEF Answered
  <2> QED
    BY <1>2, <1>3, <2>1, <2>2, ToldAloud DEF WorkSites, StartedWork
<1> QED
  BY <1>5, <1>6, <1>7, <1>8

\* A statement whose acknowledgement is lost.
LEMMA ToldLost ==
    ASSUME Typed, Sequential, NoHole, Answered, Told, NEW p \in Proc, ReplyLost(p)
    PROVE  Told'
<1>1. /\ pc \in [Proc -> Site] /\ cur \in [Proc -> 0..(N + 1)]
      /\ steps \in [Step -> StepStatus \cup {"NONE"}]
      /\ outbox \in Seq(Event)
      /\ pc[p] \in CurSites => cur[p] \in Step
  BY DEF Typed, TypeOK, StoreOK, LocalsOK, CurInStep
<1>2. pc[p] # "idle" /\ \A q \in Proc \ {p} : pc'[q] = "idle"
  BY LostGoes, OthersIdle DEF Sequential
<1>3. rejects' = rejects + 1
  BY LostWrites
<1>4. Step \subseteq 0..N /\ 0 \in 0..N
  BY DefinitionAssumption DEF Step
<1>5. /\ pc'[p] \notin StartedWork
      /\ pc'[p] \in WorkSites \cup {"stepCompleted"} =>
             cur'[p] = cur[p] /\ pc[p] \in WorkSites \cup {"stepCompleted"}
  BY LostGoes DEF locals, WorkSites, StepSites, StartedWork, TrySites
<1>6. CASE UNCHANGED outbox
  <2>1. ASSUME NEW i \in Step, steps'[i] \notin Settled
        PROVE  steps[i] \notin Settled \/ (i = cur[p] /\ pc[p] \in WorkSites)
    <3>1. CASE pc[p] \in WorkSites /\ \E s : UpdateStepStatus(cur[p], s)
      BY <1>1, <2>1, <3>1 DEF UpdateStepStatus
    <3>2. CASE UpdateStepStatus(cur[p], "COMPENSATED")
      BY <1>1, <2>1, <3>2 DEF UpdateStepStatus, Settled
    <3> QED
      BY <2>1, <3>1, <3>2, LostWrites DEF WorkSites, StepSites
  <2> QED
    BY <1>2, <1>3, <1>5, <1>6, <2>1, ToldQuiet
<1>7. CASE ~UNCHANGED outbox
  <2>1. UNCHANGED <<status, steps>> /\ HasOutbox
    BY <1>7, LostOnce, LostWrites
  <2>2. \/ pc[p] = "sagaStarted" /\ Appends("SagaStarted", 0)
        \/ pc[p] = "stepStarted" /\ Appends("StepStarted", cur[p])
        \/ pc[p] = "stepCompleted" /\ Appends("StepCompleted", cur[p])
        \/ pc[p] = "sagaFailed" /\ Appends("SagaFailed", cur[p])
        \/ pc[p] = "sagaCompleted" /\ Appends("SagaCompleted", 0)
    <3>1. pc[p] \in {"stepStarted", "stepCompleted", "sagaFailed"} => cur[p] \in 0..N
      BY <1>1, <1>4 DEF CurSites, StepSites, TrySites, CatchSites
    <3> QED
      BY <1>1, <1>4, <1>7, <2>1, <3>1, LostWrites, OneMore DEF OutboxType
  <2>3. PICK t, i : /\ Appends(t, i)
                    /\ t = "StepCompleted" => pc[p] = "stepCompleted" /\ i = cur[p]
                    /\ t = "SagaCompleted" => pc[p] = "sagaCompleted"
    BY <2>2
  <2>4. t = "StepCompleted" => steps[i] \in Settled
    BY <2>3 DEF NoHole, LoopAt, Settled
  <2>5. t = "SagaCompleted" => status' = "COMPLETED" /\ pc'[p] = "idle"
    BY <2>1, <2>3, LostGoes DEF Answered, TrySites, UndoSites, CompSites
  <2> QED
    BY <1>2, <1>3, <1>5, <2>1, <2>3, <2>4, <2>5, ToldAloud
<1> QED
  BY <1>6, <1>7

LEMMA NextTold ==
    ASSUME MaxResumes = 0, Typed, Sequential, NoHole, Answered, Told, [Next]_vars
    PROVE  Told'
<1>1. ASSUME NEW p \in Proc, Run(p) PROVE Told'
  <2>1. CASE UNCHANGED outbox
    BY <1>1, <2>1, SilentRun
  <2>2. CASE ~HasOutbox
    BY <1>1, <2>1, <2>2, OutboxWriters
       DEF SagaStarted, StepStarted, StepCompleted, SagaFailed, SagaCompleted, Announce,
           AppendOutbox
  <2> QED
    BY <1>1, <2>1, <2>2, AloudRun, OutboxWriters
<1>2. ASSUME NEW p \in Proc, ReplyLost(p) PROVE Told'
  BY <1>2, ToldLost
<1>3. ASSUME NEW p \in Proc, Reject(p) \/ Crash(p) PROVE Told'
  <2>1. pc \in [Proc -> Site] /\ cur \in [Proc -> 0..(N + 1)] /\ rejects \in Nat
    BY DEF Typed, TypeOK, LocalsOK
  <2>2. pc[p] # "idle"
    BY <1>3, EnvironmentAssumption DEF Reject, Crash, MayReject, AwaitSites, StartSites,
       StepSites, TrySites, CatchSites, UndoSites, CompSites, EndSites
  <2>3. \A q \in Proc \ {p} : pc'[q] = "idle"
    BY <1>3, <2>2, OthersIdle DEF Sequential
  <2>4. UNCHANGED <<outbox, steps>> /\ rejects' \in {rejects, rejects + 1}
    BY <1>3 DEF Reject, Crash, store
  <2>5. \/ pc'[p] \notin WorkSites \cup StartedWork \cup {"stepCompleted"}
        \/ cur'[p] = cur[p] /\ pc'[p] = "setStepFailed" /\ pc[p] \in TrySites
    BY <1>3, <2>1 DEF Reject, Crash, Thrown, Catcher, Leave, Goto, locals, WorkSites, StepSites,
       StartedWork, TrySites
  <2>6. /\ pc'[p] \notin StartedWork
        /\ pc'[p] \in WorkSites \cup {"stepCompleted"} =>
               cur'[p] = cur[p] /\ pc[p] \in WorkSites \cup {"stepCompleted"}
    BY <2>5 DEF WorkSites, StartedWork, TrySites
  <2> QED
    BY <2>2, <2>3, <2>4, <2>6, ToldQuiet
<1>4. CASE \/ Create \/ UNCHANGED vars
           \/ \E p \in Workers : Claim(p)
           \/ \E call \in Call : CompletesLate(call)
  <2>1. pc \in [Proc -> Site] /\ cur \in [Proc -> 0..(N + 1)] /\ Workers \subseteq Proc
    BY DEF Typed, TypeOK, LocalsOK, Proc
  <2>2. UNCHANGED <<outbox, steps, rejects, cur>>
    BY <1>4 DEF Create, Claim, CompletesLate, store, locals, budget, vars
  <2>3. \A q \in Proc : pc'[q] = pc[q] \/ pc'[q] \in {"setRunning", "getSaga"}
    BY <1>4, <2>1 DEF Create, Claim, CompletesLate, Goto, vars
  <2>4. ASSUME NEW q \in Proc PROVE Telling(q)'
    <3>1. Telling(q)
      BY DEF Told
    <3> QED
      BY <2>2, <2>3, <3>1 DEF Telling, Tells, Open, Is, Index, WorkSites, StepSites,
         StartedWork, TrySites
  <2>5. Says("SagaCompleted", 0) => status' = "COMPLETED" /\ \A q \in Proc : pc'[q] = "idle"
    <3>1. SUFFICES ASSUME status = "COMPLETED", \A q \in Proc : pc[q] = "idle"
                   PROVE  UNCHANGED <<status, pc>>
      BY DEF Told
    <3>2. ~Create /\ \A q \in Workers : ~Claim(q)
      BY <3>1 DEF Create, Claim, Claimable
    <3> QED
      BY <1>4, <3>2 DEF CompletesLate, store, vars
  <2>6. OutboxTellsTheStory'
    BY <2>2 DEF Told, OutboxTellsTheStory, Tells, Is, Index
  <2>7. \A i \in Step : steps'[i] \notin Settled => Cardinality(Tells(i)') <= rejects'
    BY <2>2 DEF Told, Tells, Is, Index
  <2>8. Says("SagaCompleted", 0)' => Says("SagaCompleted", 0)
    BY <2>2 DEF Says, Is, Index
  <2> QED
    BY <2>4, <2>5, <2>6, <2>7, <2>8 DEF Told
<1>5. ~Resume
  BY DEF Resume, Typed, TypeOK
<1> QED
  BY <1>1, <1>2, <1>3, <1>4, <1>5 DEF Next

\* With one call at a time, and recovery alone resuming the saga, the outbox
\* tells a story that its consumers can follow: whatever crashes or rejects,
\* also when what rejects was committed, every completion has a start of its
\* own and is told again at most once for each await that rejected.
THEOREM StoryIsTold ==
    ASSUME Exclusive, MaxResumes = 0
    PROVE  Spec => []OutboxTellsTheStory
<1>1. Init => Told
  <2>1. SUFFICES ASSUME Init PROVE Told
    OBVIOUS
  <2>2. Index = {}
    BY <2>1 DEF Init, Index
  <2>3. \A i : Tells(i) = {} /\ Cardinality(Tells(i)) = 0
    BY <2>2, FS_EmptySet DEF Tells
  <2> QED
    BY <2>1, <2>2, <2>3 DEF Init, Told, OutboxTellsTheStory, Says, Telling, WorkSites,
       StepSites, StartedWork, TrySites
<1>2. Told => OutboxTellsTheStory
  BY DEF Told
<1> QED
  BY <1>1, <1>2, NextTold, AlwaysTyped, AlwaysSequential, AlwaysNoHole, AlwaysAnswered, PTL
     DEF Spec

-----------------------------------------------------------------------------
(* What the outbox misses.  A step that was done and is not told of is the  *)
(* one a call was about to tell of when it died or when its await rejected. *)

\* Done once: its row says so, or a call counts it among its completed steps,
\* as it does when it has marked it FAILED for the sake of a rejection.
WasDone(i) == steps[i] \in Settled \/ \E p \in Proc : i <= pushed[p]

AboutToTell(i) == \E p \in Proc : pc[p] = "stepCompleted" /\ cur[p] = i

Missing == {i \in Step : WasDone(i) /\ Tells(i) = {} /\ ~AboutToTell(i)}

UndoingSites == {"nextUndo", "compensation"} \cup UndoSites

\* What is compensated was completed.
UndoesPushed == \A p \in Proc : pc[p] \in UndoingSites => cur[p] <= pushed[p]

FewMissing ==
    /\ UndoesPushed
    /\ HasOutbox => Cardinality(Missing) <= crashes + rejects

LEMMA MissingFinite == IsFiniteSet(Missing) /\ Cardinality(Missing) \in Nat
<1>1. IsFiniteSet(Step)
  BY DefinitionAssumption, FS_Interval DEF Step
<1>2. Missing \subseteq Step
  BY DEF Missing
<1> QED
  BY <1>1, <1>2, FS_Subset, FS_CardinalityType

LEMMA OneElementMore ==
    ASSUME NEW S, IsFiniteSet(S), NEW x
    PROVE  /\ IsFiniteSet(S \cup {x})
           /\ Cardinality(S \cup {x}) \in Nat
           /\ Cardinality(S \cup {x}) <= Cardinality(S) + 1
<1>1. Cardinality(S) \in Nat
  BY FS_CardinalityType
<1>2. CASE x \in S
  <2>1. PICK T : T = S \cup {x}
    OBVIOUS
  <2>2. T = S
    BY <1>2, <2>1
  <2>3. IsFiniteSet(T) /\ Cardinality(T) \in Nat /\ Cardinality(T) <= Cardinality(S) + 1
    BY <1>1, <2>2
  <2> QED
    BY <2>1, <2>3
<1>3. CASE x \notin S
  BY <1>1, <1>3, FS_AddElement
<1> QED
  BY <1>2, <1>3

LEMMA NoneMoreMissing ==
    ASSUME Typed, Cardinality(Missing) <= crashes + rejects, Missing' \subseteq Missing,
           UNCHANGED <<crashes, rejects>>
    PROVE  Cardinality(Missing') <= crashes' + rejects'
<1>1. IsFiniteSet(Missing) /\ Cardinality(Missing) \in Nat
  BY MissingFinite
<1>2. Cardinality(Missing') \in Nat /\ Cardinality(Missing') <= Cardinality(Missing)
  <2> HIDE DEF Missing
  <2>1. ASSUME NEW S, S \subseteq Missing PROVE Cardinality(S) \in Nat /\ Cardinality(S) <= Cardinality(Missing)
    BY <1>1, <2>1, FS_Subset, FS_CardinalityType
  <2> QED
    BY <2>1
<1>3. crashes \in Nat /\ rejects \in Nat
  BY DEF Typed, TypeOK
<1> HIDE DEF Missing
<1> QED
  BY <1>1, <1>2, <1>3

LEMMA OneMoreMissing ==
    ASSUME Typed, Cardinality(Missing) <= crashes + rejects,
           NEW x, Missing' \subseteq Missing \cup {x},
           \/ crashes' = crashes + 1 /\ rejects' = rejects
           \/ crashes' = crashes /\ rejects' = rejects + 1
    PROVE  Cardinality(Missing') <= crashes' + rejects'
<1>1. IsFiniteSet(Missing) /\ Cardinality(Missing) \in Nat
  BY MissingFinite
<1>2. /\ IsFiniteSet(Missing \cup {x})
      /\ Cardinality(Missing \cup {x}) \in Nat
      /\ Cardinality(Missing \cup {x}) <= Cardinality(Missing) + 1
  BY <1>1, OneElementMore
<1>3. Cardinality(Missing') \in Nat /\ Cardinality(Missing') <= Cardinality(Missing \cup {x})
  <2> HIDE DEF Missing
  <2>1. ASSUME NEW S, S \subseteq Missing \cup {x}
        PROVE  Cardinality(S) \in Nat /\ Cardinality(S) <= Cardinality(Missing \cup {x})
    BY <1>2, <2>1, FS_Subset, FS_CardinalityType
  <2> QED
    BY <2>1
<1>4. crashes \in Nat /\ rejects \in Nat
  BY DEF Typed, TypeOK
<1> HIDE DEF Missing
<1> QED
  BY <1>1, <1>2, <1>3, <1>4

\* Nothing that was told is taken back.
LEMMA OutboxGrows ==
    ASSUME outbox \in Seq(Event),
           \/ UNCHANGED outbox
           \/ \E t \in OutboxType, j \in 0..N : AppendOutbox(t, j)
    PROVE  \A i \in Step : Tells(i)' = {} => Tells(i) = {}
<1>1. CASE UNCHANGED outbox
  BY <1>1 DEF Tells, Is, Index
<1>2. ASSUME NEW t \in OutboxType, NEW j \in 0..N, AppendOutbox(t, j), HasOutbox
      PROVE  \A i \in Step : Tells(i)' = {} => Tells(i) = {}
  <2>1. Appends(t, j)
    BY <1>2, OneMore
  <2>2. \A i : Tells(i)' = Tells(i) \/ Tells(i)' = Tells(i) \cup {Len(outbox) + 1}
    BY <2>1, TellsMore
  <2> HIDE DEF Tells
  <2> QED
    BY <2>2
<1>3. CASE ~HasOutbox
  BY <1>1, <1>3 DEF AppendOutbox
<1> QED
  BY <1>1, <1>2, <1>3

\* Who writes completedSteps, and where a call that undoes comes from.
LEMMA PushedWriters ==
    ASSUME pc \in [Proc -> Site], pushed \in [Proc -> 0..N], NEW p \in Proc, Run(p)
    PROVE  /\ UNCHANGED pushed \/ NextStep(p) \/ SetStepCompleted(p) \/ pushed'[p] = 0
           /\ pc'[p] \in UndoingSites =>
                  \/ CompensationStarted(p) \/ NextUndo(p) \/ SetStepCompensated(p)
                  \/ pc[p] \in UndoingSites /\ UNCHANGED <<cur, pushed>>
           /\ pc[p] = "stepCompleted" => StepCompleted(p)
           /\ pc[p] = "getSteps" => GetSteps(p)
BY DEF UndoingSites, UndoSites, locals,
       Run, GetSaga, SetRunning, SagaStarted, GetSteps, NextStep, CreateStep,
       SetStepRunning, StepStarted, ActionSucceeds, ActionFails, ActionTimesOut,
       PatchContext, SetStepCompleted, StepCompleted, SetCompleted, SagaCompleted,
       SetStepFailed, SetFailed, SagaFailed, SetCompensating, CompensationStarted,
       NextUndo, CompensationSucceeds, CompensationFails, CompensationTimesOut,
       PatchUndo, SetStepCompensated, SetCompensationFailed, CompensationFailed,
       SetCompensated, CompensationCompleted, ReadBack, WriteContext, WriteStatus,
       Announce, WriteStep, Publish, Goto, Leave, TakePatch, RetryOr

LEMMA UndoesPushedRun ==
    ASSUME Typed, UndoesPushed, NEW p \in Proc, Run(p)
    PROVE  pc'[p] \in UndoingSites => cur'[p] <= pushed'[p]
<1>1. /\ pc \in [Proc -> Site] /\ cur \in [Proc -> 0..(N + 1)]
      /\ pushed \in [Proc -> 0..N] /\ N \in Nat
      /\ pc[p] \in CurSites => cur[p] \in Step
  BY DefinitionAssumption DEF Typed, TypeOK, LocalsOK, CurInStep
<1>2. CASE CompensationStarted(p)
  BY <1>1, <1>2 DEF CompensationStarted, FirstUndo
<1>3. CASE NextUndo(p)
  <2>1. pc[p] = "nextUndo" /\ UNCHANGED pushed /\ (cur'[p] = cur[p] \/ cur'[p] = cur[p] - 1)
    BY <1>1, <1>3 DEF NextUndo
  <2>2. cur[p] <= pushed[p]
    BY <2>1 DEF UndoesPushed, UndoingSites
  <2> QED
    BY <1>1, <2>1, <2>2
<1>4. CASE SetStepCompensated(p)
  <2>1. pc[p] = "setStepCompensated" /\ UNCHANGED pushed /\ cur'[p] = cur[p] - 1
    BY <1>1, <1>4 DEF SetStepCompensated
  <2>2. cur[p] <= pushed[p]
    BY <2>1 DEF UndoesPushed, UndoingSites, UndoSites
  <2> QED
    BY <1>1, <2>1, <2>2
<1>5. ASSUME pc[p] \in UndoingSites, UNCHANGED <<cur, pushed>> PROVE cur'[p] <= pushed'[p]
  BY <1>5 DEF UndoesPushed
<1> QED
  BY <1>1, <1>2, <1>3, <1>4, <1>5, PushedWriters

\* An await that does not fail makes no step missing.
LEMMA NoneMissedByRun ==
    ASSUME Typed, Sequential, NoHole, UndoesPushed, HasOutbox, NEW p \in Proc, Run(p)
    PROVE  Missing' \subseteq Missing
<1>1. /\ pc \in [Proc -> Site] /\ cur \in [Proc -> 0..(N + 1)]
      /\ pushed \in [Proc -> 0..N] /\ N \in Nat
      /\ steps \in [Step -> StepStatus \cup {"NONE"}]
      /\ outbox \in Seq(Event)
      /\ pc[p] \in CurSites => cur[p] \in Step
  BY DefinitionAssumption DEF Typed, TypeOK, StoreOK, LocalsOK, CurInStep
<1>2. pc[p] # "idle" /\ \A q \in Proc \ {p} : Keeps(q) /\ pc[q] = "idle"
  BY RunNotIdle, OthersKept, OthersIdle DEF Sequential
<1> SUFFICES ASSUME NEW i \in Step, WasDone(i)', Tells(i)' = {}, ~AboutToTell(i)'
             PROVE  i \in Missing
  BY DEF Missing
<1>3. i \in Nat /\ i >= 1
  BY <1>1 DEF Step
<1>4. Tells(i) = {}
  <2>1. Step \subseteq 0..N /\ 0 \in 0..N
    BY <1>1 DEF Step
  <2>2. UNCHANGED outbox \/ \E t \in OutboxType, j \in 0..N : AppendOutbox(t, j)
    BY <1>1, <2>1, OutboxWriters
       DEF SagaStarted, StepStarted, StepCompleted, SagaFailed, SagaCompleted, Announce,
           OutboxType, CurSites, StepSites, TrySites, CatchSites
  <2> QED
    BY <1>1, <2>2, OutboxGrows
<1>5. ~AboutToTell(i)
  <2>1. SUFFICES ASSUME pc[p] = "stepCompleted", cur[p] = i PROVE FALSE
    BY <1>2 DEF AboutToTell
  <2>2. StepCompleted(p)
    BY <1>1, <2>1, PushedWriters
  <2>3. Appends("StepCompleted", i)
    <3>1. i \in 0..N
      BY <1>1 DEF Step
    <3> QED
      BY <1>1, <2>1, <2>2, <3>1, OneMore DEF StepCompleted, OutboxType
  <2>4. Tells(i)' = Tells(i) \cup {Len(outbox) + 1}
    BY <1>1, <2>3, TellsMore
  <2> HIDE DEF Tells
  <2> QED
    BY <2>4
<1>6. CASE SetStepCompleted(p)
  <2>1. /\ pc[p] = "setStepCompleted" /\ pc'[p] = "stepCompleted" /\ cur'[p] = cur[p]
        /\ pushed' = [pushed EXCEPT ![p] = cur[p]]
        /\ steps' = [steps EXCEPT ![cur[p]] = "COMPLETED"]
    BY <1>1, <1>6 DEF SetStepCompleted, Goto, UpdateStepStatus
  <2>2. cur[p] # i
    BY <2>1 DEF AboutToTell
  <2>3. i < cur[p] => steps[i] \in Settled
    BY <2>1 DEF NoHole, LoopAt, SettledBefore, WorkSites
  <2>4. steps'[i] = steps[i] /\ \A q \in Proc : q # p => pushed'[q] = pushed[q]
    BY <1>1, <2>1, <2>2
  <2>5. i <= pushed'[p] => i < cur[p]
    BY <1>1, <1>3, <2>1, <2>2
  <2>6. WasDone(i)
    BY <2>3, <2>4, <2>5 DEF WasDone
  <2> QED
    BY <1>4, <1>5, <2>6 DEF Missing
<1>7. CASE NextStep(p)
  <2>1. pc[p] = "nextStep" /\ UNCHANGED steps
    BY <1>7 DEF NextStep, store
  <2>2. \A q \in Proc : q # p => pushed'[q] = pushed[q]
    BY <1>2 DEF Keeps
  <2>3. \/ pushed'[p] = pushed[p]
        \/ pushed'[p] = cur[p] /\ cur[p] \in Step /\ seen[p][cur[p]] \in Settled
    BY <1>1, <1>7 DEF NextStep, IsDone
  <2>4. ASSUME pushed'[p] = cur[p], cur[p] \in Step, seen[p][cur[p]] \in Settled,
               i <= cur[p]
        PROVE  steps[i] \in Settled
    <3>1. i < cur[p] \/ i = cur[p]
      BY <1>3, <2>4 DEF Step
    <3> QED
      BY <2>1, <2>4, <3>1, StepOrder DEF NoHole, LoopAt, SettledBefore
  <2>5. WasDone(i)
    BY <2>1, <2>2, <2>3, <2>4 DEF WasDone
  <2> QED
    BY <1>4, <1>5, <2>5 DEF Missing
<1>8. CASE ~SetStepCompleted(p) /\ ~NextStep(p)
  <2>1. \A q \in Proc : pushed'[q] = pushed[q] \/ pushed'[q] = 0
    BY <1>1, <1>2, <1>8, PushedWriters DEF Keeps
  <2>2. \A q \in Proc : i <= pushed'[q] => i <= pushed[q]
    BY <1>3, <2>1
  <2>3. ASSUME steps'[i] \in Settled PROVE WasDone(i)
    <3>1. CASE SetStepCompensated(p)
      <4>1. pc[p] = "setStepCompensated" /\ (i # cur[p] => steps'[i] = steps[i])
        BY <1>1, <3>1 DEF SetStepCompensated, UpdateStepStatus
      <4>2. cur[p] <= pushed[p]
        BY <4>1 DEF UndoesPushed, UndoingSites, UndoSites
      <4> QED
        BY <2>3, <4>1, <4>2 DEF WasDone
    <3>2. CASE CreateStep(p) \/ SetStepRunning(p) \/ SetStepFailed(p)
      BY <1>1, <2>3, <3>2
         DEF CreateStep, SetStepRunning, SetStepFailed, WriteStep, UpdateStepStatus, Settled, WasDone
    <3> QED
      BY <1>8, <2>3, <3>1, <3>2, StepsWriters DEF WasDone
  <2>4. WasDone(i)
    BY <2>2, <2>3 DEF WasDone
  <2> QED
    BY <1>4, <1>5, <2>4 DEF Missing
<1> QED
  BY <1>6, <1>7, <1>8

\* A call that dies or whose await rejects makes at most its current step
\* missing, whether or not the statement was committed.
LEMMA OneMissedByFault ==
    ASSUME Typed, Sequential, UndoesPushed, HasOutbox, NEW p \in Proc,
           Reject(p) \/ ReplyLost(p) \/ Crash(p)
    PROVE  /\ Missing' \subseteq Missing \cup {cur[p]}
           /\ pc'[p] \notin UndoingSites
<1>1. /\ pc \in [Proc -> Site] /\ cur \in [Proc -> 0..(N + 1)]
      /\ pushed \in [Proc -> 0..N] /\ N \in Nat
      /\ steps \in [Step -> StepStatus \cup {"NONE"}]
      /\ outbox \in Seq(Event)
      /\ pc[p] \in CurSites => cur[p] \in Step
  BY DefinitionAssumption DEF Typed, TypeOK, StoreOK, LocalsOK, CurInStep
<1>2. \A q \in Proc \ {p} : Keeps(q) /\ pc[q] = "idle"
  BY OthersKept, OthersIdle DEF Sequential
<1>3. /\ pc'[p] \in {"idle", "setStepFailed", "setCompensationFailed", "readBack"}
      /\ pushed'[p] = pushed[p] \/ pushed'[p] = 0
  BY <1>1 DEF Reject, ReplyLost, Crash, Thrown, Catcher, Leave, Goto, locals
<1>4. ASSUME NEW i \in Step, WasDone(i)', Tells(i)' = {}, i # cur[p]
      PROVE  i \in Missing
  <2>1. i \in Nat /\ i >= 1
    BY <1>1 DEF Step
  <2>2. Tells(i) = {}
    <3>1. Step \subseteq 0..N /\ 0 \in 0..N
      BY <1>1 DEF Step
    <3>2. UNCHANGED outbox \/ \E t \in OutboxType, j \in 0..N : AppendOutbox(t, j)
      <4>1. CASE ReplyLost(p)
        BY <1>1, <3>1, <4>1, LostWrites DEF OutboxType, CurSites, StepSites, TrySites, CatchSites
      <4> QED
        BY <4>1 DEF Reject, Crash, store
    <3> QED
      BY <1>1, <1>4, <3>2, OutboxGrows
  <2>3. ~AboutToTell(i)
    BY <1>2, <1>4 DEF AboutToTell
  <2>4. steps'[i] = steps[i]
    <3>1. CASE ReplyLost(p)
      BY <1>1, <1>4, <3>1, LostWrites DEF UpdateStepStatus
    <3> QED
      BY <3>1 DEF Reject, Crash, store
  <2>5. \A q \in Proc : i <= pushed'[q] => i <= pushed[q]
    BY <1>2, <1>3, <2>1 DEF Keeps
  <2>6. WasDone(i)
    BY <1>4, <2>4, <2>5 DEF WasDone
  <2> QED
    BY <2>2, <2>3, <2>6 DEF Missing
<1> QED
  BY <1>3, <1>4 DEF Missing, UndoingSites, UndoSites

LEMMA NextFewMissing ==
    ASSUME Typed, Sequential, NoHole, FewMissing, [Next]_vars
    PROVE  FewMissing'
<1>1. UndoesPushed
  BY DEF FewMissing
<1>2. ASSUME NEW p \in Proc, Run(p) PROVE FewMissing'
  <2>1. UndoesPushed'
    <3>1. \A q \in Proc \ {p} : pc'[q] = "idle"
      BY <1>2, OthersIdle DEF Sequential
    <3> QED
      BY <1>1, <1>2, <3>1, UndoesPushedRun DEF UndoesPushed, UndoingSites, UndoSites
  <2>2. UNCHANGED <<crashes, rejects>>
    BY <1>2, RunBudget DEF budget
  <2>3. HasOutbox => Cardinality(Missing') <= crashes' + rejects'
    BY <1>1, <1>2, <2>2, NoneMissedByRun, NoneMoreMissing DEF FewMissing
  <2> QED
    BY <2>1, <2>3 DEF FewMissing
<1>3. ASSUME NEW p \in Proc, Reject(p) \/ ReplyLost(p) \/ Crash(p) PROVE FewMissing'
  <2>1. \A q \in Proc \ {p} : pc'[q] = "idle"
    BY <1>3, OthersIdle DEF Sequential
  <2>2. \/ crashes' = crashes + 1 /\ rejects' = rejects
        \/ crashes' = crashes /\ rejects' = rejects + 1
    BY <1>3 DEF Reject, ReplyLost, Crash
  <2>3. pc'[p] \in {"idle", "setStepFailed", "setCompensationFailed", "readBack"}
    BY <1>3 DEF Reject, ReplyLost, Crash, Thrown, Catcher, Leave, Goto, Typed, TypeOK, LocalsOK
  <2>4. UndoesPushed'
    BY <2>1, <2>3 DEF UndoesPushed, UndoingSites, UndoSites
  <2>5. HasOutbox => Cardinality(Missing') <= crashes' + rejects'
    BY <1>1, <1>3, <2>2, OneMissedByFault, OneMoreMissing DEF FewMissing
  <2> QED
    BY <2>4, <2>5 DEF FewMissing
<1>4. CASE \/ Create \/ Resume \/ UNCHANGED vars
           \/ \E p \in Workers : Claim(p)
           \/ \E call \in Call : CompletesLate(call)
  <2>1. pc \in [Proc -> Site] /\ Workers \subseteq Proc /\ Caller \in Proc
    BY DEF Typed, TypeOK, LocalsOK, Proc
  <2>2. UNCHANGED <<outbox, steps, cur, pushed, crashes, rejects>>
    BY <1>4 DEF Create, Resume, Claim, CompletesLate, store, locals, budget, vars
  <2>3. \A q \in Proc : \/ pc'[q] = pc[q]
                        \/ pc[q] = "idle" /\ pc'[q] \in {"setRunning", "getSaga"}
    BY <1>4, <2>1 DEF Create, Resume, Claim, CompletesLate, Goto, vars
  <2>4. Missing' \subseteq Missing
    <3>1. \A i : Tells(i)' = Tells(i)
      BY <2>2 DEF Tells, Is, Index
    <3>2. \A i : (WasDone(i)' <=> WasDone(i)) /\ (AboutToTell(i) => AboutToTell(i)')
      BY <2>2, <2>3 DEF WasDone, AboutToTell
    <3> QED
      BY <3>1, <3>2 DEF Missing
  <2>5. UndoesPushed'
    BY <1>1, <2>2, <2>3 DEF UndoesPushed, UndoingSites, UndoSites
  <2> QED
    BY <2>2, <2>4, <2>5, NoneMoreMissing DEF FewMissing
<1> QED
  BY <1>2, <1>3, <1>4 DEF Next

\* One call at a time has the outbox miss one completion at most for each time
\* that a call died or that an await of its rejected, and nothing but the one it
\* is about to tell of besides.
THEOREM FewCompletionsLost == ASSUME Exclusive PROVE Spec => []CompletionsLost
<1>1. Init => FewMissing
  <2>1. SUFFICES ASSUME Init PROVE FewMissing
    OBVIOUS
  <2>2. UndoesPushed
    BY <2>1 DEF Init, UndoesPushed, UndoingSites, UndoSites
  <2>3. Missing = {}
    BY <2>1, DefinitionAssumption DEF Init, NoSteps, Missing, WasDone, Settled, Step
  <2>4. Cardinality(Missing) = 0
    BY <2>3, FS_EmptySet
  <2> QED
    BY <2>1, <2>2, <2>4 DEF Init, FewMissing
<1>2. ASSUME Typed, Sequential, FewMissing PROVE CompletionsLost
  <2> DEFINE Tellers == {p \in Proc : pc[p] = "stepCompleted"}
  <2>1. SUFFICES ASSUME HasOutbox
                 PROVE  Cardinality(Untold) <= crashes + rejects + Cardinality(Tellers)
    BY DEF CompletionsLost
  <2>2. /\ crashes \in Nat /\ rejects \in Nat
        /\ Cardinality(Missing) <= crashes + rejects
    BY <1>2, <2>1 DEF Typed, TypeOK, FewMissing
  <2>3. IsFiniteSet(Missing) /\ Cardinality(Missing) \in Nat
    BY MissingFinite
  <2>4. CASE Tellers = {}
    <3>1. Untold \subseteq Missing
      BY <2>4 DEF Untold, Missing, WasDone, AboutToTell
    <3>2. Cardinality(Untold) \in Nat /\ Cardinality(Untold) <= Cardinality(Missing)
      BY <2>3, <3>1, FS_Subset, FS_CardinalityType
    <3>3. Cardinality(Tellers) = 0
      BY <2>4, FS_EmptySet
    <3> HIDE DEF Tellers
    <3> QED
      BY <2>2, <2>3, <3>2, <3>3
  <2>5. ASSUME NEW p \in Tellers
        PROVE  Cardinality(Untold) <= crashes + rejects + Cardinality(Tellers)
    <3>1. Tellers = {p}
      BY <1>2, <2>5 DEF Sequential, Alone
    <3>2. Cardinality(Tellers) = 1
      BY <3>1, FS_Singleton
    <3>3. Untold \subseteq Missing \cup {cur[p]}
      BY <3>1 DEF Untold, Missing, WasDone, AboutToTell
    <3> DEFINE Both == Missing \cup {cur[p]}
    <3>4. /\ IsFiniteSet(Both) /\ Cardinality(Both) \in Nat
          /\ Cardinality(Both) <= Cardinality(Missing) + 1
      BY <2>3, OneElementMore
    <3>5. Cardinality(Untold) \in Nat /\ Cardinality(Untold) <= Cardinality(Both)
      BY <3>3, <3>4, FS_Subset, FS_CardinalityType
    <3> HIDE DEF Tellers, Both
    <3> QED
      BY <2>2, <2>3, <3>2, <3>4, <3>5
  <2> QED
    BY <2>4, <2>5
<1> QED
  BY <1>1, <1>2, NextFewMissing, AlwaysTyped, AlwaysSequential, AlwaysNoHole, PTL DEF Spec

-----------------------------------------------------------------------------
(* The contract.  As long as nobody runs the saga a second time, no call   *)
(* lands late and the two writes between an effect and its record do not   *)
(* reject, the saga does what SagaContract promises, whatever else rejects *)
(* and wherever the process dies.                                          *)

FirstRun ==
    /\ MaxClaims = 0 /\ MaxResumes = 0
    /\ Timed = {}
    /\ Rejecting \cap {"patchContext", "setStepCompleted"} = {}

LEMMA FirstRunInvariants ==
    ASSUME FirstRun
    PROVE  Spec => [](Typed /\ Sequential /\ NoHole /\ Undoing)
<1>1. OneByOne
  BY DEF OneByOne, FirstRun
<1> QED
  BY <1>1, AlwaysTyped, AlwaysRecorded, InitSequential, NextSequential, InitNoHole, NextNoHole,
     InitUndoing, NextUndoing, PTL DEF Spec

\* The sites at which the step of the loop has had its effect.
DoneSites == {"patchContext", "setStepCompleted", "stepCompleted"}
GivenUpSites == CatchSites \cup {"setCompensating", "compensationStarted"}

NoneFrom(k) == \A i \in Step : i >= k => steps[i] = "NONE"
ToUndoIs(k) == effects \cap Compensable = (1..k) \cap Compensable

\* Where the effects are while the saga is run for the first time.
CourseAt(site, k, n) ==
    /\ site # "getSaga"
    /\ site = "setRunning" => status = "PENDING"
    /\ site \in StartSites => effects = {} /\ NoneFrom(1)
    /\ site = "nextStep" => effects = 1..(k - 1) /\ NoneFrom(k)
    /\ site \in StepSites \cup {"action"} => effects = 1..(k - 1)
    /\ site \in DoneSites => effects = 1..k
    /\ site = "setCompleted" => effects = 1..N
    /\ site \in GivenUpSites => effects = 1..n
    /\ site \in {"nextUndo", "compensation"} => ToUndoIs(k)
    /\ site = "compensation" => k \in Compensable
    /\ site \in UndoSites => ToUndoIs(k - 1)
    /\ site = "setCompensated" => ToUndoIs(0)

OnCourse ==
    /\ \A p \in Workers : pc[p] = "idle"
    /\ status \in {"NONE", "PENDING"} => effects = {} /\ NoneFrom(1)
    /\ CourseAt(pc[Caller], cur[Caller], pushed[Caller])

LEMMA StepRanges ==
    /\ 1..0 = {} /\ Step = 1..N /\ N \in Nat
    /\ \A k \in Step : (1..(k - 1)) \cup {k} = 1..k /\ (k + 1) - 1 = k /\ k - 1 \in 0..N
    /\ \A k \in Step : ((1..k) \cap Compensable) \ {k} = (1..(k - 1)) \cap Compensable
    /\ \A k \in Step \ Compensable :
           (1..k) \cap Compensable = (1..(k - 1)) \cap Compensable
    /\ \A k \in 0..(N + 1) : k > N => k - 1 = N
    /\ \A n \in 0..N, k \in Step : n + 1 = k => n = k - 1
BY DefinitionAssumption DEF Step

LEMMA CourseRun ==
    ASSUME Typed, Sequential, NoHole, Undoing, OnCourse, FirstRun, Run(Caller)
    PROVE  CourseAt(pc[Caller], cur[Caller], pushed[Caller])'
<1> DEFINE p == Caller
<1>a. /\ p \in Proc
      /\ pc \in [Proc -> Site] /\ cur \in [Proc -> 0..(N + 1)]
      /\ pushed \in [Proc -> 0..N]
      /\ steps \in [Step -> StepStatus \cup {"NONE"}]
      /\ pc[p] \in CurSites => cur[p] \in Step
  BY DEF Typed, TypeOK, StoreOK, LocalsOK, CurInStep, Proc
<1>b. CourseAt(pc[p], cur[p], pushed[p]) /\ LoopAt(p) /\ UndoAt(p)
  BY <1>a DEF OnCourse, NoHole, Undoing
<1>c. status = "PENDING" => effects = {} /\ NoneFrom(1)
  BY DEF OnCourse
<1> HIDE DEF p
<1> SUFFICES CourseAt(pc[p], cur[p], pushed[p])'
  BY DEF p
<1> USE DEF CourseAt, Goto, StartSites, StepSites, TrySites, CatchSites, UndoSites, DoneSites,
            GivenUpSites
<1>1. CASE GetSaga(p)
  BY <1>1, <1>a, <1>b DEF GetSaga
<1>2. CASE SetRunning(p)
  BY <1>2, <1>a, <1>b, <1>c DEF SetRunning, WriteStatus, world, locals, NoneFrom
<1>3. CASE SagaStarted(p)
  BY <1>3, <1>a, <1>b DEF SagaStarted, Announce, world, locals, NoneFrom
<1>4. CASE GetSteps(p)
  <2>1. /\ pc[p] = "getSteps" /\ pc'[p] = "nextStep" /\ cur'[p] = 1
        /\ UNCHANGED <<steps, effects>>
    BY <1>4, <1>a DEF GetSteps, store, world
  <2>2. 1..(1 - 1) = {}
    OBVIOUS
  <2> QED
    BY <1>b, <2>1, <2>2 DEF NoneFrom
<1>5. CASE NextStep(p)
  <2>1. pc[p] = "nextStep" /\ UNCHANGED <<steps, effects>>
    BY <1>5 DEF NextStep, store, world
  <2>2. ASSUME cur[p] \in Step PROVE ~IsDone(p, cur[p])
    BY <1>b, <2>1, <2>2, StepRanges DEF NoneFrom, LoopAt, IsDone, Settled
  <2>3. CASE cur[p] > N /\ Goto(p, "setCompleted")
    BY <1>a, <1>b, <2>1, <2>3, StepRanges
  <2>4. CASE /\ ~IsDone(p, cur[p]) /\ UNCHANGED cur
             /\ Goto(p, IF seen[p][cur[p]] = "RUNNING" THEN "setStepRunning" ELSE "createStep")
    BY <1>a, <1>b, <2>1, <2>4
  <2> QED
    BY <1>5, <2>2, <2>3, <2>4 DEF NextStep
<1>6. CASE CreateStep(p)
  BY <1>6, <1>a, <1>b DEF CreateStep, world, locals, UpdateStepStatus
<1>7. CASE SetStepRunning(p)
  BY <1>7, <1>a, <1>b DEF SetStepRunning, WriteStep, world, locals
<1>8. CASE StepStarted(p)
  BY <1>8, <1>a, <1>b DEF StepStarted, world
<1>9. CASE ActionSucceeds(p)
  <2>1. /\ pc[p] = "action" /\ pc'[p] \in {"patchContext", "setStepCompleted"}
        /\ cur'[p] = cur[p] /\ cur[p] \in Step
        /\ effects' = effects \cup {cur[p]}
    BY <1>9, <1>a DEF ActionSucceeds, TakePatch, CurSites
  <2>2. effects' = 1..cur[p]
    BY <1>b, <2>1, StepRanges
  <2> QED
    BY <2>1, <2>2
<1>10. CASE ActionFails(p)
  <2>1. /\ pc[p] = "action" /\ pc'[p] \in {"action", "setStepFailed"}
        /\ UNCHANGED <<steps, effects, cur, pushed>> /\ cur[p] \in Step
    BY <1>10, <1>a DEF ActionFails, RetryOr, store, world, CurSites
  <2>2. pushed[p] = cur[p] - 1
    BY <1>a, <1>b, <2>1, StepRanges DEF UndoAt
  <2> QED
    BY <1>b, <2>1, <2>2
<1>11. CASE ActionTimesOut(p)
  BY <1>11 DEF ActionTimesOut, FirstRun
<1>12. CASE PatchContext(p)
  BY <1>12, <1>a, <1>b DEF PatchContext, WriteContext, world, locals
<1>13. CASE SetStepCompleted(p)
  BY <1>13, <1>a, <1>b DEF SetStepCompleted, world, UpdateStepStatus
<1>14. CASE StepCompleted(p)
  <2>1. /\ pc[p] = "stepCompleted" /\ pc'[p] = "nextStep" /\ cur'[p] = cur[p] + 1
        /\ UNCHANGED <<steps, effects>> /\ cur[p] \in Step
    BY <1>14, <1>a DEF StepCompleted, world, CurSites
  <2>2. (cur[p] + 1) - 1 = cur[p] /\ \A i \in Step : i >= cur[p] + 1 => i > cur[p]
    BY <2>1, StepOrder, StepRanges
  <2>3. \A i \in Step : i > cur[p] => steps[i] = "NONE"
    BY <1>b, <2>1 DEF LoopAt, NoneAfter
  <2> QED
    BY <1>b, <2>1, <2>2, <2>3 DEF NoneFrom
<1>15. CASE SetCompleted(p)
  BY <1>15, <1>a, <1>b DEF SetCompleted, WriteStatus, world, locals
<1>16. CASE SagaCompleted(p)
  BY <1>16, <1>a, <1>b DEF SagaCompleted, Leave
<1>17. CASE SetStepFailed(p)
  BY <1>17, <1>a, <1>b DEF SetStepFailed, WriteStep, world, locals
<1>18. CASE SetFailed(p)
  BY <1>18, <1>a, <1>b DEF SetFailed, WriteStatus, world, locals
<1>19. CASE SagaFailed(p)
  BY <1>19, <1>a, <1>b DEF SagaFailed, Announce, world, locals
<1>20. CASE SetCompensating(p)
  BY <1>20, <1>a, <1>b DEF SetCompensating, WriteStatus, world, locals
<1>21. CASE CompensationStarted(p)
  BY <1>21, <1>a, <1>b DEF CompensationStarted, FirstUndo, world, ToUndoIs
<1>22. CASE NextUndo(p)
  <2>1. pc[p] = "nextUndo" /\ UNCHANGED effects
    BY <1>22 DEF NextUndo, world
  <2>2. CASE cur[p] = 0 /\ pc'[p] = "setCompensated"
    BY <1>b, <2>1, <2>2 DEF ToUndoIs
  <2>3. CASE /\ cur[p] \in Step \ Compensable /\ pc'[p] = "nextUndo"
             /\ cur'[p] = cur[p] - 1
    BY <1>b, <2>1, <2>3, StepRanges DEF ToUndoIs
  <2>4. CASE cur[p] \in Compensable /\ pc'[p] = "compensation" /\ UNCHANGED cur
    BY <1>b, <2>1, <2>4 DEF ToUndoIs
  <2> QED
    BY <1>22, <1>a, <2>2, <2>3, <2>4 DEF NextUndo
<1>23. CASE CompensationSucceeds(p)
  <2>1. /\ pc[p] = "compensation" /\ pc'[p] \in {"patchUndo", "setStepCompensated"}
        /\ cur'[p] = cur[p] /\ cur[p] \in Step
        /\ effects' = effects \ {cur[p]}
    BY <1>23, <1>a DEF CompensationSucceeds, TakePatch, CurSites
  <2>2. effects' \cap Compensable = (effects \cap Compensable) \ {cur[p]}
    BY <2>1
  <2>3. ToUndoIs(cur[p] - 1)'
    BY <1>b, <2>1, <2>2, StepRanges DEF ToUndoIs
  <2> QED
    BY <2>1, <2>3 DEF ToUndoIs
<1>24. CASE CompensationFails(p)
  BY <1>24, <1>a, <1>b DEF CompensationFails, RetryOr, world, ToUndoIs
<1>25. CASE CompensationTimesOut(p)
  BY <1>25 DEF CompensationTimesOut, FirstRun
<1>26. CASE PatchUndo(p)
  BY <1>26, <1>a, <1>b DEF PatchUndo, WriteContext, world, locals, ToUndoIs
<1>27. CASE SetStepCompensated(p)
  BY <1>27, <1>a, <1>b DEF SetStepCompensated, world, ToUndoIs
<1>28. CASE SetCompensationFailed(p)
  BY <1>28, <1>a, <1>b DEF SetCompensationFailed, WriteStatus, world, locals
<1>29. CASE CompensationFailed(p)
  BY <1>29, <1>a, <1>b DEF CompensationFailed, Publish
<1>30. CASE SetCompensated(p)
  BY <1>30, <1>a, <1>b DEF SetCompensated, WriteStatus, world, locals
<1>31. CASE CompensationCompleted(p)
  BY <1>31, <1>a, <1>b DEF CompensationCompleted, Publish
<1>32. CASE ReadBack(p)
  BY <1>32, <1>a, <1>b DEF ReadBack, Leave
<1> QED
  BY <1>1, <1>2, <1>3, <1>4, <1>5, <1>6, <1>7, <1>8, <1>9, <1>10, <1>11, <1>12, <1>13,
     <1>14, <1>15, <1>16, <1>17, <1>18, <1>19, <1>20, <1>21, <1>22, <1>23, <1>24, <1>25,
     <1>26, <1>27, <1>28, <1>29, <1>30, <1>31, <1>32 DEF Run, p

LEMMA InitOnCourse == Init => OnCourse
BY EnvironmentAssumption DEF Init, NoSteps, Step, OnCourse, CourseAt, NoneFrom, Proc, StartSites,
   StepSites, DoneSites, GivenUpSites, CatchSites, UndoSites

LEMMA NothingLands ==
    ASSUME Undoing, FirstRun, NEW call \in Call, CompletesLate(call)
    PROVE  FALSE
<1>1. PICK k \in {"do", "undo"}, i \in Step : call = <<k, i>>
  BY DEF Call
<1> QED
  BY <1>1 DEF CompletesLate, Undoing, LateIsTimed, FirstRun

LEMMA NextOnCourse ==
    ASSUME Typed, Sequential, NoHole, Undoing, OnCourse, FirstRun, [Next]_vars
    PROVE  OnCourse'
<1>a. /\ Caller \in Proc /\ Workers \subseteq Proc /\ Caller \notin Workers
      /\ pc \in [Proc -> Site]
      /\ claims \in Nat /\ resumes \in Nat
  BY EnvironmentAssumption DEF Typed, TypeOK, Proc
<1>b. ASSUME NEW p \in Proc, Run(p) \/ Reject(p) \/ ReplyLost(p) \/ Crash(p)
      PROVE  p = Caller /\ \A q \in Workers : pc'[q] = "idle"
  <2>1. pc[p] # "idle"
    BY <1>b, RunNotIdle, LostGoes, EnvironmentAssumption DEF Reject, Thrown, MayReject, AwaitSites, StartSites,
       StepSites, TrySites, CatchSites, UndoSites, CompSites, EndSites, Crash
  <2>2. p = Caller
    BY <2>1 DEF OnCourse, Proc
  <2> QED
    BY <1>a, <1>b, <2>2, OthersIdle DEF Sequential
<1>1. ASSUME NEW p \in Proc, Run(p) PROVE OnCourse'
  <2>1. p = Caller /\ \A q \in Workers : pc'[q] = "idle"
    BY <1>1, <1>b
  <2>2. CourseAt(pc[Caller], cur[Caller], pushed[Caller])'
    BY <1>1, <2>1, CourseRun
  <2>3. ASSUME status' \in {"NONE", "PENDING"} PROVE (effects = {} /\ NoneFrom(1))'
    <3>1. status = status' /\ StatusAt(p)
      BY <1>1, <2>3, StatusWriters DEF SetRunning, SetCompleted, SetFailed, SetCompensating,
         SetCompensationFailed, SetCompensated, UpdateSagaStatus, WriteStatus, Sequential
    <3>2. pc[p] \notin RunningSites \cup FailedSites \cup CompensatingSites
      BY <2>3, <3>1 DEF StatusAt
    <3>3. UNCHANGED steps
      BY <1>1, <3>2, StepsWriters DEF CreateStep, SetStepRunning, SetStepCompleted,
         SetStepFailed, SetStepCompensated, RunningSites, CompensatingSites, StepSites,
         TrySites, UndoSites, WriteStep
    <3>4. UNCHANGED effects
      BY <1>1, <3>2, WorldWriters DEF ActionSucceeds, ActionTimesOut, CompensationSucceeds,
         CompensationTimesOut, RunningSites, CompensatingSites, world
    <3> QED
      BY <2>3, <3>1, <3>3, <3>4 DEF OnCourse, NoneFrom
  <2> QED
    BY <2>1, <2>2, <2>3 DEF OnCourse
<1>2. ASSUME NEW p \in Proc, Reject(p) \/ Crash(p) PROVE OnCourse'
  <2>1. p = Caller /\ \A q \in Workers : pc'[q] = "idle"
    BY <1>2, <1>b
  <2>2. UNCHANGED <<status, steps, effects>>
    BY <1>2 DEF Reject, Thrown, Crash, store, world
  <2>3. CASE pc'[p] = "idle"
    <3>1. CourseAt(pc[Caller], cur[Caller], pushed[Caller])'
      BY <2>1, <2>3 DEF CourseAt, StartSites, StepSites, DoneSites, GivenUpSites, CatchSites,
         UndoSites
    <3> QED
      BY <2>1, <2>2, <3>1 DEF OnCourse, NoneFrom
  <2>4. CASE pc'[p] # "idle"
    <3>1. Reject(p) /\ pc'[p] = Catcher(pc[p]) /\ UNCHANGED <<cur, pushed>>
      BY <1>2, <1>a, <2>4 DEF Reject, Thrown, Crash, Leave, Goto, locals
    <3>2. \/ pc[p] = "stepCompleted" /\ pc'[p] = "setStepFailed"
          \/ pc'[p] \in {"setCompensationFailed", "readBack"}
      BY <2>4, <3>1 DEF Catcher, TrySites, Reject, Thrown, MayReject, FirstRun
    <3>3. pc[p] = "stepCompleted" => effects = 1..pushed[p]
      BY <2>1, <1>a DEF OnCourse, CourseAt, DoneSites, Undoing, UndoAt
    <3>4. CourseAt(pc[Caller], cur[Caller], pushed[Caller])'
      BY <2>1, <2>2, <3>1, <3>2, <3>3 DEF CourseAt, StartSites, StepSites, DoneSites,
         GivenUpSites, CatchSites, UndoSites
    <3> QED
      BY <2>1, <2>2, <3>4 DEF OnCourse, NoneFrom
  <2> QED
    BY <2>3, <2>4
<1>7. ASSUME NEW p \in Proc, ReplyLost(p) PROVE OnCourse'
  <2>1. p = Caller /\ \A q \in Workers : pc'[q] = "idle"
    BY <1>7, <1>b
  <2>2. UNCHANGED effects
    BY <1>7, LostWrites DEF world
  <2>3. CourseAt(pc[Caller], cur[Caller], pushed[Caller])'
    <3>1. CASE pc'[p] = "setStepFailed"
      <4>1. pc[p] = "stepCompleted" /\ pushed'[p] = pushed[p]
        BY <1>7, <3>1, LostGoes DEF ReplyLost, MayReject, FirstRun, TrySites, locals
      <4>2. effects = 1..pushed[p]
        BY <2>1, <4>1, <1>a DEF OnCourse, CourseAt, DoneSites, Undoing, UndoAt
      <4> QED
        BY <2>1, <2>2, <3>1, <4>1, <4>2 DEF CourseAt, StartSites, StepSites, DoneSites,
           GivenUpSites, CatchSites, UndoSites
    <3>2. CASE pc'[p] # "setStepFailed"
      BY <1>7, <2>1, <3>2, LostGoes DEF CourseAt, StartSites, StepSites, DoneSites,
         GivenUpSites, CatchSites, UndoSites
    <3> QED
      BY <3>1, <3>2
  <2>4. ASSUME status' \in {"NONE", "PENDING"} PROVE (effects = {} /\ NoneFrom(1))'
    <3>1. status = status' /\ StatusAt(p)
      BY <1>7, <2>4, LostWrites DEF Sequential
    <3>2. pc[p] \notin RunningSites \cup CompensatingSites
      BY <2>4, <3>1 DEF StatusAt
    <3>3. UNCHANGED steps
      BY <1>7, <3>2, LostWrites DEF RunningSites, CompensatingSites, StepSites, TrySites,
         UndoSites
    <3> QED
      BY <2>2, <2>4, <3>1, <3>3 DEF OnCourse, NoneFrom
  <2> QED
    BY <2>1, <2>3, <2>4 DEF OnCourse
<1>3. CASE Create
  <2>1. effects = {} /\ NoneFrom(1)
    BY <1>3 DEF Create, OnCourse
  <2>2. /\ UNCHANGED <<steps, effects>> /\ status' = "PENDING"
        /\ pc'[Caller] = "setRunning" /\ \A q \in Workers : pc'[q] = "idle"
    BY <1>3, <1>a DEF Create, UpdateSagaStatus, Goto, world, OnCourse
  <2> QED
    BY <2>1, <2>2 DEF OnCourse, CourseAt, NoneFrom, StartSites, StepSites, DoneSites,
       GivenUpSites, CatchSites, UndoSites
<1>4. ~Resume /\ \A p \in Workers : ~Claim(p)
  BY <1>a DEF Resume, Claim, FirstRun
<1>5. ASSUME NEW call \in Call, CompletesLate(call) PROVE FALSE
  BY <1>5, NothingLands
<1>6. CASE UNCHANGED vars
  BY <1>6 DEF vars, store, world, locals, OnCourse, CourseAt, NoneFrom, ToUndoIs
<1> QED
  BY <1>1, <1>2, <1>3, <1>4, <1>5, <1>6, <1>7 DEF Next

LEMMA ContractStep ==
    ASSUME Typed, Sequential, NoHole, Undoing, OnCourse, FirstRun, [Next]_vars
    PROVE  [Contract!Next]_(Contract!vars)
<1> USE DEF Contract!vars, Contract!Next, Mode
<1>1. CASE UNCHANGED <<status, effects>>
  BY <1>1
<1>2. ASSUME NEW p \in Proc, Run(p) PROVE [Contract!Next]_(Contract!vars)
  <2>a. p = Caller /\ StatusAt(p)
    BY <1>2, RunNotIdle DEF OnCourse, Proc, Sequential
  <2>b. CourseAt(pc[p], cur[p], pushed[p])
    BY <2>a DEF OnCourse
  <2>c. pc[p] \in {"action", "compensation"} => cur[p] \in 1..N
    BY DEF Typed, CurInStep, CurSites, Step
  <2>1. CASE ActionSucceeds(p)
    <3>1. /\ status = "RUNNING" /\ status' = status
          /\ cur[p] \in 1..N /\ effects = 1..(cur[p] - 1)
          /\ effects' = effects \cup {cur[p]}
      BY <2>1, <2>a, <2>b, <2>c DEF ActionSucceeds, store, StatusAt, RunningSites, CourseAt
    <3>2. effects' = 1..cur[p]
      BY <3>1, StepRanges
    <3>3. Contract!Apply(cur[p])
      BY <3>1, <3>2 DEF Contract!Apply
    <3> QED
      BY <3>1, <3>3
  <2>2. CASE CompensationSucceeds(p)
    <3>1. /\ status = "COMPENSATING" /\ status' = status
          /\ cur[p] \in 1..N /\ cur[p] \in Compensable /\ ToUndoIs(cur[p])
          /\ effects' = effects \ {cur[p]}
      BY <2>2, <2>a, <2>b, <2>c DEF CompensationSucceeds, store, StatusAt, CompensatingSites,
         CourseAt
    <3>2. cur[p] \in 1..cur[p] /\ \A j \in 1..cur[p] : j <= cur[p]
      BY <3>1, StepRanges
    <3>3. Contract!Undo(cur[p])
      BY <3>1, <3>2 DEF Contract!Undo, Contract!ToUndo, ToUndoIs
    <3> QED
      BY <3>1, <3>3
  <2>3. CASE SetRunning(p)
    BY <2>3, <2>a, <2>b DEF SetRunning, WriteStatus, UpdateSagaStatus, world, CourseAt
  <2>4. CASE SetCompleted(p)
    BY <2>4, <2>a, <2>b DEF SetCompleted, WriteStatus, UpdateSagaStatus, world, CourseAt,
       StatusAt, RunningSites, Contract!Commit
  <2>5. CASE SetFailed(p)
    BY <2>5, <2>a DEF SetFailed, WriteStatus, UpdateSagaStatus, world, StatusAt, RunningSites,
       Contract!TurnRound
  <2>6. CASE SetCompensating(p)
    BY <2>6, <2>a DEF SetCompensating, WriteStatus, UpdateSagaStatus, world, StatusAt,
       FailedSites
  <2>7. CASE SetCompensationFailed(p)
    BY <2>7, <2>a DEF SetCompensationFailed, WriteStatus, UpdateSagaStatus, world, StatusAt,
       CompensatingSites, Contract!Stick
  <2>8. CASE SetCompensated(p)
    BY <2>8, <2>a, <2>b, StepRanges DEF SetCompensated, WriteStatus, UpdateSagaStatus, world,
       StatusAt, CompensatingSites, CourseAt, ToUndoIs, Contract!Undone, Contract!ToUndo
  <2>9. ~ActionTimesOut(p) /\ ~CompensationTimesOut(p)
    BY DEF ActionTimesOut, CompensationTimesOut, FirstRun
  <2> QED
    BY <1>1, <1>2, <2>1, <2>2, <2>3, <2>4, <2>5, <2>6, <2>7, <2>8, <2>9, StatusWriters,
       WorldWriters DEF world, ActionSucceeds, CompensationSucceeds, store
<1>3. ASSUME NEW call \in Call, CompletesLate(call) PROVE FALSE
  BY <1>3, NothingLands
<1>4. CASE Create
  BY <1>4 DEF Create, UpdateSagaStatus, world
<1>5. ASSUME NEW p \in Proc, ReplyLost(p) PROVE [Contract!Next]_(Contract!vars)
  <2>1. p = Caller /\ StatusAt(p) /\ UNCHANGED effects
    BY <1>5, LostGoes, LostWrites DEF OnCourse, Proc, Sequential, world
  <2>2. CourseAt(pc[p], cur[p], pushed[p])
    BY <2>1 DEF OnCourse
  <2>3. CASE pc[p] = "setRunning" /\ status' = "RUNNING"
    BY <2>1, <2>2, <2>3 DEF CourseAt
  <2>4. CASE pc[p] = "setCompleted" /\ status' = "COMPLETED"
    BY <2>1, <2>2, <2>4 DEF CourseAt, StatusAt, RunningSites, Contract!Commit
  <2>5. CASE pc[p] = "setFailed" /\ status' = "FAILED"
    BY <2>1, <2>5 DEF StatusAt, RunningSites, Contract!TurnRound
  <2>6. CASE pc[p] = "setCompensating" /\ status' = "COMPENSATING"
    BY <2>1, <2>6 DEF StatusAt, FailedSites
  <2>7. CASE pc[p] = "setCompensationFailed" /\ status' = "COMPENSATION_FAILED"
    BY <2>1, <2>7 DEF StatusAt, CompensatingSites, Contract!Stick
  <2>8. CASE pc[p] = "setCompensated" /\ status' = "COMPENSATED"
    BY <2>1, <2>2, <2>8, StepRanges DEF StatusAt, CompensatingSites, CourseAt, ToUndoIs,
       Contract!Undone, Contract!ToUndo
  <2> QED
    BY <1>1, <1>5, <2>1, <2>3, <2>4, <2>5, <2>6, <2>7, <2>8, LostWrites
<1> QED
  BY <1>1, <1>2, <1>3, <1>4, <1>5 DEF Next, Resume, Claim, Reject, Thrown, Crash, store, world, vars

\* While it is run for the first time a saga implements SagaContract: the
\* effects of the steps come and go as the contract says, at every process
\* death and every rejection that the hypothesis lets happen.
THEOREM ContractKept ==
    ASSUME FirstRun
    PROVE  Spec => KeepsContract
<1>1. Init => Contract!Init
  BY DEF Init, Contract!Init, Mode
<1> QED
  BY <1>1, FirstRunInvariants, InitOnCourse, NextOnCourse, ContractStep, PTL
     DEF Spec, KeepsContract, Contract!Spec
=============================================================================
