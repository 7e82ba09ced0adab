----------------------------- MODULE MemorySaga -----------------------------
(***************************************************************************)
(* SagaExecutor over InMemorySagaRepository, with the tracing hooks, inside *)
(* one program: the application runs its saga while the recovery worker    *)
(* polls beside it.  What differs from PostgreSQL:                         *)
(*   - the instance is the stored object, shared by all who run the saga;  *)
(*   - a step may have several records, and getSteps copies the array but  *)
(*     not the records in it;                                              *)
(*   - claimOrphanedSagas takes a worker's own good lease again;           *)
(*   - nothing but the event publisher rejects, and nothing survives a     *)
(*     crash.                                                              *)
(* A lease may run out under the one who holds it: nothing renews it.      *)
(* The variables steps, seen and mem of SagaExecutor, which are the rows   *)
(* and the copies of rows of PostgreSQL, keep their initial values.        *)
(***************************************************************************)
EXTENDS LeasedSaga

CONSTANT MaxAtOnce      \* bound on how many run the saga at one time

ASSUME AtOnceAssumption == MaxAtOnce \in Nat

VARIABLES
    records,        \* step -> the statuses of its records, oldest first
    done,           \* completedStepNames of each process
    known,          \* how many records of a step its existingSteps has
    mine,           \* which record of the current step is its stepRecord
    span,           \* _currentSpan of the instance: "none", "open", "ended"
    leaked,         \* spans that were never ended and cannot be any more
    met,            \* history: whom those met who came to run the saga
    slips           \* history: how a lease failed to keep a second poll out

heap    == <<records, done, known, mine>>
tracing == <<span, leaked>>
history == <<met, slips>>
memoryVars == <<leaseVars, heap, tracing, history>>

\* SagaBuilder.build throws when the saga has no steps.
Buildable == N > 0

MemoryInit ==
    /\ LeasedInit
    /\ records = [i \in Step |-> <<>>]
    /\ done = [p \in Proc |-> {}]
    /\ known = [p \in Proc |-> [i \in Step |-> 0]]
    /\ mine = [p \in Proc |-> 0]
    /\ span = "none"
    /\ leaked = 0
    /\ met = {}
    /\ slips = {}

-----------------------------------------------------------------------------
(* The hooks of createTracingHooks that keep a span on the instance; the    *)
(* executor of a recovery worker has no hooks.                             *)

\* onStepStart: the span before is forgotten, ended or not.
OpenSpan(p) ==
    IF p = Caller
       THEN /\ span' = "open"
            /\ leaked' = IF span = "open" THEN leaked + 1 ELSE leaked
       ELSE UNCHANGED tracing

\* Wrong on purpose: only onStepComplete ends the span.
NotEnded(p, outcome) ==
    /\ span' = IF p = Caller /\ span = "open" /\ outcome = "completed" THEN "ended" ELSE span
    /\ UNCHANGED leaked

\* onStepComplete and onStepFailed.
EndSpan(p, outcome) ==
    /\ span' = IF p = Caller /\ span = "open" THEN "ended" ELSE span
    /\ UNCHANGED leaked

-----------------------------------------------------------------------------
(* The awaits that read or write the heap.  The writes happen when the     *)
(* repository is called, the process goes on in a later microtask.         *)

Begin ==
    /\ Buildable
    /\ Create
    /\ UNCHANGED <<lease, heap, tracing, history>>

\* getSaga gives the stored object itself.
ShareInstance(p) ==
    /\ Publish(p, "getSaga", "setRunning")
    /\ UNCHANGED <<lease, heap, tracing, history>>

ListSteps(p) ==
    /\ pc[p] = "getSteps"
    /\ done' = [done EXCEPT ![p] =
           {i \in Step : \E k \in 1..Len(records[i]) : records[i][k] \in Settled}]
    /\ known' = [known EXCEPT ![p] = [i \in Step |-> Len(records[i])]]
    /\ cur' = [cur EXCEPT ![p] = 1]
    /\ Goto(p, "nextStep")
    /\ UNCHANGED <<store, world, pushed, attempt, seen, mem, result, budget, lease,
                   records, mine, tracing, history>>

\* Wrong on purpose: no record is taken over.
TakenOverNever(p, i) == {}

\* existingSteps.find: the records known at getSteps, with their statuses now.
TakenOver(p, i) == {k \in 1..known[p][i] : records[i][k] = "RUNNING"}

\* The head of the loop.
FindRecord(p) ==
    /\ pc[p] = "nextStep"
    /\ \/ /\ cur[p] > N
          /\ Goto(p, "setCompleted")
          /\ UNCHANGED <<cur, pushed, mine>>
       \/ /\ cur[p] \in Step \cap done[p]
          /\ pushed' = [pushed EXCEPT ![p] = cur[p]]
          /\ cur' = [cur EXCEPT ![p] = cur[p] + 1]
          /\ UNCHANGED <<pc, mine>>
       \/ /\ cur[p] \in Step \ done[p]
          /\ \E k \in TakenOver(p, cur[p]) :
                 /\ \A h \in TakenOver(p, cur[p]) : k <= h
                 /\ mine' = [mine EXCEPT ![p] = k]
          /\ Goto(p, "setStepRunning")
          /\ UNCHANGED <<cur, pushed>>
       \/ /\ cur[p] \in Step \ done[p]
          /\ TakenOver(p, cur[p]) = {}
          /\ Goto(p, "createStep")
          /\ UNCHANGED <<cur, pushed, mine>>
    /\ UNCHANGED <<store, world, attempt, seen, mem, result, budget, lease,
                   records, done, known, tracing, history>>

\* createStep: always a new record.
PushRecord(p) ==
    /\ pc[p] = "createStep"
    /\ records' = [records EXCEPT ![cur[p]] = Append(@, "PENDING")]
    /\ mine' = [mine EXCEPT ![p] = Len(records[cur[p]]) + 1]
    /\ Goto(p, "setStepRunning")
    /\ UNCHANGED <<store, world, locals, result, budget, lease, done, known, tracing, history>>

\* Wrong on purpose: the record is written when the step ends.
SetRecordAtEnd(p, k, s) ==
    records' = IF s = "RUNNING" THEN records ELSE [records EXCEPT ![cur[p]][k] = s]

\* updateStepStatus
SetRecord(p, k, s) == records' = [records EXCEPT ![cur[p]][k] = s]

RunRecord(p) ==
    /\ Publish(p, "setStepRunning", "stepStarted")
    /\ SetRecord(p, mine[p], "RUNNING")
    /\ UNCHANGED <<lease, done, known, mine, tracing, history>>

FailRecord(p) ==
    /\ Publish(p, "setStepFailed", "setFailed")
    /\ SetRecord(p, mine[p], "FAILED")
    /\ UNCHANGED <<lease, done, known, mine, tracing, history>>

CompleteRecord(p) ==
    /\ pc[p] = "setStepCompleted"
    /\ SetRecord(p, mine[p], "COMPLETED")
    /\ pushed' = [pushed EXCEPT ![p] = cur[p]]
    /\ Goto(p, "stepCompleted")
    /\ UNCHANGED <<store, world, cur, attempt, seen, mem, result, budget, lease,
                   done, known, mine, tracing, history>>

\* compensate takes the first record of the step.
CompensateRecord(p) ==
    /\ pc[p] = "setStepCompensated"
    /\ IF records[cur[p]] = <<>>
          THEN UNCHANGED records
          ELSE SetRecord(p, 1, "COMPENSATED")
    /\ cur' = [cur EXCEPT ![p] = cur[p] - 1]
    /\ Goto(p, "nextUndo")
    /\ UNCHANGED <<store, world, pushed, attempt, seen, mem, result, budget, lease,
                   done, known, mine, tracing, history>>

\* Wrong on purpose: the patch takes the place of the context.
Replaced(call) == {call}

\* { ...instance.context, ...patch }, of the shared instance.
Merged(call) == context \cup {call}

\* The call has returned: its patch is in the stored object at once.
Patch(p, call, save, after) ==
    /\ attempt' = [attempt EXCEPT ![p] = 0]
    /\ IF call \in Patching
          THEN context' = Merged(call) /\ Goto(p, save)
          ELSE UNCHANGED context /\ Goto(p, after)
    /\ UNCHANGED <<status, reason, steps, outbox, late, cur, pushed, seen, mem,
                   result, budget, lease, heap, tracing, history>>

ActionReturns(p) ==
    /\ pc[p] = "action"
    /\ attempt[p] <= Attempts[cur[p]]
    /\ effects' = effects \cup {cur[p]}
    /\ Patch(p, <<"do", cur[p]>>, "patchContext", "setStepCompleted")

CompensationReturns(p) ==
    /\ pc[p] = "compensation"
    /\ attempt[p] <= CompAttempts[cur[p]]
    /\ effects' = effects \ {cur[p]}
    /\ Patch(p, <<"undo", cur[p]>>, "patchUndo", "setStepCompensated")

\* updateSagaContext puts the instance's context where it is already.
ContextSaved(p) ==
    /\ \/ Publish(p, "patchContext", "setStepCompleted")
       \/ Publish(p, "patchUndo", "setStepCompensated")
    /\ UNCHANGED <<lease, heap, tracing, history>>

-----------------------------------------------------------------------------
(* The awaits that do what they do over PostgreSQL. *)

\* What a call that returns or throws leaves behind.
Forget(p) ==
    /\ done' = [done EXCEPT ![p] = {}]
    /\ known' = [known EXCEPT ![p] = [i \in Step |-> 0]]
    /\ mine' = [mine EXCEPT ![p] = 0]
    /\ UNCHANGED records

StartStep(p) == StepStarted(p) /\ OpenSpan(p) /\ UNCHANGED <<lease, heap, history>>

FinishStep(p) ==
    StepCompleted(p) /\ EndSpan(p, "completed") /\ UNCHANGED <<lease, heap, history>>

FailStep(p) == SagaFailed(p) /\ EndSpan(p, "failed") /\ UNCHANGED <<lease, heap, history>>

Return(p) ==
    /\ SagaCompleted(p) \/ ReadBack(p)
    /\ Forget(p)
    /\ UNCHANGED <<lease, tracing, history>>

AsBefore(p) ==
    /\ \/ SetRunning(p) \/ SagaStarted(p) \/ ActionFails(p) \/ ActionTimesOut(p)
       \/ SetCompleted(p) \/ SetFailed(p) \/ SetCompensating(p)
       \/ CompensationStarted(p) \/ NextUndo(p) \/ CompensationFails(p)
       \/ CompensationTimesOut(p) \/ SetCompensationFailed(p) \/ CompensationFailed(p)
       \/ SetCompensated(p) \/ CompensationCompleted(p)
    /\ UNCHANGED <<lease, heap, tracing, history>>

\* The awaits that call the event publisher.
PublishSites == {"sagaStarted", "stepStarted", "stepCompleted", "sagaFailed",
                 "compensationStarted", "compensationFailed",
                 "compensationCompleted", "sagaCompleted"}

\* The publisher rejects: the hook before it has been called.
PublisherRejects(p) ==
    /\ p = Caller
    /\ pc[p] \in PublishSites
    /\ Reject(p)
    /\ CASE pc[p] = "stepStarted"   -> OpenSpan(p)
         [] pc[p] = "stepCompleted" -> EndSpan(p, "completed")
         [] pc[p] = "sagaFailed"    -> EndSpan(p, "failed")
         [] OTHER                   -> UNCHANGED tracing
    /\ IF pc'[p] = "idle" THEN Forget(p) ELSE UNCHANGED heap
    /\ UNCHANGED <<lease, history>>

CompletesLater(call) == CompletesLate(call) /\ UNCHANGED <<lease, heap, tracing, history>>

-----------------------------------------------------------------------------
(* Recovery. *)

\* Wrong on purpose: the lease is not looked at.
MayTakeAlways(p) == TRUE

\* No lease, one that has expired, or one's own.
MayTake(p) == ~live \/ owner = OwnerOf[p]

\* Bounds: on those who come to run the saga after the first, on how many run
\* it at one time, and nobody comes after one who came beside the application.
SomeToCome == claims + resumes < MaxClaims

WithinBounds ==
    /\ SomeToCome
    /\ Cardinality({p \in Proc : pc[p] # "idle"}) < MaxAtOnce
    /\ "application" \notin met

\* The application resumes its saga itself, whoever else runs it.
ResumeShared ==
    /\ Resume
    /\ WithinBounds
    /\ met' = met \cup (IF Quiet THEN {} ELSE {"application"})
    /\ UNCHANGED <<lease, heap, tracing, slips>>

TakeSaga(p) ==
    /\ status \in Claimable
    /\ MayTake(p)
    /\ pc[p] = "idle" /\ p \notin holding
    /\ WithinBounds
    /\ claims' = claims + 1
    /\ Goto(p, "getSaga")
    /\ owner' = OwnerOf[p]
    /\ live' = TRUE
    /\ holding' = holding \cup {p}
    /\ met' = met \cup (IF pc[Caller] = "idle" THEN {} ELSE {"application"})
                  \cup (IF holding = {} THEN {} ELSE {"worker"})
    /\ slips' = slips \cup (IF live /\ owner = OwnerOf[p] THEN {"twin"} ELSE {})
    /\ UNCHANGED <<store, world, locals, result, crashes, rejects, resumes, heap, tracing>>

DropLease(p) == ReleaseSaga(p) /\ UNCHANGED <<heap, tracing, history>>

\* lockedUntil passes, also while the one who took the lease is at work; it is
\* of no consequence when nobody is to come.
Lapse ==
    /\ Expire
    /\ SomeToCome
    /\ slips' = slips \cup (IF holding = {} THEN {} ELSE {"lapse"})
    /\ UNCHANGED <<heap, tracing, met>>

RunInMemory(p) ==
    \/ ShareInstance(p) \/ ListSteps(p) \/ FindRecord(p) \/ PushRecord(p)
    \/ RunRecord(p) \/ StartStep(p) \/ ActionReturns(p) \/ ContextSaved(p)
    \/ CompleteRecord(p) \/ FinishStep(p) \/ FailRecord(p) \/ FailStep(p)
    \/ CompensationReturns(p) \/ CompensateRecord(p)
    \/ AsBefore(p) \/ Return(p) \/ PublisherRejects(p)

MemoryNext ==
    \/ Begin
    \/ ResumeShared
    \/ \E p \in Proc : RunInMemory(p)
    \/ \E p \in Workers : TakeSaga(p) \/ DropLease(p)
    \/ Lapse
    \/ \E call \in Call : CompletesLater(call)

MemorySpec == MemoryInit /\ [][MemoryNext]_memoryVars

-----------------------------------------------------------------------------
\* Whoever runs the saga beside whom, what a step did or may still do has a
\* record that says it was started.
EffectsAreRecorded ==
    \A i \in Step : i \in effects \/ <<"do", i>> \in late =>
        \E k \in 1..Len(records[i]) : records[i][k] # "PENDING"

\* No patch of a completed step is lost, even when two run the saga at one
\* time: they share the object that each of them patches.
NoPatchLost ==
    \A i \in Step : <<"do", i>> \in Patching =>
        \A k \in 1..Len(records[i]) : records[i][k] = "COMPLETED" => <<"do", i>> \in context

\* A step gets another record only after the one before was FAILED, unless two
\* ran the saga at one time: nothing but the loop's own look at existingSteps
\* keeps createStep from adding one.
OneLiveRecord ==
    met = {} =>
        \A i \in Step : \A h, k \in 1..Len(records[i]) :
            {records[i][h], records[i][k]} \cap {"FAILED", "COMPENSATED"} = {} => h = k

\* Every span that the application opens is ended, whoever runs the saga beside
\* it and however often it resumes it, but for one for each rejected publish.
SpansEnd ==
    LET StepIsOn == pc[Caller] \in {"action", "setStepFailed", "setFailed",
                                    "sagaFailed"} \cup TrySites
    IN  leaked + (IF span = "open" /\ ~StepIsOn THEN 1 ELSE 0) <= rejects

\* Two polls come to hold the saga, of one worker or of two, only after a
\* worker took its own good lease again or a lease ran out under its holder.
OneHolderUnlessSlip == slips = {} => \A p, q \in holding : p = q
=============================================================================
