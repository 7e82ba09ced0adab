---------------------------- MODULE SagaExecutor ----------------------------
(***************************************************************************)
(* One saga instance, run by SagaExecutor.execute / resume, with           *)
(* CompensationExecutor.compensate, withRetry and executeWithTimeout, over *)
(* the rows of PostgresSagaRepository.                                     *)
(*                                                                         *)
(* A process is one call of execute or resume.  Its control is the await   *)
(* it is suspended at (pc); every await of the code is one site and one    *)
(* action, so crashes, rejections and the other processes fall between any *)
(* two of them.  Caller is the application that starts the saga, Workers   *)
(* are recovery workers.                                                   *)
(***************************************************************************)
EXTENDS Naturals, Sequences, FiniteSets

CONSTANTS
    N,              \* number of steps of the definition
    Compensable,    \* the steps with a compensate function
    Patching,       \* the calls <<"do", i>>, <<"undo", i>> that return a patch
    Timed,          \* the steps with options.timeout
    Attempts,       \* step -> attempts of its retry policy
    CompAttempts,   \* step -> attempts of its compensation retry policy
    Caller,         \* the application's process
    Workers,        \* the recovery workers' processes
    HasOutbox,      \* does the repository implement appendOutboxEvent?
    Rejecting,      \* the sites whose await may reject
    Exclusive,      \* is a saga resumed only when no process is running it?
    MaxCrashes,     \* bounds on what the environment does
    MaxRejects,
    MaxClaims,
    MaxResumes

Step == 1..N
Call == {"do", "undo"} \X Step
Proc == {Caller} \cup Workers

SagaStatus == {"PENDING", "RUNNING", "COMPLETED", "FAILED",
               "COMPENSATING", "COMPENSATED", "COMPENSATION_FAILED"}
StepStatus == {"PENDING", "RUNNING", "COMPLETED", "FAILED", "COMPENSATED"}

Terminal == {"COMPLETED", "COMPENSATED", "COMPENSATION_FAILED"}
Settled  == {"COMPLETED", "COMPENSATED"}

\* Wrong on purpose: recovery looks for every saga that was started and did not
\* complete.
ClaimableUnfinished  == SagaStatus \ {"PENDING", "COMPLETED"}

Claimable == {"RUNNING", "COMPENSATING"}

\* The awaits of the code, by what fails when they reject.
StartSites  == {"getSaga", "setRunning", "sagaStarted", "getSteps"}
StepSites   == {"createStep", "setStepRunning", "stepStarted"}
TrySites    == {"patchContext", "setStepCompleted", "stepCompleted"}
CatchSites  == {"setStepFailed", "setFailed", "sagaFailed"}
UndoSites   == {"patchUndo", "setStepCompensated"}
CompSites   == {"setCompensating", "compensationStarted",
                "setCompensationFailed", "compensationFailed",
                "setCompensated", "compensationCompleted"}
EndSites    == {"readBack", "setCompleted", "sagaCompleted"}
AwaitSites  == StartSites \cup StepSites \cup TrySites \cup CatchSites
                   \cup UndoSites \cup CompSites \cup EndSites
\* The user's functions, whose failures withRetry handles, the heads of the
\* two loops, and not running at all.
OtherSites  == {"action", "compensation", "nextStep", "nextUndo", "idle"}
Site == AwaitSites \cup OtherSites

OutboxType == {"SagaStarted", "StepStarted", "StepCompleted",
               "SagaFailed", "SagaCompleted"}
Event == [type : OutboxType, step : 0..N]

ASSUME DefinitionAssumption ==
    /\ N \in Nat
    /\ Compensable \subseteq Step
    /\ Patching \subseteq Call
    /\ Timed \subseteq Step
    /\ Attempts \in [Step -> Nat]
    /\ CompAttempts \in [Step -> Nat]

ASSUME EnvironmentAssumption ==
    /\ Caller \notin Workers
    /\ HasOutbox \in BOOLEAN
    /\ Exclusive \in BOOLEAN
    /\ Rejecting \subseteq AwaitSites
    /\ {MaxCrashes, MaxRejects, MaxClaims, MaxResumes} \subseteq Nat

-----------------------------------------------------------------------------
VARIABLES
    \* the rows of the saga (saga_instances, saga_steps, saga_outbox)
    status,         \* "NONE" until the row exists
    reason,         \* what failure_reason tells
    context,        \* the calls whose patch the stored context has
    steps,          \* step -> status of its row, "NONE" while it has none
    outbox,
    \* the outside world
    effects,        \* the steps whose action has taken effect
    late,           \* calls abandoned by a timeout that may still take effect
    \* the locals of each process
    pc,
    cur,            \* the step of the current iteration of either loop
    pushed,         \* completedSteps: always the first steps of the definition
    attempt,        \* withRetry's counter
    seen,           \* existingSteps
    mem,            \* instance.context
    \* what the caller's promise gave
    result,
    \* how much the environment has done
    crashes, rejects, claims, resumes

store  == <<status, reason, context, steps, outbox>>
world  == <<effects, late>>
locals == <<cur, pushed, attempt, seen, mem>>
budget == <<crashes, rejects, claims, resumes>>
vars   == <<store, world, pc, locals, result, budget>>

NoSteps == [i \in Step |-> "NONE"]

Init ==
    /\ status = "NONE"
    /\ reason = "none"
    /\ context = {}
    /\ steps = NoSteps
    /\ outbox = <<>>
    /\ effects = {}
    /\ late = {}
    /\ pc = [p \in Proc |-> "idle"]
    /\ cur = [p \in Proc |-> 0]
    /\ pushed = [p \in Proc |-> 0]
    /\ attempt = [p \in Proc |-> 0]
    /\ seen = [p \in Proc |-> NoSteps]
    /\ mem = [p \in Proc |-> {}]
    /\ result = "none"
    /\ crashes = 0
    /\ rejects = 0
    /\ claims = 0
    /\ resumes = 0

-----------------------------------------------------------------------------
(* The repository's writes, and the moves of a process. *)

\* Wrong on purpose: the two columns are swapped.
UpdateSagaStatusSwapped(s, r) ==
    /\ status' = r
    /\ reason' = s

\* Without a failureReason argument the column is set to NULL.
UpdateSagaStatus(s, r) ==
    /\ status' = s
    /\ reason' = r

UpdateStepStatus(i, s) == steps' = [steps EXCEPT ![i] = s]

AppendOutbox(t, i) ==
    outbox' = IF HasOutbox THEN Append(outbox, [type |-> t, step |-> i]) ELSE outbox

Goto(p, site) == pc' = [pc EXCEPT ![p] = site]

\* The call returns or throws: its locals are gone.
Leave(p, answer) ==
    /\ pc' = [pc EXCEPT ![p] = "idle"]
    /\ cur' = [cur EXCEPT ![p] = 0]
    /\ pushed' = [pushed EXCEPT ![p] = 0]
    /\ attempt' = [attempt EXCEPT ![p] = 0]
    /\ seen' = [seen EXCEPT ![p] = NoSteps]
    /\ mem' = [mem EXCEPT ![p] = {}]
    /\ result' = IF p = Caller THEN answer ELSE result

\* The awaits that do one of these and go on.
WriteStatus(p, site, s, r, after) ==
    /\ pc[p] = site
    /\ UpdateSagaStatus(s, r)
    /\ Goto(p, after)
    /\ UNCHANGED <<context, steps, outbox, world, locals, result, budget>>

WriteContext(p, site, after) ==
    /\ pc[p] = site
    /\ context' = mem[p]
    /\ Goto(p, after)
    /\ UNCHANGED <<status, reason, steps, outbox, world, locals, result, budget>>

WriteStep(p, site, s, after) ==
    /\ pc[p] = site
    /\ UpdateStepStatus(cur[p], s)
    /\ Goto(p, after)
    /\ UNCHANGED <<status, reason, context, outbox, world, locals, result, budget>>

\* Hook, publisher and outbox, in this order; the compensation events are
\* published and never appended to the outbox.
Announce(p, site, t, i, after) ==
    /\ pc[p] = site
    /\ AppendOutbox(t, i)
    /\ Goto(p, after)
    /\ UNCHANGED <<status, reason, context, steps, world, locals, result, budget>>

Publish(p, site, after) ==
    /\ pc[p] = site
    /\ Goto(p, after)
    /\ UNCHANGED <<store, world, locals, result, budget>>

\* Nobody is running the saga.
Quiet == \A p \in Proc : pc[p] = "idle"

-----------------------------------------------------------------------------
(* How a call of execute begins. *)

Create ==
    /\ status = "NONE"
    /\ pc[Caller] = "idle"
    /\ UpdateSagaStatus("PENDING", "none")
    /\ Goto(Caller, "setRunning")
    /\ UNCHANGED <<context, steps, outbox, world, locals, result, budget>>

\* recoverOnce has claimed the saga; it resumes it when its turn comes.
Claim(p) ==
    /\ status \in Claimable
    /\ pc[p] = "idle"
    /\ Exclusive => Quiet
    /\ claims < MaxClaims
    /\ claims' = claims + 1
    /\ Goto(p, "getSaga")
    /\ UNCHANGED <<store, world, locals, result, crashes, rejects, resumes>>

\* The application calls resume itself, whatever the status of the saga.
Resume ==
    /\ status # "NONE"
    /\ pc[Caller] = "idle"
    /\ Exclusive => Quiet
    /\ resumes < MaxResumes
    /\ resumes' = resumes + 1
    /\ result' = "none"
    /\ Goto(Caller, "getSaga")
    /\ UNCHANGED <<store, world, locals, crashes, rejects, claims>>

\* Wrong on purpose: a resumed saga starts from an empty context.
GetSagaAfresh(p) == Publish(p, "getSaga", "setRunning")

GetSaga(p) ==
    /\ pc[p] = "getSaga"
    /\ mem' = [mem EXCEPT ![p] = context]
    /\ Goto(p, "setRunning")
    /\ UNCHANGED <<store, world, cur, pushed, attempt, seen, result, budget>>

SetRunning(p) == WriteStatus(p, "setRunning", "RUNNING", "none", "sagaStarted")

SagaStarted(p) == Announce(p, "sagaStarted", "SagaStarted", 0, "getSteps")

GetSteps(p) ==
    /\ pc[p] = "getSteps"
    /\ seen' = [seen EXCEPT ![p] = steps]
    /\ cur' = [cur EXCEPT ![p] = 1]
    /\ Goto(p, "nextStep")
    /\ UNCHANGED <<store, world, pushed, attempt, mem, result, budget>>

-----------------------------------------------------------------------------
(* The loop over the steps. *)

\* Wrong on purpose: failed steps are skipped, compensated ones are not, or
\* completed ones are not.
IsDoneOrFailed(p, i) == seen[p][i] \in Settled \cup {"FAILED"}
IsCompleted(p, i) == seen[p][i] = "COMPLETED"
IsCompensated(p, i) == seen[p][i] = "COMPENSATED"

\* completedStepNames.has(step.name)
IsDone(p, i) == seen[p][i] \in Settled

\* The head of the loop: a step whose record was settled is not run again, a
\* record left RUNNING is taken over.
NextStep(p) ==
    /\ pc[p] = "nextStep"
    /\ \/ /\ cur[p] > N
          /\ Goto(p, "setCompleted")
          /\ UNCHANGED <<cur, pushed>>
       \/ /\ cur[p] \in Step
          /\ IsDone(p, cur[p])
          /\ pushed' = [pushed EXCEPT ![p] = cur[p]]
          /\ cur' = [cur EXCEPT ![p] = cur[p] + 1]
          /\ UNCHANGED pc
       \/ /\ cur[p] \in Step
          /\ ~IsDone(p, cur[p])
          /\ Goto(p, IF seen[p][cur[p]] = "RUNNING" THEN "setStepRunning" ELSE "createStep")
          /\ UNCHANGED <<cur, pushed>>
    /\ UNCHANGED <<store, world, attempt, seen, mem, result, budget>>

\* INSERT ... ON CONFLICT DO NOTHING: an existing row is returned as it is.
CreateStep(p) ==
    /\ pc[p] = "createStep"
    /\ IF steps[cur[p]] = "NONE"
          THEN UpdateStepStatus(cur[p], "PENDING")
          ELSE UNCHANGED steps
    /\ Goto(p, "setStepRunning")
    /\ UNCHANGED <<status, reason, context, outbox, world, locals, result, budget>>

\* Wrong on purpose: the step is started on its PENDING row.
SetStepRunningLater(p) == Publish(p, "setStepRunning", "stepStarted")

SetStepRunning(p) == WriteStep(p, "setStepRunning", "RUNNING", "stepStarted")

StepStarted(p) ==
    /\ pc[p] = "stepStarted"
    /\ AppendOutbox("StepStarted", cur[p])
    /\ attempt' = [attempt EXCEPT ![p] = 1]
    /\ Goto(p, "action")
    /\ UNCHANGED <<status, reason, context, steps, world, cur, pushed, seen, mem,
                   result, budget>>

\* withRetry: another attempt if the error allows one and one is left.
RetryOr(p, max, retryable, giveUp) ==
    \/ /\ retryable
       /\ attempt[p] < max
       /\ attempt' = [attempt EXCEPT ![p] = attempt[p] + 1]
       /\ UNCHANGED pc
    \/ /\ ~retryable \/ attempt[p] >= max
       /\ attempt' = [attempt EXCEPT ![p] = 0]
       /\ Goto(p, giveUp)

\* A call that succeeds may return a patch, merged into instance.context; the
\* whole of instance.context is written to the row.
TakePatch(p, call, save, after) ==
    /\ attempt' = [attempt EXCEPT ![p] = 0]
    /\ IF call \in Patching
          THEN /\ mem' = [mem EXCEPT ![p] = @ \cup {call}]
               /\ Goto(p, save)
          ELSE /\ Goto(p, after)
               /\ UNCHANGED mem

ActionSucceeds(p) ==
    /\ pc[p] = "action"
    /\ attempt[p] <= Attempts[cur[p]]
    /\ effects' = effects \cup {cur[p]}
    /\ TakePatch(p, <<"do", cur[p]>>, "patchContext", "setStepCompleted")
    /\ UNCHANGED <<store, late, cur, pushed, seen, result, budget>>

\* The action throws without effect: a NonRetryableError ends the attempts.
\* With no attempts at all the loop of withRetry is not entered.
ActionFails(p) ==
    /\ pc[p] = "action"
    /\ \E retryable \in BOOLEAN :
           RetryOr(p, Attempts[cur[p]], retryable, "setStepFailed")
    /\ UNCHANGED <<store, world, cur, pushed, seen, mem, result, budget>>

\* The timeout wins the race: the action goes on, abandoned.  The
\* SagaTimeoutError is retryable.
ActionTimesOut(p) ==
    /\ pc[p] = "action"
    /\ cur[p] \in Timed
    /\ attempt[p] <= Attempts[cur[p]]
    /\ late' = late \cup {<<"do", cur[p]>>}
    /\ RetryOr(p, Attempts[cur[p]], TRUE, "setStepFailed")
    /\ UNCHANGED <<store, effects, cur, pushed, seen, mem, result, budget>>

PatchContext(p) == WriteContext(p, "patchContext", "setStepCompleted")

\* Wrong on purpose: the completed step is not pushed.
SetStepCompletedOnly(p) == WriteStep(p, "setStepCompleted", "COMPLETED", "stepCompleted")

SetStepCompleted(p) ==
    /\ pc[p] = "setStepCompleted"
    /\ UpdateStepStatus(cur[p], "COMPLETED")
    /\ pushed' = [pushed EXCEPT ![p] = cur[p]]
    /\ Goto(p, "stepCompleted")
    /\ UNCHANGED <<status, reason, context, outbox, world, cur, attempt, seen, mem,
                   result, budget>>

\* Wrong on purpose: the event is published and not appended to the outbox.
StepCompletedPublished(p) ==
    /\ pc[p] = "stepCompleted"
    /\ cur' = [cur EXCEPT ![p] = cur[p] + 1]
    /\ Goto(p, "nextStep")
    /\ UNCHANGED <<store, world, pushed, attempt, seen, mem, result, budget>>

StepCompleted(p) ==
    /\ pc[p] = "stepCompleted"
    /\ AppendOutbox("StepCompleted", cur[p])
    /\ cur' = [cur EXCEPT ![p] = cur[p] + 1]
    /\ Goto(p, "nextStep")
    /\ UNCHANGED <<status, reason, context, steps, world, pushed, attempt, seen, mem,
                   result, budget>>

SetCompleted(p) ==
    WriteStatus(p, "setCompleted", "COMPLETED", "none",
                "sagaCompleted")

SagaCompleted(p) ==
    /\ pc[p] = "sagaCompleted"
    /\ AppendOutbox("SagaCompleted", 0)
    /\ Leave(p, "COMPLETED")
    /\ UNCHANGED <<status, reason, context, steps, world, budget>>

-----------------------------------------------------------------------------
(* The catch block of the loop, and CompensationExecutor.compensate. *)

\* Wrong on purpose: the catch block forgets the step's record.
SetStepFailedNot(p) == Publish(p, "setStepFailed", "setFailed")

SetStepFailed(p) == WriteStep(p, "setStepFailed", "FAILED", "setFailed")

SetFailed(p) == WriteStatus(p, "setFailed", "FAILED", "step", "sagaFailed")

SagaFailed(p) == Announce(p, "sagaFailed", "SagaFailed", cur[p], "setCompensating")

SetCompensating(p) ==
    WriteStatus(p, "setCompensating", "COMPENSATING", "none",
                "compensationStarted")

\* Wrong on purpose: the list is not reversed, or its last element is lost.
FirstUndoOldest(p) == IF pushed[p] = 0 THEN 0 ELSE 1
FirstUndoNext(p) == IF pushed[p] = 0 THEN 0 ELSE pushed[p] - 1

\* The first element of stepsToCompensate, 0 if it is empty.
FirstUndo(p) == pushed[p]

CompensationStarted(p) ==
    /\ pc[p] = "compensationStarted"
    /\ cur' = [cur EXCEPT ![p] = FirstUndo(p)]
    /\ Goto(p, "nextUndo")
    /\ UNCHANGED <<store, world, pushed, attempt, seen, mem, result, budget>>

\* The head of the loop over completedSteps, backwards.
NextUndo(p) ==
    /\ pc[p] = "nextUndo"
    /\ \/ /\ cur[p] = 0
          /\ Goto(p, "setCompensated")
          /\ UNCHANGED <<cur, attempt>>
       \/ /\ cur[p] \in Step \ Compensable
          /\ cur' = [cur EXCEPT ![p] = cur[p] - 1]
          /\ UNCHANGED <<pc, attempt>>
       \/ /\ cur[p] \in Compensable
          /\ attempt' = [attempt EXCEPT ![p] = 1]
          /\ Goto(p, "compensation")
          /\ UNCHANGED cur
    /\ UNCHANGED <<store, world, pushed, seen, mem, result, budget>>

CompensationSucceeds(p) ==
    /\ pc[p] = "compensation"
    /\ attempt[p] <= CompAttempts[cur[p]]
    /\ effects' = effects \ {cur[p]}
    /\ TakePatch(p, <<"undo", cur[p]>>, "patchUndo", "setStepCompensated")
    /\ UNCHANGED <<store, late, cur, pushed, seen, result, budget>>

\* Every error of a compensation is retried.
CompensationFails(p) ==
    /\ pc[p] = "compensation"
    /\ RetryOr(p, CompAttempts[cur[p]], TRUE, "setCompensationFailed")
    /\ UNCHANGED <<store, world, cur, pushed, seen, mem, result, budget>>

CompensationTimesOut(p) ==
    /\ pc[p] = "compensation"
    /\ cur[p] \in Timed
    /\ attempt[p] <= CompAttempts[cur[p]]
    /\ late' = late \cup {<<"undo", cur[p]>>}
    /\ RetryOr(p, CompAttempts[cur[p]], TRUE, "setCompensationFailed")
    /\ UNCHANGED <<store, effects, cur, pushed, seen, mem, result, budget>>

PatchUndo(p) == WriteContext(p, "patchUndo", "setStepCompensated")

SetStepCompensated(p) ==
    /\ pc[p] = "setStepCompensated"
    /\ IF steps[cur[p]] = "NONE"
          THEN UNCHANGED steps
          ELSE UpdateStepStatus(cur[p], "COMPENSATED")
    /\ cur' = [cur EXCEPT ![p] = cur[p] - 1]
    /\ Goto(p, "nextUndo")
    /\ UNCHANGED <<status, reason, context, outbox, world, pushed, attempt, seen, mem,
                   result, budget>>

SetCompensationFailed(p) ==
    WriteStatus(p, "setCompensationFailed", "COMPENSATION_FAILED", "compensation",
                "compensationFailed")

CompensationFailed(p) == Publish(p, "compensationFailed", "readBack")

\* Wrong on purpose: the end is announced and not written.
SetCompensatedNot(p) == Publish(p, "setCompensated", "compensationCompleted")

SetCompensated(p) ==
    WriteStatus(p, "setCompensated", "COMPENSATED", "none",
                "compensationCompleted")

CompensationCompleted(p) == Publish(p, "compensationCompleted", "readBack")

\* Wrong on purpose: the default is returned, not the row.
ReadBackDefault(p) ==
    /\ pc[p] = "readBack"
    /\ Leave(p, "COMPENSATED")
    /\ UNCHANGED <<store, world, budget>>

\* The answer is whatever status the row has by then.
ReadBack(p) ==
    /\ pc[p] = "readBack"
    /\ Leave(p, status)
    /\ UNCHANGED <<store, world, budget>>

-----------------------------------------------------------------------------
(* What can go wrong. *)

\* Where control goes when the await of a site rejects; "idle" is out of
\* execute.  The try block of the loop and the one of compensate catch; an
\* error thrown by compensate is swallowed.
Catcher(site) ==
    CASE site \in TrySites  -> "setStepFailed"
      [] site \in UndoSites -> "setCompensationFailed"
      [] site \in CompSites -> "readBack"
      [] OTHER              -> "idle"

\* The hooks and the publisher belong to the application: recoverOnce gives its
\* executor neither, so a worker's notification is an outbox row or nothing.
MayReject(p) ==
    /\ pc[p] \in Rejecting
    /\ p # Caller =>
          /\ pc[p] \notin {"compensationStarted", "compensationFailed", "compensationCompleted"}
          /\ pc[p] \in {"sagaStarted", "stepStarted", "stepCompleted",
                        "sagaFailed", "sagaCompleted"} => HasOutbox

\* The error is thrown at the site and goes to its catcher.
Thrown(p) ==
    IF Catcher(pc[p]) = "idle"
       THEN Leave(p, "rejected")
       ELSE /\ Goto(p, Catcher(pc[p]))
            /\ UNCHANGED <<locals, result>>

\* An await rejects, and nothing was written.
Reject(p) ==
    /\ MayReject(p)
    /\ rejects < MaxRejects
    /\ rejects' = rejects + 1
    /\ Thrown(p)
    /\ UNCHANGED <<store, world, crashes, claims, resumes>>

\* The statement that the await of a site sends; an existing row is not
\* created again, a row that is missing is not updated.
Written(p) ==
    \/ /\ \/ pc[p] = "setRunning" /\ UpdateSagaStatus("RUNNING", "none")
          \/ pc[p] = "setCompleted" /\ UpdateSagaStatus("COMPLETED", "none")
          \/ pc[p] = "setFailed" /\ UpdateSagaStatus("FAILED", "step")
          \/ pc[p] = "setCompensating" /\ UpdateSagaStatus("COMPENSATING", "none")
          \/ pc[p] = "setCompensated" /\ UpdateSagaStatus("COMPENSATED", "none")
          \/ /\ pc[p] = "setCompensationFailed"
             /\ UpdateSagaStatus("COMPENSATION_FAILED", "compensation")
       /\ UNCHANGED <<context, steps, outbox>>
    \/ /\ pc[p] \in {"patchContext", "patchUndo"}
       /\ context' = mem[p]
       /\ UNCHANGED <<status, reason, steps, outbox>>
    \/ /\ \/ /\ pc[p] = "createStep" /\ steps[cur[p]] = "NONE"
             /\ UpdateStepStatus(cur[p], "PENDING")
          \/ pc[p] = "setStepRunning" /\ UpdateStepStatus(cur[p], "RUNNING")
          \/ pc[p] = "setStepCompleted" /\ UpdateStepStatus(cur[p], "COMPLETED")
          \/ pc[p] = "setStepFailed" /\ UpdateStepStatus(cur[p], "FAILED")
          \/ /\ pc[p] = "setStepCompensated" /\ steps[cur[p]] # "NONE"
             /\ UpdateStepStatus(cur[p], "COMPENSATED")
       /\ UNCHANGED <<status, reason, context, outbox>>
    \/ /\ HasOutbox
       /\ \/ pc[p] = "sagaStarted" /\ AppendOutbox("SagaStarted", 0)
          \/ pc[p] = "stepStarted" /\ AppendOutbox("StepStarted", cur[p])
          \/ pc[p] = "stepCompleted" /\ AppendOutbox("StepCompleted", cur[p])
          \/ pc[p] = "sagaFailed" /\ AppendOutbox("SagaFailed", cur[p])
          \/ pc[p] = "sagaCompleted" /\ AppendOutbox("SagaCompleted", 0)
       /\ UNCHANGED <<status, reason, context, steps>>

\* The statement is committed and its acknowledgement is lost: the await
\* rejects all the same, and what follows it in the code is not run.
ReplyLost(p) ==
    /\ MayReject(p)
    /\ rejects < MaxRejects
    /\ rejects' = rejects + 1
    /\ Written(p)
    /\ Thrown(p)
    /\ UNCHANGED <<world, crashes, claims, resumes>>

\* The process dies: nothing of it is left but what it wrote.
Crash(p) ==
    /\ pc[p] # "idle"
    /\ crashes < MaxCrashes
    /\ crashes' = crashes + 1
    /\ Leave(p, "none")
    /\ UNCHANGED <<store, world, rejects, claims, resumes>>

\* An abandoned call completes after all.
CompletesLate(call) ==
    /\ call \in late
    /\ late' = late \ {call}
    /\ effects' = IF call[1] = "do" THEN effects \cup {call[2]} ELSE effects \ {call[2]}
    /\ UNCHANGED <<store, pc, locals, result, budget>>

-----------------------------------------------------------------------------
Run(p) ==
    \/ GetSaga(p) \/ SetRunning(p) \/ SagaStarted(p) \/ GetSteps(p)
    \/ NextStep(p) \/ CreateStep(p) \/ SetStepRunning(p) \/ StepStarted(p)
    \/ ActionSucceeds(p) \/ ActionFails(p) \/ ActionTimesOut(p)
    \/ PatchContext(p) \/ SetStepCompleted(p) \/ StepCompleted(p)
    \/ SetCompleted(p) \/ SagaCompleted(p)
    \/ SetStepFailed(p) \/ SetFailed(p) \/ SagaFailed(p)
    \/ SetCompensating(p) \/ CompensationStarted(p) \/ NextUndo(p)
    \/ CompensationSucceeds(p) \/ CompensationFails(p) \/ CompensationTimesOut(p)
    \/ PatchUndo(p) \/ SetStepCompensated(p)
    \/ SetCompensationFailed(p) \/ CompensationFailed(p)
    \/ SetCompensated(p) \/ CompensationCompleted(p) \/ ReadBack(p)

Next ==
    \/ Create
    \/ Resume
    \/ \E p \in Workers : Claim(p)
    \/ \E p \in Proc : Run(p) \/ Reject(p) \/ ReplyLost(p) \/ Crash(p)
    \/ \E call \in Call : CompletesLate(call)

Spec == Init /\ [][Next]_vars

\* A process that is not dead goes on: an await settles, a timer fires, a
\* user's function returns or throws.
Progress == \A p \in Proc : WF_vars(Run(p))

\* The recovery workers keep polling.
Polling == WF_vars(\E p \in Workers : Claim(p))

FairSpec == Spec /\ Progress /\ Polling

-----------------------------------------------------------------------------
(* Correctness. *)

StoreOK ==
    /\ status \in SagaStatus \cup {"NONE"}
    /\ reason \in {"none", "step", "compensation"}
    /\ context \subseteq Call
    /\ steps \in [Step -> StepStatus \cup {"NONE"}]
    /\ outbox \in Seq(Event)

LocalsOK ==
    /\ cur \in [Proc -> 0..(N + 1)]
    /\ pushed \in [Proc -> 0..N]
    /\ attempt \in [Proc -> Nat]
    /\ seen \in [Proc -> [Step -> StepStatus \cup {"NONE"}]]
    /\ mem \in [Proc -> SUBSET Call]

\* Every variable has the values the code and the schema allow.
TypeOK ==
    /\ StoreOK
    /\ effects \subseteq Step
    /\ late \subseteq Call
    /\ pc \in [Proc -> Site]
    /\ LocalsOK
    /\ result \in {"none", "rejected"} \cup SagaStatus
    /\ {crashes, rejects, claims, resumes} \subseteq Nat

\* Write-ahead: nothing a step did, or may still do after its timeout, is
\* without a row that says the step was started, whatever crashes, rejects or
\* runs beside it.  Recovery and the dashboard know the outside world by
\* these rows only.
NoEffectWithoutRecord ==
    \A i \in Step :
        i \in effects \/ <<"do", i>> \in late => steps[i] \notin {"NONE", "PENDING"}

\* No step is started before every earlier step is settled, across crashes,
\* recoveries and resumptions of a saga that failed half way: the loop that
\* skips settled steps and the one that runs the others never leave a hole.
NoStepAheadOfAnother ==
    \A i, j \in Step : i < j /\ steps[j] # "NONE" => steps[i] \in Settled

\* When the row says COMPENSATED, an effect that could have been undone is
\* left only at the step whose failure was recorded (its action had succeeded
\* and what followed it failed), or at a step with a timeout (its abandoned
\* call may land after the compensation).
CompensatedResidue ==
    status = "COMPENSATED" =>
        \A i \in (effects \cap Compensable) \ Timed : steps[i] = "FAILED"

\* When a step is undone, no later step that can be undone is still applied,
\* but for the same two exceptions: dependants go first, also when a
\* recovered saga undoes some of its steps again.
LaterStepsUndoneFirst ==
    \A p \in Proc : pc[p] = "compensation" =>
        \A j \in (effects \cap Compensable) \ Timed :
            j > cur[p] => steps[j] = "FAILED"

\* The stored context has the patch of every completed step: neither a crash
\* before the write nor the context a recovery starts from loses one.
CompletedStepsInContext ==
    \A i \in Step : steps[i] = "COMPLETED" /\ <<"do", i>> \in Patching =>
        <<"do", i>> \in context

\* The status the caller was told is the status of the row, for good.
AnswerStands == result \in Terminal => status = result

\* A settled step is never started again.
SettledStepsStaySettled ==
    [][\A i \in Step : steps[i] \in Settled => steps'[i] # "RUNNING"]_vars

\* The row leaves a terminal status only because the application itself
\* resumed the saga: no process that is behind overwrites the end.
TerminalStable ==
    [][(status \in Terminal) => status' = status \/ pc[Caller] = "setRunning"]_vars

Index == 1..Len(outbox)
Is(k, t, i) == outbox[k] = [type |-> t, step |-> i]

Tells(i) == {k \in Index : Is(k, "StepCompleted", i)}

\* What a consumer of the outbox may rely on whatever crashes or rejects:
\* every completion of a step follows a start of its own, it is repeated only
\* when an await rejected (the event was written, its acknowledgement lost and
\* the step marked FAILED, and recovery ran it again), and nothing follows the
\* end of a completed saga.
OutboxTellsTheStory ==
    /\ \A i \in Step :
           /\ \A k \in Tells(i) : \E h \in 1..(k - 1) :
                  /\ Is(h, "StepStarted", i)
                  /\ \A g \in Tells(i) : g < h \/ k <= g
           /\ Cardinality(Tells(i)) <= 1 + rejects
    /\ \A k \in Index : Is(k, "SagaCompleted", 0) => k = Len(outbox)

\* The completed and compensated steps that the outbox does not tell of.
Untold == {i \in Step : steps[i] \in Settled /\ Tells(i) = {}}

\* The step's row and its event are two writes: each crash and each rejection
\* loses the completion of one step at most, and nothing else loses any.
CompletionsLost ==
    LET Telling == {p \in Proc : pc[p] = "stepCompleted"}
    IN  HasOutbox => Cardinality(Untold) <= crashes + rejects + Cardinality(Telling)

\* A saga that was created ends, although its steps fail and what is announced
\* after they did their work is rejected.
Settles == status # "NONE" ~> status \in Terminal

\* A saga that recovery can claim ends or is marked FAILED, although
\* processes crash.
ClaimableSettles == status \in {"RUNNING", "COMPENSATING"} ~> status \in Terminal \cup {"FAILED"}

\* What the documentation says and the code does not do.

\* A saga is COMPLETED when all of its steps succeeded.
CompletedMeansAllSucceeded == status = "COMPLETED" => effects = Step

\* What the saga promises (SagaContract): the status of the row tells which
\* way the saga is going.
Mode ==
    CASE status \in {"NONE", "PENDING", "RUNNING"} -> "forward"
      [] status \in {"FAILED", "COMPENSATING"}     -> "backward"
      [] status = "COMPLETED"                      -> "committed"
      [] status = "COMPENSATED"                    -> "undone"
      [] status = "COMPENSATION_FAILED"            -> "stuck"

Contract == INSTANCE SagaContract WITH mode <- Mode, applied <- effects

KeepsContract == Contract!Spec

\* What those see who only read the rows (SagaRows): the statements of the
\* executor come in an order in which a RUNNING step is never under a saga
\* that is not RUNNING, and every status carries its own reason.
Rows == INSTANCE SagaRows WITH
    Resumable <- IF MaxResumes = 0 THEN Claimable \cup {"PENDING"} ELSE SagaStatus,
    row <- [status |-> status, reason |-> reason,
            current |-> \E i \in Step : steps[i] = "RUNNING"]

RowsInOrder == Rows!Spec
=============================================================================
