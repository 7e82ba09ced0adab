# SagaFlow: formal models, model checking and proofs

SagaFlow runs *sagas*: a definition is a list of steps, each with an action and
possibly a compensation. The executor runs the actions one after the other and,
when one fails, the compensations backwards. Everything it knows is written to a
repository, so that a worker can go on with a saga whose process died, and it
announces what it does through hooks, an event publisher and an outbox table.

This directory has TLA+ modules for the parts of the system in which several
processes, crashes, timers and failures meet, the TLC configurations that check
them on small instances, and theorems checked by TLAPS for every value of the
constants. `PROJECT.json` maps every definition to the lines it stands for.

## 1. Inventory

Paths are below `src/packages/`.

| Component | State | Operations | What is hard | What makes it correct |
|---|---|---|---|---|
| Saga execution, `saga-core/src/core/SagaExecutor.ts` | `saga_instances.status/context/failure_reason`, `saga_steps`, `saga_outbox`; per call: `instance`, `existingSteps`, `completedSteps` | `execute`, `resume` | about thirty awaits, each of which may reject or be the last thing the process does; a saga run by two processes | steps are started in order and never again once settled; no effect without a record; a terminal status is final; the caller is told what the row says |
| Compensation, `.../compensation/CompensationExecutor.ts` | the same rows | `compensate` | errors are swallowed half way; a recovered saga compensates steps it did not run itself | dependants are undone first; COMPENSATED means that nothing compensable is left, but for known residues |
| Retry policy and strategies, `.../retry` | attempt counter | `withRetry`, `calculateDelay`, the four constructors | the last attempt, no attempts, errors that may not be retried, delays that grow to Infinity or past what `setTimeout` holds | every call ends, within the time its policy adds up to; waits do not shrink |
| Step timeout, `.../timeout/TimeoutExecutor.ts` | a pending promise, its timer and signal | `executeWithTimeout` | the abandoned call goes on beside its retry and may take effect later; a timer that outlives its race | its effect stays known to the rows; overlapping calls were told to stop |
| Types and errors, `.../types`, `.../errors` | – | – | – | – |
| PostgreSQL repository, `saga-postgres/src/PostgresSagaRepository.ts` | the three tables | one statement or transaction per method | statements of different processes interleave; `ON CONFLICT`, `SKIP LOCKED` | see its users |
| Schema, `saga-persistence/src/migrations/schema.ts` | the tables | – | – | one row per saga and step |
| Recovery worker, `saga-recovery/src/RecoveryWorker.ts` | `owner_id`, `locked_until`, `updated_at`; per poll: the batch it claimed | `recoverOnce`, `start`, `stop` | polls overlap, leases expire during the work, a failed release abandons the batch | one holder per saga; only unfinished sagas are resumed; every orphan is picked up |
| Outbox relay, `saga-kafka/src/KafkaPublisher.ts` (class `OutboxRelay`) | `published_at`; per poll: the batch it read | `relayOnce`, `start`, `stop` | polls overlap, a send succeeds and its acknowledgement is lost, a crash between send and mark, an event that is refused every time | at least once, first deliveries of a saga in order, bounded duplicates |
| Kafka publisher, same file (class `KafkaPublisher`) | `producer`, `connected` | `connect`, `disconnect`, `publish` | calls that meet in `connect` or during `disconnect` | the flag speaks of the producer that is there |
| In-memory repository, `saga-core/src/adapters/memory` | maps of the objects themselves, with their leases | the same interface | duplicate step records; an instance shared by all who run it; a worker's own live leases are claimed again | no patch is lost, no effect is without a record, one live record per step |
| Builder, runner, registry, `saga-core/src/builder`, `core/Saga.ts`, `registry` | definitions | `step`, `build`, `execute`, `register` | sequential; names need not be unique | – |
| Tracing hooks, `saga-observability/src/tracing.ts` | the span on the instance | five hooks | the span before is forgotten, ended or not | every span of a step is ended |
| Dashboard API, `saga-dashboard/api/src` | gauges | list, detail page, `refreshMetrics` | a page made of two queries; refreshes that overtake each other; a status without rows | a page shows no state the saga could not be in; gauges become right |
| Dashboard web | – | – | – | – |
| Fault injector, example | – | – | – | – |

Interactions. The application calls `execute`; the executor awaits the
repository, the hooks, the publisher and, if the repository has it, the outbox.
A recovery worker claims rows through the repository and calls `resume` on an
executor of its own, which has neither hooks nor publisher and the default retry
policies. The relay reads and marks the rows the executor wrote and calls
`KafkaPublisher.publish`, which the executor may be calling too. The dashboard
only reads. Nothing but the database rows and the publisher's fields is shared;
in memory, the instance object is shared as well.

## 2. Modules

| Module | What it models |
|---|---|
| `SagaContract` | what a saga promises: effects in order, one turn, undone backwards |
| `SagaRows` | what a saga promises to those who only read its rows |
| `SagaExecutor` | one saga run by its application and by recovery workers, await by await; implements the two above |
| `LeasedSaga` | `SagaExecutor` composed with the lease columns; implements `SagaExecutor` with one process at a time |
| `MemorySaga` | the same processes over the in-memory repository, with the tracing hooks |
| `StepTiming` | the retries and timeouts of one step on a clock |
| `RecoveryWorker` | several sagas, claimed and resumed by the overlapping polls of several workers |
| `OutboxRelay` | the outbox table and a Kafka topic, with overlapping polls |
| `KafkaPublisher` | the connection of a publisher, with calls that meet |
| `Dashboard` | pages and gauges over sagas that move as `SagaRows` says |
| `MC...` | values of the constants for TLC |
| `...Proofs` | theorems and their proofs |

### SagaExecutor

One action per await of `execute`, `compensate` and `withRetry`; `pc[p]` is the
await at which process `p` is suspended, so that a crash, a rejection or another
process may come between any two of them. `status`, `reason`, `context`, `steps`
and `outbox` are the rows; `effects` and `late` the outside world (what the
actions did, and what abandoned calls may still do); `cur`, `pushed`, `attempt`,
`seen` and `mem` the locals of each call (`step`, `completedSteps`, `attempt`,
`existingSteps`, `instance.context`); `result` what the promise of the caller
gave.

What was abstracted, and why it may be:

* `completedSteps` is always a prefix of the definition, for the loop pushes
  every step it passes; `pushed` is the length of the prefix.
* A notification (hook, publish, outbox row) is one action: hooks and the
  publisher change no state of the saga, only the row does.
* An await may reject in two ways: nothing was written (`Reject`), or the statement
  is committed and its acknowledgement is lost (`ReplyLost`). In both the error goes
  to the catch block of the very await (`Thrown`), and nothing that follows it in
  the code is run; in the second the rows have what the statement writes (`Written`).
  So a step whose StepCompleted is in the outbox may be marked FAILED after all.
* An action or a compensation that throws has had no effect; one abandoned by
  its timeout is in `late` and may take effect at any later time.
* A context is the set of calls whose patch it has; overwriting it with an
  older one loses patches, as in the code.
* `retries` is never written by the executor; the times of the steps are read
  by nothing that is modelled.
* `Reject` moves to the catch block that the code has at the site (`Catcher`);
  the try block of the loop, the one of `compensate`, and the swallowed error of
  `compensate` are different. `MayReject` says who has something to reject at a
  notification: the application always, a worker only where there is an outbox
  row, for its executor is built without hooks and publisher. So the events of a
  recovered saga are outbox rows or nothing.

`Exclusive` says that a saga is resumed only when no process is running it. The
code does not enforce this: `execute` never takes a lease, so `locked_until` is
NULL while the application runs a saga, and `claimOrphanedSagas` takes it. What
holds without the assumption is proved (`WriteAhead`) and, in memory, checked
(`MemorySaga`). With it, `LeasedSaga` tells when leases provide it.

### SagaRows

What the dashboard can know of a saga: its status, the reason of its failure, and
whether one of its steps is RUNNING. `Moves` are the statements that may come
next. `RowsInOrder` in `SagaExecutor` is the refinement: an ended saga has no
RUNNING step, a reason is only there with the status it explains, a status is
followed only by those the code writes after it.

### LeasedSaga

`owner` and `live` stand for `owner_id` and `locked_until > NOW()`, `holding` for
the polls that are between their claim and the end of the `finally` block.
`Workers` of `SagaExecutor` are polls here; several may share an owner.
`ClaimOrphaned` replaces `Claim`: no knowledge of who runs the saga, only the
row. `LongLease` says that a lease outlasts the resume; `Orphaned` says that the
application is gone when recovery comes, which a deployment must see to, since
nothing in the code does. The property `LeasesExclude` is `Spec` of `SagaExecutor`
under `Exclusive`: the refinement mapping is the identity on its variables.

### MemorySaga

The application and the polls of workers run one saga in one program. `records`
has, for each step, the statuses of all its records, for `createStep` always adds
one; `known` and `mine` say which of them a process found and works on; the
shared instance is `context`, and the local copies of `SagaExecutor` (`steps`,
`seen`, `mem`) are not used. `FindRecord` takes the first RUNNING record among
those that `getSteps` returned, with its status *now*: the array is a copy, the
records are not. `CompensateRecord` takes the first record of the step, which may
be an old FAILED one, so that the COMPLETED one keeps saying COMPLETED after the
compensation. `TakeSaga` is the claim of the in-memory repository, which takes a
worker's own good lease again, and any lease that has expired (`Lapse`: nothing
renews one, so it may run out under the poll that works); `slips` is a history
variable that says which of the two has happened; `PublishSites` are the notifications that are
published, at which `PublisherRejects` may come; the release of one such poll then frees the saga
under the other. `met` is a history variable that says how two came to run the
saga at one time. `span` and `leaked` are the span on the instance and those it
has forgotten; only the application's executor has hooks.

Left out of this module: crashes (nothing survives one), and the outbox array,
which nothing in the repository reads from memory. A lease lapses only while
somebody may still come to take it (`SomeToCome`), for it is of no consequence
afterwards.

### StepTiming

`policy` is fixed by `Init`; `timeouts` are the pending timers of
`executeWithTimeout`, `wake` the one of `sleep`. Time passes only when no timer
is due, as the event loop of Node has it. The action of an attempt may return,
throw (an error that may be retried or not), or never end; a call that lost the
race against its timer stays in `running`. `CalculateDelay` gives the set of
delays possible with jitter. `Timer` is what `setTimeout` makes of a delay: one
below 1 or above 2^31 - 1 is 1. Small units stand for the real ones: `Second` ticks,
`TimerMax` for 2^31 - 1 and `Infinite` for the largest double. The code takes any
number for a multiplier. Here it is a whole number of `Parts`-ths, so that 3/2 and
1/2 are among the policies, and the wait before retry n is counted in
`Unit(n)`-ths of a tick, which keeps the products exact; `Timer` drops the fraction, as
`setTimeout` does. With a multiplier below 1 the waits shrink. The delay and the cap
of a policy are whole ticks; negative numbers, which nothing in the code refuses
either, are left out, and so is the rounding of doubles below `Infinite`.

### RecoveryWorker

A poll is one call of `recoverOnce`; `WorkerOf` maps it to the `ownerId`.
`open` are the sagas in RUNNING or COMPENSATING, which is all that
`claimOrphanedSagas` sees of a status; `older` orders them by `updated_at` (ties
are kept, rows written in one transaction are equally old); `grant` stands for
`owner_id` and `locked_until`, by the claim that wrote them; `fresh` are the
claims whose time is not over. The claim is two actions, because the rows are
locked in between and other polls skip them. `resume` is reduced to the four
status writes; the application of every saga is gone. `Unknown` sagas have no
definition in the registry: they are skipped before the `try` block, so their
lease is not released.

`LongLease` says that `leaseDurationMs` is longer than any poll takes. Nothing
renews a lease (`heartbeat` has no caller), so without it a lease may expire at
any time.

`start` is the possibility that polls overlap; `stop` clears the timer and
changes nothing else.

### OutboxRelay

Events are numbered in the order of `created_at`; rows of one saga are committed
in that order, because the executor awaits each of them, rows of different sagas
need not be. `topic` is what Kafka has. A send whose acknowledgement is lost
appends to the topic and rejects. `Refused` events are rejected every time (a
message that is too large, say): the batch always starts with the oldest pending
row, so a refused event stops everything behind it. `EveryEventPublished`
promises the events with no refused one in front of them, and no more.

### KafkaPublisher

`producer` and `connected` are the two fields, `link` the state of every
producer that was created (kafkajs is external: a producer refuses to send
unless it is connected), `mine` the producer whose `connect` or `disconnect` a
call awaits. `spoilt` is a history variable: it says whether calls met in one of
the ways that can leave the two fields in disagreement.

### Dashboard

`rows` are what is visible of several sagas. As long as one process at a time runs a
saga it moves as `SagaRows` allows (`SagaMoves`), with `Resumable` all of the statuses,
for `resume` sets RUNNING whatever the status was. Nothing in `execute` keeps a second
process out, so from any time on a saga may be run by two (`SagaCrosses`): then
any status may follow any other, and a step may be RUNNING under any of them. `shared`
and `reopened` are history variables that name the sagas of the second kind, and
those that moved after their end while a page was half read. The list
is one statement; the detail page (`GetSaga`, `GetSagaSteps`) is two, with
anything in between. `Query` is the moment the database answers a refresh,
`SetGauges` the later one at which the answer is used: refreshes of the interval
and of scrapes overtake each other. `GROUP BY` gives no row for a status without
sagas, so `Labelled` leaves its gauge alone. `onModuleInit` awaits a first refresh
before it starts the interval: until that is answered there is no other
(`serving = "starting"`), and if it rejects, the program does not start and no
gauge is ever set (`"down"`). A later refresh that rejects is logged, or fails its scrape.
`client` is chosen at the start: pages and gauges change nothing that the other reads.

## 3. What is checked

All runs together take a few minutes. Bounds are the constants of the
configuration; every bound on the environment (`MaxCrashes`, `MaxRejects`, ...)
is a guard of the action it bounds.

| Run | Instance | Shows |
|---|---|---|
| `executor_contract` | 4 steps, 3 compensable, patches, 2 attempts; two rejections of `onStepComplete`, of the records of a compensation, or of what follows the end; no crash; fairness | `KeepsContract`: the executor implements `SagaContract`. `Settles`: the saga ends |
| `executor_faults` | 3 steps, one with a timeout, every await may reject, 2 rejections, 1 crash, 2 recoveries, 1 resumption by the application | `TypeOK`, `NoEffectWithoutRecord`, `NoStepAheadOfAnother`, `CompensatedResidue`, `LaterStepsUndoneFirst`, `CompletedStepsInContext`, `AnswerStands`, `SettledStepsStaySettled`, `TerminalStable`, and `RowsInOrder`: the executor implements `SagaRows` |
| `leased_saga` | 2 steps, two workers with one poll each, 4 claims, 2 crashes, a rejection anywhere, lost releases; `LongLease`, `Orphaned`; fairness | `LeasesExclude`: the composition implements `SagaExecutor` under `Exclusive`. `OutboxTellsTheStory`: a completion is announced after a start of its own, and again only after a rejection. `CompletionsLost`: each crash and each rejection loses the announcement of one step at most. `ClaimableSettles` |
| `memory_saga` | 2 steps, one with a timeout, two polls of worker a and one of worker b, two who come after the application (or the application again), at most two at a time, leases that lapse under their holder, one rejected publish | `EffectsAreRecorded`, `NoPatchLost`, `OneLiveRecord`, `SpansEnd`, `OneHolderUnlessSlip` |
| `step_timing` | twelve policies: both defaults, no timeout, no delay, no attempts, a timeout and a delay that `setTimeout` cannot hold, a cap, a growth to Infinity, 0 * Infinity, multipliers of 3/2 (also with jitter) and of 1/2; clock to 60; fairness | `OverlapIsAborted`, `NoTimerLeftBehind`, `SettlesInTime`, `BacksOff`, `AlwaysSettles` |
| `recovery_lease` | 3 sagas (one without a definition), worker a with two polls, worker b with one, batches of 2, 1 crash, 1 failure, leases that outlast the polls | `TypeOK`, `OneHolder`, `SettledNotResumed` |
| `recovery_progress` | 2 sagas (one without a definition), two workers with one poll each, batches of 1, leases that expire at any time, 1 crash, 1 failure; fairness | `FreshLeaseExcludes`, `EveryOrphanSettles` |
| `relay_delivery` | 4 events of 2 sagas, the third always refused, 2 polls, batches of 2, 1 failure, 1 crash; fairness | `MarkedIsDelivered`, `FirstDeliveriesInOrder`, `CopiesAreBounded`, `EveryEventPublished` |
| `publisher_connection` | 2 concurrent publishes, 1 disconnect at a time (two in all), 2 failures of the broker; fairness | `RacesHeal`, `OpenProducersBounded`, `PublishingRecovers` |
| `dashboard_reads` | 2 sagas, one of them looked at; 7 statements for the pages, 4 for the gauges; sagas reopened after their end, or run by two processes; two refreshes at a time; fairness | `EndedPageHasNoCurrentStep`, `GaugesHeal` |

Why these bounds are enough. Three steps have a first, a middle and a last one:
a step to skip, one that fails, and one that must not be started. Two claims and
a resumption let a saga go forwards, backwards and forwards again. Two rejections
let the handling of the first be rejected. `leased_saga` has more claims than
crashes and rejections can use up, so `ClaimableSettles` is not cut short by the
bound. In `memory_saga` two who run the saga are the fewest that can meet; a third
comes only after one has left, which a second record needs; two leases that lapse
or are taken again make two workers, or two polls of one, meet; steps, attempts and
crashes are few because the other runs have them. Nobody comes after one who came
beside the application (`WithinBounds`). Three polls of two workers are the fewest
in which a worker overlaps with itself beside another; three sagas with batches of
two make one of them wait in a batch and another be left over. Two polls of the
relay, a failure and a crash let each of them be abandoned once; the refused
event has events of its own saga and of another in front of and behind it. The
number of producers is bounded by what the code can create within the other
bounds (`MCMaxProducers`), so that this bound is never met. Seven statements take
the saga of a page to an end, reopen it and have a step running again while the
page is half read; four create both sagas and end one of them under refreshes that
overtake each other. `MaxMoves` is also what
`GaugesHeal` needs: gauges are right when the sagas have stopped. The clock of
`step_timing` goes past the longest time of every policy with a timeout. The
safety theorems below remove the bounds.

Finished sagas, empty outboxes and idle publishers really stop, and budgets of
the environment run out, so deadlock is not checked.

### Disagreements with the documentation

Each of these runs is expected to find a violation of one sentence of the docs.

| Run | The sentence | What the code does |
|---|---|---|
| `doc_all_succeeded` | `SagaCompleted`: "All steps succeed" | A saga that is recovered in the middle of its compensation skips its compensated steps as if they were done, and completes |
| `doc_leasing` | "Leasing: prevents two workers from resuming the same saga" | The lease expires during a long `resume`, and a second worker resumes the saga beside the first |

More were seen while modelling and have no run of their own:

* "Reverse compensation on failure" (`docs/phase-1`): a crash between the statuses
  FAILED and COMPENSATING leaves a saga that recovery never claims. It is why
  `ClaimableSettles` speaks of sagas that can be claimed.
* `saga_outbox`: "same tx as state" (`docs/phase-4`): a crash between COMPLETED
  and its outbox row loses the event, and one between a step's COMPLETED and its
  StepCompleted that of the step. `CompletionsLost` says how many at most.
* A StepCompleted row that is committed while its await rejects is inside the `try`
  block of the action: the step is marked FAILED, and if the process dies, or rejects,
  before it has set the saga FAILED, recovery runs the step again and the outbox
  has a second StepCompleted. `OutboxTellsTheStory` says that nothing else repeats one.
* A live saga is claimed as an orphan, because `execute` takes no lease.
* An error of `compensate` is swallowed, so the caller may be told COMPENSATING
  or FAILED.
* The events of a compensation never reach the outbox, so nobody is told of the
  compensations of a recovered saga.
* Writing COMPENSATING and COMPENSATED erases the failure reason (`SagaRows`).
* `releaseSaga` compares the worker and not the claim, so a late poll releases the
  lease of the next poll of its own worker.
* A disconnect that ends while a `connect` is under way, or the failure of the
  last of two racing connects, leaves `connected` true over no usable producer,
  after which every `publish` throws (`RacesHeal` names the conditions).
* In memory, the second record of a step stays COMPLETED after its compensation.
* The gauge of a status that no saga has any more keeps its value. `GaugesHeal`
  is about the statuses that a saga has, and about the total.
* A multiplier below 1 makes the waits shrink, one of 0 takes every wait after the
  first away, and both are accepted. `BacksOff` is about the others.
* A delay above 2^31 - 1 ms, which a long policy without a cap reaches, is a delay
  of 1 ms. `BacksOff` stops where this begins.

### Fairness

* `SagaExecutor`, `LeasedSaga`: weak fairness of each process's code (an await
  settles, a timer fires, the user's function returns or throws) and of the claim
  of a saga that can be claimed (`setInterval` keeps polling); with leases, of the
  release and of the passing of the lease's time. None of crashes, rejections,
  lost releases or late effects.
* `StepTiming`: weak fairness of the start of the step, of timers that are due and
  of time. None of the action: `AlwaysSettles` is about actions that hang.
* `RecoveryWorker`: weak fairness of each poll and of the passing of each lease's
  time. `ClaimRejects`, `ResumeFails` and `ReleaseRejects` are among the actions
  of a poll, and bounded, so fairness never forces a failure for ever.
* `OutboxRelay`, `KafkaPublisher`: weak fairness of each poll or publish (the
  timer fires again, a call to kafkajs settles); failures are bounded, but for
  the refused events, which fail for ever.
* `Dashboard`: weak fairness of each query (the interval goes on) and strong
  fairness of its answer, for a database that rejects again and again but not
  for ever; here failures are not bounded.
* `MemorySaga` has none: only safety is checked there.

## 4. What is proved

The theorems hold for every number of steps, policy, set of workers, sagas, polls
and events, every batch size and every bound on the faults.

| Module | Theorem | Property | Assumes |
|---|---|---|---|
| `SagaExecutorProofs` | `TypeCorrect` | `TypeOK` | – |
| | `WriteAhead` | `NoEffectWithoutRecord` | – |
| | `EndIsFinal` | `TerminalStable` | `Exclusive` |
| | `NoHoles` | `NoStepAheadOfAnother` | `Exclusive` |
| | `CompensationClears` | `CompensatedResidue` | `Exclusive` |
| | `DependantsFirst` | `LaterStepsUndoneFirst` | `Exclusive` |
| | `SettledForGood` | `SettledStepsStaySettled` | `Exclusive` |
| | `ContextIsComplete` | `CompletedStepsInContext` | `Exclusive` |
| | `AnswersStand` | `AnswerStands` | `Exclusive` |
| | `StoryIsTold` | `OutboxTellsTheStory` | `Exclusive`, `MaxResumes = 0` |
| | `FewCompletionsLost` | `CompletionsLost` | `Exclusive` |
| | `RowsAreInOrder` | `RowsInOrder`, the refinement of `SagaRows` | `Exclusive` |
| | `ContractKept` | `KeepsContract`, the refinement of `SagaContract` | `FirstRun` |
| `LeasedSagaProofs` | `LeasesSuffice` | `LeasesExclude`, the refinement of `SagaExecutor` | `LongLease`, `Orphaned` |
| | `LeasedNoHoles` | `NoStepAheadOfAnother` | both, and `Exclusive` |
| | `LeasedDependantsFirst` | `LaterStepsUndoneFirst` | both, and `Exclusive` |
| | `LeasedCompensationClears` | `CompensatedResidue` | both, and `Exclusive` |
| | `LeasedSettledForGood` | `SettledStepsStaySettled` | both, and `Exclusive` |
| | `LeasedContextIsComplete` | `CompletedStepsInContext` | both, and `Exclusive` |
| | `LeasedRowsInOrder` | `RowsInOrder` | both, and `Exclusive` |
| | `LeasedStoryIsTold` | `OutboxTellsTheStory` | both, `Exclusive`, `MaxResumes = 0` |
| | `LeasedFewCompletionsLost` | `CompletionsLost` | both, and `Exclusive` |
| | `LeasedWriteAhead` | `NoEffectWithoutRecord` | `~Exclusive`; nothing of the leases |
| `MemorySagaProofs` | `WriteAheadInMemory` | `EffectsAreRecorded` | – |
| | `PatchesSurvive` | `NoPatchLost` | – |
| | `OneHolderOrSlip` | `OneHolderUnlessSlip` | – |
| | `SpansAreEnded` | `SpansEnd` | – |
| | `OneRecordLives` | `OneLiveRecord` | – |
| `StepTimingProofs` | `OverlapsAreAborted` | `OverlapIsAborted` | – |
| | `TimersAreCleared` | `NoTimerLeftBehind` | – |
| | `StepsSettleInTime` | `SettlesInTime` | – |
| | `WaitsGrow` | `BacksOff` | – |
| `DashboardProofs` | `PagesOfEndedSagas` | `EndedPageHasNoCurrentStep` | – |
| `RecoveryWorkerProofs` | `WorkerTypeCorrect` | `TypeOK` | – |
| | `OneHolderAtATime` | `OneHolder` | `LongLease` |
| | `ResumedIsOpen` | `SettledNotResumed` | `LongLease` |
| | `GoodLeasesExclude` | `FreshLeaseExcludes` | one poll per worker |
| `OutboxRelayProofs` | `RelayTypeCorrect` | `TypeOK`, which no run checks | – |
| | `AtLeastOnce` | `MarkedIsDelivered` | – |
| | `InOrder` | `FirstDeliveriesInOrder` | – |
| | `FewCopies` | `CopiesAreBounded` | – |
| `KafkaPublisherProofs` | `PublisherTypeCorrect` | `TypeOK`, which no run checks | – |
| | `RacesDoNoHarm` | `RacesHeal` | – |
| | `FewProducersOpen` | `OpenProducersBounded` | – |

`FirstRun` says that nobody claims or resumes the saga, that no step has a timeout
and that the two writes between an effect and its record (`patchContext`,
`setStepCompleted`) do not reject. TLC refutes `KeepsContract` without any
one part of it: a saga that is recovered
in the middle of its compensation completes (`doc_all_succeeded`), a call that was
abandoned may take effect after its saga's end, and a rejected write makes the
executor treat a step that has had its effect as one that failed. Process deaths at
any await and all other rejections are allowed.

Exceptions are in the properties themselves, not in hypotheses of the theorems:
`BacksOff` speaks of multipliers of at least 1 and of waits that `setTimeout` holds,
`OneHolderUnlessSlip` of sagas no lease of which has slipped, and
`EndedPageHasNoCurrentStep` of sagas that were neither run by two processes nor
reopened while their page was half read.

In the theorems about `LeasedSaga`, `Exclusive` is the constant of `SagaExecutor`
that selects which executor the composition is compared with: its own claims do
not look at it, only `Resume` by the application does, and `Orphaned` has the
application gone when a worker claims.

Besides, the assumptions named in the modules: `DefinitionAssumption` and
`EnvironmentAssumption` (types of the constants; the application is not a
worker), `LeaseAssumption` (NULL is nobody's ownerId), `AtOnceAssumption`,
`RecoveryAssumption` and `RelayAssumption` (finite sets, a positive batch size),
`PublisherAssumption` (publishes and disconnects are different calls),
`ClockAssumption`, `PolicyAssumption` and `ViewAssumption` (types of the constants). TLC evaluates
them in every run.

The inductive invariants:

* `Typed`. `TypeOK` alone is not inductive: at the sites that write a step's
  row, `cur` must be the number of a step, and a process that runs must have a
  row to answer with.
* `Recorded` adds to `NoEffectWithoutRecord` that the step a process is working
  on, from `stepStarted` to the end of the try block, has a row that was started.
  It survives other processes because no write makes a row PENDING again.
* `Sequential`: one process runs at a time, and the site it is at determines
  which statuses the row can have. `EndIsFinal` follows.
* `NoHole`: at each site of the loop, the steps before `cur` are settled, those
  after it have no row, and `existingSteps` is not stale for the steps still to
  come; `NoHoles` follows.
* `Undoing`: `completedSteps` ends at the failed step or just before it, and while
  a process compensates, the effects above its position are at steps marked
  FAILED. With `LateIsTimed` (only steps with a timeout have late calls)
  `CompensationClears` and `DependantsFirst` follow.
* `StartsUnsettled`: the step a process is about to create or to start is not
  settled, which `NoHole` gives for the loop that found it. `SettledForGood` follows.
* `Remembered`: the memory of a process that runs, and the stored context, have the
  patch of every completed step; between the patch and the step's completion the
  patch is in both. A crash loses the memory only, and the next process reads the
  context. `ContextIsComplete` follows.
* `Answered`: while the caller runs it has no terminal answer, and at the last
  publication the row is COMPLETED; so an answer is the row's status when it is
  given, and `EndIsFinal` keeps it so.
* `Told`: of a step that is not settled the outbox has no more completions than
  awaits have rejected, and it says that the saga completed only when no process
  runs and the row is COMPLETED; a process that works on a step has, after every
  completion of it in the outbox, a start of the step there (`Open`). After a
  crash the row, not the outbox, decides whether the step runs again, and only a
  rejection makes a row FAILED that the outbox calls completed. `StoryIsTold` follows; a resume by the application of a completed
  saga would write after its end, hence `MaxResumes = 0`.
* `FewMissing`: the steps that were done, are not told of and are not about to be, are no
  more than the faults. A step counts as done also while a call has it among its
  completed steps, for a rejection marks a completed step FAILED and its compensation
  makes it settled again. Then a run of the code's own adds none, a crash or a
  rejection one at most, and a resume none; `FewCompletionsLost` follows.
* `OnCourse`, for `ContractKept`: the site of the application's process says which
  effects there are, all of them those of a first part of the steps on the way
  forward, and on the way back those of the compensable steps not yet undone plus
  what no compensation takes away. With it, each change of `effects` or of `status`
  is the step of the contract that it should be, and everything else a stutter.
* `Shown`, for `RowsAreInOrder`: a RUNNING step is under a RUNNING saga, and none
  is left at the sites that set the saga FAILED or COMPLETED.
* `LeaseInv` of `LeasedSagaProofs`: who runs the saga as a worker holds it, its
  lease is good as long as somebody holds it, and only one does. With it, a claim
  that finds the lease free finds the processes idle, and a step of the
  composition is one of `SagaExecutor`.
* `MemoryInv`: the record a process works on is there and was started, the patch
  it returned is in the shared context. Others do not disturb this because
  records only grow in number, none becomes PENDING again, and the context only
  grows (`Grows`).
* `HolderLeased`: until a worker takes its own lease again or a lease lapses under its
  holder, the poll that holds the saga has its lease in the stored object, and it
  is good. `OneHolderOrSlip` follows.
* `SpanInv`: `SpansEnd` itself with the types of what it counts, and that an open span
  outside the sites of a step has a rejected publish to answer for it.
* `LoneInv`, for `OneLiveRecord`: until two meet, one process runs at a time, holds the
  lease if it is a worker, and knows the record of every step it has still to do;
  the record it has just created is the only one PENDING. So the loop adds a
  record only where every earlier one is FAILED or COMPENSATED, and when nobody
  runs, no record is PENDING: the next process finds what `getSteps` returns to be
  all there is to go on with. It rests on `HolderLeased` and on `MemoryInv`'s typing.
* `TimeInv`, for `SettlesInTime`: the awaited attempt has a timer, the clock has not
  passed it, and it is set within what `k` attempts and the waits between them may
  spend; the same of a sleep and its end. The clock cannot pass what is pending,
  which is the guard of `Tick`.
* `StepInv`: attempts are numbered, only the awaited one has a timer, and every
  other call that runs was aborted.
* `ViewInv`: a step is RUNNING only under a saga that is, unless two processes ran
  it, and a saga that had ended at the first query of a page has not moved by the
  second, unless it is in `shared` or `reopened`.
* `LeaseInv` of `RecoveryWorkerProofs`: who has a saga has its lease columns and a
  good lease (`HoldersLeased`), and a saga that waits for its turn in a batch is
  open (`WaitingOpen`). `FreshInv`: a good lease of a working poll is the one in
  the row, and a claim that is not committed is of rows nobody leases.
* `RelayInv`: in a poll's queue, an event's undelivered predecessors in its saga
  come before it; an event is marked by a poll that delivered it.
* `CopiesInv`: an event that is not marked has at most one copy for each poll that is
  about to mark it, each failure and each crash; once it is marked, a copy more
  can only come from a poll that had read it before, and it is still in that
  poll's queue. `Distinct`: no queue has an event twice. The proof adds and removes
  single elements of finite sets and never computes a cardinality.
* `OpenInv`: a producer that is connecting has a call that awaits it, and those
  that are up or being closed are counted against the number of closes.
* `HealInv`: until calls meet in a harmful way, a disconnect is alone, every
  connecting call has a producer of its own, and with a connection or an attempt
  at one, the field holds a producer that is up or that a call is connecting. The
  last part is what `RacesHeal` needs of the states in which calls still race.

Numbers defined by recursion. `Power` and `LongestWaits` are recursive functions,
and the library's induction theorems take an operator, which no prover here can
instantiate. The last parts of `StepTimingProofs` do without: every set of numbers
has a least one (`LeastOne`, from the well-foundedness of `<`), so what holds of no
least exception holds of all. `Recursion` shows in this way that a function
defined step by step exists, `AreNumbers` that its values are numbers, `Monotone`
that it grows if each step does; `PowerMultiplies` and `WaitsAddUp` are then the
two definitions as equations, and all that the theorems use.

Every safety property that a passing run checks is a theorem. Only model-checked:
the liveness properties (`Settles`, `ClaimableSettles`, `AlwaysSettles`,
`EveryOrphanSettles`, `EveryEventPublished`, `PublishingRecovers`, `GaugesHeal`), for
the prover has no fairness and no `ENABLED`. The two documentation runs are
counterexamples, for which an instance is enough.

## 5. What is not modelled

* `claimSaga`, `heartbeat`, `findRunningSagas` and `withTransaction`, which
  nothing in the repository calls, and `getAllSagas`, which only tests use.
* The in-memory outbox and the in-memory publisher, which only tests read.
* In the builder and the registry, what happens to two steps of one name or two
  definitions of one name: the models have distinct ones.
* The dashboard's web pages, which render what the API answers.
* The fault injector, which the executor does not call, and the example.
* `calculateDelay` of a strategy type that the types exclude.

## 6. Plan

Done: the modules, runs and theorems above. What could follow:

1. Proofs: which hypotheses can go. `ContractKept` with timeouts, if the contract
   lets abandoned calls land; `SettledForGood` and the others with a second process
   that meets the first at known sites only.
2. Definitions with steps of one name, over both repositories: rows are found by
   name, so two such steps share one.
3. `heartbeat` and `claimSaga`, as soon as something calls them: `LongLease` would
   become a theorem about a worker that renews its lease.
