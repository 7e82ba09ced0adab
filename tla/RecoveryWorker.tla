--------------------------- MODULE RecoveryWorker ---------------------------
(***************************************************************************)
(* RecoveryWorker.recoverOnce over the lease columns of saga_instances     *)
(* (owner_id, locked_until, updated_at): claimOrphanedSagas, the loop that *)
(* resumes the claimed sagas one after the other, releaseSaga.             *)
(*                                                                         *)
(* A poll is one call of recoverOnce.  start() calls it at an interval and *)
(* never waits for the previous call, so a worker may have several polls.  *)
(* What execute does to a saga is reduced to what claimOrphanedSagas sees  *)
(* of it; SagaExecutor is the full model of one run.                       *)
(***************************************************************************)
EXTENDS Naturals, Sequences, FiniteSets

CONSTANTS
    Sagas,          \* sagas whose application is gone
    Polls,          \* the calls of recoverOnce that may run at the same time
    WorkerOf,       \* poll -> the ownerId of its worker
    NoPoll,         \* the lease columns are NULL
    Unknown,        \* sagas whose name is not in the registry
    Batch,          \* batchSize
    LongLease,      \* does leaseDurationMs outlast every poll?
    MaxCrashes,     \* bounds on what the environment does
    MaxFails

ASSUME RecoveryAssumption ==
    /\ IsFiniteSet(Sagas)
    /\ NoPoll \notin Polls
    /\ Unknown \subseteq Sagas
    /\ Batch \in Nat \ {0}
    /\ LongLease \in BOOLEAN
    /\ {MaxCrashes, MaxFails} \subseteq Nat

\* Where a poll is suspended: in the claiming transaction, in one of the
\* awaits of resume, or in releaseSaga.
RunSites == {"running", "failed", "compensating"}
PollSite == {"idle", "selected", "next", "resume", "releasing"} \cup RunSites

-----------------------------------------------------------------------------
VARIABLES
    open,           \* the sagas whose status is RUNNING or COMPENSATING
    older,          \* <<s, t>>: updated_at of s is before that of t
    grant,          \* saga -> the poll whose claim its lease columns hold
    fresh,          \* poll -> the sagas it claimed for a time not yet over
    pc,
    queue,          \* poll -> orphaned, what is left of it
    crashes, fails

rows   == <<open, older, grant>>
budget == <<crashes, fails>>
vars   == <<rows, fresh, pc, queue, budget>>

\* Two sagas may have been updated at the same time.
Init ==
    /\ open \in SUBSET Sagas
    /\ \E rank \in [Sagas -> 1..Cardinality(Sagas)] :
           older = {pair \in Sagas \X Sagas : rank[pair[1]] < rank[pair[2]]}
    /\ grant = [s \in Sagas |-> NoPoll]
    /\ fresh = [k \in Polls |-> {}]
    /\ pc = [k \in Polls |-> "idle"]
    /\ queue = [k \in Polls |-> <<>>]
    /\ crashes = 0
    /\ fails = 0

Goto(k, site) == pc' = [pc EXCEPT ![k] = site]

Held(k) == {queue[k][i] : i \in 1..Len(queue[k])}

\* updated_at = NOW() for all of S.
Touch(S) ==
    older' = {pair \in older : pair[1] \notin S /\ pair[2] \notin S}
                 \cup ((Sagas \ S) \X S)

\* Rows under the FOR UPDATE of a transaction that is not over.
Locked(s) == \E k \in Polls : pc[k] = "selected" /\ s \in Held(k)

Leased(s) == grant[s] # NoPoll /\ s \in fresh[grant[s]]

-----------------------------------------------------------------------------
(* claimOrphanedSagas: SELECT, then UPDATE ... COMMIT. *)

\* Wrong on purpose: a live lease, or the status, does not keep a saga out.
OrphansLeased == {s \in open : ~Locked(s)}
OrphansAnyStatus == {s \in Sagas : ~Leased(s) /\ ~Locked(s)}

Orphans == {s \in open : ~Leased(s) /\ ~Locked(s)}

\* Wrong on purpose: the LIMIT is forgotten.
LimitNone(set) == Cardinality(set)

Limit(set) == IF Cardinality(set) < Batch THEN Cardinality(set) ELSE Batch

\* ORDER BY updated_at LIMIT Batch: a row comes after every older one.
IsOldest(batch, set) ==
    /\ Len(batch) = Limit(set)
    /\ \A i \in 1..Len(batch) :
          /\ batch[i] \in set
          /\ \A h \in 1..(i - 1) : batch[h] # batch[i]
          /\ \A s \in set :
                <<s, batch[i]>> \in older => \E h \in 1..(i - 1) : batch[h] = s

SelectOrphans(k) ==
    /\ pc[k] = "idle"
    /\ Orphans # {}
    /\ \E n \in 1..Cardinality(Sagas) : \E batch \in [1..n -> Sagas] :
           /\ IsOldest(batch, Orphans)
           /\ queue' = [queue EXCEPT ![k] = batch]
    /\ Goto(k, "selected")
    /\ UNCHANGED <<rows, fresh, budget>>

\* Wrong on purpose: the claim leaves updated_at as it is.
CommitClaimUntouched(k) ==
    /\ pc[k] = "selected"
    /\ grant' = [s \in Sagas |-> IF s \in Held(k) THEN k ELSE grant[s]]
    /\ fresh' = [fresh EXCEPT ![k] = @ \cup Held(k)]
    /\ Goto(k, "next")
    /\ UNCHANGED <<open, older, queue, budget>>

CommitClaim(k) ==
    /\ pc[k] = "selected"
    /\ grant' = [s \in Sagas |-> IF s \in Held(k) THEN k ELSE grant[s]]
    /\ fresh' = [fresh EXCEPT ![k] = @ \cup Held(k)]
    /\ Touch(Held(k))
    /\ Goto(k, "next")
    /\ UNCHANGED <<open, queue, budget>>

\* The poll throws: its batch is forgotten.
Abandon(k) ==
    /\ Goto(k, "idle")
    /\ queue' = [queue EXCEPT ![k] = <<>>]
    /\ fails < MaxFails
    /\ fails' = fails + 1
    /\ UNCHANGED <<rows, fresh, crashes>>

\* A statement of the transaction fails: ROLLBACK.
ClaimRejects(k) == pc[k] = "selected" /\ Abandon(k)

-----------------------------------------------------------------------------
(* The loop over the claimed sagas. *)

\* A saga without a definition is skipped before the try block: its lease is
\* not released.
NextSaga(k) ==
    /\ pc[k] = "next"
    /\ \/ /\ queue[k] = <<>>
          /\ Goto(k, "idle")
          /\ UNCHANGED queue
       \/ /\ queue[k] # <<>>
          /\ Head(queue[k]) \in Unknown
          /\ queue' = [queue EXCEPT ![k] = Tail(@)]
          /\ UNCHANGED pc
       \/ /\ queue[k] # <<>>
          /\ Head(queue[k]) \notin Unknown
          /\ Goto(k, "resume")
          /\ UNCHANGED queue
    /\ UNCHANGED <<rows, fresh, budget>>

\* A write of the status of the saga that is being resumed.
WriteStatus(k, site, opens, after) ==
    /\ pc[k] = site
    /\ LET s == Head(queue[k])
       IN  /\ ~Locked(s)
           /\ open' = IF opens THEN open \cup {s} ELSE open \ {s}
           /\ Touch({s})
    /\ Goto(k, after)
    /\ UNCHANGED <<grant, fresh, queue, budget>>

\* execute sets RUNNING whatever the status was.
SetRunning(k) == WriteStatus(k, "resume", TRUE, "running")

SetFailed(k) == WriteStatus(k, "running", FALSE, "failed")

SetCompensating(k) == WriteStatus(k, "failed", TRUE, "compensating")

\* COMPLETED, COMPENSATED or COMPENSATION_FAILED.
SetTerminal(k) ==
    \/ WriteStatus(k, "running", FALSE, "releasing")
    \/ WriteStatus(k, "compensating", FALSE, "releasing")

\* resume ends before the saga does: it throws, or it returns after
\* compensate threw.
ResumeFails(k) ==
    /\ pc[k] \in {"resume"} \cup RunSites
    /\ fails < MaxFails
    /\ fails' = fails + 1
    /\ Goto(k, "releasing")
    /\ UNCHANGED <<rows, fresh, queue, crashes>>

\* Wrong on purpose: releaseSaga does not compare the owner.
ReleaseAnyOwner(k) ==
    /\ pc[k] = "releasing"
    /\ LET s == Head(queue[k])
       IN  /\ ~Locked(s)
           /\ grant' = [grant EXCEPT ![s] = NoPoll]
           /\ Touch({s})
           /\ fresh' = [fresh EXCEPT ![k] = @ \ {s}]
    /\ queue' = [queue EXCEPT ![k] = Tail(@)]
    /\ Goto(k, "next")
    /\ UNCHANGED <<open, budget>>

\* releaseSaga, in the finally block: WHERE owner_id = ownerId, the worker
\* and not the poll.
Release(k) ==
    /\ pc[k] = "releasing"
    /\ LET s == Head(queue[k])
       IN  /\ ~Locked(s)
           /\ IF grant[s] # NoPoll /\ WorkerOf[grant[s]] = WorkerOf[k]
                 THEN /\ grant' = [grant EXCEPT ![s] = NoPoll]
                      /\ Touch({s})
                 ELSE UNCHANGED <<grant, older>>
           /\ fresh' = [fresh EXCEPT ![k] = @ \ {s}]
    /\ queue' = [queue EXCEPT ![k] = Tail(@)]
    /\ Goto(k, "next")
    /\ UNCHANGED <<open, budget>>

\* A release that fails ends the whole poll.
ReleaseRejects(k) == pc[k] = "releasing" /\ Abandon(k)

-----------------------------------------------------------------------------
(* The environment. *)

\* A worker dies with all its polls; the database rolls its transactions back.
Crash(w) ==
    /\ \E k \in Polls : WorkerOf[k] = w /\ pc[k] # "idle"
    /\ crashes < MaxCrashes
    /\ crashes' = crashes + 1
    /\ pc' = [k \in Polls |-> IF WorkerOf[k] = w THEN "idle" ELSE pc[k]]
    /\ queue' = [k \in Polls |-> IF WorkerOf[k] = w THEN <<>> ELSE queue[k]]
    /\ UNCHANGED <<rows, fresh, fails>>

\* locked_until passes.  Nothing calls heartbeat, so it passes while the poll
\* is still busy with the saga, unless the lease is long enough.
Expire(k, s) ==
    /\ s \in fresh[k]
    /\ LongLease => s \notin Held(k)
    /\ fresh' = [fresh EXCEPT ![k] = @ \ {s}]
    /\ UNCHANGED <<rows, pc, queue, budget>>

Poll(k) ==
    \/ SelectOrphans(k) \/ CommitClaim(k) \/ ClaimRejects(k)
    \/ NextSaga(k) \/ SetRunning(k) \/ SetFailed(k) \/ SetCompensating(k)
    \/ SetTerminal(k) \/ ResumeFails(k) \/ Release(k) \/ ReleaseRejects(k)

Next ==
    \/ \E k \in Polls : Poll(k)
    \/ \E k \in Polls : Crash(WorkerOf[k])
    \/ \E k \in Polls, s \in Sagas : Expire(k, s)

Spec == Init /\ [][Next]_vars

\* Timers fire, awaits settle, time passes.
Fairness ==
    /\ \A k \in Polls : WF_vars(Poll(k))
    /\ \A k \in Polls, s \in Sagas : WF_vars(Expire(k, s))

FairSpec == Spec /\ Fairness

-----------------------------------------------------------------------------
(* Correctness. *)

\* Every variable has the values the code and the schema allow; a poll takes
\* at most batchSize sagas.
TypeOK ==
    /\ open \subseteq Sagas
    /\ older \subseteq Sagas \X Sagas
    /\ grant \in [Sagas -> Polls \cup {NoPoll}]
    /\ fresh \in [Polls -> SUBSET Sagas]
    /\ pc \in [Polls -> PollSite]
    /\ queue \in [Polls -> Seq(Sagas)]
    /\ {crashes, fails} \subseteq Nat
    /\ \A k \in Polls : Len(queue[k]) <= Batch

\* If the lease outlasts every poll, no saga is in the hands of two polls,
\* not even of two polls of one worker, whatever crashes or fails.
OneHolder ==
    \A j, k \in Polls : Held(j) \cap Held(k) # {} => j = k

\* If the lease outlasts every poll, a saga is resumed only while it is
\* RUNNING or COMPENSATING.  execute would set a settled one back to RUNNING.
SettledNotResumed ==
    \A k \in Polls : pc[k] = "resume" => Head(queue[k]) \in open

\* With one poll per worker, two polls that have the same saga do not both
\* think their lease is good: a poll that is late cannot take away the lease
\* of the one that claimed the saga after it.
FreshLeaseExcludes ==
    \A j, k \in Polls : \A s \in Held(j) \cap Held(k) :
        (pc[j] # "selected" /\ s \in fresh[j] /\ pc[k] # "selected" /\ s \in fresh[k])
            => j = k

\* Every orphan with a definition is brought to its end or marked FAILED: the
\* ones without, which are claimed again whenever their lease expires, do not
\* fill every batch, and an abandoned batch is claimed again.
EveryOrphanSettles == \A s \in Sagas \ Unknown : s \in open ~> s \notin open

\* What the documentation says of leases: no two workers resume one saga.
NoTwoResumers ==
    \A j, k \in Polls :
        /\ pc[j] \in RunSites /\ pc[k] \in RunSites
        /\ Head(queue[j]) = Head(queue[k])
        => WorkerOf[j] = WorkerOf[k]
=============================================================================
