------------------------ MODULE RecoveryWorkerProofs ------------------------
(***************************************************************************)
(* Theorems about the leases of RecoveryWorker, for every set of sagas, of *)
(* polls and of workers, every batch size and any number of failures.      *)
(***************************************************************************)
EXTENDS RecoveryWorker, FiniteSetTheorems, TLAPS

\* The polls that are at work on the first saga of their queue.
AtWork == {"resume", "releasing"} \cup RunSites

\* What the control of a poll says of its queue.
QueueOK ==
    /\ \A k \in Polls : pc[k] = "idle" => queue[k] = <<>>
    /\ \A k \in Polls : pc[k] \in AtWork => queue[k] # <<>>
    /\ \A k \in Polls : \A h, i \in 1..Len(queue[k]) : queue[k][h] = queue[k][i] => h = i

Typed == TypeOK /\ QueueOK

\* A batch is a sequence of sagas no longer than batchSize.
LEMMA BatchIsSequence ==
    ASSUME NEW set \in SUBSET Sagas, NEW n \in 1..Cardinality(Sagas),
           NEW batch \in [1..n -> Sagas], IsOldest(batch, set)
    PROVE  /\ batch \in Seq(Sagas)
           /\ Len(batch) = n
           /\ n <= Batch
           /\ batch # <<>>
           /\ \A i \in 1..Len(batch) : batch[i] \in set
           /\ \A h, i \in 1..Len(batch) : batch[h] = batch[i] => h = i
<1>1. Cardinality(Sagas) \in Nat /\ Cardinality(set) \in Nat
  BY FS_CardinalityType, FS_Subset, RecoveryAssumption
<1>2. n \in Nat /\ n >= 1
  BY <1>1
<1>3. batch \in Seq(Sagas) /\ Len(batch) = n
  BY <1>2
<1>4. n <= Batch
  BY <1>1, <1>3, RecoveryAssumption DEF IsOldest, Limit
<1>5. \A h, i \in 1..Len(batch) : batch[h] = batch[i] => h = i
  <2>1. \A h, i \in 1..Len(batch) : h < i => batch[h] # batch[i]
    BY <1>2, <1>3 DEF IsOldest
  <2>2. QED
    BY <2>1, <1>2, <1>3
<1>6. QED
  BY <1>2, <1>3, <1>4, <1>5 DEF IsOldest

\* What is left of a batch after its first saga.
LEMMA TailOfBatch ==
    ASSUME NEW q \in Seq(Sagas), q # <<>>,
           \A h, i \in 1..Len(q) : q[h] = q[i] => h = i
    PROVE  /\ Tail(q) \in Seq(Sagas)
           /\ Len(Tail(q)) = Len(q) - 1
           /\ Head(q) = q[1] /\ Head(q) \in Sagas
           /\ \A i \in 1..Len(Tail(q)) :
                 /\ i + 1 \in 1..Len(q)
                 /\ Tail(q)[i] = q[i + 1]
                 /\ Tail(q)[i] # Head(q)
           /\ \A h, i \in 1..Len(Tail(q)) : Tail(q)[h] = Tail(q)[i] => h = i
<1>1. Len(q) \in Nat /\ Len(q) >= 1
  OBVIOUS
<1>2. /\ Tail(q) \in Seq(Sagas) /\ Len(Tail(q)) = Len(q) - 1
      /\ Head(q) = q[1] /\ Head(q) \in Sagas
  BY <1>1
<1>3. \A i \in 1..Len(Tail(q)) : i + 1 \in 1..Len(q) /\ Tail(q)[i] = q[i + 1]
  BY <1>1, <1>2
<1>4. QED
  BY <1>1, <1>2, <1>3

-----------------------------------------------------------------------------
(* Types. *)

USE DEF PollSite, RunSites, AtWork, Goto, Held

LEMMA InitTyped == Init => Typed
<1>1. Cardinality(Sagas) \in Nat
  BY FS_CardinalityType, RecoveryAssumption
<1>2. QED
  BY <1>1, RecoveryAssumption DEF Init, Typed, TypeOK, QueueOK

LEMMA TypedSelect ==
    ASSUME Typed, NEW k \in Polls, SelectOrphans(k) PROVE Typed'
<1>1. Orphans \in SUBSET Sagas
  BY DEF Typed, TypeOK, Orphans
<1>2. PICK n \in 1..Cardinality(Sagas) : \E batch \in [1..n -> Sagas] :
          IsOldest(batch, Orphans) /\ queue' = [queue EXCEPT ![k] = batch]
  BY DEF SelectOrphans
<1>3. PICK batch \in [1..n -> Sagas] :
          IsOldest(batch, Orphans) /\ queue' = [queue EXCEPT ![k] = batch]
  BY <1>2
<1>4. /\ batch \in Seq(Sagas) /\ Len(batch) <= Batch /\ batch # <<>>
      /\ \A h, i \in 1..Len(batch) : batch[h] = batch[i] => h = i
  BY <1>1, <1>3, BatchIsSequence
<1>5. TypeOK'
  BY <1>3, <1>4 DEF Typed, TypeOK, SelectOrphans, rows, budget
<1>6. QueueOK'
  BY <1>3, <1>4 DEF Typed, TypeOK, QueueOK, SelectOrphans
<1>7. QED
  BY <1>5, <1>6 DEF Typed

LEMMA TypedCommit ==
    ASSUME Typed, NEW k \in Polls, CommitClaim(k) PROVE Typed'
<1>1. Held(k) \subseteq Sagas
  BY DEF Typed, TypeOK
<1>2. TypeOK'
  BY <1>1 DEF Typed, TypeOK, CommitClaim, Touch, budget
<1>3. QueueOK'
  BY DEF Typed, TypeOK, QueueOK, CommitClaim
<1>4. QED
  BY <1>2, <1>3 DEF Typed

\* A poll that abandons its batch.
LEMMA TypedAbandon ==
    ASSUME Typed, NEW k \in Polls, Abandon(k) PROVE Typed'
<1>1. TypeOK'
  BY RecoveryAssumption DEF Typed, TypeOK, Abandon, rows
<1>2. QueueOK'
  BY DEF Typed, TypeOK, QueueOK, Abandon
<1>3. QED
  BY <1>1, <1>2 DEF Typed

LEMMA TypedNext ==
    ASSUME Typed, NEW k \in Polls, NextSaga(k) PROVE Typed'
<1>1. CASE queue' = queue
  BY <1>1 DEF Typed, TypeOK, QueueOK, NextSaga, rows, budget
<1>2. CASE queue[k] # <<>> /\ queue' = [queue EXCEPT ![k] = Tail(@)] /\ pc' = pc
  <2>1. /\ Tail(queue[k]) \in Seq(Sagas)
        /\ Len(Tail(queue[k])) = Len(queue[k]) - 1
        /\ \A h, i \in 1..Len(Tail(queue[k])) : Tail(queue[k])[h] = Tail(queue[k])[i] => h = i
    BY <1>2, TailOfBatch DEF Typed, TypeOK, QueueOK
  <2>2. queue'[k] = Tail(queue[k]) /\ \A j \in Polls \ {k} : queue'[j] = queue[j]
    BY <1>2 DEF Typed, TypeOK
  <2>3. TypeOK'
    BY <1>2, <2>1, <2>2, RecoveryAssumption DEF Typed, TypeOK, NextSaga, rows, budget
  <2>4. QueueOK'
    BY <1>2, <2>1, <2>2 DEF Typed, TypeOK, QueueOK, NextSaga
  <2>5. QED
    BY <2>3, <2>4 DEF Typed
<1>3. QED
  BY <1>1, <1>2 DEF NextSaga

LEMMA TypedWrite ==
    ASSUME Typed, NEW k \in Polls, NEW site \in AtWork, NEW opens \in BOOLEAN,
           NEW after \in AtWork, WriteStatus(k, site, opens, after)
    PROVE  Typed'
<1>1. Head(queue[k]) \in Sagas
  BY TailOfBatch DEF Typed, TypeOK, QueueOK, WriteStatus
<1>2. TypeOK'
  BY <1>1 DEF Typed, TypeOK, WriteStatus, Touch, budget
<1>3. QueueOK'
  BY DEF Typed, TypeOK, QueueOK, WriteStatus
<1>4. QED
  BY <1>2, <1>3 DEF Typed

LEMMA TypedRelease ==
    ASSUME Typed, NEW k \in Polls, Release(k) PROVE Typed'
<1>1. /\ Tail(queue[k]) \in Seq(Sagas)
      /\ Len(Tail(queue[k])) = Len(queue[k]) - 1
      /\ Head(queue[k]) \in Sagas
      /\ \A h, i \in 1..Len(Tail(queue[k])) : Tail(queue[k])[h] = Tail(queue[k])[i] => h = i
  BY TailOfBatch DEF Typed, TypeOK, QueueOK, Release
<1>2. queue'[k] = Tail(queue[k]) /\ \A j \in Polls \ {k} : queue'[j] = queue[j]
  BY DEF Typed, TypeOK, Release
<1>3. Len(queue'[k]) <= Batch
  BY <1>1, <1>2, RecoveryAssumption DEF Typed, TypeOK
<1>4. /\ grant' \in [Sagas -> Polls \cup {NoPoll}] /\ older' \subseteq Sagas \X Sagas
      /\ fresh' \in [Polls -> SUBSET Sagas] /\ queue' \in [Polls -> Seq(Sagas)]
  BY <1>1 DEF Typed, TypeOK, Release, Touch
<1>5. TypeOK'
  BY <1>2, <1>3, <1>4 DEF Typed, TypeOK, Release, budget
<1>6. QueueOK'
  BY <1>1, <1>2 DEF Typed, TypeOK, QueueOK, Release
<1>7. QED
  BY <1>5, <1>6 DEF Typed

LEMMA TypedCrash ==
    ASSUME Typed, NEW w, Crash(w) PROVE Typed'
<1>1. TypeOK'
  BY RecoveryAssumption DEF Typed, TypeOK, Crash, rows
<1>2. QueueOK'
  BY DEF Typed, TypeOK, QueueOK, Crash
<1>3. QED
  BY <1>1, <1>2 DEF Typed

LEMMA TypedStep == Typed /\ [Next]_vars => Typed'
<1> SUFFICES ASSUME Typed, [Next]_vars PROVE Typed'
  OBVIOUS
<1>1. CASE UNCHANGED vars
  BY <1>1 DEF Typed, TypeOK, QueueOK, vars, rows, budget
<1>2. CASE \E k \in Polls : Crash(WorkerOf[k])
  BY <1>2, TypedCrash
<1>3. ASSUME NEW k \in Polls, NEW s \in Sagas, Expire(k, s) PROVE Typed'
  BY <1>3 DEF Typed, TypeOK, QueueOK, Expire, rows, budget
<1>4. ASSUME NEW k \in Polls, ResumeFails(k) PROVE Typed'
  BY <1>4 DEF Typed, TypeOK, QueueOK, ResumeFails, rows
<1>5. ASSUME NEW k \in Polls, SetRunning(k) \/ SetFailed(k) \/ SetCompensating(k)
                                   \/ SetTerminal(k)
      PROVE  Typed'
  BY <1>5, TypedWrite DEF SetRunning, SetFailed, SetCompensating, SetTerminal
<1>6. ASSUME NEW k \in Polls, ClaimRejects(k) \/ ReleaseRejects(k) PROVE Typed'
  BY <1>6, TypedAbandon DEF ClaimRejects, ReleaseRejects
<1>7. QED
  BY <1>1, <1>2, <1>3, <1>4, <1>5, <1>6, TypedSelect, TypedCommit, TypedNext,
     TypedRelease DEF Next, Poll

\* Every reachable state of the recovery workers is well typed and no poll
\* has more than batchSize sagas in hand.
THEOREM WorkerTypeCorrect == Spec => []TypeOK
<1>1. Typed => TypeOK
  BY DEF Typed
<1>2. QED
  BY <1>1, InitTyped, TypedStep, PTL DEF Spec

-----------------------------------------------------------------------------
(* Leases that outlast the polls: a saga has one holder, and is open until *)
(* its holder closes it.                                                   *)

\* The lease columns are those of the poll that has the saga, and its lease
\* is not over.
HoldersLeased ==
    \A k \in Polls : pc[k] \notin {"idle", "selected"} =>
        \A s \in Held(k) : s \in fresh[k] /\ grant[s] = k

\* A saga that waits for its turn is open.
WaitingOpen ==
    \A k \in Polls : \A i \in 1..Len(queue[k]) :
        queue[k][i] \in open \/ (i = 1 /\ pc[k] \in RunSites \cup {"releasing"})

HIDE DEF Held

LeaseInv == Typed /\ OneHolder /\ HoldersLeased /\ WaitingOpen

\* The sagas of a poll that selects were nobody's, and were open.
LEMMA LeaseSelect ==
    ASSUME LeaseInv, NEW k \in Polls, SelectOrphans(k) PROVE LeaseInv'
<1>1. Orphans \in SUBSET Sagas
  BY DEF LeaseInv, Typed, TypeOK, Orphans
<1>2. PICK n \in 1..Cardinality(Sagas) : \E batch \in [1..n -> Sagas] :
          IsOldest(batch, Orphans) /\ queue' = [queue EXCEPT ![k] = batch]
  BY DEF SelectOrphans
<1>3. PICK batch \in [1..n -> Sagas] :
          IsOldest(batch, Orphans) /\ queue' = [queue EXCEPT ![k] = batch]
  BY <1>2
<1>4. \A i \in 1..Len(batch) : batch[i] \in Orphans
  BY <1>1, <1>3, BatchIsSequence
<1>5. Held(k)' \subseteq Orphans
  BY <1>3, <1>4 DEF LeaseInv, Typed, TypeOK, Held
<1>6. \A j \in Polls \ {k} : Held(j)' = Held(j) /\ pc'[j] = pc[j]
  BY <1>3 DEF LeaseInv, Typed, TypeOK, Held, SelectOrphans
<1>7. \A j \in Polls : Held(j) \cap Orphans = {}
  <2> SUFFICES ASSUME NEW j \in Polls, NEW s \in Held(j) PROVE s \notin Orphans
    OBVIOUS
  <2>1. CASE pc[j] = "idle"
    BY <2>1 DEF LeaseInv, Typed, QueueOK, Held
  <2>2. CASE pc[j] = "selected"
    BY <2>2 DEF Orphans, Locked
  <2>3. CASE pc[j] \notin {"idle", "selected"}
    <3>1. s \in fresh[j] /\ grant[s] = j
      BY <2>3 DEF LeaseInv, HoldersLeased
    <3>2. QED
      BY <3>1, RecoveryAssumption DEF Orphans, Leased
  <2>4. QED
    BY <2>1, <2>2, <2>3
<1>8. OneHolder'
  BY <1>5, <1>6, <1>7 DEF LeaseInv, OneHolder
<1>9. HoldersLeased'
  BY <1>6 DEF LeaseInv, Typed, TypeOK, HoldersLeased, SelectOrphans, rows
<1>10. WaitingOpen'
  BY <1>3, <1>4 DEF LeaseInv, Typed, TypeOK, WaitingOpen, SelectOrphans, Orphans, rows
<1>11. QED
  BY <1>8, <1>9, <1>10, TypedSelect DEF LeaseInv

LEMMA LeaseCommit ==
    ASSUME LeaseInv, NEW k \in Polls, CommitClaim(k) PROVE LeaseInv'
<1>1. Held(k) \subseteq Sagas /\ \A j \in Polls : Held(j)' = Held(j)
  BY DEF LeaseInv, Typed, TypeOK, Held, CommitClaim
<1>2. OneHolder'
  BY <1>1 DEF LeaseInv, OneHolder, CommitClaim
<1>3. HoldersLeased'
  <2> SUFFICES ASSUME NEW j \in Polls, pc'[j] \notin {"idle", "selected"}, NEW s \in Held(j)
               PROVE  s \in fresh'[j] /\ grant'[s] = j
    BY <1>1 DEF HoldersLeased
  <2>1. s \in Sagas
    BY DEF LeaseInv, Typed, TypeOK, Held
  <2>2. CASE j = k
    BY <2>1, <2>2 DEF LeaseInv, Typed, TypeOK, CommitClaim
  <2>3. CASE j # k
    <3>1. s \notin Held(k)
      BY <2>3 DEF LeaseInv, OneHolder
    <3>2. s \in fresh[j] /\ grant[s] = j
      BY <2>3 DEF LeaseInv, HoldersLeased, Typed, TypeOK, CommitClaim
    <3>3. QED
      BY <2>1, <2>3, <3>1, <3>2 DEF LeaseInv, Typed, TypeOK, CommitClaim
  <2>4. QED
    BY <2>2, <2>3
<1>4. WaitingOpen'
  BY DEF LeaseInv, Typed, TypeOK, WaitingOpen, CommitClaim
<1>5. QED
  BY <1>2, <1>3, <1>4, TypedCommit DEF LeaseInv

LEMMA LeaseAbandon ==
    ASSUME LeaseInv, NEW k \in Polls, Abandon(k) PROVE LeaseInv'
<1>1. /\ Held(k)' = {} /\ pc'[k] = "idle" /\ queue'[k] = <<>>
      /\ \A j \in Polls \ {k} : Held(j)' = Held(j) /\ pc'[j] = pc[j] /\ queue'[j] = queue[j]
  BY DEF LeaseInv, Typed, TypeOK, Held, Abandon
<1>2. OneHolder'
  BY <1>1 DEF LeaseInv, OneHolder
<1>3. HoldersLeased'
  BY <1>1 DEF LeaseInv, HoldersLeased, Abandon, rows
<1>4. WaitingOpen'
  BY <1>1 DEF LeaseInv, WaitingOpen, Abandon, rows
<1>5. QED
  BY <1>2, <1>3, <1>4, TypedAbandon DEF LeaseInv

\* Dropping the first saga of the queue.
LEMMA HeldTail ==
    ASSUME Typed, NEW k \in Polls, queue[k] # <<>>, queue' = [queue EXCEPT ![k] = Tail(@)]
    PROVE  /\ Held(k)' = Held(k) \ {Head(queue[k])}
           /\ Head(queue[k]) \in Held(k)
           /\ \A j \in Polls \ {k} : Held(j)' = Held(j) /\ queue'[j] = queue[j]
           /\ \A i \in 1..Len(queue'[k]) : i + 1 \in 1..Len(queue[k])
                                           /\ queue'[k][i] = queue[k][i + 1]
<1> DEFINE q == queue[k]
<1>1. q \in Seq(Sagas) /\ \A h, i \in 1..Len(q) : q[h] = q[i] => h = i
  BY DEF Typed, TypeOK, QueueOK
<1>2. /\ Len(Tail(q)) = Len(q) - 1
      /\ Head(q) = q[1]
      /\ \A i \in 1..Len(Tail(q)) : i + 1 \in 1..Len(q) /\ Tail(q)[i] = q[i + 1]
                                    /\ Tail(q)[i] # Head(q)
  BY <1>1, TailOfBatch
<1>3. queue'[k] = Tail(q) /\ \A j \in Polls \ {k} : queue'[j] = queue[j]
  BY DEF Typed, TypeOK
<1>4. \A i \in 1..Len(q) : i = 1 \/ (i - 1 \in 1..Len(Tail(q)) /\ Tail(q)[i - 1] = q[i])
  <2> SUFFICES ASSUME NEW i \in 1..Len(q), i # 1
               PROVE  i - 1 \in 1..Len(Tail(q)) /\ Tail(q)[i - 1] = q[i]
    OBVIOUS
  <2>1. Len(q) \in Nat
    BY <1>1
  <2>2. i - 1 \in 1..Len(Tail(q)) /\ (i - 1) + 1 = i
    BY <1>2, <2>1
  <2>3. QED
    BY <1>2, <2>2
<1>5. {q[i] : i \in 1..Len(q)} = {Tail(q)[i] : i \in 1..Len(Tail(q))} \cup {Head(q)}
  <2>1. Len(q) \in Nat /\ 1 \in 1..Len(q)
    BY <1>1
  <2>2. QED
    BY <1>2, <1>4, <2>1
<1>6. Head(q) \notin {Tail(q)[i] : i \in 1..Len(Tail(q))}
  BY <1>2
<1>7. /\ Held(k) = {q[i] : i \in 1..Len(q)}
      /\ Held(k)' = {Tail(q)[i] : i \in 1..Len(Tail(q))}
      /\ \A j \in Polls \ {k} : Held(j)' = Held(j)
  BY <1>3 DEF Held
<1>8. QED
  BY <1>2, <1>3, <1>5, <1>6, <1>7

LEMMA LeaseNext ==
    ASSUME LeaseInv, NEW k \in Polls, NextSaga(k) PROVE LeaseInv'
<1>1. CASE queue' = queue
  <2>1. /\ pc'[k] \in {"idle", "resume"} /\ pc[k] = "next"
        /\ \A j \in Polls : Held(j)' = Held(j)
        /\ \A j \in Polls \ {k} : pc'[j] = pc[j]
    BY <1>1 DEF LeaseInv, Typed, TypeOK, Held, NextSaga
  <2>2. OneHolder' /\ HoldersLeased' /\ WaitingOpen'
    BY <1>1, <2>1 DEF LeaseInv, OneHolder, HoldersLeased, WaitingOpen, NextSaga, rows
  <2>3. QED
    BY <2>2, TypedNext DEF LeaseInv
<1>2. CASE queue[k] # <<>> /\ queue' = [queue EXCEPT ![k] = Tail(@)] /\ pc' = pc
  <2>1. /\ Held(k)' = Held(k) \ {Head(queue[k])}
        /\ \A j \in Polls \ {k} : Held(j)' = Held(j) /\ queue'[j] = queue[j]
        /\ \A i \in 1..Len(queue'[k]) : i + 1 \in 1..Len(queue[k])
                                        /\ queue'[k][i] = queue[k][i + 1]
    BY <1>2, HeldTail DEF LeaseInv
  <2>2. pc[k] = "next" /\ UNCHANGED <<rows, fresh>>
    BY DEF NextSaga
  <2>3. OneHolder'
    BY <2>1 DEF LeaseInv, OneHolder
  <2>4. HoldersLeased'
    BY <1>2, <2>1, <2>2 DEF LeaseInv, HoldersLeased, rows
  <2>5. WaitingOpen'
    BY <1>2, <2>1, <2>2 DEF LeaseInv, WaitingOpen, rows
  <2>6. QED
    BY <2>3, <2>4, <2>5, TypedNext DEF LeaseInv
<1>3. QED
  BY <1>1, <1>2 DEF NextSaga

\* A write of the status touches the first saga of the queue, which nobody
\* else has, nor the rest of the queue.
LEMMA LeaseWrite ==
    ASSUME LeaseInv, NEW k \in Polls, NEW site \in AtWork, NEW opens \in BOOLEAN,
           NEW after \in RunSites \cup {"releasing"}, WriteStatus(k, site, opens, after)
    PROVE  LeaseInv'
<1>1. queue[k] \in Seq(Sagas) /\ queue[k] # <<>> /\ pc[k] = site
  BY DEF LeaseInv, Typed, TypeOK, QueueOK, WriteStatus
<1>2. Head(queue[k]) = queue[k][1] /\ 1 \in 1..Len(queue[k])
  BY <1>1
<1>3. /\ pc'[k] = after /\ \A j \in Polls \ {k} : pc'[j] = pc[j]
      /\ \A j \in Polls : Held(j)' = Held(j)
      /\ queue' = queue /\ fresh' = fresh /\ grant' = grant
  BY DEF LeaseInv, Typed, TypeOK, Held, WriteStatus
<1>4. OneHolder'
  BY <1>3 DEF LeaseInv, OneHolder
<1>5. HoldersLeased'
  BY <1>1, <1>3 DEF LeaseInv, HoldersLeased
<1>6. WaitingOpen'
  <2> SUFFICES ASSUME NEW j \in Polls, NEW i \in 1..Len(queue[j])
               PROVE  queue[j][i] \in open'
                          \/ (i = 1 /\ pc'[j] \in RunSites \cup {"releasing"})
    BY <1>3 DEF WaitingOpen
  <2>1. queue[j][i] \in open \/ (i = 1 /\ pc[j] \in RunSites \cup {"releasing"})
    BY DEF LeaseInv, WaitingOpen
  <2>2. open \ {Head(queue[k])} \subseteq open'
    BY DEF WriteStatus
  <2>3. CASE j = k
    <3>1. CASE i = 1
      BY <1>3, <2>3, <3>1
    <3>2. CASE i # 1
      <4>1. queue[k][i] # queue[k][1]
        BY <1>2, <2>3, <3>2 DEF LeaseInv, Typed, QueueOK
      <4>2. QED
        BY <1>2, <2>1, <2>2, <2>3, <3>2, <4>1
    <3>3. QED
      BY <3>1, <3>2
  <2>4. CASE j # k
    <3>1. queue[j][i] \in Held(j) /\ queue[k][1] \in Held(k)
      BY <1>2 DEF Held
    <3>2. queue[j][i] # queue[k][1]
      BY <2>4, <3>1 DEF LeaseInv, OneHolder
    <3>3. QED
      BY <1>2, <1>3, <2>1, <2>2, <2>4, <3>2
  <2>5. QED
    BY <2>3, <2>4
<1>7. QED
  BY <1>4, <1>5, <1>6, TypedWrite DEF LeaseInv

LEMMA LeaseFails ==
    ASSUME LeaseInv, NEW k \in Polls, ResumeFails(k), Typed' PROVE LeaseInv'
<1>1. /\ pc[k] \in AtWork /\ pc'[k] = "releasing"
      /\ \A j \in Polls \ {k} : pc'[j] = pc[j]
      /\ \A j \in Polls : Held(j)' = Held(j)
      /\ queue' = queue /\ fresh' = fresh /\ grant' = grant /\ open' = open
  BY DEF LeaseInv, Typed, TypeOK, Held, ResumeFails, rows
<1>2. OneHolder' /\ HoldersLeased' /\ WaitingOpen'
  BY <1>1 DEF LeaseInv, OneHolder, HoldersLeased, WaitingOpen
<1>3. QED
  BY <1>2 DEF LeaseInv

LEMMA LeaseRelease ==
    ASSUME LeaseInv, NEW k \in Polls, Release(k) PROVE LeaseInv'
<1> DEFINE s == Head(queue[k])
<1>1. queue[k] # <<>> /\ queue' = [queue EXCEPT ![k] = Tail(@)] /\ pc[k] = "releasing"
  BY DEF LeaseInv, Typed, QueueOK, Release
<1>2. /\ Held(k)' = Held(k) \ {s}
      /\ s \in Held(k)
      /\ \A j \in Polls \ {k} : Held(j)' = Held(j) /\ queue'[j] = queue[j]
      /\ \A i \in 1..Len(queue'[k]) : i + 1 \in 1..Len(queue[k])
                                      /\ queue'[k][i] = queue[k][i + 1]
  BY <1>1, HeldTail DEF LeaseInv
<1>3. s \in Sagas
  BY <1>2 DEF LeaseInv, Typed, TypeOK, Held
<1>4. /\ \A t \in Sagas \ {s} : grant'[t] = grant[t]
      /\ \A j \in Polls : \A t \in Sagas \ {s} : t \in fresh[j] => t \in fresh'[j]
      /\ pc'[k] = "next" /\ \A j \in Polls \ {k} : pc'[j] = pc[j]
      /\ open' = open
  BY <1>3 DEF LeaseInv, Typed, TypeOK, Release
<1>5. OneHolder'
  BY <1>2 DEF LeaseInv, OneHolder
<1>6. HoldersLeased'
  <2> SUFFICES ASSUME NEW j \in Polls, pc'[j] \notin {"idle", "selected"}, NEW t \in Held(j)'
               PROVE  t \in fresh'[j] /\ grant'[t] = j
    BY DEF HoldersLeased
  <2>1. t \in Held(j) /\ t # s
    BY <1>2 DEF LeaseInv, OneHolder
  <2>2. t \in Sagas /\ pc[j] \notin {"idle", "selected"}
    BY <1>1, <1>4, <2>1 DEF LeaseInv, Typed, TypeOK, Held
  <2>3. t \in fresh[j] /\ grant[t] = j
    BY <2>1, <2>2 DEF LeaseInv, HoldersLeased
  <2>4. QED
    BY <1>4, <2>1, <2>2, <2>3
<1>7. WaitingOpen'
  <2> SUFFICES ASSUME NEW j \in Polls, NEW i \in 1..Len(queue'[j])
               PROVE  queue'[j][i] \in open
                          \/ (i = 1 /\ pc'[j] \in RunSites \cup {"releasing"})
    BY <1>4 DEF WaitingOpen
  <2>1. CASE j = k
    <3>1. i + 1 \in 1..Len(queue[k]) /\ queue'[k][i] = queue[k][i + 1] /\ i + 1 # 1
      BY <1>2, <2>1 DEF LeaseInv, Typed, TypeOK
    <3>2. QED
      BY <2>1, <3>1 DEF LeaseInv, WaitingOpen
  <2>2. CASE j # k
    BY <1>2, <1>4, <2>2 DEF LeaseInv, WaitingOpen
  <2>3. QED
    BY <2>1, <2>2
<1>8. QED
  BY <1>5, <1>6, <1>7, TypedRelease DEF LeaseInv

LEMMA LeaseCrash ==
    ASSUME LeaseInv, NEW w, Crash(w) PROVE LeaseInv'
<1>1. \A j \in Polls :
          \/ Held(j)' = Held(j) /\ pc'[j] = pc[j] /\ queue'[j] = queue[j]
          \/ Held(j)' = {} /\ pc'[j] = "idle" /\ queue'[j] = <<>>
  BY DEF Crash, LeaseInv, Typed, TypeOK, Held
<1>2. OneHolder'
  BY <1>1 DEF LeaseInv, OneHolder
<1>3. HoldersLeased'
  BY <1>1 DEF LeaseInv, HoldersLeased, Crash, rows
<1>4. WaitingOpen'
  BY <1>1 DEF LeaseInv, WaitingOpen, Crash, rows
<1>5. QED
  BY <1>2, <1>3, <1>4, TypedCrash DEF LeaseInv

LEMMA LeaseExpire ==
    ASSUME LongLease, LeaseInv, NEW k \in Polls, NEW s \in Sagas, Expire(k, s), Typed'
    PROVE  LeaseInv'
<1>1. /\ s \notin Held(k) /\ \A j \in Polls : Held(j)' = Held(j)
      /\ pc' = pc /\ queue' = queue /\ grant' = grant /\ open' = open
      /\ \A j \in Polls : \A t \in fresh[j] : (j = k /\ t = s) \/ t \in fresh'[j]
  BY DEF LeaseInv, Typed, TypeOK, Held, Expire, rows
<1>2. OneHolder' /\ HoldersLeased' /\ WaitingOpen'
  BY <1>1 DEF LeaseInv, OneHolder, HoldersLeased, WaitingOpen
<1>3. QED
  BY <1>2 DEF LeaseInv

LEMMA LeaseStep == ASSUME LongLease PROVE LeaseInv /\ [Next]_vars => LeaseInv'
<1> SUFFICES ASSUME LeaseInv, [Next]_vars PROVE LeaseInv'
  OBVIOUS
<1>1. Typed'
  BY TypedStep DEF LeaseInv
<1>2. CASE UNCHANGED vars
  <2>1. \A k \in Polls : Held(k)' = Held(k)
    BY <1>2 DEF vars, Held
  <2>2. QED
    BY <1>1, <1>2, <2>1 DEF LeaseInv, OneHolder, HoldersLeased, WaitingOpen, vars, rows
<1>3. ASSUME NEW k \in Polls, SetRunning(k) \/ SetFailed(k) \/ SetCompensating(k)
                                   \/ SetTerminal(k)
      PROVE  LeaseInv'
  BY <1>3, LeaseWrite DEF SetRunning, SetFailed, SetCompensating, SetTerminal
<1>4. ASSUME NEW k \in Polls, ClaimRejects(k) \/ ReleaseRejects(k) PROVE LeaseInv'
  BY <1>4, LeaseAbandon DEF ClaimRejects, ReleaseRejects
<1>5. QED
  BY <1>1, <1>2, <1>3, <1>4, LeaseSelect, LeaseCommit, LeaseNext, LeaseFails,
     LeaseRelease, LeaseCrash, LeaseExpire DEF Next, Poll

LEMMA LeaseInit == Init => LeaseInv
<1>1. Init => OneHolder /\ HoldersLeased /\ WaitingOpen
  BY DEF Init, Held, OneHolder, HoldersLeased, WaitingOpen
<1>2. QED
  BY <1>1, InitTyped DEF LeaseInv

\* Leases that outlast the polls give every saga one holder.  It is what
\* SagaExecutor's Exclusive assumes of the recovery workers.
THEOREM OneHolderAtATime == ASSUME LongLease PROVE Spec => []OneHolder
<1>1. LeaseInv => OneHolder
  BY DEF LeaseInv
<1>2. QED
  BY <1>1, LeaseInit, LeaseStep, PTL DEF Spec

\* Leases that outlast the polls keep settled sagas from being resumed.
THEOREM ResumedIsOpen == ASSUME LongLease PROVE Spec => []SettledNotResumed
<1>1. LeaseInv => SettledNotResumed
  <2> SUFFICES ASSUME LeaseInv, NEW k \in Polls, pc[k] = "resume"
               PROVE  Head(queue[k]) \in open
    BY DEF SettledNotResumed
  <2>1. queue[k] \in Seq(Sagas) /\ queue[k] # <<>>
    BY DEF LeaseInv, Typed, TypeOK, QueueOK
  <2>2. Head(queue[k]) = queue[k][1] /\ 1 \in 1..Len(queue[k])
    BY <2>1
  <2>3. QED
    BY <2>2 DEF LeaseInv, WaitingOpen
<1>2. QED
  BY <1>1, LeaseInit, LeaseStep, PTL DEF Spec

-----------------------------------------------------------------------------
(* Leases of any length, one poll per worker: a poll whose lease is good   *)
(* is the one the row names.                                               *)

OnePollPerWorker == \A j, k \in Polls : WorkerOf[j] = WorkerOf[k] => j = k

\* A claim that is not committed is of rows nobody leases or claims.
SelectedUnleased ==
    \A k \in Polls : pc[k] = "selected" => \A s \in Held(k) :
        ~Leased(s) /\ \A j \in Polls : pc[j] = "selected" /\ s \in Held(j) => j = k

GoodLeaseIsTheRows ==
    \A k \in Polls : pc[k] \notin {"idle", "selected"} => \A s \in Held(k) :
        s \in fresh[k] => grant[s] = k

FreshInv == Typed /\ SelectedUnleased /\ GoodLeaseIsTheRows

LEMMA HeldAreSagas == Typed => \A k \in Polls : Held(k) \subseteq Sagas
  BY DEF Typed, TypeOK, Held

LEMMA FreshSelect ==
    ASSUME FreshInv, NEW k \in Polls, SelectOrphans(k) PROVE FreshInv'
<1>1. Orphans \in SUBSET Sagas
  BY DEF FreshInv, Typed, TypeOK, Orphans
<1>2. PICK n \in 1..Cardinality(Sagas) : \E batch \in [1..n -> Sagas] :
          IsOldest(batch, Orphans) /\ queue' = [queue EXCEPT ![k] = batch]
  BY DEF SelectOrphans
<1>3. PICK batch \in [1..n -> Sagas] :
          IsOldest(batch, Orphans) /\ queue' = [queue EXCEPT ![k] = batch]
  BY <1>2
<1>4. \A i \in 1..Len(batch) : batch[i] \in Orphans
  BY <1>1, <1>3, BatchIsSequence
<1>5. Held(k)' \subseteq Orphans
  BY <1>3, <1>4 DEF FreshInv, Typed, TypeOK, Held
<1>6. /\ \A j \in Polls \ {k} : Held(j)' = Held(j) /\ pc'[j] = pc[j]
      /\ pc'[k] = "selected" /\ grant' = grant /\ fresh' = fresh
  BY <1>3 DEF FreshInv, Typed, TypeOK, Held, SelectOrphans, rows
<1>7. SelectedUnleased'
  BY <1>5, <1>6 DEF FreshInv, SelectedUnleased, Leased, Orphans, Locked
<1>8. GoodLeaseIsTheRows'
  BY <1>6 DEF FreshInv, GoodLeaseIsTheRows
<1>9. QED
  BY <1>7, <1>8, TypedSelect DEF FreshInv

LEMMA FreshCommit ==
    ASSUME FreshInv, NEW k \in Polls, CommitClaim(k) PROVE FreshInv'
<1>1. /\ \A j \in Polls : Held(j) \subseteq Sagas /\ Held(j)' = Held(j)
      /\ \A j \in Polls \ {k} : pc'[j] = pc[j] /\ fresh'[j] = fresh[j]
      /\ pc[k] = "selected" /\ pc'[k] = "next" /\ fresh'[k] = fresh[k] \cup Held(k)
      /\ \A s \in Held(k) : grant'[s] = k
      /\ \A s \in Sagas \ Held(k) : grant'[s] = grant[s]
      /\ grant \in [Sagas -> Polls \cup {NoPoll}]
  BY DEF FreshInv, Typed, TypeOK, Held, CommitClaim
<1>2. \A s \in Sagas \ Held(k) : Leased(s)' => Leased(s)
  BY <1>1 DEF Leased
<1>3. SelectedUnleased'
  <2> SUFFICES ASSUME NEW j \in Polls, pc'[j] = "selected", NEW s \in Held(j)
               PROVE  ~Leased(s)'
                      /\ \A i \in Polls : pc'[i] = "selected" /\ s \in Held(i) => i = j
    BY <1>1 DEF SelectedUnleased
  <2>1. j # k /\ pc[j] = "selected" /\ s \in Sagas
    BY <1>1
  <2>2. s \notin Held(k)
    BY <1>1, <2>1 DEF FreshInv, SelectedUnleased
  <2>3. QED
    BY <1>1, <1>2, <2>1, <2>2 DEF FreshInv, SelectedUnleased
<1>4. GoodLeaseIsTheRows'
  <2> SUFFICES ASSUME NEW j \in Polls, pc'[j] \notin {"idle", "selected"},
                      NEW s \in Held(j), s \in fresh'[j]
               PROVE  grant'[s] = j
    BY <1>1 DEF GoodLeaseIsTheRows
  <2>1. CASE j = k
    BY <1>1, <2>1
  <2>2. CASE j # k
    <3>1. s \in Sagas /\ s \in fresh[j] /\ grant[s] = j
      BY <1>1, <2>2 DEF FreshInv, GoodLeaseIsTheRows
    <3>2. Leased(s)
      BY <3>1, RecoveryAssumption DEF Leased
    <3>3. s \notin Held(k)
      BY <1>1, <3>2 DEF FreshInv, SelectedUnleased
    <3>4. QED
      BY <1>1, <3>1, <3>3
  <2>3. QED
    BY <2>1, <2>2
<1>5. QED
  BY <1>3, <1>4, TypedCommit DEF FreshInv

\* Steps that leave the lease columns alone and take no lease: a poll has at
\* most the sagas it had, and does not begin a claim.
LEMMA FreshQuiet ==
    ASSUME FreshInv, Typed', grant' = grant,
           \A j \in Polls : fresh'[j] \subseteq fresh[j],
           \A j \in Polls : pc'[j] # "idle" =>
               Held(j)' \subseteq Held(j) /\ (pc'[j] = "selected" <=> pc[j] = "selected")
                                          /\ pc[j] # "idle"
    PROVE  FreshInv'
<1>1. \A s \in Sagas : Leased(s)' => Leased(s)
  BY DEF FreshInv, Typed, TypeOK, Leased
<1>2. SelectedUnleased'
  BY <1>1, HeldAreSagas DEF FreshInv, SelectedUnleased
<1>3. GoodLeaseIsTheRows'
  BY DEF FreshInv, GoodLeaseIsTheRows
<1>4. QED
  BY <1>2, <1>3 DEF FreshInv

LEMMA FreshNext ==
    ASSUME FreshInv, NEW k \in Polls, NextSaga(k), Typed' PROVE FreshInv'
<1>1. \A j \in Polls : Held(j)' \subseteq Held(j)
  <2>1. CASE queue' = queue
    BY <2>1 DEF Held
  <2>2. CASE queue[k] # <<>> /\ queue' = [queue EXCEPT ![k] = Tail(@)]
    BY <2>2, HeldTail DEF FreshInv
  <2>3. QED
    BY <2>1, <2>2 DEF NextSaga
<1>2. /\ grant' = grant /\ fresh' = fresh /\ pc[k] = "next" /\ pc'[k] \in {"idle", "next", "resume"}
      /\ \A j \in Polls \ {k} : pc'[j] = pc[j]
  BY DEF FreshInv, Typed, TypeOK, NextSaga, rows
<1>3. QED
  BY <1>1, <1>2, FreshQuiet

LEMMA FreshRelease ==
    ASSUME OnePollPerWorker, FreshInv, NEW k \in Polls, Release(k) PROVE FreshInv'
<1> DEFINE s == Head(queue[k])
<1>1. queue[k] # <<>> /\ queue' = [queue EXCEPT ![k] = Tail(@)] /\ pc[k] = "releasing"
  BY DEF FreshInv, Typed, QueueOK, Release
<1>2. /\ Held(k)' = Held(k) \ {s} /\ s \in Sagas
      /\ \A j \in Polls \ {k} : Held(j)' = Held(j)
  BY <1>1, HeldTail, HeldAreSagas DEF FreshInv
<1>3. /\ \A t \in Sagas \ {s} : grant'[t] = grant[t]
      /\ grant[s] \in Polls \cup {NoPoll}
      /\ grant'[s] = IF grant[s] = k THEN NoPoll ELSE grant[s]
      /\ \A j \in Polls : fresh'[j] \subseteq fresh[j]
      /\ pc'[k] = "next" /\ \A j \in Polls \ {k} : pc'[j] = pc[j]
  BY <1>2, RecoveryAssumption DEF FreshInv, Typed, TypeOK, Release, OnePollPerWorker
<1>4. \A t \in Sagas : Leased(t)' => Leased(t)
  BY <1>3 DEF FreshInv, Typed, TypeOK, Leased
<1>5. SelectedUnleased'
  BY <1>2, <1>3, <1>4, HeldAreSagas DEF FreshInv, SelectedUnleased
<1>6. GoodLeaseIsTheRows'
  <2> SUFFICES ASSUME NEW j \in Polls, pc'[j] \notin {"idle", "selected"},
                      NEW t \in Held(j)', t \in fresh'[j]
               PROVE  grant'[t] = j
    BY DEF GoodLeaseIsTheRows
  <2>1. t \in Held(j) /\ t \in fresh[j] /\ pc[j] \notin {"idle", "selected"}
    BY <1>1, <1>2, <1>3
  <2>2. grant[t] = j /\ t \in Sagas
    BY <2>1, HeldAreSagas DEF FreshInv, GoodLeaseIsTheRows
  <2>3. CASE t = s
    BY <1>2, <1>3, <2>2, <2>3
  <2>4. CASE t # s
    BY <1>3, <2>2, <2>4
  <2>5. QED
    BY <2>3, <2>4
<1>7. QED
  BY <1>5, <1>6, TypedRelease DEF FreshInv

LEMMA FreshStep == ASSUME OnePollPerWorker PROVE FreshInv /\ [Next]_vars => FreshInv'
<1> SUFFICES ASSUME FreshInv, [Next]_vars PROVE FreshInv'
  OBVIOUS
<1>1. Typed'
  BY TypedStep DEF FreshInv
<1>2. CASE UNCHANGED vars
  <2>1. \A j \in Polls : Held(j)' = Held(j)
    BY <1>2 DEF vars, Held
  <2>2. QED
    BY <1>1, <1>2, <2>1 DEF FreshInv, SelectedUnleased, GoodLeaseIsTheRows, Leased, vars, rows
<1>3. ASSUME NEW k \in Polls, NEW site \in AtWork, NEW opens \in BOOLEAN,
             NEW after \in RunSites \cup {"releasing"}, WriteStatus(k, site, opens, after)
      PROVE  FreshInv'
  <2>1. /\ grant' = grant /\ fresh' = fresh /\ \A j \in Polls : Held(j)' = Held(j)
        /\ pc[k] = site /\ pc'[k] = after /\ \A j \in Polls \ {k} : pc'[j] = pc[j]
    BY <1>3 DEF FreshInv, Typed, TypeOK, Held, WriteStatus
  <2>2. QED
    BY <1>1, <2>1, FreshQuiet
<1>4. ASSUME NEW k \in Polls, SetRunning(k) \/ SetFailed(k) \/ SetCompensating(k)
                                   \/ SetTerminal(k)
      PROVE  FreshInv'
  BY <1>3, <1>4 DEF SetRunning, SetFailed, SetCompensating, SetTerminal
<1>5. ASSUME NEW k \in Polls, Abandon(k) PROVE FreshInv'
  <2>1. /\ grant' = grant /\ fresh' = fresh /\ pc'[k] = "idle"
        /\ \A j \in Polls \ {k} : pc'[j] = pc[j] /\ Held(j)' = Held(j)
    BY <1>5 DEF FreshInv, Typed, TypeOK, Held, Abandon, rows
  <2>2. QED
    BY <1>1, <2>1, FreshQuiet
<1>6. ASSUME NEW k \in Polls, ResumeFails(k) PROVE FreshInv'
  <2>1. /\ grant' = grant /\ fresh' = fresh /\ \A j \in Polls : Held(j)' = Held(j)
        /\ pc[k] \in AtWork /\ pc'[k] = "releasing"
        /\ \A j \in Polls \ {k} : pc'[j] = pc[j]
    BY <1>6 DEF FreshInv, Typed, TypeOK, Held, ResumeFails, rows
  <2>2. QED
    BY <1>1, <2>1, FreshQuiet
<1>7. ASSUME NEW w, Crash(w) PROVE FreshInv'
  <2>1. /\ grant' = grant /\ fresh' = fresh
        /\ \A j \in Polls : pc'[j] = "idle" \/ (pc'[j] = pc[j] /\ Held(j)' = Held(j))
    BY <1>7 DEF Crash, Held, rows
  <2>2. QED
    BY <1>1, <2>1, FreshQuiet
<1>8. ASSUME NEW k \in Polls, NEW s \in Sagas, Expire(k, s) PROVE FreshInv'
  <2>1. /\ grant' = grant /\ pc' = pc /\ \A j \in Polls : fresh'[j] \subseteq fresh[j]
        /\ \A j \in Polls : Held(j)' = Held(j)
    BY <1>8 DEF FreshInv, Typed, TypeOK, Held, Expire, rows
  <2>2. QED
    BY <1>1, <2>1, FreshQuiet
<1>9. QED
  BY <1>1, <1>2, <1>4, <1>5, <1>6, <1>7, <1>8, FreshSelect, FreshCommit, FreshNext,
     FreshRelease DEF Next, Poll, ClaimRejects, ReleaseRejects

\* One poll per worker is enough for leases of any length to exclude each
\* other while they last.
THEOREM GoodLeasesExclude == ASSUME OnePollPerWorker PROVE Spec => []FreshLeaseExcludes
<1>1. Init => FreshInv
  <2>1. Init => SelectedUnleased /\ GoodLeaseIsTheRows
    BY DEF Init, SelectedUnleased, GoodLeaseIsTheRows
  <2>2. QED
    BY <2>1, InitTyped DEF FreshInv
<1>2. FreshInv => FreshLeaseExcludes
  <2> SUFFICES ASSUME FreshInv, NEW j \in Polls, NEW k \in Polls,
                      NEW s \in Held(j) \cap Held(k),
                      pc[j] # "selected", s \in fresh[j], pc[k] # "selected", s \in fresh[k]
               PROVE  j = k
    BY DEF FreshLeaseExcludes
  <2>1. pc[j] # "idle" /\ pc[k] # "idle"
    BY DEF FreshInv, Typed, QueueOK, Held
  <2>2. QED
    BY <2>1 DEF FreshInv, GoodLeaseIsTheRows
<1>3. QED
  BY <1>1, <1>2, FreshStep, PTL DEF Spec
=============================================================================
