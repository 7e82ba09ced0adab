---------------------------- MODULE OutboxRelay ----------------------------
(***************************************************************************)
(* OutboxRelay.relayOnce between the table saga_outbox and a Kafka topic.  *)
(*                                                                         *)
(* A poll is one call of relayOnce; start() calls it at an interval and    *)
(* never waits for the previous call, and several services may relay, so   *)
(* polls overlap.  The events are numbered in the order of created_at.     *)
(***************************************************************************)
EXTENDS Naturals, Sequences, FiniteSets

CONSTANTS
    E,              \* number of events
    SagaOf,         \* event -> the saga it is about
    Polls,          \* the calls of relayOnce that may run at the same time
    Batch,          \* batchSize
    Refused,        \* the events that the broker refuses every time
    MaxFails,       \* bounds on what the environment does
    MaxCrashes

Events == 1..E

ASSUME RelayAssumption ==
    /\ E \in Nat
    /\ IsFiniteSet(Polls)
    /\ Batch \in Nat \ {0}
    /\ Refused \subseteq Events
    /\ {MaxFails, MaxCrashes} \subseteq Nat

VARIABLES
    written,        \* the events whose row is committed
    marked,         \* the rows with published_at
    topic,          \* what Kafka has, in its order
    pc,
    queue,          \* poll -> pending, what is left of it
    fails, crashes

vars == <<written, marked, topic, pc, queue, fails, crashes>>

Init ==
    /\ written = {}
    /\ marked = {}
    /\ topic = <<>>
    /\ pc = [k \in Polls |-> "idle"]
    /\ queue = [k \in Polls |-> <<>>]
    /\ fails = 0
    /\ crashes = 0

Goto(k, site) == pc' = [pc EXCEPT ![k] = site]

-----------------------------------------------------------------------------
\* execute awaits appendOutboxEvent, so the rows of one saga are committed in
\* the order of created_at; those of different sagas need not be.
AppendOutboxEvent(e) ==
    /\ e \notin written
    /\ \A d \in 1..(e - 1) : SagaOf[d] = SagaOf[e] => d \in written
    /\ written' = written \cup {e}
    /\ UNCHANGED <<marked, topic, pc, queue, fails, crashes>>

\* Wrong on purpose: published rows are read again.
PendingAll == written

Pending == written \ marked

Limit(set) == IF Cardinality(set) < Batch THEN Cardinality(set) ELSE Batch

\* Wrong on purpose: the newest rows first.
IsNewest(batch, set) ==
    /\ Len(batch) = Limit(set)
    /\ \A i \in 1..Len(batch) :
          /\ batch[i] \in set
          /\ \A h \in 1..(i - 1) : batch[h] # batch[i]
          /\ \A e \in set : e > batch[i] => \E h \in 1..(i - 1) : batch[h] = e

\* ORDER BY created_at LIMIT Batch.
IsOldest(batch, set) ==
    /\ Len(batch) = Limit(set)
    /\ \A i \in 1..Len(batch) :
          /\ batch[i] \in set
          /\ \A h \in 1..(i - 1) : batch[h] # batch[i]
          /\ \A e \in set : e < batch[i] => \E h \in 1..(i - 1) : batch[h] = e

GetPending(k) ==
    /\ pc[k] = "idle"
    /\ Pending # {}
    /\ \E n \in 1..E : \E batch \in [1..n -> Events] :
           /\ IsOldest(batch, Pending)
           /\ queue' = [queue EXCEPT ![k] = batch]
    /\ Goto(k, "publish")
    /\ UNCHANGED <<written, marked, topic, fails, crashes>>

Publish(k) ==
    /\ pc[k] = "publish"
    /\ Head(queue[k]) \notin Refused
    /\ topic' = Append(topic, Head(queue[k]))
    /\ Goto(k, "mark")
    /\ UNCHANGED <<written, marked, queue, fails, crashes>>

\* A row that is marked already is marked again.
MarkPublished(k) ==
    /\ pc[k] = "mark"
    /\ marked' = marked \cup {Head(queue[k])}
    /\ queue' = [queue EXCEPT ![k] = Tail(@)]
    /\ Goto(k, IF Len(queue[k]) = 1 THEN "idle" ELSE "publish")
    /\ UNCHANGED <<written, topic, fails, crashes>>

\* relayOnce throws: the rest of the batch is left to a later poll.
Abandon(k) ==
    /\ fails < MaxFails
    /\ fails' = fails + 1
    /\ Goto(k, "idle")
    /\ queue' = [queue EXCEPT ![k] = <<>>]

\* Wrong on purpose: the error is swallowed, and the row is marked.
PublishRejectsUnseen(k) ==
    /\ pc[k] = "publish"
    /\ fails < MaxFails
    /\ fails' = fails + 1
    /\ Goto(k, "mark")
    /\ UNCHANGED <<written, marked, topic, queue, crashes>>

\* The send fails, or only its acknowledgement is lost.
PublishRejects(k) ==
    /\ pc[k] = "publish"
    /\ Head(queue[k]) \notin Refused
    /\ \/ UNCHANGED topic
       \/ topic' = Append(topic, Head(queue[k]))
    /\ Abandon(k)
    /\ UNCHANGED <<written, marked, crashes>>

\* An event that is too large, say: no later poll has more luck with it.
PublishRefused(k) ==
    /\ pc[k] = "publish"
    /\ Head(queue[k]) \in Refused
    /\ Goto(k, "idle")
    /\ queue' = [queue EXCEPT ![k] = <<>>]
    /\ UNCHANGED <<written, marked, topic, fails, crashes>>

MarkRejects(k) ==
    /\ pc[k] = "mark"
    /\ Abandon(k)
    /\ UNCHANGED <<written, marked, topic, crashes>>

\* The relay's process dies and another takes its place.
Crash(k) ==
    /\ pc[k] # "idle"
    /\ crashes < MaxCrashes
    /\ crashes' = crashes + 1
    /\ Goto(k, "idle")
    /\ queue' = [queue EXCEPT ![k] = <<>>]
    /\ UNCHANGED <<written, marked, topic, fails>>

RelayOnce(k) ==
    \/ GetPending(k) \/ Publish(k) \/ MarkPublished(k)
    \/ PublishRejects(k) \/ PublishRefused(k) \/ MarkRejects(k)

Next ==
    \/ \E e \in Events : AppendOutboxEvent(e)
    \/ \E k \in Polls : RelayOnce(k) \/ Crash(k)

Spec == Init /\ [][Next]_vars

\* The timer keeps firing, and awaits settle.
FairSpec == Spec /\ \A k \in Polls : WF_vars(RelayOnce(k))

-----------------------------------------------------------------------------
(* Correctness. *)

\* Every variable has the values the code and the schema allow; a poll that
\* is not idle has an event in hand, and never more than batchSize.
TypeOK ==
    /\ marked \subseteq written /\ written \subseteq Events
    /\ topic \in Seq(Events)
    /\ pc \in [Polls -> {"idle", "publish", "mark"}]
    /\ queue \in [Polls -> Seq(Events)]
    /\ {fails, crashes} \subseteq Nat
    /\ \A k \in Polls :
          /\ Len(queue[k]) <= Batch
          /\ pc[k] = "idle" <=> queue[k] = <<>>

Index == 1..Len(topic)
Delivered(e) == \E n \in Index : topic[n] = e

\* At least once: a row that will not be read again was delivered.
MarkedIsDelivered == \A e \in marked : Delivered(e)

\* Before an event reaches the topic for the first time, every earlier event
\* of its saga has reached it, although polls overlap, fail half way and
\* redeliver.
FirstDeliveriesInOrder ==
    \A n \in Index : \A d \in 1..(topic[n] - 1) :
        SagaOf[d] = SagaOf[topic[n]] => \E m \in 1..(n - 1) : topic[m] = d

\* Every copy of an event after the first is due to a poll that overlapped, a
\* failure or a crash: each of them costs one copy at most.
CopiesAreBounded ==
    \A e \in Events :
        Cardinality({n \in Index : topic[n] = e}) <= Cardinality(Polls) + fails + crashes

\* What is written to the outbox is published and leaves the queue, unless an
\* event before it is refused for ever: each poll starts with the oldest row, so
\* such an event holds up those behind it, and none in front of it.
EveryEventPublished ==
    \A e \in Events : 1..e \cap Refused = {} =>
        (e \in written ~> e \in marked /\ Delivered(e))
=============================================================================
