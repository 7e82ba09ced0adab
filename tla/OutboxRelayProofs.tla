------------------------- MODULE OutboxRelayProofs -------------------------
(***************************************************************************)
(* Theorems about OutboxRelay, for any number of events, sagas, polls,     *)
(* failures and crashes and every batch size.                              *)
(***************************************************************************)
EXTENDS OutboxRelay, FiniteSetTheorems, TLAPS

\* Every event in hand was written; an event waits behind the earlier events
\* of its saga that are not delivered yet, and is marked after its delivery.
InHandWritten == \A k \in Polls : \A i \in 1..Len(queue[k]) : queue[k][i] \in written

WrittenInOrder ==
    \A e \in written : \A d \in 1..(e - 1) : SagaOf[d] = SagaOf[e] => d \in written

QueueInOrder ==
    \A k \in Polls : \A i \in 1..Len(queue[k]) : \A d \in 1..(queue[k][i] - 1) :
        SagaOf[d] = SagaOf[queue[k][i]] =>
            Delivered(d) \/ \E h \in 1..(i - 1) : queue[k][h] = d

MarkingDelivered == \A k \in Polls : pc[k] = "mark" => Delivered(Head(queue[k]))

RelayInv ==
    /\ TypeOK
    /\ InHandWritten
    /\ WrittenInOrder
    /\ QueueInOrder
    /\ MarkingDelivered
    /\ MarkedIsDelivered
    /\ FirstDeliveriesInOrder

-----------------------------------------------------------------------------
\* A batch is a sequence of events no longer than batchSize.
LEMMA BatchIsSequence ==
    ASSUME NEW set \in SUBSET Events, NEW n \in 1..E, NEW batch \in [1..n -> Events],
           IsOldest(batch, set)
    PROVE  /\ batch \in Seq(Events)
           /\ Len(batch) = n
           /\ n <= Batch
           /\ batch # <<>>
           /\ \A i \in 1..n : batch[i] \in set
<1>1. Cardinality(set) \in Nat
  <2>1. 1 \in Int /\ E \in Int
    BY RelayAssumption
  <2>2. IsFiniteSet(Events)
    BY <2>1, FS_Interval DEF Events
  <2>3. QED
    BY <2>2, FS_CardinalityType, FS_Subset
<1>2. n \in Nat /\ n >= 1
  BY RelayAssumption
<1>3. batch \in Seq(Events) /\ Len(batch) = n
  BY <1>2
<1>4. n <= Batch
  BY <1>1, <1>3, RelayAssumption DEF IsOldest, Limit
<1>5. QED
  BY <1>2, <1>3, <1>4 DEF IsOldest

\* What is left of a batch after its first event.
LEMMA TailOfBatch ==
    ASSUME NEW q \in Seq(Events), q # <<>>
    PROVE  /\ Tail(q) \in Seq(Events)
           /\ Len(Tail(q)) = Len(q) - 1
           /\ Len(q) \in Nat \ {0}
           /\ Head(q) = q[1] /\ Head(q) \in Events
           /\ \A i \in 1..Len(Tail(q)) : i + 1 \in 1..Len(q) /\ Tail(q)[i] = q[i + 1]
           /\ Tail(q) = <<>> <=> Len(q) = 1
<1>1. Len(q) \in Nat /\ Len(q) >= 1
  OBVIOUS
<1>2. Tail(q) \in Seq(Events) /\ Len(Tail(q)) = Len(q) - 1
  BY <1>1
<1>3. \A r \in Seq(Events) : r = <<>> <=> Len(r) = 0
  OBVIOUS
<1>4. Tail(q) = <<>> <=> Len(q) = 1
  <2>1. Tail(q) = <<>> <=> Len(Tail(q)) = 0
    BY <1>2, <1>3
  <2>2. Len(Tail(q)) = 0 <=> Len(q) = 1
    BY <1>1, <1>2
  <2>3. QED
    BY <2>1, <2>2
<1>5. /\ Len(q) \in Nat \ {0} /\ Head(q) = q[1] /\ Head(q) \in Events
      /\ \A i \in 1..Len(Tail(q)) : i + 1 \in 1..Len(q) /\ Tail(q)[i] = q[i + 1]
  BY <1>1, <1>2
<1>6. QED
  BY <1>2, <1>4, <1>5

\* One more event in the topic: it keeps what it had, in its place.
LEMMA TopicGrows ==
    ASSUME topic \in Seq(Events), NEW e \in Events, topic' = Append(topic, e)
    PROVE  /\ topic' \in Seq(Events)
           /\ Len(topic) \in Nat
           /\ Len(topic') = Len(topic) + 1
           /\ \A n \in 1..Len(topic) : topic'[n] = topic[n]
           /\ topic'[Len(topic) + 1] = e
           /\ \A d : Delivered(d) => Delivered(d)'
           /\ Delivered(e)'
<1>1. /\ topic' \in Seq(Events) /\ Len(topic) \in Nat /\ Len(topic') = Len(topic) + 1
      /\ \A n \in 1..Len(topic) : topic'[n] = topic[n]
      /\ topic'[Len(topic) + 1] = e
  OBVIOUS
<1>2. ASSUME NEW d, NEW n \in 1..Len(topic), topic[n] = d
      PROVE  n \in 1..Len(topic') /\ topic'[n] = d
  BY <1>1, <1>2
<1>3. \A d : Delivered(d) => Delivered(d)'
  BY <1>2 DEF Delivered, Index
<1>4. Len(topic) + 1 \in 1..Len(topic')
  BY <1>1
<1>5. Delivered(e)'
  BY <1>1, <1>4 DEF Delivered, Index
<1>6. QED
  BY <1>1, <1>3, <1>5

-----------------------------------------------------------------------------
(* The invariant, action by action. *)

\* A poll that drops its whole batch.
LEMMA RelayDrop ==
    ASSUME RelayInv, NEW k \in Polls, Goto(k, "idle"),
           queue' = [queue EXCEPT ![k] = <<>>],
           UNCHANGED <<written, marked>>,
           TypeOK => topic' \in Seq(Events),
           \A d \in Events : Delivered(d) => Delivered(d)',
           FirstDeliveriesInOrder',
           {fails', crashes'} \subseteq Nat
    PROVE  RelayInv'
<1>1. /\ pc'[k] = "idle" /\ queue'[k] = <<>>
      /\ \A j \in Polls \ {k} : pc'[j] = pc[j] /\ queue'[j] = queue[j]
  BY DEF RelayInv, TypeOK, Goto
<1>2. TypeOK'
  BY <1>1, RelayAssumption DEF RelayInv, TypeOK, Goto
<1>3. InHandWritten' /\ WrittenInOrder'
  BY <1>1 DEF RelayInv, InHandWritten, WrittenInOrder
<1>4. QueueInOrder'
  <2> SUFFICES ASSUME NEW j \in Polls, NEW i \in 1..Len(queue'[j]),
                      NEW d \in 1..(queue'[j][i] - 1), SagaOf[d] = SagaOf[queue'[j][i]]
               PROVE  Delivered(d)' \/ \E h \in 1..(i - 1) : queue'[j][h] = d
    BY DEF QueueInOrder
  <2>1. j # k /\ queue'[j] = queue[j]
    BY <1>1
  <2>2. Delivered(d) \/ \E h \in 1..(i - 1) : queue[j][h] = d
    BY <2>1 DEF RelayInv, QueueInOrder
  <2>3. d \in Events
    BY <2>1, RelayAssumption DEF RelayInv, TypeOK, Events
  <2>4. QED
    BY <2>1, <2>2, <2>3
<1>5. MarkingDelivered'
  <2> SUFFICES ASSUME NEW j \in Polls, pc'[j] = "mark" PROVE Delivered(Head(queue[j]))'
    BY DEF MarkingDelivered
  <2>1. j # k /\ pc[j] = "mark" /\ queue'[j] = queue[j]
    BY <1>1
  <2>2. Head(queue[j]) \in Events /\ Delivered(Head(queue[j]))
    BY <2>1, TailOfBatch DEF RelayInv, TypeOK, MarkingDelivered
  <2>3. QED
    BY <2>1, <2>2
<1>6. MarkedIsDelivered'
  BY DEF RelayInv, TypeOK, MarkedIsDelivered
<1>7. QED
  BY <1>2, <1>3, <1>4, <1>5, <1>6 DEF RelayInv

LEMMA RelayAppend ==
    ASSUME RelayInv, NEW e \in Events, AppendOutboxEvent(e) PROVE RelayInv'
<1>1. TypeOK'
  BY DEF RelayInv, TypeOK, AppendOutboxEvent
<1>2. InHandWritten' /\ WrittenInOrder'
  BY DEF RelayInv, InHandWritten, WrittenInOrder, AppendOutboxEvent
<1>3. QueueInOrder' /\ MarkingDelivered' /\ MarkedIsDelivered' /\ FirstDeliveriesInOrder'
  BY DEF RelayInv, QueueInOrder, MarkingDelivered, MarkedIsDelivered,
         FirstDeliveriesInOrder, Delivered, Index, AppendOutboxEvent
<1>4. QED
  BY <1>1, <1>2, <1>3 DEF RelayInv

\* The rows of a batch: an earlier event of the same saga is marked, hence
\* delivered, or stands before it in the batch.
LEMMA RelayGetPending ==
    ASSUME RelayInv, NEW k \in Polls, GetPending(k) PROVE RelayInv'
<1>1. Pending \in SUBSET Events /\ Pending \subseteq written
  BY DEF RelayInv, TypeOK, Pending
<1>2. PICK n \in 1..E : \E batch \in [1..n -> Events] :
          IsOldest(batch, Pending) /\ queue' = [queue EXCEPT ![k] = batch]
  BY DEF GetPending
<1>3. PICK batch \in [1..n -> Events] :
          IsOldest(batch, Pending) /\ queue' = [queue EXCEPT ![k] = batch]
  BY <1>2
<1>4. /\ batch \in Seq(Events) /\ Len(batch) = n /\ Len(batch) <= Batch /\ batch # <<>>
      /\ \A i \in 1..n : batch[i] \in Pending
  BY <1>1, <1>3, BatchIsSequence
<1>5. /\ pc[k] = "idle" /\ pc'[k] = "publish" /\ queue'[k] = batch
      /\ \A j \in Polls \ {k} : pc'[j] = pc[j] /\ queue'[j] = queue[j]
      /\ UNCHANGED <<written, marked, topic, fails, crashes>>
  BY <1>3 DEF RelayInv, TypeOK, GetPending, Goto
<1>6. TypeOK'
  BY <1>3, <1>4, <1>5 DEF RelayInv, TypeOK, GetPending, Goto
<1>7. \A d : Delivered(d)' <=> Delivered(d)
  BY <1>5 DEF Delivered, Index
<1>8. InHandWritten' /\ WrittenInOrder'
  BY <1>1, <1>4, <1>5 DEF RelayInv, InHandWritten, WrittenInOrder
<1>9. QueueInOrder'
  <2> SUFFICES ASSUME NEW j \in Polls, NEW i \in 1..Len(queue'[j]),
                      NEW d \in 1..(queue'[j][i] - 1), SagaOf[d] = SagaOf[queue'[j][i]]
               PROVE  Delivered(d)' \/ \E h \in 1..(i - 1) : queue'[j][h] = d
    BY DEF QueueInOrder
  <2>1. CASE j # k
    BY <1>5, <1>7, <2>1 DEF RelayInv, QueueInOrder
  <2>2. CASE j = k
    <3>1. i \in 1..n /\ batch[i] \in Pending /\ queue'[j] = batch /\ batch[i] \in Nat
      BY <1>4, <1>5, <2>2 DEF Events
    <3>2. d \in written /\ d < batch[i]
      BY <1>1, <3>1 DEF RelayInv, WrittenInOrder
    <3>3. CASE d \in marked
      BY <1>7, <3>3 DEF RelayInv, MarkedIsDelivered
    <3>4. CASE d \notin marked
      <4>1. d \in Pending
        BY <3>2, <3>4 DEF Pending
      <4>2. \E h \in 1..(i - 1) : batch[h] = d
        BY <1>3, <1>4, <3>1, <3>2, <4>1 DEF IsOldest
      <4>3. QED
        BY <3>1, <4>2
    <3>5. QED
      BY <3>3, <3>4
  <2>3. QED
    BY <2>1, <2>2
<1>10. MarkingDelivered'
  BY <1>5, <1>7 DEF RelayInv, MarkingDelivered
<1>11. MarkedIsDelivered' /\ FirstDeliveriesInOrder'
  BY <1>5, <1>7 DEF RelayInv, MarkedIsDelivered, FirstDeliveriesInOrder, Index
<1>12. QED
  BY <1>6, <1>8, <1>9, <1>10, <1>11 DEF RelayInv

\* The first event in hand has every earlier event of its saga before it in
\* the topic.
LEMMA DeliveryInOrder ==
    ASSUME RelayInv, NEW k \in Polls, pc[k] = "publish",
           topic' = Append(topic, Head(queue[k]))
    PROVE  /\ topic' \in Seq(Events)
           /\ \A d : Delivered(d) => Delivered(d)'
           /\ \A e \in Events : e = Head(queue[k]) => Delivered(e)'
           /\ FirstDeliveriesInOrder'
<1>1. queue[k] \in Seq(Events) /\ queue[k] # <<>> /\ topic \in Seq(Events)
  BY DEF RelayInv, TypeOK
<1>e. PICK e \in Events : e = Head(queue[k])
  BY <1>1, TailOfBatch
<1>2. e \in Events /\ e = queue[k][1] /\ 1 \in 1..Len(queue[k]) /\ topic' = Append(topic, e)
  BY <1>1, <1>e, TailOfBatch
<1>3. /\ topic' \in Seq(Events) /\ Len(topic) \in Nat /\ Len(topic') = Len(topic) + 1
      /\ \A n \in 1..Len(topic) : topic'[n] = topic[n]
      /\ topic'[Len(topic) + 1] = e
      /\ \A d : Delivered(d) => Delivered(d)'
      /\ Delivered(e)'
  BY <1>1, <1>2, TopicGrows
<1>4. \A d \in 1..(e - 1) : SagaOf[d] = SagaOf[e] => Delivered(d)
  BY <1>2 DEF RelayInv, QueueInOrder
<1>5. FirstDeliveriesInOrder'
  <2> SUFFICES ASSUME NEW n \in 1..Len(topic'), NEW d \in 1..(topic'[n] - 1),
                      SagaOf[d] = SagaOf[topic'[n]]
               PROVE  \E m \in 1..(n - 1) : topic'[m] = d
    BY DEF FirstDeliveriesInOrder, Index
  <2>1. CASE n \in 1..Len(topic)
    <3>1. \E m \in 1..(n - 1) : topic[m] = d
      BY <1>3, <2>1 DEF RelayInv, FirstDeliveriesInOrder, Index
    <3>2. \A m \in 1..(n - 1) : m \in 1..Len(topic)
      BY <1>3, <2>1
    <3>3. QED
      BY <1>3, <3>1, <3>2
  <2>2. CASE n = Len(topic) + 1
    BY <1>3, <1>4, <2>2 DEF Delivered, Index
  <2>3. QED
    BY <1>3, <2>1, <2>2
<1>6. QED
  BY <1>3, <1>5, <1>e

LEMMA RelayPublish ==
    ASSUME RelayInv, NEW k \in Polls, Publish(k) PROVE RelayInv'
<1>1. /\ topic' \in Seq(Events)
      /\ \A d : Delivered(d) => Delivered(d)'
      /\ \A e \in Events : e = Head(queue[k]) => Delivered(e)'
      /\ FirstDeliveriesInOrder'
  BY DeliveryInOrder DEF Publish
<1>2. /\ pc[k] = "publish" /\ pc'[k] = "mark"
      /\ \A j \in Polls \ {k} : pc'[j] = pc[j]
      /\ UNCHANGED <<written, marked, queue, fails, crashes>>
  BY DEF RelayInv, TypeOK, Publish, Goto
<1>3. TypeOK'
  BY <1>1, <1>2 DEF RelayInv, TypeOK, Publish, Goto
<1>4. InHandWritten' /\ WrittenInOrder' /\ QueueInOrder'
  BY <1>1, <1>2 DEF RelayInv, InHandWritten, WrittenInOrder, QueueInOrder
<1>5. MarkingDelivered'
  <2>1. PICK e \in Events : e = Head(queue[k])
    BY <1>2, TailOfBatch DEF RelayInv, TypeOK
  <2>2. Delivered(e)' /\ Head(queue'[k]) = e
    BY <1>1, <1>2, <2>1
  <2>3. QED
    BY <1>1, <1>2, <2>2 DEF RelayInv, MarkingDelivered
<1>6. MarkedIsDelivered'
  BY <1>1, <1>2 DEF RelayInv, MarkedIsDelivered
<1>7. QED
  BY <1>1, <1>3, <1>4, <1>5, <1>6 DEF RelayInv

LEMMA RelayMark ==
    ASSUME RelayInv, NEW k \in Polls, MarkPublished(k) PROVE RelayInv'
<1> DEFINE q == queue[k]
<1>1. q \in Seq(Events) /\ q # <<>> /\ Len(q) <= Batch /\ pc[k] = "mark"
  BY DEF RelayInv, TypeOK, MarkPublished
<1>2. /\ Tail(q) \in Seq(Events)
      /\ Len(Tail(q)) = Len(q) - 1
      /\ Len(q) \in Nat \ {0}
      /\ Head(q) = q[1] /\ Head(q) \in Events
      /\ \A i \in 1..Len(Tail(q)) : i + 1 \in 1..Len(q) /\ Tail(q)[i] = q[i + 1]
      /\ Tail(q) = <<>> <=> Len(q) = 1
  BY <1>1, TailOfBatch
<1>3. /\ pc'[k] = (IF Len(q) = 1 THEN "idle" ELSE "publish") /\ queue'[k] = Tail(q)
      /\ \A j \in Polls \ {k} : pc'[j] = pc[j] /\ queue'[j] = queue[j]
      /\ marked' = marked \cup {Head(q)}
      /\ UNCHANGED <<written, topic, fails, crashes>>
  BY DEF RelayInv, TypeOK, MarkPublished, Goto
<1>4. Head(q) \in written /\ Delivered(Head(q))
  BY <1>1, <1>2 DEF RelayInv, InHandWritten, MarkingDelivered
<1>5. \A d : Delivered(d)' <=> Delivered(d)
  BY <1>3 DEF Delivered, Index
<1>6. TypeOK'
  <2>1. queue' \in [Polls -> Seq(Events)] /\ pc' \in [Polls -> {"idle", "publish", "mark"}]
    BY <1>2 DEF RelayInv, TypeOK, MarkPublished, Goto
  <2>2. \A j \in Polls : Len(queue'[j]) <= Batch /\ (pc'[j] = "idle" <=> queue'[j] = <<>>)
    <3> SUFFICES ASSUME NEW j \in Polls
                 PROVE  Len(queue'[j]) <= Batch /\ (pc'[j] = "idle" <=> queue'[j] = <<>>)
      OBVIOUS
    <3>1. CASE j # k
      BY <1>3, <3>1 DEF RelayInv, TypeOK
    <3>2. CASE j = k
      <4>1. queue'[j] = Tail(q) /\ pc'[j] = (IF Len(q) = 1 THEN "idle" ELSE "publish")
        BY <1>3, <3>2
      <4>2. Len(Tail(q)) <= Batch
        BY <1>1, <1>2, RelayAssumption
      <4>3. QED
        BY <1>2, <4>1, <4>2
    <3>3. QED
      BY <3>1, <3>2
  <2>3. QED
    BY <1>3, <1>4, <2>1, <2>2 DEF RelayInv, TypeOK
<1>7. InHandWritten' /\ WrittenInOrder'
  <2>1. \A j \in Polls \ {k} : \A i \in 1..Len(queue'[j]) : queue'[j][i] \in written
    BY <1>3 DEF RelayInv, InHandWritten
  <2>2. \A i \in 1..Len(queue'[k]) : queue'[k][i] \in written
    BY <1>2, <1>3 DEF RelayInv, InHandWritten
  <2>3. InHandWritten'
    BY <1>3, <2>1, <2>2 DEF InHandWritten
  <2>4. QED
    BY <1>3, <2>3 DEF RelayInv, WrittenInOrder
<1>8. QueueInOrder'
  <2> SUFFICES ASSUME NEW j \in Polls, NEW i \in 1..Len(queue'[j]),
                      NEW d \in 1..(queue'[j][i] - 1), SagaOf[d] = SagaOf[queue'[j][i]]
               PROVE  Delivered(d) \/ \E h \in 1..(i - 1) : queue'[j][h] = d
    BY <1>5 DEF QueueInOrder
  <2>1. CASE j # k
    BY <1>3, <2>1 DEF RelayInv, QueueInOrder
  <2>2. CASE j = k
    <3>1. i \in 1..Len(Tail(q)) /\ i + 1 \in 1..Len(q) /\ queue'[j][i] = q[i + 1]
      BY <1>2, <1>3, <2>2
    <3>2. Delivered(d) \/ \E h \in 1..i : q[h] = d
      BY <3>1 DEF RelayInv, QueueInOrder
    <3>3. ASSUME NEW h \in 1..i, q[h] = d
          PROVE  Delivered(d) \/ \E g \in 1..(i - 1) : queue'[j][g] = d
      <4>1. CASE h = 1
        BY <1>2, <1>4, <3>3, <4>1
      <4>2. CASE h # 1
        <5>1. h - 1 \in 1..(i - 1) /\ h - 1 \in 1..Len(Tail(q)) /\ (h - 1) + 1 = h
          BY <1>2, <3>1, <4>2
        <5>2. Tail(q)[h - 1] = d
          BY <1>2, <3>3, <5>1
        <5>3. QED
          BY <1>3, <2>2, <5>1, <5>2
      <4>3. QED
        BY <4>1, <4>2
    <3>4. QED
      BY <3>2, <3>3
  <2>3. QED
    BY <2>1, <2>2
<1>9. MarkingDelivered'
  BY <1>3, <1>5 DEF RelayInv, MarkingDelivered
<1>10. MarkedIsDelivered' /\ FirstDeliveriesInOrder'
  BY <1>3, <1>4, <1>5 DEF RelayInv, MarkedIsDelivered, FirstDeliveriesInOrder, Index
<1>11. QED
  BY <1>6, <1>7, <1>8, <1>9, <1>10 DEF RelayInv

LEMMA RelayPublishRejects ==
    ASSUME RelayInv, NEW k \in Polls, PublishRejects(k) PROVE RelayInv'
<1>1. /\ TypeOK => topic' \in Seq(Events)
      /\ \A d \in Events : Delivered(d) => Delivered(d)'
      /\ FirstDeliveriesInOrder'
  <2>1. CASE UNCHANGED topic
    BY <2>1 DEF RelayInv, TypeOK, Delivered, Index, FirstDeliveriesInOrder
  <2>2. CASE topic' = Append(topic, Head(queue[k]))
    BY <2>2, DeliveryInOrder DEF PublishRejects
  <2>3. QED
    BY <2>1, <2>2 DEF PublishRejects
<1>2. {fails', crashes'} \subseteq Nat
  BY DEF RelayInv, TypeOK, PublishRejects, Abandon
<1>3. QED
  BY <1>1, <1>2, RelayDrop DEF PublishRejects, Abandon

LEMMA RelayGivesUp ==
    ASSUME RelayInv, NEW k \in Polls,
           PublishRefused(k) \/ MarkRejects(k) \/ Crash(k)
    PROVE  RelayInv'
<1>1. UNCHANGED <<written, marked, topic>> /\ Goto(k, "idle")
      /\ queue' = [queue EXCEPT ![k] = <<>>]
  BY DEF PublishRefused, MarkRejects, Crash, Abandon
<1>2. /\ TypeOK => topic' \in Seq(Events)
      /\ \A d \in Events : Delivered(d) => Delivered(d)'
      /\ FirstDeliveriesInOrder'
  BY <1>1 DEF RelayInv, TypeOK, Delivered, Index, FirstDeliveriesInOrder
<1>3. {fails', crashes'} \subseteq Nat
  BY DEF RelayInv, TypeOK, PublishRefused, MarkRejects, Crash, Abandon
<1>4. QED
  BY <1>1, <1>2, <1>3, RelayDrop

LEMMA RelayStep == RelayInv /\ [Next]_vars => RelayInv'
<1> SUFFICES ASSUME RelayInv, [Next]_vars PROVE RelayInv'
  OBVIOUS
<1>1. CASE UNCHANGED vars
  BY <1>1 DEF RelayInv, TypeOK, InHandWritten, WrittenInOrder, QueueInOrder,
              MarkingDelivered, MarkedIsDelivered, FirstDeliveriesInOrder, Delivered,
              Index, vars
<1>2. QED
  BY <1>1, RelayAppend, RelayGetPending, RelayPublish, RelayMark, RelayPublishRejects,
     RelayGivesUp DEF Next, RelayOnce

LEMMA RelayInit == Init => RelayInv
  BY RelayAssumption DEF Init, RelayInv, TypeOK, InHandWritten, WrittenInOrder, QueueInOrder,
     MarkingDelivered, MarkedIsDelivered, FirstDeliveriesInOrder, Delivered, Index

-----------------------------------------------------------------------------
\* Every reachable state of the relay is well typed.
THEOREM RelayTypeCorrect == Spec => []TypeOK
<1>1. RelayInv => TypeOK
  BY DEF RelayInv
<1>2. QED
  BY <1>1, RelayInit, RelayStep, PTL DEF Spec

\* No row is taken off the outbox before its event is in the topic.
THEOREM AtLeastOnce == Spec => []MarkedIsDelivered
<1>1. RelayInv => MarkedIsDelivered
  BY DEF RelayInv
<1>2. QED
  BY <1>1, RelayInit, RelayStep, PTL DEF Spec

\* A consumer of the topic sees the events of a saga for the first time in
\* the order they were written.
THEOREM InOrder == Spec => []FirstDeliveriesInOrder
<1>1. RelayInv => FirstDeliveriesInOrder
  BY DEF RelayInv
<1>2. QED
  BY <1>1, RelayInit, RelayStep, PTL DEF Spec

-----------------------------------------------------------------------------
(* Copies.  A copy of an event that is not marked yet is on its way to the *)
(* mark or was lost to a failure or a crash; once the event is marked, the *)
(* polls that had read its row before are all that can still repeat it.    *)

CopiesOf(e) == {n \in Index : topic[n] = e}
InHand(k, e) == \E i \in 1..Len(queue[k]) : queue[k][i] = e
Marking(e) == {k \in Polls : pc[k] = "mark" /\ Head(queue[k]) = e}
Waiting(e) == {k \in Polls : InHand(k, e)} \ Marking(e)

Distinct ==
    \A k \in Polls : \A i, j \in 1..Len(queue[k]) : i # j => queue[k][i] # queue[k][j]

CopiesCounted(e) ==
    IF e \in marked
    THEN Cardinality(CopiesOf(e)) + Cardinality(Waiting(e))
             <= Cardinality(Polls) + (fails + crashes)
    ELSE Cardinality(CopiesOf(e)) <= Cardinality(Marking(e)) + (fails + crashes)

CopiesInv == RelayInv /\ Distinct /\ \A e \in Events : CopiesCounted(e)

LEMMA OneMore ==
    ASSUME NEW S, NEW T, NEW x, IsFiniteSet(T), S \subseteq T \cup {x}
    PROVE  Cardinality(S) <= Cardinality(T) + 1
<1>1. Cardinality(T) \in Nat
  BY FS_CardinalityType
<1>2. IsFiniteSet(T \cup {x}) /\ Cardinality(T \cup {x}) <= Cardinality(T) + 1
  BY <1>1, FS_AddElement
<1>3. IsFiniteSet(S) /\ Cardinality(S) <= Cardinality(T \cup {x})
  BY <1>2, FS_Subset
<1> QED
  BY <1>1, <1>2, <1>3, FS_CardinalityType

LEMMA OneFewer ==
    ASSUME NEW S, NEW T, NEW x, IsFiniteSet(T), x \in T, S \subseteq T \ {x}
    PROVE  Cardinality(S) + 1 <= Cardinality(T)
<1>1. Cardinality(T) \in Nat
  BY FS_CardinalityType
<1>2. IsFiniteSet(T \ {x}) /\ Cardinality(T \ {x}) = Cardinality(T) - 1
  BY <1>1, FS_RemoveElement
<1>3. IsFiniteSet(S) /\ Cardinality(S) <= Cardinality(T \ {x})
  BY <1>2, FS_Subset
<1> QED
  BY <1>1, <1>2, <1>3, FS_CardinalityType

LEMMA DisjointParts ==
    ASSUME NEW S, IsFiniteSet(S), NEW A, A \subseteq S, NEW B, B \subseteq S, A \cap B = {}
    PROVE  Cardinality(A) + Cardinality(B) <= Cardinality(S)
<1>1. /\ IsFiniteSet(A) /\ Cardinality(A) \in Nat
      /\ IsFiniteSet(B) /\ Cardinality(B) \in Nat
  BY FS_Subset, FS_CardinalityType
<1>2. Cardinality(A \cup B) = Cardinality(A) + Cardinality(B) - Cardinality(A \cap B)
  BY <1>1, FS_Union, Zenon
<1>3. Cardinality(A \cap B) = 0
  BY FS_EmptySet
<1>4. Cardinality(A \cup B) <= Cardinality(S)
  BY FS_Subset
<1> QED
  BY <1>1, <1>2, <1>3, <1>4

\* What is counted is finite, and a poll that marks an event does not wait
\* with it.
Countable(e) ==
    /\ IsFiniteSet(CopiesOf(e)) /\ Cardinality(CopiesOf(e)) \in Nat
    /\ IsFiniteSet(Marking(e)) /\ Cardinality(Marking(e)) \in Nat
    /\ IsFiniteSet(Waiting(e)) /\ Cardinality(Waiting(e)) \in Nat
    /\ Cardinality(Polls) \in Nat /\ fails \in Nat /\ crashes \in Nat
    /\ Cardinality(Marking(e)) + Cardinality(Waiting(e)) <= Cardinality(Polls)

LEMMA Counts == TypeOK => \A e \in Events : Countable(e)
<1> SUFFICES ASSUME TypeOK, NEW e \in Events PROVE Countable(e)
  OBVIOUS
<1>1. IsFiniteSet(CopiesOf(e))
  <2>1. Len(topic) \in Int
    BY DEF TypeOK
  <2>2. IsFiniteSet(Index)
    BY <2>1, FS_Interval DEF Index
  <2> QED
    BY <2>2, FS_Subset DEF CopiesOf
<1>2. IsFiniteSet(Polls) /\ IsFiniteSet(Marking(e)) /\ IsFiniteSet(Waiting(e))
  BY RelayAssumption, FS_Subset DEF Marking, Waiting
<1>3. /\ Cardinality(CopiesOf(e)) \in Nat /\ Cardinality(Marking(e)) \in Nat
      /\ Cardinality(Waiting(e)) \in Nat /\ Cardinality(Polls) \in Nat
  BY <1>1, <1>2, FS_CardinalityType
<1>4. Cardinality(Marking(e)) + Cardinality(Waiting(e)) <= Cardinality(Polls)
  <2>1. /\ Marking(e) \subseteq Polls /\ Waiting(e) \subseteq Polls
        /\ Marking(e) \cap Waiting(e) = {}
    BY DEF Marking, Waiting
  <2> QED
    BY <2>1, RelayAssumption, DisjointParts
<1> QED
  BY <1>1, <1>2, <1>3, <1>4 DEF TypeOK, Countable

LEMMA CountsNext == TypeOK' => (\A e \in Events : Countable(e))'
BY Counts, PTL

\* The ways in which the count of an event changes: the event is taken up or
\* put down, or its mark is written; a copy is sent for the mark; a failure
\* pays for a copy, or for one that will not be marked.
Quietly(e) ==
    /\ CopiesOf(e)' = CopiesOf(e)
    /\ e \notin marked' => Marking(e) \subseteq Marking(e)'
    /\ fails + crashes <= fails' + crashes'

ForTheMark(e, k, n) ==
    /\ CopiesOf(e)' \subseteq CopiesOf(e) \cup {n}
    /\ UNCHANGED <<marked, fails, crashes>>
    /\ k \in Marking(e)' /\ Marking(e) \subseteq Marking(e)' \ {k}
    /\ e \in marked => k \in Waiting(e) /\ Waiting(e)' \subseteq Waiting(e) \ {k}

CopyLost(e, n) ==
    /\ CopiesOf(e)' \subseteq CopiesOf(e) \cup {n}
    /\ Marking(e) \subseteq Marking(e)'
    /\ UNCHANGED marked
    /\ fails' + crashes' = fails + crashes + 1

MarkLost(e, k) ==
    /\ CopiesOf(e)' = CopiesOf(e)
    /\ Marking(e) \subseteq Marking(e)' \cup {k}
    /\ UNCHANGED marked
    /\ fails' + crashes' = fails + crashes + 1

NotReadAgain(e) ==
    /\ e \in marked => e \in marked'
    /\ e \in marked' => Waiting(e)' \subseteq Waiting(e)

LEMMA CountMoves ==
    ASSUME TypeOK, TypeOK', NEW e \in Events, CopiesCounted(e), NotReadAgain(e), NEW k, NEW n,
           Quietly(e) \/ ForTheMark(e, k, n) \/ CopyLost(e, n) \/ MarkLost(e, k)
    PROVE  CopiesCounted(e)'
<1> DEFINE c  == Cardinality(CopiesOf(e))
           m  == Cardinality(Marking(e))
           w  == Cardinality(Waiting(e))
           cc == Cardinality(CopiesOf(e)')
           mm == Cardinality(Marking(e)')
           ww == Cardinality(Waiting(e)')
           t  == fails + crashes
           tt == fails' + crashes'
           P  == Cardinality(Polls)
<1>1. IsFiniteSet(CopiesOf(e)) /\ IsFiniteSet(Marking(e)) /\ IsFiniteSet(Waiting(e))
  BY Counts DEF Countable
<1>2. IsFiniteSet(CopiesOf(e)') /\ IsFiniteSet(Marking(e)') /\ IsFiniteSet(Waiting(e)')
  BY CountsNext DEF Countable
<1>3. /\ c \in Nat /\ m \in Nat /\ w \in Nat /\ t \in Nat /\ P \in Nat
      /\ cc \in Nat /\ mm \in Nat /\ ww \in Nat /\ tt \in Nat
      /\ m + w <= P
  BY Counts, CountsNext DEF Countable
<1>4. IF e \in marked THEN c + w <= P + t ELSE c <= m + t
  BY DEF CopiesCounted
<1>5. (e \in marked => e \in marked') /\ (e \in marked' => ww <= w)
  BY <1>1, FS_Subset DEF NotReadAgain
<1>6. \/ cc <= c /\ (e \notin marked' => m <= mm) /\ t <= tt
      \/ /\ cc <= c + 1 /\ m + 1 <= mm /\ (e \in marked => ww + 1 <= w)
         /\ marked' = marked /\ tt = t
      \/ /\ cc <= c + 1 /\ cc + m <= c + mm + 1
         /\ marked' = marked /\ tt = t + 1
  <2>1. CASE Quietly(e)
    <3>1. cc = c /\ (e \notin marked' => m <= mm) /\ t <= tt
      BY <1>2, <2>1, FS_Subset DEF Quietly
    <3> QED
      BY <1>3, <3>1
  <2>2. CASE ForTheMark(e, k, n)
    <3>1. cc <= c + 1
      BY <1>1, <2>2, OneMore, Zenon DEF ForTheMark
    <3>2. m + 1 <= mm
      BY <1>2, <2>2, OneFewer, Zenon DEF ForTheMark
    <3>3. e \in marked => ww + 1 <= w
      BY <1>1, <2>2, OneFewer, Zenon DEF ForTheMark
    <3> QED
      BY <2>2, <3>1, <3>2, <3>3 DEF ForTheMark
  <2>3. CASE CopyLost(e, n)
    <3>1. cc <= c + 1
      BY <1>1, <2>3, OneMore, Zenon DEF CopyLost
    <3>2. m <= mm /\ marked' = marked /\ tt = t + 1
      BY <1>2, <2>3, FS_Subset DEF CopyLost
    <3> HIDE DEF c, m, cc, mm, t, tt
    <3> QED
      BY <1>3, <3>1, <3>2
  <2>4. CASE MarkLost(e, k)
    <3>1. m <= mm + 1
      BY <1>2, <2>4, OneMore, Zenon DEF MarkLost
    <3>2. cc = c /\ marked' = marked /\ tt = t + 1
      BY <2>4 DEF MarkLost
    <3> HIDE DEF c, m, cc, mm, t, tt
    <3> QED
      BY <1>3, <3>1, <3>2
  <2> QED
    BY <2>1, <2>2, <2>3, <2>4
<1>7. IF e \in marked' THEN cc + ww <= P + tt ELSE cc <= mm + tt
  <2> HIDE DEF c, m, w, cc, mm, ww, P, t, tt
  <2>1. CASE e \in marked
    BY <1>3, <1>4, <1>5, <1>6, <2>1
  <2>2. CASE e \notin marked /\ e \in marked'
    BY <1>3, <1>4, <1>5, <1>6, <2>2
  <2>3. CASE e \notin marked'
    BY <1>3, <1>4, <1>5, <1>6, <2>3
  <2> QED
    BY <2>1, <2>2, <2>3
<1> QED
  BY <1>7 DEF CopiesCounted

LEMMA CopiesGrow ==
    ASSUME topic \in Seq(Events), NEW h \in Events, topic' = Append(topic, h), NEW e
    PROVE  /\ CopiesOf(e)' \subseteq CopiesOf(e) \cup {Len(topic) + 1}
           /\ e # h => CopiesOf(e)' = CopiesOf(e)
<1>1. /\ Len(topic) \in Nat /\ Len(topic') = Len(topic) + 1
      /\ \A n \in 1..Len(topic) : topic'[n] = topic[n]
      /\ topic'[Len(topic) + 1] = h
  BY TopicGrows
<1>2. \A n : n \in 1..Len(topic') <=> n \in 1..Len(topic) \/ n = Len(topic) + 1
  BY <1>1
<1>3. \A n \in 1..Len(topic) : n # Len(topic) + 1
  BY <1>1
<1> HIDE <1>1
<1>4. CopiesOf(e)' = {n \in 1..Len(topic') : topic'[n] = e}
  BY DEF CopiesOf, Index
<1>5. CopiesOf(e) = {n \in 1..Len(topic) : topic[n] = e}
  BY DEF CopiesOf, Index
<1> QED
  BY <1>1, <1>2, <1>3, <1>4, <1>5

\* What one poll does leaves the others with what they had in hand.
LEMMA HandsKept ==
    ASSUME NEW k \in Polls,
           \A j \in Polls \ {k} : pc'[j] = pc[j] /\ queue'[j] = queue[j],
           NEW e
    PROVE  \A j : j # k => /\ j \in Marking(e)' <=> j \in Marking(e)
                           /\ j \in Waiting(e)' <=> j \in Waiting(e)
BY DEF Marking, Waiting, InHand

\* A poll lets go of its batch.
LEMMA LetGo ==
    ASSUME TypeOK, Distinct, NEW k \in Polls, Goto(k, "idle"),
           queue' = [queue EXCEPT ![k] = <<>>], UNCHANGED marked
    PROVE  /\ Distinct'
           /\ \A e : /\ NotReadAgain(e)
                     /\ Marking(e) \subseteq Marking(e)' \cup {k}
                     /\ pc[k] # "mark" => Marking(e) \subseteq Marking(e)'
<1>1. /\ pc'[k] = "idle" /\ queue'[k] = <<>>
      /\ \A j \in Polls \ {k} : pc'[j] = pc[j] /\ queue'[j] = queue[j]
  BY DEF TypeOK, Goto
<1>2. Distinct'
  BY <1>1 DEF Distinct
<1> SUFFICES ASSUME NEW e
             PROVE  /\ NotReadAgain(e)
                    /\ Marking(e) \subseteq Marking(e)' \cup {k}
                    /\ pc[k] # "mark" => Marking(e) \subseteq Marking(e)'
  BY <1>2
<1>3. k \notin Waiting(e)'
  BY <1>1 DEF Waiting, InHand
<1>4. k \in Marking(e) => pc[k] = "mark"
  BY DEF Marking
<1> QED
  BY <1>1, <1>3, <1>4, HandsKept DEF NotReadAgain

LEMMA GiveUpCopies ==
    ASSUME RelayInv, TypeOK', Distinct, \A e \in Events : CopiesCounted(e), NEW k \in Polls,
           PublishRejects(k) \/ PublishRefused(k) \/ MarkRejects(k) \/ Crash(k)
    PROVE  Distinct' /\ \A e \in Events : CopiesCounted(e)'
<1>1. /\ Distinct'
      /\ \A e : /\ NotReadAgain(e)
                /\ Marking(e) \subseteq Marking(e)' \cup {k}
                /\ pc[k] # "mark" => Marking(e) \subseteq Marking(e)'
  BY LetGo DEF RelayInv, PublishRejects, PublishRefused, MarkRejects, Crash, Abandon
<1>t. TypeOK /\ fails \in Nat /\ crashes \in Nat
  BY DEF RelayInv, TypeOK
<1> SUFFICES ASSUME NEW e \in Events PROVE CopiesCounted(e)'
  BY <1>1
<1>2. CASE PublishRejects(k)
  <2>1. CopiesOf(e)' \subseteq CopiesOf(e) \cup {Len(topic) + 1}
    <3>1. CASE UNCHANGED topic
      BY <3>1 DEF CopiesOf, Index
    <3>2. CASE topic' = Append(topic, Head(queue[k]))
      <4>1. Head(queue[k]) \in Events /\ topic \in Seq(Events)
        BY <1>2, TailOfBatch DEF RelayInv, TypeOK, PublishRejects
      <4> QED
        BY <3>2, <4>1, CopiesGrow
    <3> QED
      BY <1>2, <3>1, <3>2 DEF PublishRejects
  <2>2. CopyLost(e, Len(topic) + 1)
    BY <1>1, <1>t, <1>2, <2>1 DEF CopyLost, PublishRejects, Abandon
  <2> QED
    BY <1>1, <1>t, <2>2, CountMoves
<1>3. CASE PublishRefused(k)
  <2>1. Quietly(e)
    BY <1>1, <1>t, <1>3 DEF Quietly, PublishRefused, CopiesOf, Index
  <2> QED
    BY <1>1, <1>t, <2>1, CountMoves
<1>4. CASE MarkRejects(k) \/ Crash(k)
  <2>1. MarkLost(e, k)
    BY <1>1, <1>t, <1>4 DEF MarkLost, MarkRejects, Crash, Abandon, CopiesOf, Index
  <2> QED
    BY <1>1, <1>t, <2>1, CountMoves
<1> QED
  BY <1>2, <1>3, <1>4

LEMMA GetPendingCopies ==
    ASSUME RelayInv, TypeOK', Distinct, \A e \in Events : CopiesCounted(e), NEW k \in Polls,
           GetPending(k)
    PROVE  Distinct' /\ \A e \in Events : CopiesCounted(e)'
<1>1. Pending \in SUBSET Events
  BY DEF RelayInv, TypeOK, Pending
<1>2. PICK n \in 1..E : \E batch \in [1..n -> Events] :
          IsOldest(batch, Pending) /\ queue' = [queue EXCEPT ![k] = batch]
  BY DEF GetPending
<1>3. PICK batch \in [1..n -> Events] :
          IsOldest(batch, Pending) /\ queue' = [queue EXCEPT ![k] = batch]
  BY <1>2
<1>4. Len(batch) = n /\ n \in Nat /\ \A i \in 1..n : batch[i] \in Pending
  BY <1>1, <1>3, BatchIsSequence, RelayAssumption
<1>5. /\ pc[k] = "idle" /\ pc'[k] = "publish" /\ queue'[k] = batch
      /\ \A j \in Polls \ {k} : pc'[j] = pc[j] /\ queue'[j] = queue[j]
      /\ UNCHANGED <<marked, topic, fails, crashes>>
  BY <1>3 DEF RelayInv, TypeOK, GetPending, Goto
<1>6. Distinct'
  <2>1. \A i, j \in 1..n : i < j => batch[i] # batch[j]
    BY <1>3, <1>4 DEF IsOldest
  <2>2. \A i, j \in 1..n : i # j => i < j \/ j < i
    BY <1>4
  <2>3. \A i, j \in 1..Len(queue'[k]) : i # j => queue'[k][i] # queue'[k][j]
    BY <1>4, <1>5, <2>1, <2>2
  <2> QED
    BY <1>5, <2>3 DEF Distinct
<1> SUFFICES ASSUME NEW e \in Events PROVE CopiesCounted(e)'
  BY <1>6
<1>7. NotReadAgain(e)
  <2>1. e \in marked => k \notin Waiting(e)'
    BY <1>4, <1>5 DEF Waiting, InHand, Pending
  <2> QED
    BY <1>5, <2>1, HandsKept DEF NotReadAgain
<1>8. Quietly(e)
  <2>1. k \notin Marking(e)
    BY <1>5 DEF Marking
  <2>2. fails \in Nat /\ crashes \in Nat
    BY DEF RelayInv, TypeOK
  <2> QED
    BY <1>5, <2>1, <2>2, HandsKept DEF Quietly, CopiesOf, Index
<1> QED
  BY <1>7, <1>8, CountMoves DEF RelayInv

LEMMA PublishCopies ==
    ASSUME RelayInv, TypeOK', Distinct, \A e \in Events : CopiesCounted(e), NEW k \in Polls,
           Publish(k)
    PROVE  Distinct' /\ \A e \in Events : CopiesCounted(e)'
<1>1. /\ pc[k] = "publish" /\ pc'[k] = "mark"
      /\ \A j \in Polls \ {k} : pc'[j] = pc[j] /\ queue'[j] = queue[j]
      /\ UNCHANGED <<marked, queue, fails, crashes>>
      /\ fails \in Nat /\ crashes \in Nat /\ topic \in Seq(Events)
  BY DEF RelayInv, TypeOK, Publish, Goto
<1>2. PICK h \in Events : h = Head(queue[k])
  BY <1>1, TailOfBatch DEF RelayInv, TypeOK
<1>3. Distinct'
  BY <1>1 DEF Distinct
<1> SUFFICES ASSUME NEW e \in Events PROVE CopiesCounted(e)'
  BY <1>3
<1>4. k \notin Marking(e) /\ (k \in Marking(e)' <=> h = e)
  BY <1>1, <1>2 DEF Marking
<1>5. k \in Waiting(e)' <=> k \in Waiting(e) /\ h # e
  BY <1>1, <1>2, <1>4 DEF Waiting, InHand
<1>6. NotReadAgain(e)
  BY <1>1, <1>5, HandsKept DEF NotReadAgain
<1>7. CASE e # h
  <2>1. CopiesOf(e)' = CopiesOf(e)
    BY <1>1, <1>2, <1>7, CopiesGrow DEF Publish
  <2>2. Quietly(e)
    BY <1>1, <1>4, <2>1, HandsKept DEF Quietly
  <2> QED
    BY <1>6, <2>2, CountMoves DEF RelayInv
<1>8. CASE e = h
  <2>1. CopiesOf(e)' \subseteq CopiesOf(e) \cup {Len(topic) + 1}
    BY <1>1, <1>2, CopiesGrow DEF Publish
  <2>2. k \in Waiting(e)
    <3>1. queue[k] \in Seq(Events) /\ queue[k] # <<>>
      BY <1>1 DEF RelayInv, TypeOK
    <3>2. 1 \in 1..Len(queue[k]) /\ queue[k][1] = e
      BY <1>2, <1>8, <3>1, TailOfBatch
    <3> QED
      BY <1>4, <3>2 DEF Waiting, InHand
  <2>3. ForTheMark(e, k, Len(topic) + 1)
    BY <1>1, <1>4, <1>5, <1>8, <2>1, <2>2, HandsKept DEF ForTheMark
  <2> QED
    BY <1>6, <2>3, CountMoves DEF RelayInv
<1> QED
  BY <1>7, <1>8

LEMMA MarkCopies ==
    ASSUME RelayInv, TypeOK', Distinct, \A e \in Events : CopiesCounted(e), NEW k \in Polls,
           MarkPublished(k)
    PROVE  Distinct' /\ \A e \in Events : CopiesCounted(e)'
<1> DEFINE q == queue[k]
<1>1. q \in Seq(Events) /\ q # <<>> /\ pc[k] = "mark"
  BY DEF RelayInv, TypeOK, MarkPublished
<1>2. /\ Len(Tail(q)) = Len(q) - 1 /\ Len(q) \in Nat \ {0}
      /\ Head(q) = q[1] /\ Head(q) \in Events
      /\ \A i \in 1..Len(Tail(q)) : i + 1 \in 1..Len(q) /\ Tail(q)[i] = q[i + 1]
  BY <1>1, TailOfBatch
<1>3. /\ pc'[k] # "mark" /\ queue'[k] = Tail(q)
      /\ \A j \in Polls \ {k} : pc'[j] = pc[j] /\ queue'[j] = queue[j]
      /\ marked' = marked \cup {Head(q)}
      /\ UNCHANGED <<topic, fails, crashes>>
      /\ fails \in Nat /\ crashes \in Nat
  BY DEF RelayInv, TypeOK, MarkPublished, Goto
<1>4. \A i, j \in 1..Len(q) : i # j => q[i] # q[j]
  BY DEF Distinct
<1>5. Distinct'
  <2>1. \A i, j \in 1..Len(Tail(q)) : i # j => i + 1 # j + 1
    BY <1>2
  <2>2. \A i, j \in 1..Len(queue'[k]) : i # j => queue'[k][i] # queue'[k][j]
    BY <1>2, <1>3, <1>4, <2>1
  <2>3. \A l \in Polls \ {k} :
            \A i, j \in 1..Len(queue'[l]) : i # j => queue'[l][i] # queue'[l][j]
    BY <1>3 DEF Distinct
  <2>4. \A l \in Polls :
            \A i, j \in 1..Len(queue'[l]) : i # j => queue'[l][i] # queue'[l][j]
    BY <2>2, <2>3
  <2> QED
    BY <2>4 DEF Distinct
<1> SUFFICES ASSUME NEW e \in Events PROVE CopiesCounted(e)'
  BY <1>5
<1>6. \A i \in 1..Len(Tail(q)) : Tail(q)[i] # Head(q)
  <2>1. 1 \in 1..Len(q) /\ \A i \in 1..Len(Tail(q)) : i + 1 # 1
    BY <1>2
  <2> QED
    BY <1>2, <1>4, <2>1
<1>7. k \notin Marking(e)' /\ (k \in Marking(e) <=> Head(q) = e)
  BY <1>1, <1>3 DEF Marking
<1>8. k \in Waiting(e)' => k \in Waiting(e)
  <2> SUFFICES ASSUME k \in Waiting(e)' PROVE k \in Waiting(e)
    OBVIOUS
  <2>1. PICK i \in 1..Len(Tail(q)) : Tail(q)[i] = e
    BY <1>3 DEF Waiting, InHand
  <2>2. Head(q) # e /\ i + 1 \in 1..Len(q) /\ q[i + 1] = e
    BY <1>2, <1>6, <2>1
  <2> QED
    BY <1>7, <2>2 DEF Waiting, InHand
<1>9. NotReadAgain(e)
  BY <1>3, <1>8, HandsKept DEF NotReadAgain
<1>10. Quietly(e)
  BY <1>3, <1>7, HandsKept DEF Quietly, CopiesOf, Index
<1> QED
  BY <1>9, <1>10, CountMoves DEF RelayInv

LEMMA CopiesStep == CopiesInv /\ [Next]_vars => CopiesInv'
<1> SUFFICES ASSUME CopiesInv, [Next]_vars PROVE CopiesInv'
  OBVIOUS
<1>1. RelayInv' /\ TypeOK' /\ RelayInv /\ Distinct /\ \A e \in Events : CopiesCounted(e)
  BY RelayStep DEF CopiesInv, RelayInv
<1>2. CASE UNCHANGED vars \/ \E e \in Events : AppendOutboxEvent(e)
  <2>1. UNCHANGED <<marked, topic, pc, queue, fails, crashes>>
    BY <1>2 DEF AppendOutboxEvent, vars
  <2> QED
    BY <1>1, <2>1 DEF CopiesInv, Distinct, CopiesCounted, CopiesOf, Marking, Waiting, InHand,
       Index
<1>3. ASSUME NEW k \in Polls, RelayOnce(k) \/ Crash(k)
      PROVE  Distinct' /\ \A e \in Events : CopiesCounted(e)'
  BY <1>1, <1>3, GetPendingCopies, PublishCopies, MarkCopies, GiveUpCopies DEF RelayOnce
<1> QED
  BY <1>1, <1>2, <1>3 DEF CopiesInv, Next

LEMMA CopiesInit == Init => CopiesInv
<1> SUFFICES ASSUME Init PROVE CopiesInv
  OBVIOUS
<1>1. RelayInv /\ Distinct
  BY RelayInit DEF Init, Distinct
<1>2. ASSUME NEW e \in Events PROVE CopiesCounted(e)
  <2>1. CopiesOf(e) = {} /\ Cardinality(CopiesOf(e)) = 0
    BY FS_EmptySet DEF Init, CopiesOf, Index
  <2>2. Cardinality(Marking(e)) \in Nat /\ e \notin marked /\ fails = 0 /\ crashes = 0
    BY <1>1, Counts DEF RelayInv, Countable, Init
  <2>3. Cardinality(CopiesOf(e)) <= Cardinality(Marking(e)) + (fails + crashes)
    BY <2>1, <2>2
  <2> QED
    BY <2>2, <2>3 DEF CopiesCounted
<1> QED
  BY <1>1, <1>2 DEF CopiesInv

\* A poll, a failure and a crash cost an event one more copy at most, however
\* many polls overlap and whatever order their steps come in.
THEOREM FewCopies == Spec => []CopiesAreBounded
<1>1. CopiesInv => CopiesAreBounded
  <2> SUFFICES ASSUME CopiesInv, NEW e \in Events
               PROVE  Cardinality(CopiesOf(e)) <= Cardinality(Polls) + fails + crashes
    BY DEF CopiesAreBounded, CopiesOf
  <2> DEFINE c == Cardinality(CopiesOf(e))
             m == Cardinality(Marking(e))
             w == Cardinality(Waiting(e))
             P == Cardinality(Polls)
  <2>1. /\ c \in Nat /\ m \in Nat /\ w \in Nat /\ P \in Nat /\ m + w <= P
        /\ fails \in Nat /\ crashes \in Nat
    BY Counts DEF CopiesInv, RelayInv, Countable
  <2>2. c + w <= P + (fails + crashes) \/ c <= m + (fails + crashes)
    BY DEF CopiesInv, CopiesCounted
  <2> HIDE DEF c, m, w, P
  <2>3. c <= P + fails + crashes
    BY <2>1, <2>2
  <2> QED
    BY <2>3 DEF c, P
<1> QED
  BY <1>1, CopiesInit, CopiesStep, PTL DEF Spec
=============================================================================
