-------------------------- MODULE MemorySagaProofs --------------------------
(***************************************************************************)
(* What the in-memory repository keeps whoever runs a saga beside whom,    *)
(* for every definition, any number of workers and any claims: theorems of *)
(* MemorySaga, checked by TLAPS.                                           *)
(***************************************************************************)
EXTENDS MemorySaga, SagaExecutorProofs

-----------------------------------------------------------------------------
(* The inductive invariant: what a process knows of the record it works on *)
(* stays true while others write, for records only grow in number and      *)
(* never become PENDING again, and the shared context only grows.          *)

HeapTyped ==
    /\ pc \in [Proc -> Site]
    /\ cur \in [Proc -> 0..(N + 1)]
    /\ pushed \in [Proc -> 0..N]
    /\ records \in [Step -> Seq(StepStatus)]
    /\ mine \in [Proc -> Nat]
    /\ known \in [Proc -> [Step -> Nat]]

RecordSites == {"setStepRunning", "stepStarted", "action", "setStepFailed"} \cup TrySites

PatchedSites == {"patchContext", "setStepCompleted"}

KnowsRecord(p) ==
    /\ pc[p] \in CurSites => cur[p] \in Step
    /\ pc[p] \in RecordSites => mine[p] \in 1..Len(records[cur[p]])
    /\ pc[p] \in StartedSites => records[cur[p]][mine[p]] # "PENDING"
    /\ pc[p] \in PatchedSites /\ <<"do", cur[p]>> \in Patching => <<"do", cur[p]>> \in context
    /\ \A i \in Step : known[p][i] <= Len(records[i])

HeapInv == HeapTyped /\ \A p \in Proc : KnowsRecord(p)

MemoryInv == HeapInv /\ EffectsAreRecorded /\ NoPatchLost

\* What no step takes back.
Grows ==
    /\ context \subseteq context'
    /\ \A i \in Step :
           /\ Len(records[i]) <= Len(records'[i])
           /\ \A k \in 1..Len(records[i]) :
                  records[i][k] # "PENDING" => records'[i][k] # "PENDING"

KeepsOthers(p) ==
    \A q \in Proc \ {p} :
        pc'[q] = pc[q] /\ cur'[q] = cur[q] /\ mine'[q] = mine[q] /\ known'[q] = known[q]

Good(p) == HeapTyped' /\ Grows /\ KeepsOthers(p) /\ KnowsRecord(p)'

LEMMA OthersKnow ==
    ASSUME HeapInv, NEW p \in Proc, Good(p)
    PROVE  HeapInv'
<1>1. ASSUME NEW q \in Proc \ {p} PROVE KnowsRecord(q)'
  <2>1. pc'[q] = pc[q] /\ cur'[q] = cur[q] /\ mine'[q] = mine[q] /\ known'[q] = known[q]
    BY DEF Good, KeepsOthers
  <2>2. /\ pc[q] \in RecordSites => pc[q] \in CurSites
        /\ pc[q] \in StartedSites => pc[q] \in RecordSites
    BY DEF RecordSites, StartedSites, CurSites, StepSites, TrySites, CatchSites
  <2>3. KnowsRecord(q)
    BY DEF HeapInv
  <2>4. \A i \in Step : Len(records[i]) \in Nat /\ Len(records'[i]) \in Nat
    BY DEF HeapInv, HeapTyped, Good
  <2>5. \A i \in Step : known[q][i] \in Nat
    BY DEF HeapInv, HeapTyped
  <2>6. mine[q] \in Nat
    BY DEF HeapInv, HeapTyped
  <2>7. /\ context \subseteq context'
        /\ \A i \in Step :
              /\ Len(records[i]) <= Len(records'[i])
              /\ \A k \in 1..Len(records[i]) :
                     records[i][k] # "PENDING" => records'[i][k] # "PENDING"
    BY DEF Good, Grows
  <2> QED
    BY <2>1, <2>2, <2>3, <2>4, <2>5, <2>6, <2>7 DEF KnowsRecord
<1> QED
  BY <1>1 DEF HeapInv, Good

\* Steps that leave the heap alone: it is enough to look at where p goes.
Moves(p) ==
    /\ pc' \in [Proc -> Site]
    /\ cur' \in [Proc -> 0..(N + 1)]
    /\ pushed' \in [Proc -> 0..N]
    /\ \A q \in Proc \ {p} : pc'[q] = pc[q] /\ cur'[q] = cur[q]
    /\ pc'[p] \in CurSites => cur'[p] \in Step

LEMMA HeapAlone ==
    ASSUME HeapInv, NEW p \in Proc, Moves(p), UNCHANGED heap, context \subseteq context',
           pc'[p] \in RecordSites => cur'[p] = cur[p] /\ pc[p] \in RecordSites,
           pc'[p] \in StartedSites => pc[p] \in StartedSites,
           pc'[p] \in PatchedSites /\ <<"do", cur'[p]>> \in Patching =>
               <<"do", cur'[p]>> \in context'
    PROVE  Good(p)
<1>1. StartedSites \subseteq RecordSites
  BY DEF RecordSites, StartedSites, TrySites
<1>2. KnowsRecord(p)
  BY DEF HeapInv
<1>3. \A i \in Step : Len(records[i]) \in Nat
  BY DEF HeapInv, HeapTyped
<1>4. HeapTyped'
  BY DEF Moves, HeapInv, HeapTyped, heap
<1>5. Grows
  BY <1>3 DEF Grows, heap
<1>6. KeepsOthers(p)
  BY DEF Moves, KeepsOthers, heap
<1>7. KnowsRecord(p)'
  BY <1>1, <1>2 DEF Moves, KnowsRecord, heap
<1> QED
  BY <1>4, <1>5, <1>6, <1>7 DEF Good

LEMMA GoodAsBefore ==
    ASSUME HeapInv, NEW p \in Proc, AsBefore(p)
    PROVE  Good(p)
<1> USE DEF HeapInv, HeapTyped, KnowsRecord, Moves, Goto, CurSites, StepSites, TrySites,
            CatchSites, UndoSites, RecordSites, StartedSites, PatchedSites, Site,
            AwaitSites, OtherSites, StartSites, CompSites, EndSites
<1>a. UNCHANGED heap
  BY DEF AsBefore
<1> SUFFICES /\ Moves(p) /\ context \subseteq context'
             /\ pc'[p] \in RecordSites => cur'[p] = cur[p] /\ pc[p] \in RecordSites
             /\ pc'[p] \in StartedSites => pc[p] \in StartedSites
             /\ pc'[p] \notin PatchedSites
  BY <1>a, HeapAlone
<1>1. CASE SetRunning(p)
  BY <1>1 DEF SetRunning, WriteStatus, locals
<1>2. CASE SagaStarted(p)
  BY <1>2 DEF SagaStarted, Announce, locals
<1>3. CASE ActionFails(p)
  BY <1>3 DEF ActionFails, RetryOr, store
<1>4. CASE ActionTimesOut(p)
  BY <1>4 DEF ActionTimesOut, RetryOr, store
<1>5. CASE SetCompleted(p)
  BY <1>5 DEF SetCompleted, WriteStatus, locals
<1>6. CASE SetFailed(p)
  BY <1>6 DEF SetFailed, WriteStatus, locals
<1>7. CASE SetCompensating(p)
  BY <1>7 DEF SetCompensating, WriteStatus, locals
<1>8. CASE CompensationStarted(p)
  BY <1>8, DefinitionAssumption DEF CompensationStarted, FirstUndo, store
<1>9. CASE NextUndo(p)
  <2>1. CASE /\ cur[p] \in Step \ Compensable
             /\ cur' = [cur EXCEPT ![p] = cur[p] - 1]
             /\ UNCHANGED <<pc, attempt>>
    <3>1. cur[p] - 1 \in 0..(N + 1)
      BY <2>1, DefinitionAssumption DEF Step
    <3> QED
      BY <1>9, <2>1, <3>1 DEF NextUndo, store
  <2>2. CASE Goto(p, "setCompensated") /\ UNCHANGED cur
    BY <1>9, <2>2 DEF NextUndo, store
  <2>3. CASE cur[p] \in Compensable /\ Goto(p, "compensation") /\ UNCHANGED cur
    BY <1>9, <2>3, DefinitionAssumption DEF NextUndo, store
  <2> QED
    BY <1>9, <2>1, <2>2, <2>3 DEF NextUndo
<1>10. CASE CompensationFails(p)
  BY <1>10 DEF CompensationFails, RetryOr, store
<1>11. CASE CompensationTimesOut(p)
  BY <1>11 DEF CompensationTimesOut, RetryOr, store
<1>12. CASE SetCompensationFailed(p)
  BY <1>12 DEF SetCompensationFailed, WriteStatus, locals
<1>13. CASE CompensationFailed(p)
  BY <1>13 DEF CompensationFailed, Publish, locals, store
<1>14. CASE SetCompensated(p)
  BY <1>14 DEF SetCompensated, WriteStatus, locals
<1>15. CASE CompensationCompleted(p)
  BY <1>15 DEF CompensationCompleted, Publish, locals, store
<1> QED
  BY <1>1, <1>2, <1>3, <1>4, <1>5, <1>6, <1>7, <1>8, <1>9, <1>10, <1>11, <1>12, <1>13,
     <1>14, <1>15 DEF AsBefore

LEMMA GoodAwaits ==
    ASSUME HeapInv, NEW p \in Proc,
           \/ ShareInstance(p) \/ StartStep(p) \/ ContextSaved(p) \/ FinishStep(p)
           \/ FailStep(p)
    PROVE  Good(p)
<1> USE DEF HeapInv, HeapTyped, KnowsRecord, Moves, Goto, CurSites, StepSites, TrySites,
            CatchSites, UndoSites, RecordSites, StartedSites, PatchedSites, Site,
            AwaitSites, OtherSites, StartSites, CompSites, EndSites
<1>1. CASE ShareInstance(p)
  BY <1>1, HeapAlone DEF ShareInstance, Publish, locals, store
<1>2. CASE StartStep(p)
  BY <1>2, HeapAlone DEF StartStep, StepStarted
<1>3. CASE ContextSaved(p)
  BY <1>3, HeapAlone DEF ContextSaved, Publish, locals, store
<1>4. CASE FinishStep(p)
  <2>1. cur[p] \in Step
    BY <1>4 DEF FinishStep, StepCompleted
  <2>2. cur[p] + 1 \in 0..(N + 1)
    BY <2>1, DefinitionAssumption DEF Step
  <2> QED
    BY <1>4, <2>2, HeapAlone DEF FinishStep, StepCompleted
<1>5. CASE FailStep(p)
  BY <1>5, HeapAlone DEF FailStep, SagaFailed, Announce, locals
<1> QED
  BY <1>1, <1>2, <1>3, <1>4, <1>5

LEMMA GoodReturns ==
    ASSUME HeapInv, NEW p \in Proc, ActionReturns(p) \/ CompensationReturns(p)
    PROVE  Good(p)
<1> USE DEF HeapInv, HeapTyped, KnowsRecord, Moves, Goto, CurSites, StepSites, TrySites,
            CatchSites, UndoSites, RecordSites, StartedSites, PatchedSites, Site,
            AwaitSites, OtherSites
<1>1. CASE ActionReturns(p)
  <2>1. CASE <<"do", cur[p]>> \in Patching
    <3>1. /\ pc[p] = "action" /\ pc' = [pc EXCEPT ![p] = "patchContext"]
          /\ context' = context \cup {<<"do", cur[p]>>}
          /\ UNCHANGED <<cur, pushed, heap>>
      BY <1>1, <2>1 DEF ActionReturns, Patch, Merged
    <3> QED
      BY <3>1, HeapAlone
  <2>2. CASE <<"do", cur[p]>> \notin Patching
    BY <1>1, <2>2, HeapAlone DEF ActionReturns, Patch
  <2> QED
    BY <2>1, <2>2
<1>2. CASE CompensationReturns(p)
  <2>1. CASE <<"undo", cur[p]>> \in Patching
    <3>1. /\ pc[p] = "compensation" /\ pc' = [pc EXCEPT ![p] = "patchUndo"]
          /\ context \subseteq context'
          /\ UNCHANGED <<cur, pushed, heap>>
      BY <1>2, <2>1 DEF CompensationReturns, Patch, Merged
    <3> QED
      BY <3>1, HeapAlone
  <2>2. CASE <<"undo", cur[p]>> \notin Patching
    BY <1>2, <2>2, HeapAlone DEF CompensationReturns, Patch
  <2> QED
    BY <2>1, <2>2
<1> QED
  BY <1>1, <1>2

\* A call that returns or throws forgets what it knew.
LEMMA GoodLeaves ==
    ASSUME HeapInv, NEW p \in Proc, NEW answer, Leave(p, answer), Forget(p), UNCHANGED context
    PROVE  Good(p)
<1> USE DEF HeapInv, HeapTyped
<1>1. pc'[p] = "idle" /\ pc' \in [Proc -> Site]
  BY DEF Leave, Site, OtherSites
<1>2. 0 \in 0..N /\ 0 \in 0..(N + 1) /\ 0 \in Nat
  BY DefinitionAssumption
<1>3. HeapTyped'
  BY <1>1, <1>2 DEF Leave, Forget
<1>4. KeepsOthers(p)
  BY DEF Leave, Forget, KeepsOthers
<1>5. \A i \in Step : Len(records[i]) \in Nat
  OBVIOUS
<1>6. Grows
  BY <1>5 DEF Forget, Grows
<1>7. KnowsRecord(p)'
  BY <1>1, <1>5 DEF KnowsRecord, Forget, CurSites, RecordSites, StartedSites,
         PatchedSites, StepSites, TrySites, CatchSites, UndoSites
<1> QED
  BY <1>3, <1>4, <1>6, <1>7 DEF Good

LEMMA GoodRejects ==
    ASSUME HeapInv, NEW p \in Proc, PublisherRejects(p)
    PROVE  Good(p)
<1>1. CASE Catcher(pc[p]) = "idle"
  <2>1. Leave(p, "rejected") /\ UNCHANGED context
    BY <1>1 DEF PublisherRejects, Reject, Thrown, store
  <2>2. pc'[p] = "idle"
    BY <2>1 DEF Leave, HeapInv, HeapTyped
  <2> QED
    BY <2>1, <2>2, GoodLeaves DEF PublisherRejects
<1>2. CASE Catcher(pc[p]) # "idle"
  <2>1. /\ pc' = [pc EXCEPT ![p] = Catcher(pc[p])]
        /\ UNCHANGED <<context, cur, pushed>>
    BY <1>2 DEF PublisherRejects, Reject, Thrown, Goto, locals, store
  <2>2. /\ Catcher(pc[p]) \in {"setStepFailed", "setCompensationFailed", "readBack"}
        /\ Catcher(pc[p]) = "setStepFailed" => pc[p] \in TrySites
    BY <1>2 DEF Catcher
  <2>3. pc'[p] = Catcher(pc[p]) /\ UNCHANGED heap
    BY <1>2, <2>1 DEF PublisherRejects, HeapInv, HeapTyped
  <2>4. Moves(p)
    BY <2>1, <2>2 DEF HeapInv, HeapTyped, KnowsRecord, Moves, CurSites, StepSites,
           TrySites, CatchSites, UndoSites, Site, AwaitSites, CompSites, EndSites
  <2> QED
    BY <2>1, <2>2, <2>3, <2>4, HeapAlone
       DEF RecordSites, StartedSites, PatchedSites, TrySites
<1> QED
  BY <1>1, <1>2

LEMMA GoodReturn ==
    ASSUME HeapInv, NEW p \in Proc, Return(p)
    PROVE  Good(p)
<1>1. \E answer : Leave(p, answer)
  BY DEF Return, SagaCompleted, ReadBack
<1>2. UNCHANGED context
  BY DEF Return, SagaCompleted, ReadBack, store
<1> QED
  BY <1>1, <1>2, GoodLeaves DEF Return

\* The reads of the loop.
LEMMA GoodReads ==
    ASSUME HeapInv, NEW p \in Proc, ListSteps(p) \/ FindRecord(p)
    PROVE  Good(p)
<1> USE DEF HeapInv, HeapTyped, Goto
<1>1. \A i \in Step : Len(records[i]) \in Nat
  OBVIOUS
<1>2. UNCHANGED <<records, context>> /\ Grows
  BY <1>1 DEF ListSteps, FindRecord, Grows, store
<1>3. CASE ListSteps(p)
  <2>1. /\ pc' = [pc EXCEPT ![p] = "nextStep"]
        /\ cur' = [cur EXCEPT ![p] = 1]
        /\ known' = [known EXCEPT ![p] = [i \in Step |-> Len(records[i])]]
        /\ UNCHANGED <<pushed, mine>>
    BY <1>3 DEF ListSteps
  <2>2. HeapTyped'
    <3>1. 1 \in 0..(N + 1) /\ "nextStep" \in Site
      BY DefinitionAssumption DEF Site, OtherSites
    <3> QED
      BY <1>1, <1>2, <2>1, <3>1
  <2>3. KeepsOthers(p)
    BY <2>1 DEF KeepsOthers
  <2>4. KnowsRecord(p)'
    BY <1>1, <1>2, <2>1 DEF KnowsRecord, CurSites, RecordSites, StartedSites,
           PatchedSites, StepSites, TrySites, CatchSites, UndoSites
  <2> QED
    BY <1>2, <2>2, <2>3, <2>4 DEF Good
<1>4. CASE FindRecord(p)
  <2>1. UNCHANGED known
    BY <1>4 DEF FindRecord
  <2>2. CASE /\ Goto(p, "setCompleted") /\ UNCHANGED <<cur, pushed, mine>>
    BY <1>2, <2>1, <2>2
       DEF Good, KeepsOthers, KnowsRecord, CurSites, RecordSites, StartedSites,
           PatchedSites, StepSites, TrySites, CatchSites, UndoSites, Site, AwaitSites,
           EndSites
  <2>3. CASE /\ pc[p] = "nextStep" /\ cur[p] \in Step
             /\ pushed' = [pushed EXCEPT ![p] = cur[p]]
             /\ cur' = [cur EXCEPT ![p] = cur[p] + 1]
             /\ UNCHANGED <<pc, mine>>
    <3>1. cur[p] \in 0..N /\ cur[p] + 1 \in 0..(N + 1)
      BY <2>3, DefinitionAssumption DEF Step
    <3>2. HeapTyped'
      BY <1>2, <2>1, <2>3, <3>1
    <3> QED
      BY <1>2, <2>1, <2>3, <3>2
         DEF Good, KeepsOthers, KnowsRecord, CurSites, RecordSites, StartedSites,
             PatchedSites, StepSites, TrySites, CatchSites, UndoSites
  <2>4. ASSUME NEW k \in TakenOver(p, cur[p]), cur[p] \in Step,
               mine' = [mine EXCEPT ![p] = k],
               Goto(p, "setStepRunning"), UNCHANGED <<cur, pushed>>
        PROVE  Good(p)
    <3>1. k \in 1..known[p][cur[p]] /\ known[p][cur[p]] \in Nat
      BY <2>4 DEF TakenOver
    <3>2. known[p][cur[p]] <= Len(records[cur[p]])
      BY <2>4 DEF KnowsRecord
    <3>3. k \in 1..Len(records[cur[p]])
      BY <1>1, <2>4, <3>1, <3>2
    <3>4. HeapTyped'
      BY <1>1, <1>2, <2>1, <2>4, <3>3 DEF Site, AwaitSites, StepSites
    <3>5. KeepsOthers(p)
      BY <2>1, <2>4 DEF KeepsOthers
    <3>6. KnowsRecord(p)'
      BY <1>2, <2>1, <2>4, <3>3
         DEF KnowsRecord, StartedSites, PatchedSites, TrySites
    <3> QED
      BY <1>2, <3>4, <3>5, <3>6 DEF Good
  <2>5. CASE cur[p] \in Step /\ Goto(p, "createStep") /\ UNCHANGED <<cur, pushed, mine>>
    BY <1>2, <2>1, <2>5
       DEF Good, KeepsOthers, KnowsRecord, RecordSites, StartedSites, PatchedSites,
           TrySites, Site, AwaitSites, StepSites
  <2>6. \/ Goto(p, "setCompleted") /\ UNCHANGED <<cur, pushed, mine>>
        \/ /\ pc[p] = "nextStep" /\ cur[p] \in Step
           /\ pushed' = [pushed EXCEPT ![p] = cur[p]]
           /\ cur' = [cur EXCEPT ![p] = cur[p] + 1]
           /\ UNCHANGED <<pc, mine>>
        \/ \E k \in TakenOver(p, cur[p]) :
               /\ cur[p] \in Step /\ mine' = [mine EXCEPT ![p] = k]
               /\ Goto(p, "setStepRunning") /\ UNCHANGED <<cur, pushed>>
        \/ cur[p] \in Step /\ Goto(p, "createStep") /\ UNCHANGED <<cur, pushed, mine>>
    BY <1>4 DEF FindRecord
  <2> QED
    BY <2>2, <2>3, <2>4, <2>5, <2>6
<1> QED
  BY <1>3, <1>4

\* The writes of records.
LEMMA RecordWritten ==
    ASSUME HeapInv, NEW p \in Proc, NEW k, NEW s \in StepStatus \ {"PENDING"},
           cur[p] \in Step, k \in 1..Len(records[cur[p]]), SetRecord(p, k, s),
           UNCHANGED context
    PROVE  /\ records' \in [Step -> Seq(StepStatus)]
           /\ \A i \in Step : Len(records'[i]) = Len(records[i])
           /\ records'[cur[p]][k] = s
           /\ \A i \in Step : \A j \in 1..Len(records[i]) :
                  records'[i][j] = IF i = cur[p] /\ j = k THEN s ELSE records[i][j]
           /\ Grows
<1> DEFINE r == records[cur[p]]
<1>1. records \in [Step -> Seq(StepStatus)] /\ r \in Seq(StepStatus)
  BY DEF HeapInv, HeapTyped
<1>2. records' = [records EXCEPT ![cur[p]] = [r EXCEPT ![k] = s]]
  BY <1>1 DEF SetRecord
<1>3. [r EXCEPT ![k] = s] \in Seq(StepStatus) /\ Len([r EXCEPT ![k] = s]) = Len(r)
  BY <1>1
<1>4. \A j \in 1..Len(r) : [r EXCEPT ![k] = s][j] = IF j = k THEN s ELSE r[j]
  BY <1>1
<1>5. records' \in [Step -> Seq(StepStatus)]
  BY <1>1, <1>2, <1>3
<1>6. \A i \in Step : Len(records'[i]) = Len(records[i])
  BY <1>1, <1>2, <1>3
<1>7. \A i \in Step : \A j \in 1..Len(records[i]) :
          records'[i][j] = IF i = cur[p] /\ j = k THEN s ELSE records[i][j]
  BY <1>1, <1>2, <1>4
<1>8. \A i \in Step : Len(records[i]) \in Nat
  BY <1>1
<1>9. Grows
  BY <1>6, <1>7, <1>8 DEF Grows
<1> QED
  BY <1>5, <1>6, <1>7, <1>9

LEMMA GoodWrites ==
    ASSUME HeapInv, NEW p \in Proc, RunRecord(p) \/ FailRecord(p) \/ CompleteRecord(p)
    PROVE  Good(p)
<1> USE DEF HeapInv, HeapTyped, Goto
<1>1. PICK s \in {"RUNNING", "FAILED", "COMPLETED"} : SetRecord(p, mine[p], s)
  BY DEF RunRecord, FailRecord, CompleteRecord
<1>2. /\ pc[p] \in {"setStepRunning", "setStepFailed", "setStepCompleted"}
      /\ UNCHANGED <<context, cur, mine, known>>
      /\ pc' \in {[pc EXCEPT ![p] = "stepStarted"], [pc EXCEPT ![p] = "setFailed"],
                  [pc EXCEPT ![p] = "stepCompleted"]}
      /\ pushed' = pushed \/ pushed' = [pushed EXCEPT ![p] = cur[p]]
  BY DEF RunRecord, FailRecord, CompleteRecord, Publish, locals, store
<1>3. /\ cur[p] \in Step /\ mine[p] \in 1..Len(records[cur[p]])
      /\ \A i \in Step : known[p][i] <= Len(records[i])
  BY <1>2 DEF KnowsRecord, CurSites, RecordSites, StepSites, CatchSites, TrySites
<1>4. /\ records' \in [Step -> Seq(StepStatus)]
      /\ \A i \in Step : Len(records'[i]) = Len(records[i])
      /\ records'[cur[p]][mine[p]] = s
      /\ Grows
  BY <1>1, <1>2, <1>3, RecordWritten DEF StepStatus
<1>5. /\ pc' \in [Proc -> Site]
      /\ pc'[p] \in {"stepStarted", "setFailed", "stepCompleted"}
      /\ \A q \in Proc \ {p} : pc'[q] = pc[q]
  BY <1>2 DEF Site, AwaitSites, StepSites, TrySites, CatchSites
<1>6. pushed' \in [Proc -> 0..N]
  <2>1. cur[p] \in 0..N
    BY ONLY <1>3, DefinitionAssumption DEF Step
  <2> QED
    BY <1>2, <2>1
<1>7. HeapTyped'
  <2>1. records' \in [Step -> Seq(StepStatus)] /\ pc' \in [Proc -> Site]
    BY <1>4, <1>5
  <2>2. UNCHANGED <<cur, mine, known>>
    BY <1>2
  <2> QED
    BY <1>6, <2>1, <2>2
<1>8. KeepsOthers(p)
  BY <1>2, <1>5 DEF KeepsOthers
<1>9. KnowsRecord(p)'
  BY <1>2, <1>3, <1>4, <1>5 DEF KnowsRecord, PatchedSites
<1> QED
  BY <1>4, <1>7, <1>8, <1>9 DEF Good

LEMMA GoodCompensates ==
    ASSUME HeapInv, NEW p \in Proc, CompensateRecord(p)
    PROVE  Good(p)
<1> USE DEF HeapInv, HeapTyped, Goto
<1>1. cur[p] \in Step /\ \A i \in Step : known[p][i] <= Len(records[i])
  BY DEF CompensateRecord, KnowsRecord, CurSites, UndoSites
<1>2. \A i \in Step : Len(records[i]) \in Nat
  OBVIOUS
<1>3. UNCHANGED <<context, pushed, mine, known>>
  BY DEF CompensateRecord, store
<1>4. /\ records' \in [Step -> Seq(StepStatus)]
      /\ \A i \in Step : Len(records'[i]) = Len(records[i])
      /\ Grows
  <2>1. CASE records[cur[p]] = <<>>
    BY <1>2, <1>3, <2>1 DEF CompensateRecord, Grows
  <2>2. CASE records[cur[p]] # <<>>
    <3>1. 1 \in 1..Len(records[cur[p]])
      BY <1>1, <2>2
    <3>2. SetRecord(p, 1, "COMPENSATED")
      BY <2>2 DEF CompensateRecord
    <3> QED
      BY <1>1, <1>3, <3>1, <3>2, RecordWritten DEF StepStatus
  <2> QED
    BY <2>1, <2>2
<1>5. /\ pc' = [pc EXCEPT ![p] = "nextUndo"]
      /\ cur' = [cur EXCEPT ![p] = cur[p] - 1]
      /\ cur[p] - 1 \in 0..(N + 1)
  <2>1. cur[p] - 1 \in 0..(N + 1)
    BY ONLY <1>1, DefinitionAssumption DEF Step
  <2> QED
    BY <2>1 DEF CompensateRecord
<1>6. HeapTyped'
  <2>1. records' \in [Step -> Seq(StepStatus)]
    BY <1>4
  <2>2. pc' \in [Proc -> Site] /\ cur' \in [Proc -> 0..(N + 1)]
    BY <1>5 DEF Site, OtherSites
  <2> QED
    BY <1>3, <2>1, <2>2
<1>7. KeepsOthers(p)
  BY <1>3, <1>5 DEF KeepsOthers
<1>8. KnowsRecord(p)'
  BY <1>1, <1>3, <1>4, <1>5
     DEF KnowsRecord, CurSites, RecordSites, StartedSites, PatchedSites, StepSites,
         TrySites, CatchSites, UndoSites
<1> QED
  BY <1>4, <1>6, <1>7, <1>8 DEF Good

LEMMA GoodPushes ==
    ASSUME HeapInv, NEW p \in Proc, PushRecord(p)
    PROVE  Good(p)
<1> USE DEF HeapInv, HeapTyped, Goto
<1>1. cur[p] \in Step /\ \A i \in Step : known[p][i] <= Len(records[i])
  BY DEF PushRecord, KnowsRecord, CurSites, StepSites
<1> DEFINE r == records[cur[p]]
<1>2. r \in Seq(StepStatus) /\ Len(r) \in Nat /\ "PENDING" \in StepStatus
  BY <1>1 DEF StepStatus
<1>3. /\ records' = [records EXCEPT ![cur[p]] = Append(r, "PENDING")]
      /\ mine' = [mine EXCEPT ![p] = Len(r) + 1]
      /\ pc' = [pc EXCEPT ![p] = "setStepRunning"]
      /\ UNCHANGED <<context, cur, pushed, known>>
  BY DEF PushRecord, locals, store
<1>4. /\ Append(r, "PENDING") \in Seq(StepStatus)
      /\ Len(Append(r, "PENDING")) = Len(r) + 1
      /\ \A j \in 1..Len(r) : Append(r, "PENDING")[j] = r[j]
  BY <1>2
<1>5. /\ records' \in [Step -> Seq(StepStatus)]
      /\ records'[cur[p]] = Append(r, "PENDING")
      /\ \A i \in Step : i # cur[p] => records'[i] = records[i]
  BY <1>1, <1>3, <1>4
<1>6. ASSUME NEW i \in Step
      PROVE  /\ Len(records[i]) \in Nat /\ Len(records'[i]) \in Nat
             /\ Len(records[i]) <= Len(records'[i])
             /\ \A j \in 1..Len(records[i]) : records'[i][j] = records[i][j]
  <2>1. CASE i = cur[p]
    <3>1. Len(r) + 1 \in Nat /\ Len(r) <= Len(r) + 1
      BY <1>2
    <3> QED
      BY <1>2, <1>4, <1>5, <2>1, <3>1
  <2>2. CASE i # cur[p]
    BY <1>5, <2>2
  <2> QED
    BY <2>1, <2>2
<1>7. Grows
  BY <1>3, <1>6 DEF Grows
<1>8. HeapTyped'
  <2>1. Len(r) + 1 \in Nat
    BY <1>2
  <2> QED
    BY <1>3, <1>5, <2>1 DEF Site, AwaitSites, StepSites
<1>9. KeepsOthers(p)
  BY <1>3 DEF KeepsOthers
<1>10. mine'[p] \in 1..Len(records'[cur[p]])
  BY <1>2, <1>3, <1>4, <1>5
<1>11. \A i \in Step : known[p][i] \in Nat /\ known[p][i] <= Len(records'[i])
  <2>1. \A i \in Step : known[p][i] \in Nat
    OBVIOUS
  <2> QED
    BY <1>1, <1>6, <2>1
<1>12. KnowsRecord(p)'
  BY <1>1, <1>3, <1>10, <1>11 DEF KnowsRecord, StartedSites, PatchedSites, TrySites
<1> QED
  BY <1>7, <1>8, <1>9, <1>12 DEF Good

LEMMA GoodRun == ASSUME HeapInv, NEW p \in Proc, RunInMemory(p) PROVE Good(p)
BY GoodAsBefore, GoodAwaits, GoodReturns, GoodRejects, GoodReturn, GoodReads, GoodWrites,
   GoodCompensates, GoodPushes DEF RunInMemory

\* Recovery and the application come and go beside the heap.
LEMMA HeapNext ==
    ASSUME HeapInv, [MemoryNext]_memoryVars
    PROVE  HeapInv'
<1>1. ASSUME NEW p \in Proc, RunInMemory(p) PROVE HeapInv'
  BY <1>1, GoodRun, OthersKnow
<1>2. \A i \in Step : Len(records[i]) \in Nat
  BY DEF HeapInv, HeapTyped
<1>3. ASSUME NEW p \in Proc, NEW site \in {"setRunning", "getSaga"},
             pc' = [pc EXCEPT ![p] = site], UNCHANGED <<cur, pushed, records, mine, known, context>>
      PROVE  HeapInv'
  <2>1. /\ pc' \in [Proc -> Site] /\ pc'[p] = site
        /\ \A q \in Proc \ {p} : pc'[q] = pc[q]
    BY <1>3 DEF HeapInv, HeapTyped, Site, AwaitSites, StartSites
  <2>2. HeapTyped'
    BY <1>3, <2>1 DEF HeapInv, HeapTyped
  <2>3. KnowsRecord(p)'
    BY <1>3, <2>1
       DEF HeapInv, KnowsRecord, CurSites, RecordSites, StartedSites, PatchedSites,
           StepSites, TrySites, CatchSites, UndoSites
  <2>4. \A q \in Proc \ {p} : KnowsRecord(q)'
    BY <1>3, <2>1 DEF HeapInv, KnowsRecord
  <2> QED
    BY <2>2, <2>3, <2>4 DEF HeapInv
<1>4. CASE Begin
  <2>1. /\ pc' = [pc EXCEPT ![Caller] = "setRunning"]
        /\ UNCHANGED <<cur, pushed, records, mine, known, context>>
    BY <1>4 DEF Begin, Create, Goto, locals, heap
  <2> QED
    BY <1>3, <2>1 DEF Proc
<1>5. ASSUME NEW p \in Workers, TakeSaga(p) PROVE HeapInv'
  <2>1. /\ pc' = [pc EXCEPT ![p] = "getSaga"]
        /\ UNCHANGED <<cur, pushed, records, mine, known, context>>
    BY <1>5 DEF TakeSaga, Goto, locals, heap, store
  <2> QED
    BY <1>3, <2>1 DEF Proc
<1>6. CASE UNCHANGED <<pc, cur, pushed, records, mine, known, context>>
  BY <1>6 DEF HeapInv, HeapTyped, KnowsRecord
<1>7. ASSUME NEW p \in Workers, DropLease(p) PROVE HeapInv'
  BY <1>6, <1>7 DEF DropLease, ReleaseSaga, vars, locals, heap, store
<1>8. ASSUME NEW call \in Call, CompletesLater(call) PROVE HeapInv'
  BY <1>6, <1>8 DEF CompletesLater, CompletesLate, locals, heap, store
<1>9. CASE ResumeShared
  <2>1. /\ pc' = [pc EXCEPT ![Caller] = "getSaga"]
        /\ UNCHANGED <<cur, pushed, records, mine, known, context>>
    BY <1>9 DEF ResumeShared, Resume, Goto, locals, heap, store
  <2> QED
    BY <1>3, <2>1 DEF Proc
<1>10. CASE UNCHANGED memoryVars
  BY <1>6, <1>10 DEF memoryVars, leaseVars, vars, locals, heap, store
<1>11. CASE Lapse
  BY <1>6, <1>11 DEF Lapse, Expire, vars, locals, heap, store
<1> QED
  BY <1>1, <1>4, <1>5, <1>7, <1>8, <1>9, <1>10, <1>11 DEF MemoryNext

-----------------------------------------------------------------------------
(* Patches. *)

\* Who writes records.
LEMMA RecordWriters ==
    ASSUME NEW p \in Proc, RunInMemory(p)
    PROVE  \/ UNCHANGED records
           \/ PushRecord(p) \/ RunRecord(p) \/ CompleteRecord(p) \/ FailRecord(p)
           \/ CompensateRecord(p)
BY DEF RunInMemory, ShareInstance, ListSteps, FindRecord, StartStep, ActionReturns,
       ContextSaved, FinishStep, FailStep, CompensationReturns, AsBefore, Return,
       PublisherRejects, Forget, Patch, heap

\* A record that is COMPLETED was so before, or is the one whose step p has
\* just completed.
LEMMA NewlyCompleted ==
    ASSUME HeapInv, NEW p \in Proc, RunInMemory(p), NEW i \in Step,
           NEW k \in 1..Len(records'[i]), records'[i][k] = "COMPLETED"
    PROVE  \/ k \in 1..Len(records[i]) /\ records[i][k] = "COMPLETED"
           \/ i = cur[p] /\ pc[p] = "setStepCompleted"
<1> USE DEF HeapInv, HeapTyped
<1>1. CASE UNCHANGED records
  BY <1>1
<1>2. CASE PushRecord(p)
  <2>1. cur[p] \in Step
    BY <1>2 DEF PushRecord, KnowsRecord, CurSites, StepSites
  <2>2. records' = [records EXCEPT ![cur[p]] = Append(records[cur[p]], "PENDING")]
    BY <1>2 DEF PushRecord
  <2>3. i # cur[p] => records'[i] = records[i]
    BY <2>2
  <2>4. i = cur[p] => records'[i] = Append(records[i], "PENDING")
    BY <2>1, <2>2
  <2>5. records[i] \in Seq(StepStatus)
    OBVIOUS
  <2>6. CASE i = cur[p]
    <3>1. \A r \in Seq(StepStatus) : \A j \in 1..Len(Append(r, "PENDING")) :
              Append(r, "PENDING")[j] = "COMPLETED" => j \in 1..Len(r) /\ r[j] = "COMPLETED"
      BY ONLY TRUE
    <3> QED
      BY <2>4, <2>5, <2>6, <3>1
  <2> QED
    BY <2>3, <2>6
<1>3. ASSUME NEW j, NEW s \in StepStatus \ {"PENDING"}, cur[p] \in Step,
             j \in 1..Len(records[cur[p]]), SetRecord(p, j, s), UNCHANGED context,
             s = "COMPLETED" => pc[p] = "setStepCompleted"
      PROVE  \/ k \in 1..Len(records[i]) /\ records[i][k] = "COMPLETED"
             \/ i = cur[p] /\ pc[p] = "setStepCompleted"
  <2>1. k \in 1..Len(records[i])
    BY <1>3, RecordWritten
  <2>2. records'[i][k] = IF i = cur[p] /\ k = j THEN s ELSE records[i][k]
    BY <1>3, <2>1, RecordWritten
  <2> QED
    BY <1>3, <2>1, <2>2
<1>4. CASE RunRecord(p) \/ CompleteRecord(p) \/ FailRecord(p)
  <2>1. PICK s \in {"RUNNING", "FAILED", "COMPLETED"} :
            SetRecord(p, mine[p], s) /\ (s = "COMPLETED" => pc[p] = "setStepCompleted")
    BY <1>4 DEF RunRecord, FailRecord, CompleteRecord
  <2>2. pc[p] \in {"setStepRunning", "setStepFailed", "setStepCompleted"} /\ UNCHANGED context
    BY <1>4 DEF RunRecord, FailRecord, CompleteRecord, Publish, store
  <2>3. cur[p] \in Step /\ mine[p] \in 1..Len(records[cur[p]])
    BY <2>2 DEF KnowsRecord, CurSites, RecordSites, StepSites, CatchSites, TrySites
  <2> QED
    BY <1>3, <2>1, <2>2, <2>3 DEF StepStatus
<1>5. CASE CompensateRecord(p)
  <2>1. cur[p] \in Step /\ UNCHANGED context
    BY <1>5 DEF CompensateRecord, KnowsRecord, CurSites, UndoSites, store
  <2>2. CASE records[cur[p]] # <<>>
    <3>1. SetRecord(p, 1, "COMPENSATED") /\ 1 \in 1..Len(records[cur[p]])
      BY <1>5, <2>1, <2>2 DEF CompensateRecord
    <3> QED
      BY <1>3, <2>1, <3>1 DEF StepStatus
  <2> QED
    BY <1>1, <1>5, <2>2 DEF CompensateRecord
<1> QED
  BY <1>1, <1>2, <1>4, <1>5, RecordWriters

LEMMA PatchesRun ==
    ASSUME HeapInv, NoPatchLost, NEW p \in Proc, RunInMemory(p)
    PROVE  NoPatchLost'
<1>1. context \subseteq context'
  BY GoodRun DEF Good, Grows
<1>2. ASSUME NEW i \in Step, <<"do", i>> \in Patching, NEW k \in 1..Len(records'[i]),
             records'[i][k] = "COMPLETED"
      PROVE  <<"do", i>> \in context
  <2>1. CASE k \in 1..Len(records[i]) /\ records[i][k] = "COMPLETED"
    BY <1>2, <2>1 DEF NoPatchLost
  <2>2. CASE i = cur[p] /\ pc[p] = "setStepCompleted"
    BY <1>2, <2>2 DEF HeapInv, KnowsRecord, PatchedSites
  <2> QED
    BY <1>2, <2>1, <2>2, NewlyCompleted
<1> QED
  BY <1>1, <1>2 DEF NoPatchLost

-----------------------------------------------------------------------------
(* Effects. *)

LEMMA HeapWorldWriters ==
    ASSUME NEW p \in Proc, RunInMemory(p)
    PROVE  \/ UNCHANGED world
           \/ /\ pc[p] = "action"
              /\ effects' \subseteq effects \cup {cur[p]}
              /\ late' \subseteq late \cup {<<"do", cur[p]>>}
           \/ /\ effects' \subseteq effects
              /\ late' \subseteq late \cup {<<"undo", cur[p]>>}
<1>1. CASE ActionReturns(p)
  BY <1>1 DEF ActionReturns, Patch
<1>2. CASE CompensationReturns(p)
  BY <1>2 DEF CompensationReturns, Patch
<1>3. CASE AsBefore(p)
  BY <1>3 DEF AsBefore, SetRunning, SagaStarted, ActionFails, ActionTimesOut,
         SetCompleted, SetFailed, SetCompensating, CompensationStarted, NextUndo,
         CompensationFails, CompensationTimesOut, SetCompensationFailed,
         CompensationFailed, SetCompensated, CompensationCompleted, WriteStatus,
         Announce, Publish, world
<1>4. CASE ShareInstance(p) \/ ContextSaved(p) \/ RunRecord(p) \/ FailRecord(p)
  BY <1>4 DEF ShareInstance, ContextSaved, RunRecord, FailRecord, Publish
<1>5. CASE ListSteps(p) \/ FindRecord(p) \/ PushRecord(p)
  BY <1>5 DEF ListSteps, FindRecord, PushRecord
<1>6. CASE CompleteRecord(p) \/ CompensateRecord(p)
  BY <1>6 DEF CompleteRecord, CompensateRecord
<1>7. CASE StartStep(p) \/ FinishStep(p) \/ FailStep(p)
  BY <1>7 DEF StartStep, FinishStep, FailStep, StepStarted, StepCompleted, SagaFailed,
         Announce
<1>8. CASE Return(p) \/ PublisherRejects(p)
  BY <1>8 DEF Return, SagaCompleted, ReadBack, PublisherRejects, Reject, Thrown
<1> QED
  BY <1>1, <1>2, <1>3, <1>4, <1>5, <1>6, <1>7, <1>8 DEF RunInMemory

\* A record that tells that the step was started goes on to tell it.
LEMMA TellsOn ==
    ASSUME HeapInv, NEW p \in Proc, Good(p), NEW i \in Step,
           \E k \in 1..Len(records[i]) : records[i][k] # "PENDING"
    PROVE  \E k \in 1..Len(records'[i]) : records'[i][k] # "PENDING"
<1>1. PICK k \in 1..Len(records[i]) : records[i][k] # "PENDING"
  OBVIOUS
<1>2. Len(records[i]) \in Nat /\ Len(records'[i]) \in Nat
  BY DEF HeapInv, HeapTyped, Good
<1>3. Len(records[i]) <= Len(records'[i]) /\ records'[i][k] # "PENDING"
  BY <1>1 DEF Good, Grows
<1> QED
  BY <1>2, <1>3

LEMMA EffectsRun ==
    ASSUME HeapInv, EffectsAreRecorded, NEW p \in Proc, RunInMemory(p)
    PROVE  EffectsAreRecorded'
<1>1. SUFFICES ASSUME NEW i \in Step, i \in effects' \/ <<"do", i>> \in late'
               PROVE  \E k \in 1..Len(records[i]) : records[i][k] # "PENDING"
  BY GoodRun, TellsOn DEF EffectsAreRecorded
<1>2. CASE i \in effects \/ <<"do", i>> \in late
  BY <1>2 DEF EffectsAreRecorded
<1>3. CASE pc[p] = "action" /\ i = cur[p]
  BY <1>3 DEF HeapInv, KnowsRecord, RecordSites, StartedSites
<1>4. /\ i \in effects' => i \in effects \/ (pc[p] = "action" /\ i = cur[p])
      /\ <<"do", i>> \in late' =>
             <<"do", i>> \in late \/ (pc[p] = "action" /\ i = cur[p])
  <2>1. <<"do", i>> = <<"do", cur[p]>> => i = cur[p]
    OBVIOUS
  <2>2. <<"do", i>> # <<"undo", cur[p]>>
    OBVIOUS
  <2>3. CASE UNCHANGED world
    BY <2>3 DEF world
  <2>4. CASE /\ pc[p] = "action"
             /\ effects' \subseteq effects \cup {cur[p]}
             /\ late' \subseteq late \cup {<<"do", cur[p]>>}
    BY <2>1, <2>4
  <2>5. CASE effects' \subseteq effects /\ late' \subseteq late \cup {<<"undo", cur[p]>>}
    BY <2>2, <2>5
  <2> QED
    BY <2>3, <2>4, <2>5, HeapWorldWriters
<1> QED
  BY <1>1, <1>2, <1>3, <1>4

-----------------------------------------------------------------------------
LEMMA MemoryInitially == MemoryInit => MemoryInv
<1> SUFFICES ASSUME MemoryInit PROVE MemoryInv
  OBVIOUS
<1>1. Init /\ Typed
  BY InitTyped DEF MemoryInit, LeasedInit
<1>2. HeapTyped
  BY <1>1 DEF MemoryInit, HeapTyped, Typed, TypeOK, LocalsOK
<1>3. \A i \in Step : records[i] = <<>>
  BY DEF MemoryInit
<1>4. \A p \in Proc : KnowsRecord(p)
  BY <1>1, <1>3 DEF MemoryInit, Init, KnowsRecord, CurSites, RecordSites, StartedSites,
         PatchedSites, StepSites, TrySites, CatchSites, UndoSites
<1>5. EffectsAreRecorded /\ NoPatchLost
  BY <1>1, <1>3 DEF Init, EffectsAreRecorded, NoPatchLost
<1> QED
  BY <1>2, <1>4, <1>5 DEF MemoryInv, HeapInv

LEMMA MemoryStep == MemoryInv /\ [MemoryNext]_memoryVars => MemoryInv'
<1> SUFFICES ASSUME MemoryInv, [MemoryNext]_memoryVars
             PROVE  EffectsAreRecorded' /\ NoPatchLost'
  BY HeapNext DEF MemoryInv
<1>1. ASSUME NEW p \in Proc, RunInMemory(p) PROVE EffectsAreRecorded' /\ NoPatchLost'
  BY <1>1, EffectsRun, PatchesRun DEF MemoryInv
<1>2. CASE UNCHANGED <<records, context, effects, late>>
  BY <1>2 DEF MemoryInv, EffectsAreRecorded, NoPatchLost
<1>3. CASE Begin
  BY <1>2, <1>3 DEF Begin, Create, heap, world
<1>4. ASSUME NEW p \in Workers, TakeSaga(p) PROVE EffectsAreRecorded' /\ NoPatchLost'
  BY <1>2, <1>4 DEF TakeSaga, heap, world, store
<1>5. ASSUME NEW p \in Workers, DropLease(p) PROVE EffectsAreRecorded' /\ NoPatchLost'
  BY <1>2, <1>5 DEF DropLease, ReleaseSaga, vars, heap, world, store
<1>6. ASSUME NEW call \in Call, CompletesLater(call)
      PROVE  EffectsAreRecorded' /\ NoPatchLost'
  <2>1. UNCHANGED <<records, context>> /\ call \in late /\ late' \subseteq late
    BY <1>6 DEF CompletesLater, CompletesLate, heap, store
  <2>2. CASE call[1] = "do"
    <3>1. call = <<"do", call[2]>>
      BY <2>2 DEF Call
    <3>2. effects' = effects \cup {call[2]}
      BY <1>6, <2>2 DEF CompletesLater, CompletesLate
    <3> QED
      BY <2>1, <3>1, <3>2 DEF MemoryInv, EffectsAreRecorded, NoPatchLost
  <2>3. CASE call[1] # "do"
    <3>1. effects' \subseteq effects
      BY <1>6, <2>3 DEF CompletesLater, CompletesLate
    <3> QED
      BY <2>1, <3>1 DEF MemoryInv, EffectsAreRecorded, NoPatchLost
  <2> QED
    BY <2>2, <2>3
<1>7. CASE ResumeShared
  BY <1>2, <1>7 DEF ResumeShared, Resume, heap, world, store
<1>8. CASE UNCHANGED memoryVars
  BY <1>2, <1>8 DEF memoryVars, leaseVars, vars, heap, world, store
<1>9. CASE Lapse
  BY <1>2, <1>9 DEF Lapse, Expire, vars, heap, world, store
<1> QED
  BY <1>1, <1>3, <1>4, <1>5, <1>6, <1>7, <1>8, <1>9 DEF MemoryNext

LEMMA AlwaysMemory == MemorySpec => []MemoryInv
BY MemoryInitially, MemoryStep, PTL DEF MemorySpec

\* Write-ahead holds in memory too: however many run the saga at one time,
\* what a step did, or may still do after its timeout, has a record that says
\* it was started.
THEOREM WriteAheadInMemory == MemorySpec => []EffectsAreRecorded
<1>1. MemoryInv => EffectsAreRecorded
  BY DEF MemoryInv
<1> QED
  BY <1>1, AlwaysMemory, PTL

\* The patches of completed steps survive every interleaving of runs that share
\* the stored instance.
THEOREM PatchesSurvive == MemorySpec => []NoPatchLost
<1>1. MemoryInv => NoPatchLost
  BY DEF MemoryInv
<1> QED
  BY <1>1, AlwaysMemory, PTL

-----------------------------------------------------------------------------
(* The leases of the in-memory repository. *)

\* Until a worker takes its own lease again or one runs out under its holder,
\* one poll holds the saga, and the lease in the stored object is its own and
\* good.
HolderLeased ==
    slips = {} =>
        /\ \A p \in holding : live /\ owner = OwnerOf[p]
        /\ \A p, q \in holding : p = q

LEMMA NextHolderLeased == HolderLeased /\ [MemoryNext]_memoryVars => HolderLeased'
<1> SUFFICES ASSUME HolderLeased, [MemoryNext]_memoryVars PROVE HolderLeased'
  OBVIOUS
<1> USE DEF HolderLeased
<1>1. CASE UNCHANGED <<lease, slips>>
  BY <1>1 DEF lease
<1>2. ASSUME NEW p \in Proc, RunInMemory(p) PROVE HolderLeased'
  BY <1>1, <1>2
     DEF RunInMemory, ShareInstance, ListSteps, FindRecord, PushRecord, RunRecord, StartStep,
         ActionReturns, ContextSaved, CompleteRecord, FinishStep, FailRecord, FailStep,
         CompensationReturns, CompensateRecord, AsBefore, Return, PublisherRejects, Patch,
         history
<1>3. CASE Begin \/ ResumeShared \/ \E call \in Call : CompletesLater(call)
  BY <1>1, <1>3 DEF Begin, ResumeShared, CompletesLater, history
<1>4. ASSUME NEW p \in Workers, TakeSaga(p) PROVE HolderLeased'
  BY <1>4 DEF TakeSaga, MayTake
<1>5. ASSUME NEW p \in Workers, DropLease(p) PROVE HolderLeased'
  BY <1>5 DEF DropLease, ReleaseSaga, history
<1>6. CASE UNCHANGED memoryVars
  BY <1>1, <1>6 DEF memoryVars, leaseVars, history
<1>7. CASE Lapse
  BY <1>7 DEF Lapse, Expire
<1> QED
  BY <1>2, <1>3, <1>4, <1>5, <1>6, <1>7 DEF MemoryNext

\* A worker that takes its own good lease again and a lease that runs out under
\* its holder are the only ways in which two polls come to hold a saga.
THEOREM OneHolderOrSlip == MemorySpec => []OneHolderUnlessSlip
<1>1. MemoryInit => HolderLeased
  BY DEF MemoryInit, LeasedInit, HolderLeased
<1>2. HolderLeased => OneHolderUnlessSlip
  BY DEF HolderLeased, OneHolderUnlessSlip
<1> QED
  BY <1>1, <1>2, NextHolderLeased, PTL DEF MemorySpec
-----------------------------------------------------------------------------
(* Spans.  While a step is on, its span is one that onStepComplete or      *)
(* onStepFailed will end, unless the publisher rejects first; SpansEnd is  *)
(* inductive once the values it counts are known to be numbers.            *)

StepOn == {"action", "setStepFailed", "setFailed", "sagaFailed"} \cup TrySites

SpanInv ==
    /\ span \in {"none", "open", "ended"} /\ leaked \in Nat /\ rejects \in Nat
    /\ leaked <= rejects
    /\ span = "open" /\ pc[Caller] \notin StepOn => leaked + 1 <= rejects

SpanKept ==
    /\ UNCHANGED <<tracing, rejects>>
    /\ pc[Caller] \in StepOn => pc'[Caller] \in StepOn

SpanOpened ==
    /\ OpenSpan(Caller) /\ pc[Caller] \notin StepOn
    /\ \/ rejects' = rejects /\ pc'[Caller] \in StepOn
       \/ rejects' = rejects + 1

SpanEnded ==
    /\ span' \in {"none", "ended"} /\ UNCHANGED leaked
    /\ rejects' \in {rejects, rejects + 1}

SpanAtReject == UNCHANGED tracing /\ rejects' = rejects + 1

LEMMA SpanMoves ==
    ASSUME SpanInv, SpanKept \/ SpanOpened \/ SpanEnded \/ SpanAtReject
    PROVE  SpanInv'
<1>1. CASE SpanKept
  BY <1>1 DEF SpanInv, SpanKept, tracing
<1>2. CASE SpanOpened
  <2>1. span' = "open" /\ leaked' = IF span = "open" THEN leaked + 1 ELSE leaked
    BY <1>2 DEF SpanOpened, OpenSpan
  <2>2. CASE span = "open"
    BY <1>2, <2>1, <2>2 DEF SpanInv, SpanOpened
  <2>3. CASE span # "open"
    BY <1>2, <2>1, <2>3 DEF SpanInv, SpanOpened
  <2> QED
    BY <2>2, <2>3
<1>3. CASE SpanEnded
  BY <1>3 DEF SpanInv, SpanEnded
<1>4. CASE SpanAtReject
  BY <1>4 DEF SpanInv, SpanAtReject, tracing
<1> QED
  BY <1>1, <1>2, <1>3, <1>4

\* What the application's own run does to the span.
LEMMA SpansOfCaller ==
    ASSUME HeapInv, SpanInv, RunInMemory(Caller)
    PROVE  SpanInv'
<1> DEFINE c == Caller
<1>1. c \in Proc /\ pc \in [Proc -> Site]
  BY DEF Proc, HeapInv, HeapTyped
<1> SUFFICES SpanKept \/ SpanOpened \/ SpanEnded \/ SpanAtReject
  BY SpanMoves
<1> USE <1>1 DEF SpanKept, StepOn, TrySites, Goto, budget
<1>2. CASE AsBefore(c)
  <2>1. UNCHANGED tracing
    BY <1>2 DEF AsBefore
  <2>2. CASE \/ SetRunning(c) \/ SagaStarted(c) \/ SetCompleted(c) \/ SetFailed(c)
             \/ SetCompensating(c) \/ SetCompensationFailed(c) \/ CompensationFailed(c)
             \/ SetCompensated(c) \/ CompensationCompleted(c)
    BY <2>1, <2>2 DEF SetRunning, SagaStarted, SetCompleted, SetFailed, SetCompensating,
       SetCompensationFailed, CompensationFailed, SetCompensated, CompensationCompleted,
       WriteStatus, Announce, Publish
  <2>3. CASE ActionFails(c) \/ ActionTimesOut(c)
    BY <2>1, <2>3 DEF ActionFails, ActionTimesOut, RetryOr
  <2>4. CASE \/ CompensationStarted(c) \/ NextUndo(c) \/ CompensationFails(c)
             \/ CompensationTimesOut(c)
    BY <2>1, <2>4 DEF CompensationStarted, NextUndo, CompensationFails, CompensationTimesOut,
       RetryOr
  <2> QED
    BY <1>2, <2>2, <2>3, <2>4 DEF AsBefore
<1>3. CASE ShareInstance(c) \/ ContextSaved(c) \/ RunRecord(c) \/ FailRecord(c)
  BY <1>3 DEF ShareInstance, ContextSaved, RunRecord, FailRecord, Publish
<1>4. CASE \/ ListSteps(c) \/ FindRecord(c) \/ PushRecord(c) \/ CompleteRecord(c)
           \/ CompensateRecord(c)
  BY <1>4 DEF ListSteps, FindRecord, PushRecord, CompleteRecord, CompensateRecord
<1>5. CASE ActionReturns(c) \/ CompensationReturns(c)
  BY <1>5 DEF ActionReturns, CompensationReturns, Patch
<1>6. CASE Return(c)
  BY <1>6 DEF Return, SagaCompleted, ReadBack, Leave
<1>7. CASE StartStep(c)
  BY <1>7 DEF StartStep, StepStarted, SpanOpened
<1>8. CASE FinishStep(c) \/ FailStep(c)
  BY <1>8 DEF FinishStep, StepCompleted, FailStep, SagaFailed, Announce, EndSpan, SpanEnded,
     SpanInv
<1>9. CASE PublisherRejects(c)
  <2>1. rejects' = rejects + 1
    BY <1>9 DEF PublisherRejects, Reject, Thrown
  <2>2. CASE pc[c] = "stepStarted"
    BY <1>9, <2>1, <2>2 DEF PublisherRejects, SpanOpened
  <2>3. CASE pc[c] \in {"stepCompleted", "sagaFailed"}
    BY <1>9, <2>1, <2>3 DEF PublisherRejects, EndSpan, SpanEnded, SpanInv
  <2>4. CASE pc[c] \notin {"stepStarted", "stepCompleted", "sagaFailed"}
    BY <1>9, <2>1, <2>4 DEF PublisherRejects, SpanAtReject
  <2> QED
    BY <2>2, <2>3, <2>4
<1> QED
  BY <1>2, <1>3, <1>4, <1>5, <1>6, <1>7, <1>8, <1>9 DEF RunInMemory

\* The executor of a recovery worker has no hooks and no publisher.
LEMMA SpansOfWorkers ==
    ASSUME HeapInv, SpanInv, NEW p \in Proc, p # Caller, RunInMemory(p)
    PROVE  SpanInv'
<1>1. pc'[Caller] = pc[Caller]
  BY GoodRun DEF Good, KeepsOthers, Proc
<1>2. UNCHANGED tracing
  BY DEF RunInMemory, AsBefore, ShareInstance, ContextSaved, RunRecord, FailRecord, ListSteps,
     FindRecord, PushRecord, CompleteRecord, CompensateRecord, ActionReturns,
     CompensationReturns, Patch, Return, StartStep, FinishStep, FailStep, OpenSpan, EndSpan,
     PublisherRejects, tracing
<1>3. UNCHANGED rejects
  <2>1. CASE AsBefore(p)
    BY <2>1 DEF AsBefore, SetRunning, SagaStarted, ActionFails, ActionTimesOut, SetCompleted,
       SetFailed, SetCompensating, CompensationStarted, NextUndo, CompensationFails,
       CompensationTimesOut, SetCompensationFailed, CompensationFailed, SetCompensated,
       CompensationCompleted, WriteStatus, Announce, Publish, budget
  <2>2. CASE \/ ShareInstance(p) \/ ContextSaved(p) \/ RunRecord(p) \/ FailRecord(p)
             \/ ListSteps(p) \/ FindRecord(p) \/ PushRecord(p) \/ CompleteRecord(p)
             \/ CompensateRecord(p) \/ ActionReturns(p) \/ CompensationReturns(p)
    BY <2>2 DEF ShareInstance, ContextSaved, RunRecord, FailRecord, ListSteps, FindRecord,
       PushRecord, CompleteRecord, CompensateRecord, ActionReturns, CompensationReturns,
       Patch, Publish, budget
  <2>3. CASE Return(p) \/ StartStep(p) \/ FinishStep(p) \/ FailStep(p)
    BY <2>3 DEF Return, SagaCompleted, ReadBack, StartStep, StepStarted, FinishStep,
       StepCompleted, FailStep, SagaFailed, Announce, budget
  <2> QED
    BY <2>1, <2>2, <2>3 DEF RunInMemory, PublisherRejects
<1> QED
  BY <1>1, <1>2, <1>3, SpanMoves DEF SpanKept

LEMMA NextSpans == HeapInv /\ SpanInv /\ [MemoryNext]_memoryVars => SpanInv'
<1> SUFFICES ASSUME HeapInv, SpanInv, [MemoryNext]_memoryVars PROVE SpanInv'
  OBVIOUS
<1>1. ASSUME NEW p \in Proc, RunInMemory(p) PROVE SpanInv'
  BY <1>1, SpansOfCaller, SpansOfWorkers
<1>2. CASE UNCHANGED <<tracing, rejects>> /\ (pc[Caller] \in StepOn => UNCHANGED pc)
  BY <1>2, SpanMoves DEF SpanKept
<1>3. CASE Begin \/ ResumeShared
  BY <1>2, <1>3 DEF Begin, Create, ResumeShared, Resume, budget, StepOn, TrySites
<1>4. ASSUME NEW p \in Workers, TakeSaga(p) PROVE SpanInv'
  <2>1. pc'[Caller] = pc[Caller] /\ UNCHANGED <<tracing, rejects>>
    BY <1>4, EnvironmentAssumption DEF TakeSaga, Goto, HeapInv, HeapTyped, Proc
  <2> QED
    BY <2>1, SpanMoves DEF SpanKept
<1>5. ASSUME NEW p \in Workers, DropLease(p) PROVE SpanInv'
  BY <1>2, <1>5 DEF DropLease, ReleaseSaga, vars, budget
<1>6. ASSUME NEW call \in Call, CompletesLater(call) PROVE SpanInv'
  BY <1>2, <1>6 DEF CompletesLater, CompletesLate, budget
<1>7. CASE UNCHANGED memoryVars
  BY <1>2, <1>7 DEF memoryVars, leaseVars, vars, budget
<1>8. CASE Lapse
  BY <1>2, <1>8 DEF Lapse, Expire, vars, budget
<1> QED
  BY <1>1, <1>3, <1>4, <1>5, <1>6, <1>7, <1>8 DEF MemoryNext

\* However often the application resumes its saga and whoever runs it beside
\* it, no span is left open but one for each event its publisher rejected.
THEOREM SpansAreEnded == MemorySpec => []SpansEnd
<1>1. MemoryInit => SpanInv
  BY DEF MemoryInit, LeasedInit, Init, SpanInv
<1>2. SpanInv => SpansEnd
  BY DEF SpanInv, SpansEnd, StepOn
<1>3. MemoryInv => HeapInv
  BY DEF MemoryInv
<1> QED
  BY <1>1, <1>2, <1>3, NextSpans, AlwaysMemory, PTL DEF MemorySpec
-----------------------------------------------------------------------------
(* One record.  As long as no two run the saga at one time, the process    *)
(* that runs it knows all records of the steps to come, only the record it *)
(* is about to set RUNNING is PENDING, and the records of its step besides *)
(* its own are dead.                                                       *)

Dead == {"FAILED", "COMPENSATED"}

OneLive ==
    \A i \in Step : \A h, k \in 1..Len(records[i]) :
        records[i][h] \notin Dead /\ records[i][k] \notin Dead => h = k

FreshSites == {"setStepRunning", "stepStarted", "action", "patchContext", "setStepCompleted"}
LoopSites == {"createStep", "stepCompleted"} \cup FreshSites

\* What getSteps told p of step i is still so.
Listed(p, i) ==
    /\ known[p][i] = Len(records[i])
    /\ \A k \in 1..Len(records[i]) : records[i][k] \in Settled => i \in done[p]

OthersDead(i, k) == \A h \in 1..Len(records[i]) : h # k => records[i][h] \in Dead

LoopKnows(p) ==
    /\ pc[p] = "nextStep" => \A i \in Step : i >= cur[p] => Listed(p, i)
    /\ pc[p] \in LoopSites => \A i \in Step : i > cur[p] => Listed(p, i)
    /\ pc[p] = "createStep" => OthersDead(cur[p], 0)
    /\ pc[p] \in FreshSites => OthersDead(cur[p], mine[p])

PendingIsMine(p) ==
    \A i \in Step : \A k \in 1..Len(records[i]) : records[i][k] = "PENDING" =>
        pc[p] = "setStepRunning" /\ cur[p] = i /\ mine[p] = k

Lone(p) == OneLive /\ LoopKnows(p) /\ PendingIsMine(p)

\* Steps that leave the records, and what p knows of them, alone.
LEMMA LoneMoves ==
    ASSUME HeapInv, NEW p \in Proc, Lone(p), UNCHANGED heap, pc[p] # "setStepRunning",
           pc'[p] \notin {"nextStep", "createStep"},
           pc'[p] \in LoopSites => cur'[p] = cur[p] /\ pc[p] \in LoopSites,
           pc'[p] \in FreshSites => pc[p] \in FreshSites
    PROVE  Lone(p)'
BY DEF Lone, OneLive, LoopKnows, Listed, OthersDead, PendingIsMine, heap, LoopSites

\* Steps that leave the records alone and go where p needs to know nothing.
LEMMA LoneLeaves ==
    ASSUME HeapInv, NEW p \in Proc, Lone(p), UNCHANGED records, pc[p] # "setStepRunning",
           pc'[p] \notin LoopSites \cup {"nextStep"}
    PROVE  Lone(p)'
BY DEF Lone, OneLive, LoopKnows, PendingIsMine, LoopSites

LEMMA LoneAwaits ==
    ASSUME HeapInv, NEW p \in Proc, Lone(p),
           \/ AsBefore(p) \/ ShareInstance(p) \/ StartStep(p) \/ ContextSaved(p)
           \/ ActionReturns(p) \/ CompensationReturns(p) \/ FailStep(p)
    PROVE  Lone(p)'
<1> SUFFICES /\ UNCHANGED heap /\ pc[p] # "setStepRunning"
             /\ pc'[p] \notin {"nextStep", "createStep"}
             /\ pc'[p] \in LoopSites => cur'[p] = cur[p] /\ pc[p] \in LoopSites
             /\ pc'[p] \in FreshSites => pc[p] \in FreshSites
  BY LoneMoves
<1>1. pc \in [Proc -> Site]
  BY DEF HeapInv, HeapTyped
<1> USE <1>1 DEF Goto, LoopSites, FreshSites, locals
<1>2. CASE AsBefore(p)
  <2>1. UNCHANGED heap
    BY <1>2 DEF AsBefore
  <2>2. CASE \/ SetRunning(p) \/ SagaStarted(p) \/ SetCompleted(p) \/ SetFailed(p)
             \/ SetCompensating(p) \/ SetCompensationFailed(p) \/ CompensationFailed(p)
             \/ SetCompensated(p) \/ CompensationCompleted(p)
    BY <2>1, <2>2 DEF SetRunning, SagaStarted, SetCompleted, SetFailed, SetCompensating,
       SetCompensationFailed, CompensationFailed, SetCompensated, CompensationCompleted,
       WriteStatus, Announce, Publish
  <2>3. CASE ActionFails(p) \/ ActionTimesOut(p)
    BY <2>1, <2>3 DEF ActionFails, ActionTimesOut, RetryOr
  <2>4. CASE \/ CompensationStarted(p) \/ NextUndo(p) \/ CompensationFails(p)
             \/ CompensationTimesOut(p)
    BY <2>1, <2>4 DEF CompensationStarted, NextUndo, CompensationFails, CompensationTimesOut,
       RetryOr
  <2> QED
    BY <1>2, <2>2, <2>3, <2>4 DEF AsBefore
<1>3. CASE ShareInstance(p) \/ ContextSaved(p)
  BY <1>3 DEF ShareInstance, ContextSaved, Publish
<1>4. CASE ActionReturns(p) \/ CompensationReturns(p)
  BY <1>4 DEF ActionReturns, CompensationReturns, Patch
<1>5. CASE StartStep(p)
  BY <1>5 DEF StartStep, StepStarted
<1>6. CASE FailStep(p)
  BY <1>6 DEF FailStep, SagaFailed, Announce
<1> QED
  BY <1>2, <1>3, <1>4, <1>5, <1>6

LEMMA LoneEnds ==
    ASSUME HeapInv, NEW p \in Proc, Lone(p), Return(p) \/ PublisherRejects(p)
    PROVE  Lone(p)'
<1>1. pc \in [Proc -> Site]
  BY DEF HeapInv, HeapTyped
<1>2. pc[p] # "setStepRunning"
  BY DEF Return, SagaCompleted, ReadBack, PublisherRejects, PublishSites
<1>3. UNCHANGED records
  BY DEF Return, PublisherRejects, Forget, heap
<1>4. pc'[p] \in {"idle", "setStepFailed", "setCompensationFailed", "readBack"}
  <2>1. CASE Return(p)
    BY <1>1, <2>1 DEF Return, SagaCompleted, ReadBack, Leave
  <2>2. CASE PublisherRejects(p)
    <3>1. \/ Leave(p, "rejected")
          \/ Goto(p, Catcher(pc[p]))
      BY <2>2 DEF PublisherRejects, Reject, Thrown
    <3>2. Catcher(pc[p]) \in {"idle", "setStepFailed", "setCompensationFailed", "readBack"}
      BY DEF Catcher
    <3> QED
      BY <1>1, <3>1, <3>2 DEF Leave, Goto
  <2> QED
    BY <2>1, <2>2
<1> QED
  BY <1>2, <1>3, <1>4, LoneLeaves DEF LoopSites, FreshSites

\* The reads of the loop.
LEMMA LoneReads ==
    ASSUME HeapInv, done \in [Proc -> SUBSET Step], NEW p \in Proc, Lone(p), FinishStep(p) \/ ListSteps(p) \/ FindRecord(p)
    PROVE  Lone(p)'
<1>1. /\ pc \in [Proc -> Site] /\ cur \in [Proc -> 0..(N + 1)] /\ mine \in [Proc -> Nat]
      /\ known \in [Proc -> [Step -> Nat]]
      /\ \A i \in Step : Len(records[i]) \in Nat
      /\ N \in Nat
  BY DefinitionAssumption DEF HeapInv, HeapTyped
<1>2. UNCHANGED records /\ pc[p] \notin FreshSites
  BY DEF FinishStep, StepCompleted, ListSteps, FindRecord, heap, FreshSites
<1>3. OneLive' /\ \A i \in Step : \A k \in 1..Len(records[i]) : records[i][k] # "PENDING"
  BY <1>2 DEF Lone, OneLive, PendingIsMine, FreshSites
<1>4. PendingIsMine(p)'
  BY <1>2, <1>3 DEF PendingIsMine
<1> SUFFICES LoopKnows(p)'
  BY <1>3, <1>4 DEF Lone
<1>5. CASE FinishStep(p)
  <2>1. /\ pc[p] = "stepCompleted" /\ pc'[p] = "nextStep" /\ cur'[p] = cur[p] + 1
        /\ UNCHANGED <<done, known>>
    BY <1>1, <1>5 DEF FinishStep, StepCompleted, Goto, heap
  <2>2. \A i \in Step : i > cur[p] => Listed(p, i)
    BY <2>1 DEF Lone, LoopKnows, LoopSites
  <2>3. \A i \in Step : i >= cur[p] + 1 => i > cur[p]
    BY <1>1 DEF Step
  <2> QED
    BY <1>2, <2>1, <2>2, <2>3 DEF LoopKnows, Listed, LoopSites, FreshSites
<1>6. CASE ListSteps(p)
  <2>1. /\ pc'[p] = "nextStep" /\ p \in Proc
        /\ known' = [known EXCEPT ![p] = [i \in Step |-> Len(records[i])]]
        /\ done' = [done EXCEPT ![p] =
               {i \in Step : \E k \in 1..Len(records[i]) : records[i][k] \in Settled}]
    BY <1>1, <1>6 DEF ListSteps, Goto
  <2>2. \A i \in Step : Listed(p, i)'
    BY <1>1, <1>2, <2>1 DEF Listed
  <2> QED
    BY <2>1, <2>2 DEF LoopKnows, LoopSites, FreshSites
<1>7. CASE FindRecord(p)
  <2>1. /\ pc[p] = "nextStep" /\ UNCHANGED <<done, known>>
        /\ \A i \in Step : i >= cur[p] => Listed(p, i) /\ Listed(p, i)'
    BY <1>2, <1>7 DEF FindRecord, Lone, LoopKnows, Listed
  <2>2. CASE Goto(p, "setCompleted")
    BY <1>1, <2>2 DEF Goto, LoopKnows, LoopSites, FreshSites
  <2>3. CASE cur' = [cur EXCEPT ![p] = cur[p] + 1] /\ UNCHANGED pc
    <3>1. \A i \in Step : i >= cur[p] + 1 => i >= cur[p]
      BY <1>1 DEF Step
    <3> QED
      BY <1>1, <2>1, <2>3, <3>1 DEF LoopKnows, LoopSites, FreshSites
  <2>4. ASSUME cur[p] \in Step \ done[p], UNCHANGED cur,
               NEW k, mine' = [mine EXCEPT ![p] = k], k \in TakenOver(p, cur[p]),
               Goto(p, "setStepRunning")
        PROVE  LoopKnows(p)'
    <3>1. /\ k \in 1..known[p][cur[p]] /\ known[p][cur[p]] = Len(records[cur[p]])
          /\ records[cur[p]][k] = "RUNNING"
      <4>1. cur[p] \in Step /\ cur[p] >= cur[p]
        BY <2>4 DEF Step
      <4>2. known[p][cur[p]] = Len(records[cur[p]])
        BY <2>1, <4>1 DEF Listed
      <4> QED
        BY <2>4, <4>2 DEF TakenOver
    <3>2. OthersDead(cur[p], k)
      BY <2>4, <3>1 DEF Lone, OneLive, OthersDead, Dead
    <3>3. pc'[p] = "setStepRunning" /\ mine'[p] = k /\ cur'[p] = cur[p]
      BY <1>1, <2>4 DEF Goto
    <3>4. OthersDead(cur[p], mine[p])'
      BY <1>2, <3>2, <3>3 DEF OthersDead
    <3>5. \A i \in Step : i > cur[p] => i >= cur[p]
      BY <1>1 DEF Step
    <3> QED
      BY <2>1, <3>3, <3>4, <3>5 DEF LoopKnows, LoopSites, FreshSites
  <2>5. CASE /\ cur[p] \in Step \ done[p] /\ TakenOver(p, cur[p]) = {}
             /\ Goto(p, "createStep") /\ UNCHANGED cur
    <3>1. Listed(p, cur[p])
      BY <1>1, <2>1, <2>5
    <3>2. ASSUME NEW h \in 1..Len(records[cur[p]]) PROVE records[cur[p]][h] \in Dead
      <4>1. records[cur[p]][h] # "RUNNING"
        BY <2>5, <3>1, <3>2 DEF TakenOver, Listed
      <4>2. records[cur[p]][h] \notin Settled
        BY <2>5, <3>1, <3>2 DEF Listed
      <4>3. records[cur[p]][h] # "PENDING"
        BY <1>3, <2>5, <3>2
      <4>4. records[cur[p]][h] \in StepStatus
        BY <2>5, <3>2 DEF HeapInv, HeapTyped
      <4> QED
        BY <4>1, <4>2, <4>3, <4>4 DEF StepStatus, Settled, Dead
    <3>3. pc'[p] = "createStep" /\ cur'[p] = cur[p]
      BY <1>1, <2>5 DEF Goto
    <3>4. OthersDead(cur[p], 0)'
      BY <1>2, <3>2, <3>3 DEF OthersDead
    <3>5. \A i \in Step : i > cur[p] => i >= cur[p]
      BY <1>1 DEF Step
    <3> QED
      BY <2>1, <3>3, <3>4, <3>5 DEF LoopKnows, LoopSites, FreshSites
  <2> QED
    BY <1>7, <2>2, <2>3, <2>4, <2>5 DEF FindRecord
<1> QED
  BY <1>5, <1>6, <1>7

LEMMA LonePushes ==
    ASSUME HeapInv, NEW p \in Proc, Lone(p), PushRecord(p)
    PROVE  Lone(p)'
<1> DEFINE c == cur[p]
           r == records[c]
<1>1. c \in Step /\ pc[p] = "createStep"
  BY DEF PushRecord, HeapInv, KnowsRecord, CurSites, StepSites
<1>2. /\ pc \in [Proc -> Site] /\ mine \in [Proc -> Nat]
      /\ records \in [Step -> Seq(StepStatus)]
      /\ r \in Seq(StepStatus) /\ Len(r) \in Nat /\ c \in Nat
  BY <1>1, DefinitionAssumption DEF HeapInv, HeapTyped, Step
<1>3. /\ records' = [records EXCEPT ![c] = Append(r, "PENDING")]
      /\ mine'[p] = Len(r) + 1 /\ pc'[p] = "setStepRunning"
      /\ UNCHANGED <<cur, known, done>>
  BY <1>2 DEF PushRecord, Goto, locals
<1>4. /\ Len(Append(r, "PENDING")) = Len(r) + 1
      /\ \A k \in 1..Len(r) : Append(r, "PENDING")[k] = r[k]
  BY <1>2
<1>5. \A k \in 1..(Len(r) + 1) : k \in 1..Len(r) \/ k = Len(r) + 1
  BY <1>2
<1>6. /\ records'[c] = Append(r, "PENDING")
      /\ \A i \in Step : i # c => records'[i] = records[i]
  BY <1>1, <1>2, <1>3
<1>7. \A k \in 1..Len(r) : k # 0 /\ r[k] \in Dead
  BY <1>1, <1>2 DEF Lone, LoopKnows, OthersDead
<1>8. \A k \in 1..Len(records'[c]) : k # Len(r) + 1 => records'[c][k] \in Dead
  BY <1>4, <1>5, <1>6, <1>7
<1>9. \A i \in Step : \A k \in 1..Len(records[i]) : records[i][k] # "PENDING"
  BY <1>1 DEF Lone, PendingIsMine
<1>10. OneLive'
  BY <1>6, <1>8 DEF Lone, OneLive
<1>11. PendingIsMine(p)'
  BY <1>3, <1>6, <1>8, <1>9 DEF PendingIsMine, Dead
<1>12. LoopKnows(p)'
  <2>1. OthersDead(cur[p], mine[p])'
    BY <1>3, <1>8 DEF OthersDead
  <2>2. \A i \in Step : i > c => i # c /\ Listed(p, i)
    BY <1>1, <1>2 DEF Lone, LoopKnows, LoopSites
  <2>3. \A i \in Step : i > c => Listed(p, i)'
    BY <1>3, <1>6, <2>2 DEF Listed
  <2> QED
    BY <1>3, <2>1, <2>3 DEF LoopKnows, LoopSites, FreshSites
<1> QED
  BY <1>10, <1>11, <1>12 DEF Lone

LEMMA LoneWrites ==
    ASSUME HeapInv, NEW p \in Proc, Lone(p),
           RunRecord(p) \/ FailRecord(p) \/ CompleteRecord(p)
    PROVE  Lone(p)'
<1> DEFINE c == cur[p]
           m == mine[p]
<1>1. PICK s \in {"RUNNING", "FAILED", "COMPLETED"} :
          /\ SetRecord(p, m, s)
          /\ s = "FAILED" \/ pc[p] \in {"setStepRunning", "setStepCompleted"}
          /\ s = "FAILED" <=> pc[p] = "setStepFailed"
  BY DEF RunRecord, FailRecord, CompleteRecord, Publish
<1>2. /\ pc[p] \in {"setStepRunning", "setStepFailed", "setStepCompleted"}
      /\ UNCHANGED <<context, cur, mine, known, done>>
      /\ pc' \in {[pc EXCEPT ![p] = "stepStarted"], [pc EXCEPT ![p] = "setFailed"],
                  [pc EXCEPT ![p] = "stepCompleted"]}
      /\ pc[p] = "setStepFailed" => pc' = [pc EXCEPT ![p] = "setFailed"]
  BY DEF RunRecord, FailRecord, CompleteRecord, Publish, locals, store, Goto
<1>3. /\ pc'[p] \in {"stepStarted", "setFailed", "stepCompleted"}
      /\ pc[p] = "setStepFailed" => pc'[p] = "setFailed"
  BY <1>2 DEF HeapInv, HeapTyped
<1>4. c \in Step /\ m \in 1..Len(records[c])
  BY <1>2 DEF HeapInv, KnowsRecord, CurSites, RecordSites, StepSites, CatchSites, TrySites
<1>5. /\ \A i \in Step : Len(records'[i]) = Len(records[i])
      /\ \A i \in Step : \A j \in 1..Len(records[i]) :
             records'[i][j] = IF i = c /\ j = m THEN s ELSE records[i][j]
  BY <1>1, <1>2, <1>4, RecordWritten DEF StepStatus
<1>6. pc[p] # "setStepFailed" => OthersDead(c, m) /\ \A i \in Step : i > c => Listed(p, i)
  BY <1>2 DEF Lone, LoopKnows, LoopSites, FreshSites
<1>7. pc[p] # "setStepFailed" => OthersDead(c, m)'
  BY <1>2, <1>4, <1>5, <1>6 DEF OthersDead
<1>8. OneLive'
  <2>1. CASE s = "FAILED"
    BY <1>5, <2>1 DEF Lone, OneLive, Dead
  <2>2. CASE s # "FAILED"
    <3>1. \A j \in 1..Len(records[c]) : j # m => records'[c][j] \in Dead
      BY <1>1, <1>4, <1>5, <1>6, <2>2 DEF OthersDead
    <3>2. \A i \in Step : i # c => \A j \in 1..Len(records[i]) : records'[i][j] = records[i][j]
      BY <1>5
    <3> QED
      BY <1>4, <1>5, <3>1, <3>2 DEF Lone, OneLive
  <2> QED
    BY <2>1, <2>2
<1>9. PendingIsMine(p)'
  <2>1. ASSUME NEW i \in Step, NEW k \in 1..Len(records[i]) PROVE records'[i][k] # "PENDING"
    <3>1. CASE i = c /\ k = m
      BY <1>5, <3>1
    <3>2. CASE ~(i = c /\ k = m)
      BY <1>5, <3>2 DEF Lone, PendingIsMine
    <3> QED
      BY <3>1, <3>2
  <2> QED
    BY <1>5, <2>1 DEF PendingIsMine
<1>10. LoopKnows(p)'
  <2>1. CASE pc[p] = "setStepFailed"
    BY <1>3, <2>1 DEF LoopKnows, LoopSites, FreshSites
  <2>2. CASE pc[p] # "setStepFailed"
    <3>1. \A i \in Step : i > c => i # c
      BY <1>4 DEF Step
    <3>2. \A i \in Step : i > c => Listed(p, i)'
      BY <1>2, <1>5, <1>6, <2>2, <3>1 DEF Listed
    <3> QED
      BY <1>2, <1>3, <1>7, <2>2, <3>2 DEF LoopKnows
  <2> QED
    BY <2>1, <2>2
<1> QED
  BY <1>8, <1>9, <1>10 DEF Lone

LEMMA LoneCompensates ==
    ASSUME HeapInv, NEW p \in Proc, Lone(p), CompensateRecord(p)
    PROVE  Lone(p)'
<1>1. /\ cur[p] \in Step /\ pc[p] = "setStepCompensated" /\ pc'[p] = "nextUndo"
      /\ UNCHANGED context
  BY DEF CompensateRecord, HeapInv, HeapTyped, KnowsRecord, CurSites, UndoSites, Goto, store
<1>2. CASE UNCHANGED records
  BY <1>1, <1>2, LoneLeaves DEF LoopSites, FreshSites
<1>3. CASE records[cur[p]] # <<>>
  <2>1. SetRecord(p, 1, "COMPENSATED") /\ 1 \in 1..Len(records[cur[p]])
    BY <1>1, <1>3 DEF CompensateRecord, HeapInv, HeapTyped
  <2>2. /\ \A i \in Step : Len(records'[i]) = Len(records[i])
        /\ \A i \in Step : \A j \in 1..Len(records[i]) :
               records'[i][j] = IF i = cur[p] /\ j = 1 THEN "COMPENSATED" ELSE records[i][j]
    BY <1>1, <2>1, RecordWritten DEF StepStatus
  <2>3. OneLive'
    BY <2>2 DEF Lone, OneLive, Dead
  <2>4. PendingIsMine(p)'
    BY <1>1, <2>2 DEF Lone, PendingIsMine
  <2> QED
    BY <1>1, <2>3, <2>4 DEF Lone, LoopKnows, LoopSites, FreshSites
<1> QED
  BY <1>2, <1>3 DEF CompensateRecord

LEMMA LoneRun ==
    ASSUME HeapInv, done \in [Proc -> SUBSET Step], NEW p \in Proc, Lone(p), RunInMemory(p) PROVE Lone(p)'
BY LoneAwaits, LoneEnds, LoneReads, LonePushes, LoneWrites, LoneCompensates DEF RunInMemory

-----------------------------------------------------------------------------
(* Until two meet, they come one after the other: a worker takes the saga  *)
(* when no poll holds it, which is when no worker runs it, and the         *)
(* application resumes it when nobody does.                                *)

NonePending == \A i \in Step : \A k \in 1..Len(records[i]) : records[i][k] # "PENDING"

OneAfterAnother ==
    met = {} =>
        /\ Alone /\ OneLive
        /\ \A p \in Proc : pc[p] # "idle" => Lone(p)
        /\ Quiet => NonePending

\* Who runs has a saga to run, and a worker has claimed it.
Entitled == CallHasRow /\ \A p \in Workers : pc[p] # "idle" => p \in holding

DoneTyped == done \in [Proc -> SUBSET Step]

LoneInv == HeapInv /\ DoneTyped /\ Entitled /\ OneAfterAnother

LEMMA RunsNotIdle == ASSUME NEW p \in Proc, RunInMemory(p) PROVE pc[p] # "idle"
<1>1. CASE AsBefore(p)
  BY <1>1 DEF AsBefore, SetRunning, SagaStarted, ActionFails, ActionTimesOut, SetCompleted,
     SetFailed, SetCompensating, CompensationStarted, NextUndo, CompensationFails,
     CompensationTimesOut, SetCompensationFailed, CompensationFailed, SetCompensated,
     CompensationCompleted, WriteStatus, Announce, Publish
<1>2. CASE \/ ShareInstance(p) \/ ContextSaved(p) \/ RunRecord(p) \/ FailRecord(p)
           \/ ListSteps(p) \/ FindRecord(p) \/ PushRecord(p) \/ CompleteRecord(p)
           \/ CompensateRecord(p) \/ ActionReturns(p) \/ CompensationReturns(p)
  BY <1>2 DEF ShareInstance, ContextSaved, RunRecord, FailRecord, ListSteps, FindRecord,
     PushRecord, CompleteRecord, CompensateRecord, ActionReturns, CompensationReturns, Publish
<1>3. CASE \/ Return(p) \/ StartStep(p) \/ FinishStep(p) \/ FailStep(p)
           \/ PublisherRejects(p)
  BY <1>3 DEF Return, SagaCompleted, ReadBack, StartStep, StepStarted, FinishStep,
     StepCompleted, FailStep, SagaFailed, Announce, PublisherRejects, PublishSites
<1> QED
  BY <1>1, <1>2, <1>3 DEF RunInMemory

\* What a run leaves alone, whatever it does.
LEMMA RunLeaves ==
    ASSUME NEW p \in Proc, RunInMemory(p), DoneTyped, HeapInv
    PROVE  /\ UNCHANGED <<lease, history>>
           /\ DoneTyped'
           /\ status # "NONE" => status' # "NONE"
<1>1. CASE AsBefore(p)
  <2>1. UNCHANGED <<lease, history, heap>>
    BY <1>1 DEF AsBefore
  <2>2. status # "NONE" => status' # "NONE"
    BY <1>1 DEF AsBefore, SetRunning, SagaStarted, ActionFails, ActionTimesOut, SetCompleted,
       SetFailed, SetCompensating, CompensationStarted, NextUndo, CompensationFails,
       CompensationTimesOut, SetCompensationFailed, CompensationFailed, SetCompensated,
       CompensationCompleted, WriteStatus, UpdateSagaStatus, Announce, Publish, store
  <2> QED
    BY <2>1, <2>2 DEF DoneTyped, heap
<1>2. CASE \/ ShareInstance(p) \/ ContextSaved(p) \/ RunRecord(p) \/ FailRecord(p)
           \/ FindRecord(p) \/ PushRecord(p) \/ CompleteRecord(p)
           \/ CompensateRecord(p) \/ ActionReturns(p) \/ CompensationReturns(p)
  BY <1>2 DEF ShareInstance, ContextSaved, RunRecord, FailRecord, FindRecord,
     PushRecord, CompleteRecord, CompensateRecord, ActionReturns, CompensationReturns, Patch,
     Publish, store, heap, DoneTyped
<1>3. CASE ListSteps(p)
  BY <1>3 DEF ListSteps, store, DoneTyped
<1>4. CASE StartStep(p) \/ FinishStep(p) \/ FailStep(p)
  BY <1>4 DEF StartStep, StepStarted, FinishStep, StepCompleted, FailStep, SagaFailed,
     Announce, heap, DoneTyped
<1>5. CASE Return(p) \/ PublisherRejects(p)
  BY <1>5 DEF Return, SagaCompleted, ReadBack, PublisherRejects, Reject, Thrown, store, heap, Forget,
     DoneTyped
<1> QED
  BY <1>1, <1>2, <1>3, <1>4, <1>5 DEF RunInMemory

LEMMA OneRuns ==
    ASSUME LoneInv, NEW p \in Proc, RunInMemory(p)
    PROVE  DoneTyped' /\ Entitled' /\ OneAfterAnother'
<1>1. /\ pc[p] # "idle" /\ UNCHANGED <<lease, met>> /\ DoneTyped'
      /\ status' # "NONE"
  BY RunsNotIdle, RunLeaves DEF LoneInv, Entitled, CallHasRow, history
<1>2. \A q \in Proc \ {p} : pc'[q] = pc[q]
  BY GoodRun DEF LoneInv, Good, KeepsOthers
<1>3. Entitled'
  BY <1>1, <1>2 DEF LoneInv, Entitled, CallHasRow, lease, Proc
<1>4. ASSUME met = {} PROVE OneAfterAnother'
  <2>1. Lone(p) /\ \A q \in Proc \ {p} : pc[q] = "idle"
    BY <1>1, <1>4 DEF LoneInv, OneAfterAnother, Alone
  <2>2. Lone(p)'
    BY <2>1, LoneRun DEF LoneInv, DoneTyped
  <2>3. \A q \in Proc \ {p} : pc'[q] = "idle"
    BY <1>2, <2>1
  <2>4. Quiet' => NonePending'
    BY <2>2 DEF Lone, PendingIsMine, Quiet, NonePending
  <2> QED
    BY <2>2, <2>3, <2>4 DEF OneAfterAnother, Alone, Lone
<1> QED
  BY <1>1, <1>3, <1>4 DEF OneAfterAnother

\* Who comes finds nobody there.
LEMMA OneComes ==
    ASSUME LoneInv, NEW p \in Proc, NEW site \in {"setRunning", "getSaga"},
           Goto(p, site), UNCHANGED heap, Quiet
    PROVE  met = {} => OneAfterAnother'
<1> SUFFICES ASSUME met = {} PROVE OneAfterAnother'
  OBVIOUS
<1>1. pc'[p] = site /\ \A q \in Proc \ {p} : pc'[q] = "idle"
  BY DEF Goto, Quiet, LoneInv, HeapInv, HeapTyped
<1>2. OneLive' /\ NonePending'
  BY DEF LoneInv, OneAfterAnother, OneLive, NonePending, heap
<1>3. Lone(p)'
  BY <1>1, <1>2 DEF Lone, LoopKnows, LoopSites, FreshSites, PendingIsMine, NonePending
<1> QED
  BY <1>1, <1>2, <1>3 DEF OneAfterAnother, Alone, Quiet

LEMMA NextLone == LoneInv /\ [MemoryNext]_memoryVars => LoneInv'
<1> SUFFICES ASSUME LoneInv, [MemoryNext]_memoryVars
             PROVE  DoneTyped' /\ Entitled' /\ OneAfterAnother'
  BY HeapNext DEF LoneInv
<1>1. ASSUME NEW p \in Proc, RunInMemory(p) PROVE DoneTyped' /\ Entitled' /\ OneAfterAnother'
  BY <1>1, OneRuns
<1>2. pc \in [Proc -> Site]
  BY DEF LoneInv, HeapInv, HeapTyped
<1>3. CASE Begin
  <2>1. Goto(Caller, "setRunning") /\ UNCHANGED <<heap, lease, met>> /\ status = "NONE"
        /\ status' = "PENDING"
    BY <1>3 DEF Begin, Create, UpdateSagaStatus, history
  <2>2. Quiet
    BY <2>1 DEF LoneInv, Entitled, CallHasRow, Quiet
  <2>3. Entitled'
    BY <1>2, <2>1, EnvironmentAssumption DEF LoneInv, Entitled, CallHasRow, Goto, lease, Proc
  <2>4. met = {} => OneAfterAnother'
    BY <2>1, <2>2, OneComes DEF Proc
  <2> QED
    BY <2>1, <2>3, <2>4 DEF LoneInv, DoneTyped, heap, OneAfterAnother
<1>4. CASE ResumeShared
  <2>1. /\ Goto(Caller, "getSaga") /\ UNCHANGED <<heap, lease, status>> /\ status # "NONE"
        /\ met' = {} => met = {} /\ Quiet
    BY <1>4 DEF ResumeShared, Resume, store
  <2>2. Entitled'
    BY <1>2, <2>1, EnvironmentAssumption DEF LoneInv, Entitled, CallHasRow, Goto, lease, Proc
  <2>3. met' = {} => OneAfterAnother'
    BY <2>1, OneComes DEF Proc
  <2> QED
    BY <2>1, <2>2, <2>3 DEF LoneInv, DoneTyped, heap, OneAfterAnother
<1>5. ASSUME NEW p \in Workers, TakeSaga(p) PROVE DoneTyped' /\ Entitled' /\ OneAfterAnother'
  <2>1. /\ Goto(p, "getSaga") /\ UNCHANGED <<heap, status>> /\ status # "NONE"
        /\ holding' = holding \cup {p}
        /\ met' = {} => met = {} /\ pc[Caller] = "idle" /\ holding = {}
    BY <1>5 DEF TakeSaga, store, Claimable
  <2>2. Entitled'
    BY <1>2, <2>1, EnvironmentAssumption DEF LoneInv, Entitled, CallHasRow, Goto, Proc
  <2>3. met' = {} => met = {} /\ Quiet
    BY <2>1 DEF LoneInv, Entitled, Quiet, Proc
  <2>4. met' = {} => OneAfterAnother'
    BY <2>1, <2>3, OneComes DEF Proc
  <2> QED
    BY <2>1, <2>2, <2>4 DEF LoneInv, DoneTyped, heap, OneAfterAnother
<1>6. CASE UNCHANGED <<pc, cur, heap, met, status>> /\ \A q \in holding : q \in holding' \/ pc[q] = "idle"
  BY <1>6 DEF LoneInv, DoneTyped, Entitled, CallHasRow, OneAfterAnother, Alone, OneLive, Quiet,
     NonePending, Lone, LoopKnows, Listed, OthersDead, PendingIsMine, heap
<1>7. ASSUME NEW p \in Workers, DropLease(p) PROVE DoneTyped' /\ Entitled' /\ OneAfterAnother'
  BY <1>6, <1>7 DEF DropLease, ReleaseSaga, vars, store, locals, history
<1>8. ASSUME NEW call \in Call, CompletesLater(call)
      PROVE  DoneTyped' /\ Entitled' /\ OneAfterAnother'
  BY <1>6, <1>8 DEF CompletesLater, CompletesLate, lease, store, locals, history
<1>9. CASE UNCHANGED memoryVars
  BY <1>6, <1>9 DEF memoryVars, leaseVars, lease, vars, store, locals, history
<1>10. CASE Lapse
  BY <1>6, <1>10 DEF Lapse, Expire, vars, store, locals
<1> QED
  BY <1>1, <1>3, <1>4, <1>5, <1>7, <1>8, <1>9, <1>10 DEF MemoryNext

LEMMA InitLone == MemoryInit => LoneInv
<1> SUFFICES ASSUME MemoryInit PROVE LoneInv
  OBVIOUS
<1>1. HeapInv
  BY MemoryInitially DEF MemoryInv
<1>2. \A i \in Step : records[i] = <<>>
  BY DEF MemoryInit
<1>3. \A p \in Proc : pc[p] = "idle"
  BY DEF MemoryInit, LeasedInit, Init
<1>4. OneLive /\ NonePending
  BY <1>2 DEF OneLive, NonePending
<1>5. DoneTyped /\ Entitled
  BY <1>3 DEF MemoryInit, LeasedInit, DoneTyped, Entitled, CallHasRow, Proc
<1> QED
  BY <1>1, <1>3, <1>4, <1>5 DEF LoneInv, OneAfterAnother, Alone

\* As long as those who run a saga come one after the other, a step has one
\* live record, whatever fails, rejects or is abandoned in between.
THEOREM OneRecordLives == MemorySpec => []OneLiveRecord
<1>1. LoneInv => OneLiveRecord
  BY DEF LoneInv, OneAfterAnother, OneLive, Dead, OneLiveRecord
<1> QED
  BY <1>1, InitLone, NextLone, PTL DEF MemorySpec
=============================================================================
