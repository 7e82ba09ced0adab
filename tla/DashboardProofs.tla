-------------------------- MODULE DashboardProofs --------------------------
(***************************************************************************)
(* What the dashboard's answers say is possible, for any number of sagas:  *)
(* theorems of Dashboard, checked by TLAPS.                                *)
(***************************************************************************)
EXTENDS Dashboard, TLAPS

Row == [status : SagaStatus \cup {"NONE"}, reason : {"none", "step", "compensation"},
        current : BOOLEAN]

\* A step is RUNNING only under a saga that is.
StepUnderRunning(r) == r.current => r.status = "RUNNING"

RowsOK ==
    /\ rows \in [Sagas -> Row]
    /\ \A x \in Sagas \ shared : StepUnderRunning(rows[x])

\* Between the two queries of a page a saga that had ended has not moved, unless
\* it was resumed or shared.
HalfStands ==
    view.kind = "half" =>
        /\ view.saga \in Sagas
        /\ view.row \in Row
        /\ view.row.status \in Terminal /\ view.saga \notin shared \cup reopened =>
               rows[view.saga] = view.row

\* The inductive invariant.
ViewInv == RowsOK /\ HalfStands /\ EndedPageHasNoCurrentStep

\* A statement of the one process that runs a saga writes a row, and no step
\* under an ended saga; a statement of one of several writes a row all the same.
LEMMA MovesKeepRows ==
    ASSUME NEW r \in Row, NEW n \in Life!Moves(r)
    PROVE  n \in Row
<1>1. CASE n \in Life!NextStatus(r)
  BY <1>1 DEF Life!NextStatus, Life!Status, Life!MayEnd, Row, SagaStatus
<1>2. CASE n \in Life!Resumed(r)
  BY <1>2 DEF Life!Resumed, Life!Status, Row, SagaStatus
<1>3. CASE n \in Life!StepMoves(r)
  BY <1>3 DEF Life!StepMoves, Life!Current, Row, SagaStatus
<1> QED
  BY <1>1, <1>2, <1>3 DEF Life!Moves

LEMMA MovesKeepOrder ==
    ASSUME NEW r \in Row, StepUnderRunning(r), NEW n \in Life!Moves(r)
    PROVE  StepUnderRunning(n)
<1>1. CASE n \in Life!NextStatus(r)
  BY <1>1 DEF Life!NextStatus, Life!Status, Life!MayEnd, Row, SagaStatus, StepUnderRunning
<1>2. CASE n \in Life!Resumed(r)
  BY <1>2 DEF Life!Resumed, Life!Status, Row, SagaStatus, StepUnderRunning
<1>3. CASE n \in Life!StepMoves(r)
  BY <1>3 DEF Life!StepMoves, Life!Current, Row, SagaStatus, StepUnderRunning
<1> QED
  BY <1>1, <1>2, <1>3 DEF Life!Moves

LEMMA CrossingsKeepRows ==
    ASSUME NEW r \in Row, NEW n \in Crossed(r)
    PROVE  n \in Row
BY DEF Crossed, ReasonOf, Life!Status, Life!Current, Row, SagaStatus

\* No saga has a row and nobody looks.
LEMMA ViewInitially == Init => ViewInv
BY DEF Init, ViewInv, RowsOK, HalfStands, EndedPageHasNoCurrentStep,
       StepUnderRunning, Row, NoView, Life!NoRow

\* What a statement does to a page: a half whose saga it moves is excused, and
\* an answer that was given stays as it is.
LEMMA StatementKeepsPages ==
    ASSUME RowsOK, HalfStands, EndedPageHasNoCurrentStep,
           NEW x \in Sagas, NEW next, Statement(x, next), shared \subseteq shared'
    PROVE  HalfStands' /\ EndedPageHasNoCurrentStep'
<1>1. /\ UNCHANGED view
      /\ reopened \subseteq reopened'
      /\ \A y \in Sagas : y # x => rows'[y] = rows[y]
      /\ view.kind = "half" /\ rows[x].status \in Terminal => x \in reopened'
  BY DEF Statement, RowsOK
<1>2. HalfStands'
  <2>1. SUFFICES ASSUME view.kind = "half", view.row.status \in Terminal,
                        view.saga \notin shared' \cup reopened'
                 PROVE  rows'[view.saga] = view.row
    BY <1>1 DEF HalfStands
  <2>2. view.saga \in Sagas /\ rows[view.saga] = view.row
    BY <1>1, <2>1 DEF HalfStands
  <2>3. view.saga # x
    BY <1>1, <2>1, <2>2
  <2> QED
    BY <1>1, <2>2, <2>3
<1>3. EndedPageHasNoCurrentStep'
  BY <1>1 DEF EndedPageHasNoCurrentStep
<1> QED
  BY <1>2, <1>3

\* Every step keeps the invariant.
LEMMA ViewStep == ViewAssumption /\ ViewInv /\ [Next]_vars => ViewInv'
<1> SUFFICES ASSUME ViewAssumption, ViewInv, [Next]_vars PROVE ViewInv'
  OBVIOUS
<1> USE DEF ViewInv
<1>1. ASSUME NEW x \in Sagas, SagaMoves(x) PROVE ViewInv'
  <2>1. PICK n \in Life!Moves(rows[x]) : Statement(x, n)
    BY <1>1 DEF SagaMoves
  <2>2. UNCHANGED shared /\ rows' = [rows EXCEPT ![x] = n]
    BY <1>1, <2>1 DEF SagaMoves, Statement
  <2>3. rows[x] \in Row /\ n \in Row
    BY MovesKeepRows DEF RowsOK
  <2>4. x \notin shared => StepUnderRunning(n)
    BY <2>3, MovesKeepOrder DEF RowsOK
  <2>5. RowsOK'
    BY <2>2, <2>3, <2>4 DEF RowsOK, StepUnderRunning
  <2> QED
    BY <2>1, <2>2, <2>5, StatementKeepsPages
<1>2. ASSUME NEW x \in Sagas, SagaCrosses(x) PROVE ViewInv'
  <2>1. PICK n \in Crossed(rows[x]) : Statement(x, n)
    BY <1>2 DEF SagaCrosses
  <2>2. shared' = shared \cup {x} /\ rows' = [rows EXCEPT ![x] = n]
    BY <1>2, <2>1 DEF SagaCrosses, Statement
  <2>3. n \in Row
    BY CrossingsKeepRows DEF RowsOK
  <2>4. RowsOK'
    BY <2>2, <2>3 DEF RowsOK, StepUnderRunning
  <2> QED
    BY <2>1, <2>2, <2>4, StatementKeepsPages
<1>3. ASSUME NEW x \in Viewed, ListSagas(x) PROVE ViewInv'
  BY <1>3 DEF ViewAssumption, ListSagas, database, Terminal, RowsOK, HalfStands, StepUnderRunning,
              EndedPageHasNoCurrentStep
<1>4. ASSUME NEW x \in Viewed, GetSaga(x) PROVE ViewInv'
  BY <1>4 DEF ViewAssumption, GetSaga, RowsOK, HalfStands, StepUnderRunning,
              EndedPageHasNoCurrentStep
<1>5. CASE GetSagaSteps
  <2>1. view.kind = "half" /\ view'.kind = "detail" /\ view'.saga = view.saga
        /\ UNCHANGED <<rows, shared, reopened>>
    BY <1>5 DEF GetSagaSteps, database
  <2>2. /\ view.saga \in Sagas
        /\ view.row \in Row
        /\ view.row.status \in Terminal /\ view.saga \notin shared \cup reopened =>
               rows[view.saga] = view.row
    BY <2>1 DEF HalfStands
  <2>3. view'.row = [view.row EXCEPT !.current = rows[view.saga].current]
    BY <1>5 DEF GetSagaSteps, StepsLast
  <2>4. view'.row.status = view.row.status /\ view'.row.current = rows[view.saga].current
    BY <2>2, <2>3 DEF Row
  <2>5. EndedPageHasNoCurrentStep'
    BY <2>1, <2>2, <2>4 DEF RowsOK, StepUnderRunning, Terminal, EndedPageHasNoCurrentStep
  <2> QED
    BY <2>1, <2>5 DEF RowsOK, HalfStands, StepUnderRunning
<1>6. CASE UNCHANGED <<rows, shared, reopened, view>>
  BY <1>6 DEF RowsOK, HalfStands, StepUnderRunning, EndedPageHasNoCurrentStep
<1> QED
  BY <1>1, <1>2, <1>3, <1>4, <1>5, <1>6
     DEF Next, Query, Answered, SetGauges, QueryRejects, vars, database

\* Neither the list nor a detail page, read in two queries, ever shows a saga that
\* has ended with a step that is running, but for a saga that two processes ran at
\* one time and, on a detail page, one that its application resumed after its end
\* between the two queries.
THEOREM PagesOfEndedSagas == Spec => []EndedPageHasNoCurrentStep
<1>1. Spec => []ViewInv
  BY ViewInitially, ViewStep, ViewAssumption, PTL DEF Spec
<1> QED
  BY <1>1, PTL DEF ViewInv

=============================================================================
