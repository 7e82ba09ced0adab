----------------------------- MODULE Dashboard ------------------------------
(***************************************************************************)
(* The dashboard's API over the rows of several sagas: the list and the    *)
(* detail page of SagasService, and the gauges of MetricsService, whose    *)
(* refreshes meet (one every ten seconds, one for every scrape).  A query  *)
(* sees the rows at one moment and is answered at a later one.  A saga      *)
(* moves as SagaRows allows, reopened by its application whenever it likes, *)
(* until two processes run it at one time: then as either of them writes.  *)
(* Reads change nothing that other reads see, so a behaviour has the pages *)
(* or the gauges, not both.                                                *)
(***************************************************************************)
EXTENDS Naturals, FiniteSets, Functions

CONSTANTS
    Sagas,
    Viewed,         \* the sagas whose page is opened
    Refreshes,      \* the calls of refreshMetrics that may be under way at once
    MaxMoves        \* client -> bound on the statements of the sagas: then they
                    \* have stopped

ASSUME ViewAssumption == Viewed \subseteq Sagas /\ MaxMoves \in [{"pages", "metrics"} -> Nat]

SagaStatus == {"PENDING", "RUNNING", "COMPLETED", "FAILED",
               "COMPENSATING", "COMPENSATED", "COMPENSATION_FAILED"}
Terminal == {"COMPLETED", "COMPENSATED", "COMPENSATION_FAILED"}

VARIABLES
    rows,           \* saga -> what its rows show
    moves,          \* how many statements the sagas have issued
    shared,         \* history: the sagas that two processes ran at one time
    reopened,       \* history: the sagas that were resumed after their end
                    \* between the two queries of the page
    client,         \* who reads: "pages" or "metrics"
    serving,        \* "starting", "up", or "down": the program did not start
    view,           \* the last answer of the API, or the half of one
    reading,        \* the calls of refreshMetrics whose query was answered
    result,         \* call -> status -> its count, 0 when it has no row
    gauge,          \* sagaByStatus
    total           \* sagaTotal

\* resume sets RUNNING whatever the status was.
Life == INSTANCE SagaRows WITH Resumable <- SagaStatus, row <- rows

database == <<rows, moves, shared, reopened>>
metrics  == <<serving, reading, result, gauge, total>>
vars     == <<database, client, view, metrics>>

NoCounts == [s \in SagaStatus |-> 0]
NoView   == [kind |-> "none"]

Init ==
    /\ rows = [x \in Sagas |-> Life!NoRow]
    /\ moves = 0
    /\ shared = {}
    /\ reopened = {}
    /\ client \in {"pages", "metrics"}
    /\ serving = IF client = "metrics" THEN "starting" ELSE "up"
    /\ view = NoView
    /\ reading = {}
    /\ result = [k \in Refreshes |-> NoCounts]
    /\ gauge = NoCounts
    /\ total = 0

\* The next statement at saga x; no page reads the rows of the others.
Statement(x, next) ==
    /\ client = "pages" => x \in Viewed
    /\ moves < MaxMoves[client]
    /\ moves' = moves + 1
    /\ rows' = [rows EXCEPT ![x] = next]
    /\ reopened' = IF view.kind = "half" /\ rows[x].status \in Terminal
                      THEN reopened \cup {x} ELSE reopened
    /\ UNCHANGED <<client, view, metrics>>

\* One process at a time runs the saga.
SagaMoves(x) ==
    /\ \E next \in Life!Moves(rows[x]) : Statement(x, next)
    /\ UNCHANGED shared

\* What execute and compensate write for each status.
ReasonOf(s) ==
    CASE s = "FAILED" -> "step" [] s = "COMPENSATION_FAILED" -> "compensation" [] OTHER -> "none"

\* Two processes run the saga, for nothing in execute prevents it: a statement
\* of one falls anywhere between those of the other.
Crossed(r) == {Life!Status(r, s, ReasonOf(s)) : s \in SagaStatus \ {"PENDING"}}
                 \cup {Life!Current(r, c) : c \in BOOLEAN}

SagaCrosses(x) ==
    /\ rows[x].status # "NONE"
    /\ \E next \in Crossed(rows[x]) : Statement(x, next)
    /\ shared' = shared \cup {x}

-----------------------------------------------------------------------------
(* SagasService. *)

\* Wrong on purpose: the steps are queried before the saga.
StatusLast(h) == [h.row EXCEPT !.status = rows[h.saga].status, !.reason = rows[h.saga].reason]

\* What the second query adds to the first: the steps as they are by then.
StepsLast(h) == [h.row EXCEPT !.current = rows[h.saga].current]

\* The list is one statement: a saga's status and current step are of the same
\* moment.
ListSagas(x) ==
    /\ client = "pages"
    /\ rows[x].status # "NONE"
    /\ view.kind # "half"
    /\ view' = [kind |-> "list", saga |-> x, row |-> rows[x]]
    /\ UNCHANGED <<database, client, metrics>>

\* The detail page queries the saga first; without one it answers at once.
GetSaga(x) ==
    /\ client = "pages"
    /\ rows[x].status # "NONE"
    /\ view.kind # "half"
    /\ view' = [kind |-> "half", saga |-> x, row |-> rows[x]]
    /\ reopened' = {}
    /\ UNCHANGED <<rows, moves, shared, client, metrics>>

GetSagaSteps ==
    /\ view.kind = "half"
    /\ view' = [kind |-> "detail", saga |-> view.saga, row |-> StepsLast(view)]
    /\ UNCHANGED <<database, client, metrics>>

-----------------------------------------------------------------------------
(* MetricsService. *)

Counts == [s \in SagaStatus |-> Cardinality({x \in Sagas : rows[x].status = s})]

SumOf(counts) == FoldFunction(+, 0, counts)

\* Wrong on purpose: a label is written once only.
LabelledOnce(counts) == [s \in SagaStatus |-> IF gauge[s] > 0 THEN gauge[s] ELSE counts[s]]

\* GROUP BY gives no row for a status without sagas, whose gauge stays.
Labelled(counts) == [s \in SagaStatus |-> IF counts[s] > 0 THEN counts[s] ELSE gauge[s]]

\* A call of refreshMetrics.  onModuleInit awaits one before it starts the
\* interval, and nothing listens for scrapes before that.
Query(k) ==
    /\ client = "metrics"
    /\ serving = "starting" => reading = {}
    /\ serving # "down"
    /\ k \notin reading
    /\ reading' = reading \cup {k}
    /\ result' = [result EXCEPT ![k] = Counts]
    /\ UNCHANGED <<database, client, serving, view, gauge, total>>

\* The call of refreshMetrics has ended.
Answered(k, next) ==
    /\ k \in reading
    /\ reading' = reading \ {k}
    /\ result' = [result EXCEPT ![k] = NoCounts]
    /\ serving' = IF serving = "starting" THEN next ELSE serving
    /\ UNCHANGED <<database, client, view>>

\* The answer arrives; both gauges are set without another await.
SetGauges(k) ==
    /\ Answered(k, "up")
    /\ total' = SumOf(result[k])
    /\ gauge' = Labelled(result[k])

\* The query rejects: the first one keeps the program from starting, the
\* interval logs a later one, the scrape fails.
QueryRejects(k) ==
    /\ Answered(k, "down")
    /\ UNCHANGED <<gauge, total>>

Next ==
    \/ \E x \in Sagas : SagaMoves(x) \/ SagaCrosses(x)
    \/ \E x \in Viewed : ListSagas(x) \/ GetSaga(x)
    \/ GetSagaSteps
    \/ \E k \in Refreshes : Query(k) \/ SetGauges(k) \/ QueryRejects(k)

Spec == Init /\ [][Next]_vars

\* The interval goes on, and the database does not reject for ever.
FairSpec ==
    /\ Spec
    /\ \A k \in Refreshes : WF_vars(Query(k)) /\ SF_vars(SetGauges(k))

-----------------------------------------------------------------------------
\* A page, torn between two queries or not, does not show a saga that has ended
\* with a step that is running: execute writes the step before the saga,
\* getSaga reads the saga first.  The exceptions are a saga that was resumed
\* after its end between the two queries, and one that two processes ran at
\* one time, whose rows may say so themselves.
EndedPageHasNoCurrentStep ==
    view.kind \in {"list", "detail"} /\ view.row.status \in Terminal /\ view.row.current =>
        \/ view.saga \in shared
        \/ view.kind = "detail" /\ view.saga \in reopened

\* When the sagas have stopped the gauges become right and stay so, however
\* many refreshes were overtaken by others: the total, and the gauge of every
\* status that a saga has.  Unless the first refresh of all was rejected.
GaugesRight ==
    /\ total = Cardinality({x \in Sagas : rows[x].status # "NONE"})
    /\ \A s \in SagaStatus : Counts[s] > 0 => gauge[s] = Counts[s]

GaugesHeal == client = "metrics" => <>[](GaugesRight \/ serving = "down")
=============================================================================
