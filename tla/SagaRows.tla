------------------------------ MODULE SagaRows ------------------------------
(***************************************************************************)
(* The life of a saga as those see it who only read its rows: its status   *)
(* with the reason of a failure, and whether one of its steps is RUNNING.  *)
(* SagaExecutor is shown to implement it; Dashboard reads many of it.      *)
(***************************************************************************)

CONSTANT Resumable      \* the statuses from which a saga may be set RUNNING

VARIABLE row

NoRow == [status |-> "NONE", reason |-> "none", current |-> FALSE]

\* updateSagaStatus: the reason is written with every status.
Status(r, s, why) == [r EXCEPT !.status = s, !.reason = why]

\* updateStepStatus, seen as "is a step RUNNING?".
Current(r, c) == [r EXCEPT !.current = c]

\* A saga is COMPLETED or FAILED only when no step is RUNNING.
MayEnd(r) == ~r.current

\* The status that may come next.
NextStatus(r) ==
    CASE r.status = "NONE"         -> {Status(r, "PENDING", "none")}
      [] r.status = "RUNNING"      -> {n \in {Status(r, "COMPLETED", "none"),
                                              Status(r, "FAILED", "step")} : MayEnd(r)}
      [] r.status = "FAILED"       -> {Status(r, "COMPENSATING", "none")}
      [] r.status = "COMPENSATING" -> {Status(r, "COMPENSATED", "none"),
                                       Status(r, "COMPENSATION_FAILED", "compensation")}
      [] OTHER                     -> {}

\* What a crash interrupted is set RUNNING again; its step may be RUNNING still.
Resumed(r) == IF r.status \in Resumable THEN {Status(r, "RUNNING", "none")} ELSE {}

StepMoves(r) == IF r.status = "RUNNING" THEN {Current(r, ~r.current)} ELSE {}

Moves(r) == NextStatus(r) \cup Resumed(r) \cup StepMoves(r)

Init == row = NoRow

Next == row' \in Moves(row)

Spec == Init /\ [][Next]_row
=============================================================================
