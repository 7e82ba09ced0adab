---------------------------- MODULE SagaContract ----------------------------
(***************************************************************************)
(* What a saga promises to the application that starts it, without any     *)
(* database, retry or event: the effects of its steps are applied one by   *)
(* one in the order of the definition; the saga commits when all of them   *)
(* are applied, or it turns round once, undoes what it can in the opposite *)
(* order, and ends either undone or stuck in the middle of undoing.        *)
(*                                                                         *)
(* SagaExecutor.tla is shown to implement this specification.              *)
(***************************************************************************)
EXTENDS Naturals

CONSTANTS
    N,              \* number of steps of the definition
    Compensable     \* the steps, out of 1..N, that have a compensate function

VARIABLES
    mode,           \* which way the saga is going, or how it ended
    applied         \* the steps whose effect is in the outside world

vars == <<mode, applied>>

\* The compensable steps whose effect is still there.
ToUndo == applied \cap Compensable

Init ==
    /\ mode = "forward"
    /\ applied = {}

\* The next step of the definition takes effect: no step is skipped, no step
\* takes effect twice.
Apply(i) ==
    /\ mode = "forward"
    /\ applied = 1..(i - 1)
    /\ applied' = 1..i
    /\ UNCHANGED mode

Commit ==
    /\ mode = "forward"
    /\ applied = 1..N
    /\ mode' = "committed"
    /\ UNCHANGED applied

TurnRound ==
    /\ mode = "forward"
    /\ mode' = "backward"
    /\ UNCHANGED applied

\* The latest effect that can be undone is undone first.
Undo(i) ==
    /\ mode = "backward"
    /\ i \in ToUndo
    /\ \A j \in ToUndo : j <= i
    /\ applied' = applied \ {i}
    /\ UNCHANGED mode

Undone ==
    /\ mode = "backward"
    /\ ToUndo = {}
    /\ mode' = "undone"
    /\ UNCHANGED applied

Stick ==
    /\ mode = "backward"
    /\ mode' = "stuck"
    /\ UNCHANGED applied

Next ==
    \/ \E i \in 1..N : Apply(i) \/ Undo(i)
    \/ Commit
    \/ TurnRound
    \/ Undone
    \/ Stick

Spec == Init /\ [][Next]_vars
=============================================================================
