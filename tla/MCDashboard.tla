---------------------------- MODULE MCDashboard -----------------------------
(***************************************************************************)
(* Small instances of Dashboard for TLC.                                   *)
(***************************************************************************)
EXTENDS Dashboard

CONSTANTS x, y, interval, scrape

\* Enough for a saga to end, to be resumed and to have a step running again;
\* and for two sagas to be created and one of them to run and end, while the
\* refreshes overtake each other.
MCMaxMoves == [pages |-> 7, metrics |-> 4]
=============================================================================
