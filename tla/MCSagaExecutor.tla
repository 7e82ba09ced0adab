--------------------------- MODULE MCSagaExecutor ---------------------------
(***************************************************************************)
(* Small instances of SagaExecutor for TLC.                                *)
(***************************************************************************)
EXTENDS SagaExecutor

\* Every step and every undo patches the context, but for the last step.
MCPatching == {<<"do", 1>>, <<"undo", 1>>, <<"do", 2>>}

\* Two attempts of each action, one of the last one.
MCAttempts == [i \in 1..N |-> IF i = N THEN 1 ELSE 2]
MCCompAttempts == [i \in 1..N |-> 2]
MCOneAttempt == [i \in 1..N |-> 1]

\* The notifications and the writes whose rejection does not stop the saga on
\* its way to an end; every await.
MCCaught == {"stepCompleted", "patchUndo", "setStepCompensated",
             "compensationFailed", "compensationCompleted", "sagaCompleted"}
MCAwaits == AwaitSites
=============================================================================
