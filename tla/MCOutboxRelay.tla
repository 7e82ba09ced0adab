--------------------------- MODULE MCOutboxRelay ---------------------------
(* Values of the constants of OutboxRelay for the model checker. *)
EXTENDS OutboxRelay

CONSTANTS x, y,     \* sagas
          k1, k2    \* polls

\* Two sagas whose events alternate.
MCSagaOf == [e \in Events |-> IF e % 2 = 1 THEN x ELSE y]
=============================================================================
