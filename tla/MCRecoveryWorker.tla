-------------------------- MODULE MCRecoveryWorker --------------------------
(* Values of the constants of RecoveryWorker for the model checker. *)
EXTENDS RecoveryWorker

CONSTANTS s1, s2, s3,   \* sagas; s3 has no definition
          a1, a2, b1,   \* polls
          a, b          \* workers

\* Every worker has one poll at a time.
MCApart == [k \in {a1, b1} |-> IF k = a1 THEN a ELSE b]

\* The polls of worker a overlap.
MCOverlapping == [k \in {a1, a2, b1} |-> IF k = b1 THEN b ELSE a]
=============================================================================
