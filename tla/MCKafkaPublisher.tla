-------------------------- MODULE MCKafkaPublisher --------------------------
(* Values of the constants of KafkaPublisher for the model checker. *)
EXTENDS KafkaPublisher

CONSTANTS p1, p2,   \* calls of publish
          d1        \* a call of disconnect

\* Enough that a producer can be made whenever the code makes one.
MCMaxProducers == Cardinality(Publishers) * (MaxCloses + 1) + MaxFails

\* The bound on producers is never met.
ASSUME MCBoundAssumption == MaxProducers >= MCMaxProducers
=============================================================================
