---------------------------- MODULE MCLeasedSaga ----------------------------
(***************************************************************************)
(* Small instances of LeasedSaga for TLC.                                  *)
(***************************************************************************)
EXTENDS LeasedSaga

CONSTANTS w1, w2

\* The first step patches the context.
MCPatching == {<<"do", 1>>}
MCOneAttempt == [i \in 1..N |-> 1]
MCAwaits == AwaitSites

\* Two workers with one poll each.
MCOwnerOf == [p \in Workers |-> p]
=============================================================================
