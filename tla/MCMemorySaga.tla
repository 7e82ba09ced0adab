---------------------------- MODULE MCMemorySaga ----------------------------
(***************************************************************************)
(* Small instances of MemorySaga for TLC.                                  *)
(***************************************************************************)
EXTENDS MemorySaga, TLC

CONSTANTS a, b, a1, a2, b1

MCPatching == {<<"do", 1>>, <<"do", 2>>}
MCOneAttempt == [i \in 1..N |-> 1]

\* Two polls of worker a, one of worker b.
MCOwnerOf == (a1 :> a) @@ (a2 :> a) @@ (b1 :> b)

\* Nothing tells the two polls of worker a apart.
MCSymmetry == Permutations({a1, a2})
=============================================================================
