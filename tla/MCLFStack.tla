----------------------------- MODULE MCLFStack -----------------------------
(***************************************************************************)
(* LFStack with a few threads and one object or two, so that memory is     *)
(* freed and reused while others hold pointers.                            *)
(***************************************************************************)
EXTENDS LFStack, TLC

CONSTANTS c1, r1, r2, o1, o2

ReaderSymmetry == Permutations({r1, r2})
ObjectSymmetry == Permutations({o1, o2})

AllThreads == {c1, r1, r2}
TwoThreads == {c1, r1}
Writer     == {c1}
TwoReaders == {r1, r2}
LastReader == {r2}
Nobody     == {}
OneObject  == {o1}
TwoObjects == {o1, o2}
=============================================================================
