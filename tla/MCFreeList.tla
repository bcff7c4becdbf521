----------------------------- MODULE MCFreeList -----------------------------
(***************************************************************************)
(* FreeList with two threads that only push and one that also pops; three  *)
(* nodes, so that freed memory comes back while others still hold pointers *)
(* to it.                                                                  *)
(***************************************************************************)
EXTENDS FreeList, TLC

CONSTANTS p1, p2, c1, n1, n2, n3

Symmetry == Permutations({p1, p2}) \cup Permutations({n1, n2, n3})

ThreeThreads == {p1, p2, c1}
Scanner      == {c1}
ThreeNodes   == {n1, n2, n3}
=============================================================================
