---------------------------- MODULE MCHashTable ----------------------------
(***************************************************************************)
(* HashTable with one thread that calls everything, and with two that      *)
(* insert, of which one may remove too.                                    *)
(***************************************************************************)
EXTENDS HashTable, TLC

CONSTANTS t1, t2

OneThread  == {t1}
TwoThreads == {t1, t2}

AllCalls == [p \in OneThread |-> {"insert", "find", "remove"}]
Inserts  == [p \in TwoThreads |-> {"insert"}]

OneRemoves == t1 :> {"insert"} @@ t2 :> {"insert", "remove"}

Symmetry == Permutations(TwoThreads)

\* Of four buckets 2 splits 0 and 3 splits 1, which splits 0.
TwoKeys   == {2, 3}
LastKey   == {3}
=============================================================================
