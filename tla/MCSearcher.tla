----------------------------- MODULE MCSearcher -----------------------------
(***************************************************************************)
(* Searcher on an empty page and on one with a relative address, one that  *)
(* comes twice and one in between.                                         *)
(***************************************************************************)
EXTENDS Searcher

SomePages == {<<>>, <<"a", "img", "b", "a">>}
Icons     == {"img"}
=============================================================================
