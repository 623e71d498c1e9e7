------------------------------- MODULE MCStore -------------------------------
(***************************************************************************)
(* Two callers, a namespace name they share, two keys: a program that      *)
(* counts, one that copies a key, one that reads what it wrote and one     *)
(* that only reads.  Overlays: none, a key twice with another in between,  *)
(* and one of odd length.                                                  *)
(***************************************************************************)
EXTENDS Store

CONSTANTS k1, k2

MCPrograms ==
  {<<Get(k1), Set(k1, 1)>>,
   <<Get(k1), Set(k2, 1), Get(k2), Set(k1, 1), Get(k1)>>,
   <<Set(k1, 2), Get(k2)>>,
   <<Get(k1)>>}

MCOverlays == {<< >>, <<k1, 1, k2, 1, k1, 2>>, <<k1>>}

MCKeyLists == {<<k1, 1, k1, 2>>, <<k2, 1, k1>>}
=============================================================================
