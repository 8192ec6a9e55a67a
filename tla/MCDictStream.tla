---------------------------- MODULE MCDictStream ----------------------------
(* DictStream with one word, which only the first of two editions lists.   *)
EXTENDS DictStream, TLC
CONSTANTS c1, c2, w
MCListed == 1 :> {w} @@ 2 :> {}
=============================================================================
