--------------------------- MODULE MCDictDatagram ---------------------------
(* DictDatagram with one word, which only the first of two editions lists. *)
EXTENDS DictDatagram, TLC
CONSTANTS c1, c2, w
MCListed == 1 :> {w} @@ 2 :> {}
=============================================================================
