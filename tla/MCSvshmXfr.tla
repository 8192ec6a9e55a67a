----------------------------- MODULE MCSvshmXfr -----------------------------
(***************************************************************************)
(* Instances of SvshmXfr for TLC: two kinds of block of different length   *)
(* and two or three readers, so that a block written with the length of    *)
(* another, and a turn taken by the wrong reader, are visible.             *)
(***************************************************************************)
EXTENDS SvshmXfr, TLC

CONSTANTS d1, d2, r1, r2, r3

MCData == {d1, d2}
MCSizeOf == [d \in MCData |-> IF d = d1 THEN 1 ELSE 2]
OneBlock == {d1}
OneSize == [d \in OneBlock |-> 1]
TwoReaders == {r1, r2}
ThreeReaders == {r1, r2, r3}
ReaderSymmetry == Permutations(Readers)
=============================================================================
