---------------------------- MODULE MCSeqnumFifo ----------------------------
(***************************************************************************)
(* Instances of SeqnumFifo for TLC: three clients of which one may be      *)
(* abnormal, lengths of which three exceed the largest int.                *)
(***************************************************************************)
EXTENDS SeqnumFifo

CONSTANTS c1, c2, c3

TwoClients == {c1, c2}
ThreeClients == {c1, c2, c3}
OneAbnormal == {c3}
=============================================================================
