----------------------------- MODULE MCMsgFile -----------------------------
(***************************************************************************)
(* Instances of MsgFile for TLC.  A long is 2 bytes and a message 3, so    *)
(* that a file may be shorter than a long, fill its last message exactly,  *)
(* or end in a message shorter than a long.  Clients that overlap ask for  *)
(* a file of two messages, or for one that cannot be opened.               *)
(***************************************************************************)
EXTENDS MsgFile

CONSTANTS c1, c2

TwoClients == {c1, c2}
AllSizes ==
  [apart \in BOOLEAN |-> IF apart THEN {NOFILE, 0, 1, 2, 3, 7} ELSE {NOFILE, 4}]
=============================================================================
