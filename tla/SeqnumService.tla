--------------------------- MODULE SeqnumService ---------------------------
(***************************************************************************)
(* What the sequence-number servers of SP_HW8 (44-6 and 44-7) promise,     *)
(* with no FIFO in sight: a request for n numbers is answered with the     *)
(* first of n consecutive numbers, and no number is given out twice; the   *)
(* numbers of a client that cannot be answered may be lost.                *)
(***************************************************************************)
EXTENDS Integers

CONSTANTS
  Clients,  \* each asks once
  Nobody,   \* the answer of a client that has none
  Wrap(_)   \* what the machine makes of a sum

VARIABLES
  len,      \* how many numbers each client asks for
  next,     \* the next number
  answer    \* the first number of each client answered

vars == <<len, next, answer>>

Init ==
  /\ next = 0
  /\ answer = [c \in Clients |-> Nobody]

\* The number is given first and counted afterwards, in one step.
Serve(c) ==
  /\ answer[c] = Nobody
  /\ answer' \in {answer, [answer EXCEPT ![c] = next]}
  /\ next' = Wrap(next + len[c])
  /\ UNCHANGED len

Next == \E c \in Clients : Serve(c)

Spec == Init /\ [][Next]_vars
=============================================================================
