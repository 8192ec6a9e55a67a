---------------------------- MODULE BlockStream ----------------------------
(***************************************************************************)
(* What the shared-memory transfer of SP_HW9/54 promises, with no          *)
(* semaphore, buffer or process in sight: the blocks of the writer's       *)
(* standard input come out of the readers one by one, whole and in order,  *)
(* then a reader finishes, and only then is the channel torn down.         *)
(***************************************************************************)
EXTENDS Integers, Sequences

VARIABLES
  stdin,      \* the blocks the writer's read() calls return, in order
  delivered,  \* the blocks written to a reader's standard output so far
  ended,      \* a reader has seen end of file and finished
  closed      \* the IPC objects have been removed

vars == <<stdin, delivered, ended, closed>>

Init ==
  /\ delivered = <<>>
  /\ ended = FALSE
  /\ closed = FALSE

Deliver ==
  /\ ~ended
  /\ Len(delivered) < Len(stdin)
  /\ delivered' = Append(delivered, stdin[Len(delivered) + 1])
  /\ UNCHANGED <<stdin, ended, closed>>

End ==
  /\ ~closed
  /\ Len(delivered) = Len(stdin)
  /\ ended' = TRUE
  /\ UNCHANGED <<stdin, delivered, closed>>

Close ==
  /\ ended
  /\ closed' = TRUE
  /\ UNCHANGED <<stdin, delivered, ended>>

Next == Deliver \/ End \/ Close

Spec == Init /\ [][Next]_vars
=============================================================================
