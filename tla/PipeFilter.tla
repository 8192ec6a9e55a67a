----------------------------- MODULE PipeFilter -----------------------------
(***************************************************************************)
(* SP_HW5/bidirection_pipe: a program forks a child for every line of its  *)
(* input; the child turns what it reads from one pipe into capitals and    *)
(* sends it back through another.  Parent and child then go round the same *)
(* loop: the child takes the next line, and forks a child of its own,      *)
(* while the parent waits for it to end.  At the end of the input read()   *)
(* returns 0, which is not EOF, and the loop goes on with empty lines.     *)
(*                                                                         *)
(* The processes are numbered; a number is free again when the process has *)
(* been waited for.  The pipes of a child have the child's number.         *)
(***************************************************************************)
EXTENDS Integers, Sequences

CONSTANTS
  Procs,    \* the processes the user may have, numbers from 1
  MaxLines  \* bound: how many lines the user types

VARIABLES
  typed,    \* how many lines have been typed
  eof,      \* the input has ended
  taken,    \* how many have been read
  at,       \* each process's next step
  line,     \* the line it holds, 0 for an empty one
  child,    \* its child
  up,       \* the line in the pipe to a child, or NoChild
  down,     \* the line in the pipe from it, or NoChild
  stdout,   \* the child whose pipe a process has as its STDOUT, 0 for none
  shown,    \* the lines that have come out
  lost      \* history: the lines held by processes whose fork() failed

processes == <<at, line, child>>
pipes     == <<up, down, stdout>>
vars      == <<typed, eof, taken, processes, pipes, shown, lost>>

NoChild == -1
Free == {p \in Procs : at[p] = "free"}
Step(p, from, to) == at[p] = from /\ at' = [at EXCEPT ![p] = to]

-----------------------------------------------------------------------------
(* Slips a programmer could make, not what the code does: each variant of  *)
(* a definition below breaks one of the properties at the end.             *)

\* The parent does not wait for its child.
WriteNoWait(p) ==
  /\ Step(p, "print", "read")
  /\ shown' = IF line[p] = 0 THEN shown ELSE Append(shown, line[p])
  /\ UNCHANGED <<typed, eof, taken, line, child, pipes, lost>>

\* The parent keeps its own end of the pipe it reads, so that no end of the
\* data is ever seen; here it expects one before it prints.
ReplyToTheEnd(p) ==
  /\ Step(p, "reply", "print")
  /\ down[child[p]] = NoChild
  /\ \A q \in Procs : stdout[q] # child[p]
  /\ UNCHANGED <<typed, eof, taken, line, child, pipes, shown, lost>>

-----------------------------------------------------------------------------
Init ==
  /\ typed = 0 /\ eof = FALSE /\ taken = 0
  /\ at = [p \in Procs |-> IF p = 1 THEN "read" ELSE "free"]
  /\ line = [p \in Procs |-> 0]
  /\ child = [p \in Procs |-> 0]
  /\ up = [p \in Procs |-> NoChild] /\ down = [p \in Procs |-> NoChild]
  /\ stdout = [p \in Procs |-> 0]
  /\ shown = <<>> /\ lost = {}

\* A line, whether or not the one before has been answered.
Type ==
  /\ ~eof /\ typed < MaxLines
  /\ typed' = typed + 1
  /\ UNCHANGED <<eof, taken, processes, pipes, shown, lost>>

EndOfInput ==
  /\ ~eof
  /\ eof' = TRUE
  /\ UNCHANGED <<typed, taken, processes, pipes, shown, lost>>

-----------------------------------------------------------------------------
(* The loop of main().                                                     *)

Read(p) ==
  /\ Step(p, "read", "fork")
  /\ \/ /\ taken < typed
        /\ taken' = taken + 1
        /\ line' = [line EXCEPT ![p] = taken + 1]
     \/ /\ taken = typed /\ eof
        /\ line' = [line EXCEPT ![p] = 0]
        /\ UNCHANGED taken
  /\ UNCHANGED <<typed, eof, child, pipes, shown, lost>>

\* Two pipes and fork(); the child has its parent's STDOUT.
Fork(p) ==
  /\ at[p] = "fork" /\ Free # {}
  /\ LET q == CHOOSE q \in Free : \A r \in Free : q <= r IN
       /\ at' = [at EXCEPT ![p] = "send", ![q] = "recv"]
       /\ child' = [child EXCEPT ![p] = q]
       /\ stdout' = [stdout EXCEPT ![q] = stdout[p]]
  /\ UNCHANGED <<typed, eof, taken, line, up, down, shown, lost>>

\* perror() and exit(): the line goes with the process.
ForkFails(p) ==
  /\ Free = {}
  /\ Step(p, "fork", "ended")
  /\ stdout' = [stdout EXCEPT ![p] = 0]
  /\ lost' = lost \cup ({line[p]} \ {0})
  /\ UNCHANGED <<typed, eof, taken, line, child, up, down, shown>>

-----------------------------------------------------------------------------
(* The parent's branch.                                                    *)

\* dup2(p1[1], STDOUT_FILENO), write() and close().
Send(p) ==
  /\ Step(p, "send", "reply")
  /\ up' = [up EXCEPT ![child[p]] = line[p]]
  /\ stdout' = [stdout EXCEPT ![p] = 0]
  /\ UNCHANGED <<typed, eof, taken, line, child, down, shown, lost>>

\* read(): the answer, or the end of the data when nobody has the other end,
\* which is a copy of p2[1] in the child's STDOUT and in its children's.
Reply(p) ==
  /\ Step(p, "reply", "print")
  /\ \/ down[child[p]] # NoChild
     \/ /\ at[child[p]] \notin {"recv", "answer"}
        /\ \A q \in Procs : stdout[q] # child[p]
  /\ down' = [down EXCEPT ![child[p]] = NoChild]
  /\ UNCHANGED <<typed, eof, taken, line, child, up, stdout, shown, lost>>

WriteOut(p) ==
  /\ Step(p, "print", "wait")
  /\ shown' = IF line[p] = 0 THEN shown ELSE Append(shown, line[p])
  /\ UNCHANGED <<typed, eof, taken, line, child, pipes, lost>>

\* waitpid() and memset().
Wait(p) ==
  /\ at[p] = "wait" /\ at[child[p]] = "ended"
  /\ at' = [at EXCEPT ![p] = "read", ![child[p]] = "free"]
  /\ line' = [line EXCEPT ![p] = 0, ![child[p]] = 0]
  /\ child' = [child EXCEPT ![p] = 0]
  /\ UNCHANGED <<typed, eof, taken, pipes, shown, lost>>

-----------------------------------------------------------------------------
(* The child's branch.                                                     *)

Recv(p) ==
  /\ up[p] # NoChild
  /\ Step(p, "recv", "answer")
  /\ line' = [line EXCEPT ![p] = up[p]]
  /\ up' = [up EXCEPT ![p] = NoChild]
  /\ UNCHANGED <<typed, eof, taken, child, down, stdout, shown, lost>>

\* dup2(p2[1], STDOUT_FILENO); writing an empty line writes nothing.
Answer(p) ==
  /\ Step(p, "answer", "read")
  /\ down' = IF line[p] = 0 THEN down ELSE [down EXCEPT ![p] = line[p]]
  /\ stdout' = [stdout EXCEPT ![p] = p]
  /\ line' = [line EXCEPT ![p] = 0]
  /\ UNCHANGED <<typed, eof, taken, child, up, shown, lost>>

-----------------------------------------------------------------------------
ProcessStep(p) ==
  \/ Read(p) \/ Fork(p) \/ ForkFails(p) \/ Send(p) \/ Reply(p) \/ WriteOut(p)
  \/ Wait(p) \/ Recv(p) \/ Answer(p)

Next == Type \/ EndOfInput \/ \E p \in Procs : ProcessStep(p)

Spec == Init /\ [][Next]_vars

\* Every process runs; the user need not type anything.
Fairness == \A p \in Procs : WF_vars(ProcessStep(p))
FairSpec == Spec /\ Fairness

-----------------------------------------------------------------------------
\* Although parent and child are in the same loop: never do two processes
\* take lines from the input, so every line is taken whole, and comes out at
\* most once.
OneReader ==
  /\ \A p, q \in Procs : {at[p], at[q]} \subseteq {"read", "fork"} => p = q
  /\ \A i, j \in DOMAIN shown : i # j => shown[i] # shown[j]

\* Every line that is read comes out, though the process that prints it has
\* a child that is already busy with later ones, and even when the input has
\* ended; unless the fork() for it fails.
LineComesOut ==
  \A n \in 1..MaxLines :
    taken >= n ~> n \in lost \/ \E i \in DOMAIN shown : shown[i] = n
=============================================================================
