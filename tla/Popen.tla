------------------------------- MODULE Popen -------------------------------
(***************************************************************************)
(* SP_HW5/popen_pclose: my_popen() starts a command with a pipe from its   *)
(* output (mode "r") or to its input ("w"), and my_pclose() waits for it.  *)
(* The stream is never closed.  main() runs one command after the other,   *)
(* and at the end of its input, where read() returns 0, empty ones.        *)
(***************************************************************************)
EXTENDS Integers, Sequences, FiniteSetsExt

CONSTANTS
  OPEN_MAX, \* how many files a process may have open
  BUF,      \* how much buf1 holds, in pieces of a command's output
  CAPACITY, \* how much a pipe holds
  MaxOutput \* bound: how much a command writes, and a user types

VARIABLES
  step,     \* the program's next step
  mode,     \* "r" or "w"
  eof,      \* the input has ended
  command,  \* what it writes, and whether it reads its input to the end
  pid,      \* its process number: the commands are counted
  running,  \* it has not ended
  written,  \* how much it has written; in mode "w", the user has typed
  pipe,     \* how much is in the pipe
  open,     \* the program's descriptors
  keep_fd,  \* the one my_popen() returns as a stream
  fdtopid,  \* the table of my_popen()
  buf1,     \* the buffer of fread()
  got,      \* how much of it this fread() has filled
  shown     \* what has been printed of the command's output

state  == <<mode, eof, command, pid>>
child  == <<running, written, pipe>>
files  == <<open, keep_fd, fdtopid>>
reader == <<buf1, got, shown>>
vars   == <<step, state, child, files, reader>>

Odd == 0     \* whatever stands after the end of buf1
Commands == [out : 0..MaxOutput, reads : BOOLEAN]
Empty == [out |-> 0, reads |-> FALSE]

\* The descriptor that pipe() gives next.
Lowest(fds) == Min(0..OPEN_MAX \ fds)

-----------------------------------------------------------------------------
Init ==
  /\ step = "start" /\ mode = "r" /\ eof = FALSE
  /\ command = Empty /\ pid = 0
  /\ running = FALSE /\ written = 0 /\ pipe = 0
  /\ open = 0..2 /\ keep_fd = 0 /\ fdtopid = [fd \in 0..OPEN_MAX |-> 0]
  /\ buf1 = <<>> /\ got = 0 /\ shown = <<>>

Start ==
  /\ step = "start" /\ step' = "prompt"
  /\ mode' \in {"r", "w"}
  /\ UNCHANGED <<eof, command, pid, child, files, reader>>

Prompt ==
  /\ step = "prompt" /\ step' = "popen"
  /\ \/ eof' = eof /\ command' \in IF eof THEN {Empty} ELSE Commands
     \/ ~eof /\ eof' = TRUE /\ command' = Empty
  /\ pid' = pid + 1
  /\ written' = 0 /\ shown' = <<>>
  /\ UNCHANGED <<mode, running, pipe, files, buf1, got>>

\* pipe() and fork(); the parent closes one end and keeps the other.
my_popen ==
  /\ step = "popen"
  /\ step' = IF mode = "r" THEN "fread" ELSE "copy"
  /\ LET p0 == Lowest(open)
         p1 == Lowest(open \cup {p0}) IN
       /\ p1 < OPEN_MAX
       /\ keep_fd' = IF mode = "r" THEN p0 ELSE p1
       /\ open' = open \cup {keep_fd'}
  /\ fdtopid' = [fdtopid EXCEPT ![keep_fd'] = pid]
  /\ running' = TRUE /\ pipe' = 0
  /\ buf1' = <<>> /\ got' = 0
  /\ UNCHANGED <<state, written, shown>>

\* pipe() fails when too few descriptors are left, and fork() may fail at
\* any time: perror() and exit().
PopenFails ==
  /\ step = "popen" /\ step' = "exited"
  /\ UNCHANGED <<state, child, files, reader>>

-----------------------------------------------------------------------------
(* The command.                                                            *)

Writes ==
  /\ mode = "r" /\ running /\ written < command.out /\ pipe < CAPACITY
  /\ written' = written + 1 /\ pipe' = pipe + 1
  /\ UNCHANGED <<step, state, running, files, reader>>

Reads ==
  /\ mode = "w" /\ running /\ command.reads /\ pipe > 0
  /\ pipe' = pipe - 1
  /\ UNCHANGED <<step, state, running, written, files, reader>>

\* A command that reads its input to the end does not see the end: the
\* program has the other end of the pipe, also while it waits.
Ends ==
  /\ running
  /\ IF mode = "r" THEN written = command.out ELSE ~command.reads
  /\ running' = FALSE
  /\ UNCHANGED <<step, state, written, pipe, files, reader>>

-----------------------------------------------------------------------------
(* main(), mode "r".                                                       *)

\* fread() reads until its buffer is full or the data end.
FreadMore ==
  /\ step = "fread" /\ pipe > 0 /\ got < BUF
  /\ pipe' = pipe - 1 /\ got' = got + 1
  /\ LET n == written - pipe + 1 IN
       buf1' = IF got < Len(buf1) THEN [buf1 EXCEPT ![got + 1] = n] ELSE Append(buf1, n)
  /\ UNCHANGED <<step, state, running, written, files, shown>>

\* A slip: the data are taken to have ended when the pipe is empty.
FreadEnough == got = BUF \/ (pipe = 0 /\ got > 0)

FreadReturns == got = BUF \/ (pipe = 0 /\ ~running /\ got > 0)

\* printf("%s") of all that buf1 holds: what an earlier fread() left there,
\* and when it is full whatever comes after it.
FreadPrint ==
  /\ step = "fread" /\ FreadReturns
  /\ shown' = shown \o buf1 \o (IF Len(buf1) = BUF THEN <<Odd>> ELSE <<>>)
  /\ got' = 0
  /\ UNCHANGED <<step, state, child, files, buf1>>

\* A slip: the parent keeps its own end of the pipe it reads from too, and
\* the end of the data is never seen.
FreadEndNever == FALSE

FreadEnd ==
  /\ step = "fread" /\ pipe = 0 /\ ~running /\ got = 0
  /\ step' = "pclose"
  /\ UNCHANGED <<state, child, files, reader>>

-----------------------------------------------------------------------------
(* main(), mode "w".                                                       *)

Copy ==
  /\ step = "copy" /\ ~eof /\ running
  /\ written < MaxOutput /\ pipe < CAPACITY
  /\ written' = written + 1 /\ pipe' = pipe + 1
  /\ UNCHANGED <<step, state, running, files, reader>>

\* SIGPIPE: the command has ended.
CopyKilled ==
  /\ step = "copy" /\ ~eof /\ ~running
  /\ step' = "killed"
  /\ UNCHANGED <<state, child, files, reader>>

\* The user ends what he types; a terminal can be read again after that.
CopyEnd ==
  /\ step = "copy" /\ step' = "pclose"
  /\ UNCHANGED <<state, child, files, reader>>

-----------------------------------------------------------------------------
\* A slip: the process is looked up under the wrong descriptor.
my_pcloseAny ==
  /\ step = "pclose" /\ step' = "prompt"
  /\ fdtopid[Lowest(open)] = pid => ~running
  /\ UNCHANGED <<state, child, files, reader>>

\* waitpid() for the process of the stream; the stream stays open.
my_pclose ==
  /\ step = "pclose" /\ step' = "prompt"
  /\ fdtopid[keep_fd] = pid => ~running
  /\ UNCHANGED <<state, child, files, reader>>

CommandStep == Writes \/ Reads \/ Ends
ProgramStep == my_popen \/ PopenFails \/ FreadMore \/ FreadPrint \/ FreadEnd \/ my_pclose

Next ==
  \/ Start \/ Prompt \/ CommandStep \/ ProgramStep
  \/ Copy \/ CopyKilled \/ CopyEnd

Spec == Init /\ [][Next]_vars

\* The program and the command run; the user need not type anything.
Fairness == WF_vars(ProgramStep) /\ WF_vars(CommandStep)
FairSpec == Spec /\ Fairness

-----------------------------------------------------------------------------
\* At the prompt, no command is left running behind the program's back, and
\* one that was read from has been shown whole and once, if its output is
\* shorter than the buffer.
PromptAfterCommand ==
  step = "prompt" =>
    /\ ~running
    /\ mode = "r" /\ command.out < BUF => shown = [i \in 1..command.out |-> i]

\* The program comes back from a command, or exits: in mode "r" always, in
\* mode "w", once the user has ended his data, unless the command waits for
\* the end of the data, for which it waits for ever.
CommandReturns ==
  /\ mode = "r" /\ step = "popen" ~> step \in {"prompt", "exited"}
  /\ step = "pclose" /\ ~command.reads ~> step = "prompt"
=============================================================================
