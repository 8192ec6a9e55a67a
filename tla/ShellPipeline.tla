--------------------------- MODULE ShellPipeline ---------------------------
(***************************************************************************)
(* SP_HW2 and SP_HW4/part2: a shell.  It reads a line, does it itself or   *)
(* forks a child for it, and waits for the child unless there is a "&".    *)
(* In part2 the child becomes the last command of the line: for each "|"   *)
(* it forks a writer, the command on the left, waits for it to end, and    *)
(* takes the pipe for its own standard input.                              *)
(*                                                                         *)
(* The shell's standard input may be a file.  stdio then reads all of it   *)
(* at once, and exit() in a child puts the offset, which is shared, back   *)
(* by what the child's copy of the buffer has not given out.               *)
(*                                                                         *)
(* A line is a sequence of words; of a command's arguments nothing is      *)
(* kept, and of its output only how many blocks it writes into a pipe.     *)
(* The files of a redirection can be opened, and a command reads its       *)
(* standard input to the end, but not if that is the shell's.              *)
(***************************************************************************)
EXTENDS Integers, Sequences, FiniteSets

CONSTANTS
  Scripts,   \* the shell's input: sequences of lines
  Commands,  \* the words that execvp() finds
  Output,    \* Output[w]: how many blocks the command writes
  Failing,   \* the commands that end with a status other than 0
  Capacity,  \* how many blocks a pipe holds
  MaxLines,  \* bound on the lines that the shell takes
  Faults     \* which faults may happen: "fork", "kill" (a writer)

ASSUME ShellAssumption ==
  /\ \A s \in Scripts :
       /\ s \in Seq(Seq(STRING)) /\ Len(s) <= MaxLines
       /\ \A l \in DOMAIN s : \A i \in DOMAIN s[l] :
            s[l][i] \in {"<", ">"} => i < Len(s[l])
  /\ Commands \subseteq STRING \ {"|", "<", ">", "&"}
  /\ Output \in [Commands -> Nat]
  /\ Failing \subseteq Commands
  /\ Capacity \in Nat \ {0}
  /\ MaxLines \in Nat \ {0}
  /\ Faults \subseteq {"fork", "kill"}

VARIABLES
  first,    \* the shell is SP_HW2's, which has no pipes
  seekable, \* its standard input is a file
  script,   \* the lines of it
  offset,   \* how many of them have been read from it
  next, avail, \* stdin's buffer holds the lines next..avail
  spc,      \* the shell's next step
  taken,    \* the lines it has taken, by number
  \* the child forked for each line taken
  lpc,      \* its next step
  argv,     \* what is left of the line
  left,     \* the command to the left of the last "|"
  in, out,  \* its standard input and output
  unread,   \* how many lines its copy of stdin's buffer holds
  ends,     \* the pipes it has open for writing
  status,   \* what it ended with
  \* the writer it has forked
  wpc, wcmd, win, \* next step, command, standard input
  stage,    \* its number, and that of the pipe it writes to
  todo,     \* how many blocks it has still to write
  full,     \* how many blocks its pipe holds
  log,      \* history: the commands executed for each line
  hit       \* history: a fault has happened

input  == <<first, seekable, script>>
stdin  == <<offset, next, avail>>
shell  == <<spc, taken>>
leader == <<lpc, argv, left, in, out, unread, ends, status>>
writer == <<wpc, wcmd, win, stage, todo, full>>
vars   == <<input, stdin, shell, leader, writer, log, hit>>

Jobs == 1..MaxLines

\* Where a standard input or output may come from or go to.
Stdin   == <<"stdin", 0>>
Stdout  == <<"stdout", 0>>
File    == <<"file", 0>>
Pipe(n) == <<"pipe", n>>
Unread  == <<"a pipe nobody reads", 0>>

-----------------------------------------------------------------------------
(* What the code makes of a line.                                          *)

\* The words before the first t, and those after it.
Before(words, t) ==
  SubSeq(words, 1, CHOOSE n \in 0..Len(words) :
                     /\ \A i \in 1..n : words[i] # t
                     /\ n < Len(words) => words[n + 1] = t)
After(words, t) == SubSeq(words, Len(Before(words, t)) + 2, Len(words))
Has(words, t) == Len(Before(words, t)) < Len(words)

\* The index of "&", which is 0 both for none and, in part2, for the first.
is_background(words) ==
  Has(words, "&") /\ (first \/ Len(Before(words, "&")) > 0)

\* Everything from "&" on is cut off, then from "<" on, then from ">" on.
Started(words)  == IF is_background(words) THEN Before(words, "&") ELSE words
redirect_in(words)  == Before(words, "<")
redirect_out(words) == Before(words, ">")
Arguments(words) ==
  IF first THEN Before(words, "&") ELSE redirect_out(redirect_in(Started(words)))

pipe_present(words) ==
  IF words[1] = "|" \/ words[Len(words)] = "|" THEN -1
  ELSE IF Has(words, "|") THEN Len(Before(words, "|"))
  ELSE 0

\* The table of built-in commands, and the shell's step after one of them:
\* chdir() may fail; echo and builtin follow an argument that is missing.
Quits == {"quit", "exit", "bye", "logout"}
Inbuilts == Quits \cup {"echo"} \cup
  (IF first THEN {} ELSE {"builtin", "cd", "pwd", "id", "hostname"})
do_builtin(words) ==
  LET bare == Len(words) = 1
  IN  CASE words[1] \in Quits                      -> {"exited"}
        [] words[1] = "cd"                         -> IF bare THEN {"exited"}
                                                      ELSE {"prompt", "exited"}
        [] words[1] \in {"echo", "builtin"} /\ bare -> {"crashed"}
        [] OTHER                                   -> {"prompt"}

Line == script[taken[Len(taken)]]
Job == Len(taken)

SStep(from, to) == spc = from /\ spc' = to
LStep(j, from, to) == lpc[j] = from /\ lpc' = [lpc EXCEPT ![j] = to]
KStep(j, from, to) == wpc[j] = from /\ wpc' = [wpc EXCEPT ![j] = to]

\* The nth command of a line is executed: its program takes the place of
\* the process's.
Executes(j, nth, w, from, to) ==
  log' = [log EXCEPT ![j] =
            Append(@, [nth |-> nth, cmd |-> w, in |-> from, out |-> to])]

\* exit() in a child whose standard input is the shell's.  The offset is
\* moved by a distance, and not at all if that would make it negative.
exit(j, from) ==
  /\ offset' = IF seekable /\ from = Stdin /\ unread[j] <= offset
               THEN offset - unread[j] ELSE offset
  /\ UNCHANGED <<next, avail>>

-----------------------------------------------------------------------------
(* Slips a programmer could make, not what the code does: each variant of  *)
(* a definition below breaks one of the properties at the end.             *)

\* The pipe is taken for the standard output, not the input.
LDupSwapped(j) ==
  /\ LStep(j, "dup", "wait")
  /\ ends' = [ends EXCEPT ![j] = @ \ {stage[j]}]
  /\ out' = [out EXCEPT ![j] = Pipe(stage[j])]
  /\ UNCHANGED <<input, stdin, shell, argv, left, in, unread, status, writer,
                 log, hit>>

LDupKeepsEnd(j) ==
  /\ LStep(j, "dup", "wait")
  /\ in' = [in EXCEPT ![j] = Pipe(stage[j])]
  /\ UNCHANGED <<input, stdin, shell, argv, left, out, unread, ends, status,
                 writer, log, hit>>

LReapNot(j) ==
  /\ LStep(j, "wait", CASE pipe_present(argv[j]) > 0 -> "fork"
                        [] pipe_present(argv[j]) = 0 -> "exec"
                        [] OTHER -> "missing")
  /\ UNCHANGED <<input, stdin, shell, argv, left, in, out, unread, ends, status,
                 writer, log, hit>>

-----------------------------------------------------------------------------
Init ==
  /\ first \in BOOLEAN /\ seekable \in BOOLEAN /\ script \in Scripts
  /\ offset = 0 /\ next = 1 /\ avail = 0
  /\ spc = "prompt" /\ taken = <<>>
  /\ lpc = [j \in Jobs |-> "unborn"] /\ argv = [j \in Jobs |-> <<>>]
  /\ left = [j \in Jobs |-> ""]
  /\ in = [j \in Jobs |-> Stdin] /\ out = [j \in Jobs |-> Stdout]
  /\ unread = [j \in Jobs |-> 0] /\ ends = [j \in Jobs |-> {}]
  /\ status = [j \in Jobs |-> "none"]
  /\ wpc = [j \in Jobs |-> "none"] /\ wcmd = [j \in Jobs |-> ""]
  /\ win = [j \in Jobs |-> Stdin] /\ stage = [j \in Jobs |-> 0]
  /\ todo = [j \in Jobs |-> 0] /\ full = [j \in Jobs |-> 0]
  /\ log = [j \in Jobs |-> <<>>] /\ hit = FALSE

-----------------------------------------------------------------------------
(* The shell: main() and the parent's side of run_command().               *)

\* fgets(), which reads all of a file at once and one line of anything else;
\* then parse(), and the built-in command if it is one.
SRead ==
  /\ spc = "prompt" /\ Len(taken) < MaxLines
  /\ \/ /\ next <= avail
        /\ next' = next + 1
        /\ taken' = Append(taken, next)
        /\ UNCHANGED <<offset, avail>>
     \/ /\ next > avail /\ offset < Len(script)
        /\ next' = offset + 2
        /\ taken' = Append(taken, offset + 1)
        /\ offset' = IF seekable THEN Len(script) ELSE offset + 1
        /\ avail' = offset'
  /\ spc' \in LET words == script[taken'[Len(taken')]]
              IN  IF words = <<>> THEN {"prompt"}
                  ELSE IF words[1] \in Inbuilts THEN do_builtin(words)
                  ELSE {"fork"}
  /\ UNCHANGED <<input, leader, writer, log, hit>>

SEof ==
  /\ next > avail /\ offset >= Len(script)
  /\ SStep("prompt", "exited")
  /\ UNCHANGED <<input, stdin, taken, leader, writer, log, hit>>

SFork ==
  /\ SStep("fork", IF ~is_background(Line) THEN "wait"
                   ELSE IF first THEN "poll" ELSE "prompt")
  /\ LStep(Job, "unborn", "start")
  /\ unread' = [unread EXCEPT ![Job] = avail - next + 1]
  /\ UNCHANGED <<input, stdin, taken, argv, left, in, out, ends, status, writer,
                 log, hit>>

SForkFails ==
  /\ "fork" \in Faults
  /\ SStep("fork", "exited")
  /\ hit' = TRUE
  /\ UNCHANGED <<input, stdin, taken, leader, writer, log>>

\* part2 prints a status other than 0 with strerror(), which it has not
\* declared: where a pointer is wider than an int that is the shell's end.
SWait ==
  /\ \/ SStep("wait", "prompt")
     \/ SStep("wait", "crashed") /\ ~first /\ status[Job] # "ok"
  /\ LStep(Job, "zombie", "gone")
  /\ UNCHANGED <<input, stdin, taken, argv, left, in, out, unread, ends, status,
                 writer, log, hit>>

\* waitpid() with WNOHANG, in SP_HW2; part2 never waits for these children.
SPoll ==
  /\ SStep("poll", "prompt")
  /\ lpc' = IF lpc[Job] = "zombie" THEN [lpc EXCEPT ![Job] = "gone"] ELSE lpc
  /\ UNCHANGED <<input, stdin, taken, argv, left, in, out, unread, ends, status,
                 writer, log, hit>>

ShellStep == SRead \/ SEof \/ SFork \/ SWait \/ SPoll

-----------------------------------------------------------------------------
(* The child of line j: the child's side of run_command(), and             *)
(* pipe_and_exec().                                                        *)

\* exit(errno), of the child.
LExits(j, from) ==
  /\ LStep(j, from, "zombie")
  /\ status' = [status EXCEPT ![j] = "failed"]
  /\ exit(j, in[j])
  /\ UNCHANGED <<input, shell, argv, left, in, out, unread, ends, writer, log>>

\* The redirections.  A line of which they leave nothing makes
\* pipe_present(), or execvp() in SP_HW2, follow a null pointer.
LStart(j) ==
  LET words == Started(script[taken[j]])
  IN
  /\ lpc[j] = "start"
  /\ argv' = [argv EXCEPT ![j] = Arguments(script[taken[j]])]
  /\ IF argv'[j] = <<>>
     THEN /\ LStep(j, "start", "zombie")
          /\ status' = [status EXCEPT ![j] = "failed"]
          /\ UNCHANGED <<in, out>>
     ELSE /\ LStep(j, "start", IF ~first /\ pipe_present(argv'[j]) > 0
                               THEN "fork" ELSE "exec")
          /\ in' = IF ~first /\ Has(words, "<")
                   THEN [in EXCEPT ![j] = File] ELSE in
          /\ out' = IF ~first /\ Has(redirect_in(words), ">")
                    THEN [out EXCEPT ![j] = File] ELSE out
          /\ UNCHANGED status
  /\ UNCHANGED <<input, stdin, shell, left, unread, ends, writer, log, hit>>

\* pipe() and fork(): the writer has the child's standard input.
LFork(j) ==
  /\ LStep(j, "fork", "dup") /\ KStep(j, "none", "exec")
  /\ left' = [left EXCEPT ![j] = argv[j][1]]
  /\ argv' = [argv EXCEPT ![j] = After(@, "|")]
  /\ wcmd' = [wcmd EXCEPT ![j] = argv[j][1]]
  /\ win' = [win EXCEPT ![j] = in[j]]
  /\ stage' = [stage EXCEPT ![j] = @ + 1]
  /\ full' = [full EXCEPT ![j] = 0]
  /\ ends' = [ends EXCEPT ![j] = @ \cup {stage'[j]}]
  /\ UNCHANGED <<input, stdin, shell, in, out, unread, status, todo, log, hit>>

LForkFails(j) ==
  /\ "fork" \in Faults
  /\ LExits(j, "fork")
  /\ hit' = TRUE

\* close(pfd[1]) and dup2(pfd[0], 0).
LDup(j) ==
  /\ LStep(j, "dup", "wait")
  /\ ends' = [ends EXCEPT ![j] = @ \ {stage[j]}]
  /\ in' = [in EXCEPT ![j] = Pipe(stage[j])]
  /\ UNCHANGED <<input, stdin, shell, argv, left, out, unread, status, writer,
                 log, hit>>

\* waitpid(), and then pipe_and_exec() of the words on the right.
LReap(j) ==
  /\ LStep(j, "wait", CASE pipe_present(argv[j]) > 0 -> "fork"
                        [] pipe_present(argv[j]) = 0 -> "exec"
                        [] OTHER -> "missing")
  /\ KStep(j, "zombie", "none")
  /\ UNCHANGED <<input, stdin, shell, argv, left, in, out, unread, ends, status,
                 wcmd, win, stage, todo, full, log, hit>>

\* "Missing command next to pipe in commandline."
LMissing(j) == LExits(j, "missing") /\ UNCHANGED hit

LExec(j) ==
  /\ LStep(j, "exec", "run")
  /\ argv[j][1] \in Commands
  /\ Executes(j, stage[j] + 1, argv[j][1], in[j], out[j])
  /\ UNCHANGED <<input, stdin, shell, argv, left, in, out, unread, ends, status,
                 writer, hit>>

\* execvp() fails.  After a pipe, control falls through to the writer's
\* side: the child closes the reading end of the pipe made last, which
\* nobody else has, takes the other end for its output, and becomes the
\* command on the left.
LExecFails(j) ==
  /\ lpc[j] = "exec" /\ argv[j][1] \notin Commands
  /\ \/ /\ stage[j] = 0 \/ out[j] = Unread
        /\ LExits(j, "exec")
     \/ /\ stage[j] > 0 /\ out[j] # Unread
        /\ argv' = [argv EXCEPT ![j] = <<left[j]>>]
        /\ out' = [out EXCEPT ![j] = Unread]
        /\ UNCHANGED <<input, stdin, shell, lpc, left, in, unread, ends, status,
                       writer, log>>
  /\ UNCHANGED hit

\* The command comes to its end: it has read its input to the end, and
\* SIGPIPE stops it if it writes into a pipe nobody reads.
LEnd(j) ==
  /\ \A n \in ends[j] : in[j] # Pipe(n)
  /\ LStep(j, "run", "zombie")
  /\ status' = [status EXCEPT ![j] =
       IF \/ argv[j][1] \in Failing
          \/ out[j] = Unread /\ Output[argv[j][1]] > 0
       THEN "failed" ELSE "ok"]
  /\ UNCHANGED <<input, stdin, shell, argv, left, in, out, unread, ends, writer,
                 log, hit>>

LeaderStep(j) ==
  \/ LStart(j) \/ LFork(j) \/ LDup(j) \/ LReap(j) \/ LMissing(j)
  \/ LExec(j) \/ LExecFails(j) \/ LEnd(j)

-----------------------------------------------------------------------------
(* The writer that the child of line j has forked.                         *)

KExec(j) ==
  /\ wcmd[j] \in Commands
  /\ KStep(j, "exec", "run")
  /\ todo' = [todo EXCEPT ![j] = Output[wcmd[j]]]
  /\ Executes(j, stage[j], wcmd[j], win[j], Pipe(stage[j]))
  /\ UNCHANGED <<input, stdin, shell, leader, wcmd, win, stage, full, hit>>

KExecFails(j) ==
  /\ wcmd[j] \notin Commands
  /\ KStep(j, "exec", "zombie")
  /\ exit(j, win[j])
  /\ UNCHANGED <<input, shell, leader, wcmd, win, stage, todo, full, log, hit>>

\* A block, if the pipe has room for it.
KWrite(j) ==
  /\ wpc[j] = "run" /\ todo[j] > 0 /\ full[j] < Capacity
  /\ todo' = [todo EXCEPT ![j] = @ - 1]
  /\ full' = [full EXCEPT ![j] = @ + 1]
  /\ UNCHANGED <<input, stdin, shell, leader, wpc, wcmd, win, stage, log, hit>>

\* All is written, and the input is read to its end.
KEnd(j) ==
  /\ todo[j] = 0
  /\ \A n \in ends[j] : win[j] # Pipe(n)
  /\ KStep(j, "run", "zombie")
  /\ UNCHANGED <<input, stdin, shell, leader, wcmd, win, stage, todo, full, log,
                 hit>>

KKilled(j) ==
  /\ "kill" \in Faults
  /\ KStep(j, "exec", "zombie") \/ KStep(j, "run", "zombie")
  /\ hit' = TRUE
  /\ UNCHANGED <<input, stdin, shell, leader, wcmd, win, stage, todo, full, log>>

WriterStep(j) == KExec(j) \/ KExecFails(j) \/ KWrite(j) \/ KEnd(j)

-----------------------------------------------------------------------------
Next ==
  \/ ShellStep \/ SForkFails
  \/ \E j \in Jobs :
       LeaderStep(j) \/ LForkFails(j) \/ WriterStep(j) \/ KKilled(j)

Spec == Init /\ [][Next]_vars

\* Every process that can take its next step eventually takes it.
FairSpec ==
  /\ Spec /\ WF_vars(ShellStep)
  /\ \A j \in Jobs : WF_vars(LeaderStep(j)) /\ WF_vars(WriterStep(j))

-----------------------------------------------------------------------------
(* What must hold.                                                         *)

\* A line as a user reads it: its commands are the first word and those that
\* follow a "|"; each reads what the one before it has written, the first
\* the file after "<", and the last writes to the file after ">".
Bars(words) == {i \in DOMAIN words : words[i] = "|"}
Stages(words) == {1} \cup {i + 1 : i \in Bars(words)}
Plan(words) ==
  LET nth(i) == Cardinality({k \in Stages(words) : k <= i})
  IN  {[nth |-> nth(i), cmd |-> words[i],
        in  |-> IF i > 1 THEN Pipe(nth(i) - 1)
                ELSE IF Has(words, "<") THEN File ELSE Stdin,
        out |-> IF \E k \in Stages(words) : k > i THEN Pipe(nth(i))
                ELSE IF Has(words, ">") THEN File ELSE Stdout]
       : i \in Stages(words)}

\* The lines that both shells should understand: every special word has a
\* word on each side, but "&", which is the last.  Part2 drops what comes
\* after a "<" or ">", so that one of them must be the last command's, and a
\* "<" the only one's.  SP_HW2 has none of these.
Special == {"|", "<", ">", "&"}
WellPlaced(words) ==
  /\ \A i \in DOMAIN words : words[i] \in Special =>
       /\ i > 1 /\ words[i - 1] \notin Special
       /\ IF words[i] = "&" THEN i = Len(words)
          ELSE i < Len(words) /\ words[i + 1] \notin Special
       /\ words[i] \in {"<", ">"} => \A k \in Bars(words) : k < i
       /\ words[i] = "<" => /\ \A k \in 1..i : words[k] # ">"
                           /\ Bars(words) = {} /\ ~Has(words, ">")
  /\ first => \A t \in {"|", "<", ">"} : ~Has(words, t)

\* No command but the first is one that execvp() does not find.
Executable(words) == \A i \in Stages(words) \ {1} : words[i] \in Commands

\* "Redirect input and update argv", "deal with pipes": of a line that is
\* well placed each command is executed at most once, after those to the
\* left of it and with the input and output the user has asked for; and a
\* line that ends well has executed all the commands that there are, unless
\* a process was killed.
InOrder ==
  \A j \in 1..Len(taken) :
    LET words == script[taken[j]]
        done  == {log[j][k] : k \in 1..Len(log[j])}
    IN  words # <<>> /\ WellPlaced(words) /\ Executable(words) =>
          /\ done \subseteq Plan(words)
          /\ \A k \in 2..Len(log[j]) : log[j][k - 1].nth < log[j][k].nth
          /\ status[j] = "ok" /\ ~hit =>
               \A c \in Plan(words) : c.cmd \in Commands => c \in done

\* "Wait for child to terminate": the prompt comes after every process of a
\* line without "&" has ended.
PromptLast ==
  spc = "prompt" =>
    \A j \in 1..Len(taken) :
      lpc[j] # "unborn" /\ ~is_background(script[taken[j]]) =>
        lpc[j] = "gone" /\ wpc[j] = "none"

\* Every line is taken, once and in order, and then the shell ends, if the
\* commands are found and end well, and nobody writes more than a pipe holds
\* to a command that the shell waits for.
Harmless(words) ==
  \/ words = <<>>
  \/ words[1] = "echo" /\ Len(words) > 1
  \/ /\ WellPlaced(words) /\ words[1] \notin Inbuilts
     /\ \A i \in Stages(words) :
          /\ words[i] \in Commands \ Failing
          /\ is_background(words) \/ Output[words[i]] <= Capacity
                                 \/ \A k \in Bars(words) : k < i
ScriptEnds ==
  (\A i \in DOMAIN script : Harmless(script[i])) ~>
    hit \/ (spc = "exited" /\ taken = [i \in DOMAIN script |-> i])
=============================================================================
