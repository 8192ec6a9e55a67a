--------------------------- MODULE SmallPrograms ---------------------------
(***************************************************************************)
(* Nine of the small programs side by side: the signals in turns, the      *)
(* directory watcher, the filter that forks for every line, the System V   *)
(* signal functions, the polling sequence-number server, popen_pclose, the *)
(* programs that copy, the dictionary file and the process tree.           *)
(* MCPrograms runs one of them at a time; ProgramsProofs proves about each *)
(* for all values of its constants.                                        *)
(***************************************************************************)
EXTENDS Integers, Sequences, FiniteSets

CONSTANTS
  numSigs, MaxStrays, \* SigPingPong
  Files, MaxChanges,  \* FileNotify
  Procs, FilterLines, \* PipeFilter
  Signals, MaxSent,   \* SysVSignals
  Clients, Lengths, INT_MAX, CAPACITY, None, PollFaults, \* SeqnumNonblock
  OPEN_MAX, BUF, PIPE_CAPACITY, MaxOutput, \* Popen
  Bytes, BLOCK, MaxLen, \* FileCopy
  Lines, MaxText,       \* DictFile
  MaxPid, MaxDeaths     \* ProcessTree

ASSUME PingPongAssumption == numSigs \in Nat \ {0} /\ MaxStrays \in Nat

ASSUME ProcsAssumption ==
  IsFiniteSet(Procs) /\ Procs # {} /\ Procs = 1..Cardinality(Procs)

ASSUME PollingAssumption == None \notin Clients

\* A process has its three standard files, and room for a pipe.
ASSUME PopenAssumption ==
  /\ OPEN_MAX \in Nat /\ OPEN_MAX > 4
  /\ BUF \in Nat \ {0} /\ PIPE_CAPACITY \in Nat \ {0} /\ MaxOutput \in Nat

ASSUME CopyAssumption == BLOCK \in Nat \ {0} /\ MaxLen \in Nat

\* There are the processes 1 and 2.
ASSUME TreeAssumption == MaxPid \in Nat \ {0, 1} /\ MaxDeaths \in Nat

VARIABLES
  step,     \* the next step of the program that runs
  pc, scnt, handled, blocked, pending, kills, strays,        \* SigPingPong
  exist, changes, dir, watched, toWatch, queue, passed,      \* FileNotify
  typed, eof, read, at, line, child, up, down, outs, shown, lost, \* PipeFilter
  sa_mask, handler, sysvBlocked, sysvPending, paused, held, missed, counter,
  sent,                                                      \* SysVSignals
  listening, requests, seqLen, serverUp, pollSpc, req, clientFd, seqNum, cpc,
  linked, reading, fifo, printed,                            \* SeqnumNonblock
  mode, popenEof, command, pid, running, written, pipe, open, keep_fd,
  fdtopid, buf1, got, popenShown,                            \* Popen
  tool, src, dst, size, buf, stdout, old, cut,               \* FileCopy
  text, rest, datafile, present, dictIn, dictShown,              \* DictFile
  father, deaths, names, rows, call, stack, count, tree      \* ProcessTree

Ping   == INSTANCE SigPingPong
Notify == INSTANCE FileNotify WITH todo <- toWatch
Filter == INSTANCE PipeFilter WITH MaxLines <- FilterLines, taken <- read,
                                   stdout <- outs
SysV   == INSTANCE SysVSignals WITH blocked <- sysvBlocked,
                                    pending <- sysvPending
Seqnum == INSTANCE SeqnumNonblock WITH Faults <- PollFaults, up <- serverUp,
                                       spc <- pollSpc
PopenP == INSTANCE Popen WITH CAPACITY <- PIPE_CAPACITY, eof <- popenEof,
                              shown <- popenShown
Copy   == INSTANCE FileCopy
Dict   == INSTANCE DictFile WITH MaxLines <- MaxText, in <- dictIn,
                                 shown <- dictShown
Tree   == INSTANCE ProcessTree

ASSUME TextAssumption == Dict!Blank \notin Lines /\ MaxText \in Nat

\* The properties, each stated in its module: the signals alternate; the
\* watcher that waits watches every file; of the processes of the filter one
\* reads, and every line comes out; no signal is waited for that has come;
\* the polling server gives every client numbers of its own, and a client
\* that is ready is answered; the prompt of popen_pclose comes after the
\* command, and comes; a copy is what was copied; a word's definition is what
\* the text says; the tree shows the processes under the first two.
Alternation == Ping!Alternation
QuietMeansWatched == Notify!QuietMeansWatched
OneReader == Filter!OneReader
LineComesOut == Filter!LineComesOut
NoLostWakeup == SysV!NoLostWakeup
PollingImplementsService == Seqnum!ImplementsService
PollingClientAnswered == Seqnum!ReadyClientAnswered
PromptAfterCommand == PopenP!PromptAfterCommand
CommandReturns == PopenP!CommandReturns
CopyFaithful == Copy!CopyFaithful
LookupRight == Dict!LookupRight
TreeShown == Tree!TreeShown
=============================================================================
