# TLA+ models of Network-System-Programming

The repository is a course's worth of small UNIX programs, one directory per
assignment. Each is a handful of processes that meet in the kernel: at
semaphores and shared memory, message queues, FIFOs, signals, pipes and
sockets. Between the programs there is nothing in common but this, and so
there is one model per program. `MCPrograms` puts nine of the small ones into
one run, but side by side: they do not interact.

Paths below are relative to the repository's root.

## 1. The system

### Components that are modelled

| component | state | operations | how its parts interact |
|---|---|---|---|
| `SP_HW9/54` svshm_xfr: a stream through shared memory | two System V semaphores, a segment with `cnt` and `buf`, the writer's and each reader's position and totals | create and initialise the semaphores, attach, reserve, fill or write out, release, remove | writer and readers hand one buffer back and forth by the semaphores |
| `SP_HW9/52` svmsg_file: a file server over message queues | `/MSG11` and `/MSG12` with their contents, the request in hand, one child per request, the pending SIGCHLD | open, request, fork, stream a file, reap, unlink at exit | messages; children inherit the server's `atexit()` handler; SIGCHLD interrupts the server |
| `SP_HW8/44-6` fifo_seqnum: sequence numbers over FIFOs | the server's FIFO and one for each client, `seqNum` | mkfifo, open (which waits for the other end), request, answer, give up | an ordinary, and an "abnormal", client program |
| `SP_HW8/44-7` the same with `O_NONBLOCK` | as above, plus the descriptor that may be -1 | as above, by polling | |
| `SP_HW7/SP_HW7-1` sig_speed: two programs of signals in turns | blocked and pending SIGUSR1, loop counters | block, fork, kill, wait | parent and child signal each other |
| `SP_HW10` broadcast through a ring in shared memory | the ring, the total, a spin lock in one of the programs, the signal pending for each consumer | write a slot, `sigqueue()`, wait, read a slot, compare, count | one producer, N consumers, with lock and without |
| `SP_HW11/part1`, `part2` a dictionary over stream sockets | connections and what is in them, a child per connection, its mapped table, the client's record | accept, fork, receive, look up, send, close; ask, connect, send, receive | UNIX and Internet sockets, which differ in what a write to a closed connection does |
| `SP_HW11/part3` the dictionary over datagrams | the server's and the clients' sockets, one table, one address | ask, receive, look up, answer | requests of all clients in one socket; nothing is sent twice |
| `SP_HW4/part2` and `SP_HW2` the shells | the lines in `stdin`'s buffer and the file offset behind it, a child per line with its arguments, input, output and open pipe ends, a writer per `\|` | read, parse, built-in, fork, redirect, pipe, dup, wait, exec | shell, child and writer share descriptors and one file offset, and wait for each other |
| `SP_HW5` bidirection_pipe: a filter that forks for every line | a growing chain of processes, two pipes for each, the lines they hold | read a line, fork, send, receive, answer, print, wait | parent and child run the same loop on the same input; who holds a pipe's end decides whether the other side sees its end |
| `SP_HW5` popen_pclose | descriptors, the table `fdtopid`, one command and the pipe to or from it, the buffer | `my_popen()`, `fread()`, copy, `my_pclose()` | program and command wait for each other |
| `SP_HW6` file_notify: a directory watcher | the directory, the watches, the queue of events | walk and watch, read events | the kernel queues events while the walk goes on |
| `SP_HW7/SP_HW7-2` the System V signal functions | mask, dispositions, pending signals, the static `sa_mask` | `my_sigset()`, `my_sighold()`, `my_sigrelse()`, `my_sigignore()`, `my_sigpause()` | signals come between any two calls |
| `SP_HW3/hw3_part2` a process tree | the rows read from `/proc`, the links between them | scan, hang each row under its father, print | processes end while they are listed |
| `SP_HW4/part3` a dictionary file | a text, the file converted from it, the open stream | convert, look up | one program writes what the other reads |
| `SP_HW1`, `SP_HW9/49`, `SP_HW4/part1/mycat.c` copies | source, target, the size, the buffer | measure, read, write, map | others change the file meanwhile |

### What is hard in them, and what makes them correct

* **svshm_xfr.** A buffer used in turns by one writer and any number of
  readers, any of which may be killed with its semaphore down; a writer that
  is run again resets the semaphores under the readers. Correct means: no two
  sides are in the segment together, what comes out is what went in, block by
  block, and the writer removes the semaphores only when all of it is out.
* **svmsg_file.** Queues outlive their names, so a process may use a queue
  that another has unlinked; the queue is bounded, and a dead client leaves
  its child blocked for ever; SIGCHLDs are merged; the last message of a file
  is told from the others by a type that is sent as part of its data. Correct
  means: the size the client reports is the file's, nobody gets another's
  messages, every request is served, no dead child is forgotten and the
  server stays reachable.
* **fifo_seqnum.** `open()` of a FIFO waits for the other end, unless it is
  told not to, and then it fails if the other end is late. Correct means: no
  number is given out twice, and a client that misbehaves or dies hurts
  nobody else.
* **sig_speed.** A signal sent while one is pending is lost, and one sent
  before the receiver waits must not be. Correct means: strict alternation
  and an end.
* **broadcast.** Signals are dropped, or come when nobody is in `pause()`;
  without the lock a slot is read while it is written. Correct means: with
  the lock no torn reads, no message counted twice, a final sum; and
  no loss when no signal is.
* **dictionary.** Strings travel without a terminator and are received into
  memory that held other strings; the datafile may change between lookups;
  either end may close or die at any moment; a datagram may be lost. Correct
  means: what is printed of a word is what the dictionary says of it, and
  nobody waits who need not.

* **shells.** A pipe end that is kept open, or a writer that is waited for
  before its pipe is read, is a line that never ends; a child's `exit()` moves the
  offset of the shell's own input; an `exec` that fails goes on in the code
  of another process. Correct means: each command once, in its turn, with its
  own input and output; the prompt last; every line of a script once.

* **bidirection_pipe.** The child never leaves `main()`'s loop, so two
  processes are after the same input, and the end of the answer is seen only when
  the last copy of the pipe's end is gone. Correct means: one reader of the
  input at a time, and every line out, once.
* **popen_pclose.** Waiting for a command whose input is still open. Correct
  means: the prompt comes after the command, and comes.
* **file_notify.** Files come and go between the listing, the watch and the
  event. Correct means: when the program waits, it watches all there is.
* **System V functions.** Two calls for what must be one. Correct means: no
  wait for a signal that has come.
* **process tree, dictionary file, copies.** Input that changes while it is
  read, and formats in which the order of lines is all there is. Correct
  means: the printed tree, the answer, the copy are those of a short definition.

### Components that are not modelled

* `SP_HW3/hw3_part1`, `hw3_part3`: they read a file of `/proc` and print it;
  no state outlives a line.
* `SP_HW12`, a character driver: two functions that print to the kernel's log,
  and no state.
* `SP_HW4/part1` but for `mycat.c`: `pipe_ls`, `mydate`, `printdir` and
  `hostinfo` are a few calls each, one after the other.
* `SP_HW1/produce_file.c`, which writes a test file.
* The files copied from the TLPI library (`error_functions.c`, `get_num.c`
  and others, in several directories): third-party code. `fatal()` and `errExit()` appear in the
  models as the end of the process that calls them.

## 2. Modules

| module | what it is |
|---|---|
| `BlockStream` | abstract: a stream of blocks, delivered in order, closed when all are |
| `SvshmXfr` | `svshm_xfr_writer.c`, `svshm_xfr_reader.c`, `binary_sems.c`; implements `BlockStream` |
| `SvshmXfrProofs`, `MCSvshmXfr` | proofs; constants for TLC |
| `MsgFile`, `MsgFileProofs`, `MCMsgFile` | `svmsg_file_server.c` and `svmsg_file_client.c` |
| `SeqnumService` | abstract: each request is given the next numbers, or none |
| `SeqnumFifo`, `SeqnumProofs`, `MCSeqnumFifo` | the server and both clients of 44-6; implements `SeqnumService` |
| `SeqnumNonblock` | the polling programs of 44-7; implements `SeqnumService` |
| `SigPingPong` | `sig_speed_sigsuspend.c` and `sig_speed_sigwaitinfo.c` |
| `ShmBroadcast`, `ShmBroadcastProofs` | `program.c` and `program_enhanced.c` |
| `Dictionary` | words, texts and the lookup, shared by `DictStream` and `DictDatagram` |
| `DictService` | abstract: a word is answered from one edition of the file for each connection |
| `DictStream`, `DictStreamProofs`, `MCDictStream` | both stream servers and their clients; implements `DictService` |
| `DictDatagram`, `DictDatagramProofs`, `MCDictDatagram` | the datagram server and its client |
| `ShellPipeline`, `MCShellPipeline` | both shells; `first` chooses between them |
| `PipeFilter` | `SP_HW5/bidirection_pipe.c` |
| `Popen` | `SP_HW5/popen_pclose.c` |
| `FileNotify` | `SP_HW6/file_notify.c` |
| `SysVSignals` | `SP_HW7/SP_HW7-2/system_v.c` and its examples |
| `ProcessTree` | `SP_HW3/hw3_part2.c` |
| `DictFile` | `SP_HW4/part3`: `convert.c`, `lookup1.c`, `main.c` |
| `FileCopy` | `SP_HW1/hw1-1.c`, `hw1-2.c`, `SP_HW9/49/49-1.c`, `SP_HW4/part1/mycat.c` |
| `SmallPrograms` | `SigPingPong`, `FileNotify`, `PipeFilter`, `SysVSignals`, `SeqnumNonblock`, `Popen`, `FileCopy`, `DictFile` and `ProcessTree` side by side, with what is assumed of their constants |
| `ProgramsProofs` | proofs about these nine and about `ShellPipeline` |
| `MCPrograms` | these nine, for TLC |
| `FiniteSums` | lemmas on sums over a finite set, for `SvshmXfrProofs` and `ShmBroadcastProofs` |

**How to read them.** An action is one system call that others can notice,
with the code around it that they cannot. Names are those of the source where
it has one (`cnt`, `seqNum`, `recv_seq`, `reserveSem`, `seqcmp`); otherwise
the action's first letter says who acts: W and R the writer and the readers,
S, K and C the server, its child and the client, P the parent; in
`ShellPipeline` S, L and K are the shell, its child (the leader of the line) and the writer. A `...pc`
variable holds the process's next call. Every action's guard is the state in
which the call returns: a call that would block is an action that is not
enabled. Processes that die do so by an action of their own (`...Killed`).
A *history* variable is one no guard reads; it exists for a property.

Near the top of each module, under the heading "slips", are variants of some
definitions: what the code would be with a forgotten `memset()`, a missing
wait, a reset in the wrong place. Nothing uses them. Each property
has one that breaks it (`mutants` in `PROJECT.json`), which shows that the
property depends on that line of code.

**What is abstracted.** Contents are model values: a block has an identity and
a length, a file a length, a word and a text an identity. Widths are kept
where they matter: `seqNum` wraps at `INT_MAX`, `mtype` has the size of a
`long` and is counted in the length of a message as in the code. Messages on a
socket are not split: a stream socket passes at most 480 bytes at once here.

## 3. Runs

Each run is `tlc -config <run>.cfg <module>`; they take between one
second and a minute and a half on two cores. A module's `TypeOK` is
proved where there is a proof module, and was checked by TLC before that; no
run lists one.

`Programs` is several small runs in one: `program` is chosen in the initial
state, only that program takes steps, and the variables of the others keep
their initial values, in which their invariants hold. Its states
are therefore the sum of those of its programs and not their product, and a
property says what it would in a run of its own. Programs with a first
step of their own share the variable `step`. Its fairness is that of the
modules: for each process of sig_speed, the filter and the polling server and
clients, and for program and command of popen_pclose. The watcher, the tree,
the dictionary file, the copies and the System V functions have no liveness properties and no fairness.

| run | instance | what it shows |
|---|---|---|
| `SvshmXfrFaults` | 3 readers, inputs of up to 3 blocks of two lengths; kills, failing `read()` and `write()` | `MutualExclusion`, `StreamIntegrity`, `TotalsAgree`; implements `BlockStream` |
| `SvshmXfrRerun` | 2 readers, inputs of up to 2 blocks, the writer run twice, kills, fairness | `TransferCompletes`: an undisturbed transfer ends for all; `RerunSafeWhenQuiet`: a second writer restores the alternation if no reader holds or has been given a turn |
| `MsgFile` | 2 clients, queues of one message (a `long` is 2 bytes, a message 3). One after the other (`alone`): files missing, empty, of 1, 2, 3 and 7 bytes. At once: a file of two messages or none, clients killed, `fork()` failing | `ReportIsFileSize`, `NoCrossTalk`, `ClientAnswered` of the first kind; `ZombieNoticed`, `RequestsServed` of both |
| `MsgFileReachable` | 2 clients, one file may be missing | **violated:** `ServerStaysReachable`, see 5 |
| `SeqnumFifo` | 3 clients, one abnormal, lengths 1 and 2, `INT_MAX` 3, kills on both sides | `DisjointRanges`, `ReadyClientAnswered`; implements `SeqnumService` |
| `SeqnumFifoRace` | 2 ordinary clients, no fault | **violated:** `NormalClientAnswered`, see 5 |
| `ShmBroadcast` | 4 messages, 2 consumers, 3 slots, with and without the lock | `LockExcludes`, `CountedOnce`, `InStepLosesNothing`, `InStepEnds` |
| `DictStream` | 2 clients, 1 word, 2 editions of which one lists it, 0 to 2 processes allowed, both socket families | `EveryWordSettled`, `ChildEnds`; implements `DictService` |
| `DictDatagram` | 2 clients, a socket that holds 1 datagram, the server started twice | `AnswersRight`, `OnePlace`, `AnsweredUnlessLost` |
| `ShellPipeline` | both shells, terminal or file, 71 scripts of up to 3 lines, pipes that hold one block, up to 4 lines taken, `fork()` failing, writers killed | `InOrder`, `PromptLast`, `ScriptEnds` |
| `Programs` (`MCPrograms`), by program: | | |
| — sig_speed | 3 rounds, up to 2 signals from elsewhere | `Alternation`, `PartnersFinish` |
| — polling server | 3 clients of lengths 1, 2, 2, a FIFO that holds 2 requests, `INT_MAX` 3, kills | `PollingImplementsService`, `PollingClientAnswered` |
| — tree | every family of up to 5 processes, 2 of which may end during the scan | `TreeShown` |
| — dictionary | every text of up to 6 lines over two words, and blank ones | `LookupRight` |
| — copy | files of up to 3 bytes, blocks of 2, changed by others at any step; all five programs | `CopyFaithful` |
| — notify | 2 names, 3 changes of any kind at any step | `QuietMeansWatched` |
| — filter | 4 processes, 3 lines | `OneReader`, `LineComesOut` |
| — popen | 6 descriptors, a buffer of 2, a pipe of 1, output of up to 3 | `PromptAfterCommand`, `CommandReturns` |
| — system_v | 2 signals, 3 sent, the five functions in any order | `NoLostWakeup` |
| `DictFileWhole` (`DictFile`) | texts of up to 4 lines | **violated:** `WholeDefinitionShown`, see 5 |

**Why these bounds.**

* *svshm_xfr.* Two block lengths make a block that is written out with another's
  length visible, three blocks a loss, a repetition or an exchange; a third
  reader is what it takes for two readers to be disturbed by one that dies.
  Readers are interchangeable, hence the symmetry, which is used in the run
  without liveness only.
* *svmsg_file.* The sizes are on both sides of every boundary the code has: no
  file, no data, less than a `long`, exactly one message, a last message
  shorter than a `long`. A queue of one message makes every send able to
  block.
* *fifo_seqnum.* Three requests with these lengths overflow an int of 3 or not
  according to their order, and the third client is there while the first
  two are dead or stuck. The FIFO of two requests in 44-7 can be full.
* *sig_speed.* Signals are not counted, so what may go wrong does in two
  rounds; a third has a round on both sides of it. The theorems hold for any number.
* *broadcast.* Four messages go around a ring of three slots, so one slot is
  written twice. `InStepLosesNothing` needs three slots: for two TLC finds a
  loss, and the property says so by its premise `B > 2`.
* *shells.* A block fits in a pipe, two do not. Of every form of line that
  the code tells apart there is one or more (31 of them), alone and before
  another line; three commands in a line make the ends of one pipe meet those
  of another. A fourth line taken is there for scripts that are read
  again from the middle.
* *the small programs.* Four processes are a chain of three and the `fork()`
  that fails, with three lines one for each link. Five processes make trees
  of three levels with rows that stand before their fathers; two that end make
  a father vanish after its child was read, and a row be read from nothing. Six
  lines are two entries and a wrong line. Three bytes and blocks of two give a
  full block, a short one and a byte more. Three changes of two names fit one
  in the walk, one behind another event, and a rename. Two reads of a buffer of 2
  show what the first left in it. Three signals end the program, and two kinds
  of signal make one held and the other not.
* *dictionary.* Two clients are enough for the answer of one to reach the
  other, or for one to hold the process the other needs; two editions, of
  which one lists the word, show an answer from the wrong one and a
  `Not Found!` that should not be. One datagram in the socket means that the
  second client's is lost.

**Deadlock.** Only the two dictionary runs check for it. All other programs
end, or wait for a user who may leave, so their runs stop with everybody gone (`CHECK_DEADLOCK FALSE`);
that nobody is left waiting who should not be is what their liveness
properties say.

**Fairness.** Weak fairness of each process, as a whole: the scheduler
eventually runs a process that can run, and a process has one next step. It is
never assumed that a user starts or types anything, that a fault happens, or
that a client leaves. In `SigPingPong` the delivery of a signal is a step of
the process that receives it. Whether `usleep()` lasts long enough
for the consumers is not assumed: it ends whenever it likes.

**The undefined behaviour that is modelled.** The abnormal client of 44-6
tests and reads a descriptor that it never set: it fails, hangs or prints
something. `seqcmp()` of `SP_HW10` runs off its end without a `return` when
it finds nothing, and gives 0 in the builds of the Makefile, which is what
the model has. A slot read while it is written may show any number. The
first message of a file shorter than a `long` leaves part of `mtype` unset:
the client may take it for data or for the end. In `lookup9` the length
passed to `recvfrom()` is unset after the first call, and in all dictionary clients `tryit`
is unset at the first prompt; the builds of the Makefiles behave as
if both were zero, so that is modelled.

## 4. Proofs

TLAPS checks these theorems for every value of the constants, under the
`ASSUME` of each module (`XfrAssumption`, `MsgFileAssumption`,
`SeqnumAssumption`, `BroadcastAssumption`,
`DictAssumption`, `DatagramAssumption`, `ClientsAssumption`, `ShellAssumption`, and those of
`SmallPrograms`: `PingPongAssumption`, `ProcsAssumption`, `PollingAssumption`, `PopenAssumption`,
`CopyAssumption`, `TextAssumption`, `TreeAssumption`). They give kinds and sizes of the constants,
say that sets of processes which are counted or summed over are finite,
and that the value for "nobody" is none of them. TLC evaluates all of them. Every theorem is of the form
`Spec => ...` and uses no fairness.

* **`SvshmXfrProofs`**: `TypeCorrect`, `Exclusion`, `Integrity`,
  `Implementation` (of `BlockStream`), `Totals` and `Rerun`. `MutualExclusion` says nothing of the
  semaphores and is not inductive. `IInv` says where the turn is (`TurnInv`:
  up in one semaphore, or with one process, and in one place at most), which semaphore
  set each process uses (`IdInv`), what has come through when the
  turn is there (`DataInv`) and that the end is reached only when all has been
  read (`EndInv`). `TypeCorrect` holds for any number of runs of the writer; these
  and `Totals` for one (they assume `MaxRuns = 1`), as a second run does break
  exclusion when it finds a reader at work.
  `Totals`, that what the writer prints agrees with its readers' sums, needs
  `TotalsInv`: neither side counts a block when it hands it over, so for
  each place of the turn the invariant says how far the writer's count and the
  sum over all readers are apart.
  `Rerun` is about any number of runs: from the moment the last writer sets the
  semaphores with no reader at work, `RerunInv` has one turn at most, whatever the
  runs before left. It needs nothing of `IInv`, which a writer that died has broken.
* **`SeqnumProofs`**: `TypeCorrect`, `Disjoint`, `Implementation` (of
  `SeqnumService`). Disjointness follows from `RangeInv`: until the overflow
  the next number lies past all that have been given, but for those of the
  client that was just answered and is not counted yet. The refinement adds
  `OnceInv`: a request that waits, or is held, is one that nobody has
  answered.
* **`ShmBroadcastProofs`**: `TypeCorrect`, `Locking` (the spin lock excludes,
  and nobody reads a torn slot), `ReportIsFinal`, `Counting`, `NothingLost`. `LockInv` has one holder at
  most, `WaitInv` that the consumers the parent has waited for have ended.
  `Counting` holds because the numbers a consumer is sent grow: `CountInv` puts
  what it has counted below what it was woken for, and that below what is
  pending, so each message counts once and the total is the sum of the sizes
  of the sets (`SumInv`). `NothingLost` is about a ring that is used again:
  `StepInv` has each consumer, as long as no signal missed a `pause()`, at most one
  message behind what it was sent, and `SlotInv` the last B - 1 messages in
  their slots, so that what it comes to read has not been overwritten. This
  is where B > 2 is used.
* **`MsgFileProofs`**: `Reaping`: a dead child is being reaped or has left a
  SIGCHLD pending. `Reporting` and `Separation` are about clients that are run
  one after the other, of whatever file and size of a message; `AloneInv` says that one
  client at a time has anything to do with the server and `/MSG12` stands for its queue
  (`OwnInv`), and that what its child has sent, and what it has
  received of that, are a first part of the messages the file makes, in order
  (`ChildInv`, `ClientInv`). The size then follows from where the k-th block begins and ends.
* **`DictStreamProofs`**: `TypeCorrect`, `Answers`, `Implementation` (of
  `DictService`). The invariant has three parts: `Places`, the steps of
  client, connection, backlog and child that go together; `Messages`, which
  of the word and the text are set at each of them, and that memory into which
  something is received has been zeroed; and the property itself.
* **`DictDatagramProofs`**: `InOnePlace`, `Answers`. `OnePlace` is about clients that
  wait; `PlaceInv` adds the others, above all that a client at the prompt has
  nothing anywhere, and that no client has two questions in the socket. `WordsInv`
  carries the word along: in the socket and in the server it is the one the
  client still has in memory, so that what comes back answers it.
* **`FiniteSums`**: what a sum over a finite set is when every term is 0, and
  how it changes with one of its terms. The induction on the set is an argument by the
  smallest counterexample, for which the library's theorem on well-founded
  orders needs no operator as a parameter.
* **`ProgramsProofs`**, a section for each program:
  * `Watching`. `QuietMeansWatched` speaks of the moment when nothing is left to read;
    `NotifyInv` of every moment: what is not watched is still on the walk's
    list, or there is news of it in the queue, or it was passed over.
  * `Pausing`. `NoLostWakeup` needs that the signal is blocked until
    `sigsuspend()` (`PauseInv`).
  * `OneAtTheInput`. `OneReader` is about two processes and is inductive
    only as a statement about all: `ChainInv` says that they are
    a chain, each but the last busy with the next, and `LinesInv` that the lines
    still to come out are held by different processes and lie below those to come.
  * `Polling`, the refinement of `SeqnumService` by the polling programs:
    `PollInv` says that a request that waits or is held is the client's only
    one and has no answer, so that the server, which goes on from every call
    that fails, answers nobody twice.
  * `Prompting`. `my_pclose()` waits for the process that `fdtopid` has for its
    descriptor. None is ever closed, so `FdInv` says which are open, that the
    lowest free one is what `pipe()` gave, and whose it is; `PopenInv` follows the
    output from the command to the pipe, the buffer and the terminal.
  * `Copying`. `GrowInv` says, for each step of the three programs that copy a file,
    what of the size that was measured still holds, and that what has
    been read begins the file; `TeeInv` is the property of tee itself.
  * `Lookups`. `datafile` has a record for each entry of the text: the invariant says that there
    is a map from records to entries, strictly increasing and onto those that
    convert has passed (`Records`). So the first record of a word is its first
    entry, which is what the search finds.
  * `PingPongTypes`, `Alternates` (which includes that no process signals a
    partner that has ended), `Accounted`. The invariant is `Baton`: while no
    signal comes from elsewhere, exactly one of four things is true, one
    process may send or the signal of the other is on its way, and the
    counters tell which.
  * `Waiting`, of `ShellPipeline`: for any script, commands and number of
    lines, with `fork()` failing and writers killed. `WaitInv` says which line may
    still have a process, other than those with a `&`: the last, while the shell waits for it;
    and that a writer is there only while its leader is at the `dup2()` or the
    `wait()` after the `fork()`.
  * `PipelinesInOrder`, of `ShellPipeline`. `InOrder` is about the commands a line
    has executed; `OrderInv` says of the child of every line that its arguments,
    its input, output and pipe ends, and its writer's, are those of one command of
    the line (`Place`), that what it has executed are the commands before that
    one (`History`), and what its end means (`Ended`). This rests on lemmas on how
    the `|`, `<` and `>` of a line cut it into commands. `StdinInv` keeps the lines
    that are taken lines of the script, `Fresh` the children not forked yet empty.
  * `TreeIsShown`: `TreeShown` for any number of processes, and of deaths during the scan. That function
    calls itself for a row's child and then for its sibling, so `ProcessTree` has the
    row of the call and a stack of the calls that are at their row's child,
    with one action for each half of the function; there is no recursion left to reason about.
    `TreeInv` says of the scan that the rows ascend and begin with the
    processes 1 and 2, whatever ends (`RowsInv`, `NamesInv`). Of the
    traversal it says, from the root it is under, that the stack is a
    chain of fathers down to the row of the call (`Descent`); that of the rows below the root
    just those are printed whose father is, but for the children which the calls on the
    stack have still to come to (`Progress`, `Reached`), and each once; that
    what was printed before the second root was reached is the whole of the first tree
    (`Earlier`); and that a row is printed after its father and, unless the second root
    is a child of the first, farther to the right (`Indented`). At the end the stack is empty, and "printed if its father is" is,
    by the least row for which it fails, the same as `Under` (`UnderRoots`).

The invariants that the proofs rest on were first checked by TLC on the instances
of section 3.

**Only model-checked.** All liveness (`TransferCompletes`, `ClientAnswered`,
`RequestsServed`, `ReadyClientAnswered`, `PollingClientAnswered`,
`PartnersFinish`, `InStepEnds`, `EveryWordSettled`, `ChildEnds`,
`AnsweredUnlessLost`, `ScriptEnds`, `LineComesOut`, `CommandReturns`), which the prover does
not reach.

## 5. Where the code and its words disagree

Three disagreements are runs.

* `MsgFileReachable`. "If msgrcv() or fork() fails, remove server MQ and exit"
  (`svmsg_file_server.c:114`). A child that cannot open its file ends with
  `exit()`, which runs the `atexit()` handler inherited from the server: the
  name `/MSG11` is gone, the server waits on, and no later client reaches it.
* `SeqnumFifoRace`. "Create our FIFO (before sending request, to avoid a
  race)" (`fifo_seqnum_client_normal.c:14`). The server opens the client's
  FIFO with `O_NONBLOCK`, so it must be open, not only exist. A client that
  is slower than the server waits for ever.
* `DictFileWhole`. An entry holds a "multiline definition of word1" that is
  "stretching over several lines" (`SP_HW4/part3/convert.c:4`). `convert`
  stores each line with its terminating NUL (`convert.c:71`), and `main.c`
  prints the text with `%s`: the first line is all that is shown. 8 of the 20
  entries of `SP_HW4/part3/dict` have more.

The others are part of the models, as the behaviour they describe, but no run
states the words they contradict.

* `svmsg_file_client.c:27`, "create queue for response": the queue's name is a constant, so
  clients that overlap share one queue and take each other's messages.
  `NoCrossTalk` is therefore checked for clients run in turn.
* `mq_send()` is passed the length without the `sizeof(long)` of `mtype`: each
  message loses its last bytes. The size that the client reports is right all
  the same, as `mtype` is counted with the data at the other end.
* `svshm_xfr_writer.c:11-12`, "initialize so that writer has first access":
  not when a writer is run again, with a reader of the first run waiting or at
  work. This is why `RerunSafeWhenQuiet` has a premise.
* 44-7, the server goes on with descriptor -1 when `open()` fails: it counts
  the numbers that nobody got, and the client polls for ever. `ReadyClientAnswered`
  asks that the FIFO was open in time.
* An empty line in the stream dictionary is a `send()` of no bytes: client and
  child wait for each other for ever. `EveryWordSettled` leaves it out. Over
  datagrams it is answered, and `AnsweredUnlessLost` includes it.
* The stream client takes the end of the stream for an answer and prints an
  empty text. A later `send()` ends the client by SIGPIPE: the next one over UNIX sockets,
  the one after it over Internet sockets.
* Servers do not wait for their children, which count against the limit on
  processes when they have ended; when `fork()` fails the server dies.
* `lookup8` and `lookup9` do not use the address of the resource they are
  given: it is always 127.0.0.1.
* A consumer of `SP_HW10` whose signal comes outside `pause()` may wait for ever,
  and the parent with it; `InStepEnds` says that only such a signal keeps
  the program from ending.
* The shell of `SP_HW4/part2` has a place for many, all of them in
  `ShellPipeline`. When a command after a `|` is not found, control falls
  through to the writer's side (`pipe_command.c:82-90`): the command before
  it runs again, on its own output, into a pipe that nobody reads.
  `redirect_in()` and `redirect_out()` say that they remove the operator and
  the file's name (`redirect_in.c:34`): they drop all that follows, so that a
  pipe or a `>` after a `<` is lost. A `&` that comes first is not seen as
  one. A line hangs if a command writes more than its pipe holds, as it is
  waited for before it is read. `InOrder` and `ScriptEnds` leave these lines out.
* A child of either shell ends with `exit()` when its command is not found, and the C library
  then moves the offset of the input file, which the shell shares, back to where the
  child's copy of the buffer is. If the shell does not wait, or reads again later, it
  takes lines twice; two such lines can keep it busy for ever.
* `run_command.c:40` passes the result of `strerror()`, undeclared and so an
  `int`, to `fprintf()`: where pointers are wider, the first child that
  ends with an error is the end of the shell. `SWait` allows both.
* `bidirection_pipe.c`: at the end of the input `read()` returns 0, which is not `EOF`, and
  the chain grows, with empty lines, until `fork()` fails.
* `popen_pclose.c`: `my_pclose()` waits with the stream open and never closes it. Each
  command costs a descriptor, and in mode `w` a command that reads to the end
  of its input is waited for for ever. Output that fills the buffer is
  printed with what an earlier command left there.
* `system_v.c`: `my_sigrelse()` takes the signal out of `sa_mask` and then
  unblocks what is left in it: the signal stays blocked, the others do not.
  `SIG_HOLD` given to `my_sigset()` blocks nothing. The first of these is why
  `NoLostWakeup` holds.
* `file_notify.c`: the loop advances by the length of the longest event, so of several
  that one `read()` returns the first is looked at; a file that goes between
  the listing and the watch ends the program.
* `hw3_part2.c`: a row whose father comes later, or was not listed, is not printed,
  nor is what is under it; a process 2 that is a child of 1 is printed twice;
  one status file that cannot be opened means no tree at all.
* `SP_HW4/part3`: without its datafile `lookup()` returns `FOUND` once, and calls
  `rewind(NULL)` the next time; a last entry without a blank line after it is lost.
* `hw1-1.c` (tee) without `-a` keeps the last block only; both forms stop at a
  NUL and take the end of the input for an error. `hw1-2.c` fills up a copy of a file that
  has shrunk with what `malloc()` returned; `49-1.c` is killed by SIGBUS.

## 6. What each model leaves out

* svshm_xfr: `SEM_UNDO` and the environment variables of the original library
  are not used by these programs; `semget()` of a foreign set.
* svmsg_file: limits of `mq_open()`, names that are cut off, `read()` errors.
* fifo_seqnum: a second server, a FIFO full of requests in 44-6 (it holds
  512), errors of `open()` other than those for a missing name and a missing
  other end.
* sig_speed: errors of system calls other than those that end a process.
* broadcast: consumers killed from outside.
* dictionary: failures before the service starts, a full `listen()` backlog,
  words of 32 bytes and more, `bsearch()` itself, a datagram that reaches a
  later client on the port of one that has gone.
* shells: arguments (the last of `right_argv` is never set, and its end is
  written one place too far, so that a command may be given an argument
  more), lines longer than 254 characters, the output of built-in commands,
  failures of `pipe()`, `dup2()` and `freopen()`, commands that read the
  script, and a leader that is killed.
* bidirection_pipe: processes that are killed, lines as long as the buffer,
  `pipe()` failing; popen_pclose: commands that are killed.
* file_notify: directories in the directory (a name is a name), the limits on
  watches and on the queue.
* System V functions: their return values; signals other than those given.
* process tree: names, and a `/proc` whose names come in more than one read.
* dictionary file: lines longer than a field, a last line without a newline.
* copies: errors of `open()`, `write()` and `close()`.

## 7. Plan

Everything that keeps state is modelled, and every safety property that the passing runs
check is proved. What is left to TLC is liveness.
