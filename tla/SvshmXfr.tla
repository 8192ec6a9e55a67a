------------------------------ MODULE SvshmXfr ------------------------------
(***************************************************************************)
(* SP_HW9/54: svshm_xfr_writer copies its standard input, one read() at a  *)
(* time, through a shared-memory segment to svshm_xfr_reader.  Two System  *)
(* V semaphores used as binary semaphores (binary_sems.c) hand the segment *)
(* back and forth: WRITE_SEM is up when the writer may use it, READ_SEM    *)
(* when a reader may.                                                      *)
(*                                                                         *)
(* One action per system call that touches shared state.  Any number of    *)
(* readers may be started, at any time; a process may be killed between    *)
(* any two steps (SEM_UNDO is off, so its semaphore stays down), and a     *)
(* writer that was killed may be run again over the objects it left.       *)
(***************************************************************************)
EXTENDS Integers, Sequences, FiniteSetsExt

CONSTANTS
  Readers,   \* the reader processes that may be run
  Data,      \* the contents one read() of standard input may return
  NoData,    \* the contents of a segment just created: zero bytes
  SizeOf,    \* SizeOf[d]: how many bytes that read() returned
  BUF_SIZE,  \* the size of shmseg.buf, the most one read() returns
  MaxInput,  \* bound: the number of blocks before end of file
  MaxRuns,   \* bound: how many times the writer is run
  Faults     \* which faults may happen: "kill", "read", "write"

ASSUME XfrAssumption ==
  /\ IsFiniteSet(Readers)
  /\ BUF_SIZE \in Nat \ {0}
  /\ SizeOf \in [Data -> 1..BUF_SIZE]
  /\ NoData \notin Data
  /\ MaxInput \in Nat
  /\ MaxRuns \in Nat \ {0}
  /\ Faults \subseteq {"kill", "read", "write"}

WRITE_SEM == 0
READ_SEM  == 1

VARIABLES
  semid,   \* which semaphore set has SEM_KEY: 0 none, n the one run n created
  sem,     \* the values of its two semaphores
  shm,     \* the object "/SHM_DEMO": "none", "empty" (size 0) or "sized"
  cnt,     \* shmseg.cnt
  buf,     \* shmseg.buf
  stdin,   \* the blocks the writer's read() calls are to return
  pos,     \* how many of them this run of the writer has read
  out,     \* what the readers have written to standard output, in order
  run,     \* which run of the writer this is
  wpc,     \* the writer's next step
  wid,     \* the writer's semid
  wsum,    \* the writer's xfrs and bytes
  rpc,     \* each reader's next step
  rid,     \* each reader's semid
  rsum     \* each reader's xfrs and bytes

kernel == <<semid, sem, shm, cnt, buf>>
writer == <<stdin, pos, run, wpc, wid, wsum>>
reader == <<out, rpc, rid, rsum>>
vars   == <<kernel, writer, reader>>

NoSum == [xfrs |-> 0, bytes |-> 0]
Block(d, n) == [data |-> d, len |-> n]

\* A process at its step "from" goes on to its step "to".
WStep(from, to) == wpc = from /\ wpc' = to
RStep(r, from, to) == rpc[r] = from /\ rpc' = [rpc EXCEPT ![r] = to]

-----------------------------------------------------------------------------
(* Slips a programmer could make, not what the code does: each variant of  *)
(* a definition below breaks one of the properties at the end.             *)

SetValAdds(s, v) == sem' = [sem EXCEPT ![s] = @ + v]
SetValAvailable(s, v) == sem' = [sem EXCEPT ![s] = 1]

releaseSemToReader(id, s) ==
  semid = id /\ sem' = [sem EXCEPT ![READ_SEM] = @ + 1]

WTestCountsEof ==
  /\ WStep("test", IF cnt = 0 THEN "drain" ELSE "reserve")
  /\ wsum' = [xfrs |-> wsum.xfrs + 1, bytes |-> wsum.bytes + cnt]
  /\ UNCHANGED <<kernel, stdin, pos, run, wid, reader>>

WDrainAtOnce ==
  /\ WStep("drain", "rmid")
  /\ UNCHANGED <<kernel, stdin, pos, run, wid, wsum, reader>>

RGiveBackKeeps(r) ==
  /\ RStep(r, "giveBack", "done")
  /\ UNCHANGED <<kernel, writer, out, rid, rsum>>

-----------------------------------------------------------------------------
(* binary_sems.c.  A call on a set that no longer exists fails.            *)

SetVal(s, v) == sem' = [sem EXCEPT ![s] = v]

reserveSem(id, s) ==
  /\ semid = id
  /\ sem[s] > 0
  /\ sem' = [sem EXCEPT ![s] = @ - 1]

releaseSem(id, s) ==
  /\ semid = id
  /\ sem' = [sem EXCEPT ![s] = @ + 1]

-----------------------------------------------------------------------------
(* The writer.                                                             *)

\* semget(SEM_KEY, 2, IPC_CREAT): an existing set is used as it is.
WSemget ==
  /\ WStep("semget", "initWrite")
  /\ IF semid = 0
     THEN semid' = run /\ sem' = [s \in {WRITE_SEM, READ_SEM} |-> 0]
     ELSE UNCHANGED <<semid, sem>>
  /\ wid' = semid'
  /\ UNCHANGED <<shm, cnt, buf, stdin, pos, run, wsum, reader>>

WInitAvailable ==
  /\ WStep("initWrite", "initRead")
  /\ SetVal(WRITE_SEM, 1)
  /\ UNCHANGED <<semid, shm, cnt, buf, stdin, pos, run, wid, wsum, reader>>

WInitInUse ==
  /\ WStep("initRead", "shmOpen")
  /\ SetVal(READ_SEM, 0)
  /\ UNCHANGED <<semid, shm, cnt, buf, stdin, pos, run, wid, wsum, reader>>

\* shm_open(O_CREAT | O_TRUNC): the object has size 0 until ftruncate().
WShmOpen ==
  /\ WStep("shmOpen", "ftruncate")
  /\ shm' = "empty"
  /\ UNCHANGED <<semid, sem, cnt, buf, stdin, pos, run, wid, wsum, reader>>

WTruncate ==
  /\ WStep("ftruncate", "reserve")
  /\ shm' = "sized"
  /\ cnt' = 0
  /\ buf' = NoData
  /\ UNCHANGED <<semid, sem, stdin, pos, run, wid, wsum, reader>>

WReserve ==
  /\ WStep("reserve", "read")
  /\ reserveSem(wid, WRITE_SEM)
  /\ UNCHANGED <<semid, shm, cnt, buf, stdin, pos, run, wid, wsum, reader>>

\* read() fills buf before its return value is stored in cnt.
WRead ==
  /\ pos < Len(stdin)
  /\ WStep("read", "store")
  /\ pos' = pos + 1
  /\ buf' = stdin[pos + 1]
  /\ UNCHANGED <<semid, sem, shm, cnt, stdin, run, wid, wsum, reader>>

WStore ==
  /\ WStep("store", "release")
  /\ cnt' = SizeOf[stdin[pos]]
  /\ UNCHANGED <<semid, sem, shm, buf, stdin, pos, run, wid, wsum, reader>>

WReadEof ==
  /\ pos = Len(stdin)
  /\ WStep("read", "release")
  /\ cnt' = 0
  /\ UNCHANGED <<semid, sem, shm, buf, stdin, pos, run, wid, wsum, reader>>

\* read() returned -1: errExit() with the segment still reserved.
WReadError ==
  /\ "read" \in Faults
  /\ WStep("read", "failed")
  /\ cnt' = -1
  /\ UNCHANGED <<semid, sem, shm, buf, stdin, pos, run, wid, wsum, reader>>

WRelease ==
  /\ WStep("release", "test")
  /\ releaseSem(wid, READ_SEM)
  /\ UNCHANGED <<semid, shm, cnt, buf, stdin, pos, run, wid, wsum, reader>>

\* The test for end of file and the for statement's increment both read
\* shmp->cnt after the segment has been given away.
WTest ==
  /\ IF cnt = 0
     THEN WStep("test", "drain") /\ UNCHANGED wsum
     ELSE /\ WStep("test", "reserve")
          /\ wsum' = [xfrs |-> wsum.xfrs + 1, bytes |-> wsum.bytes + cnt]
  /\ UNCHANGED <<kernel, stdin, pos, run, wid, reader>>

\* One more turn: the reader has seen end of file and is finished.
WDrain ==
  /\ WStep("drain", "rmid")
  /\ reserveSem(wid, WRITE_SEM)
  /\ UNCHANGED <<semid, shm, cnt, buf, stdin, pos, run, wid, wsum, reader>>

WRmid ==
  /\ WStep("rmid", "unlink")
  /\ semid' = 0
  /\ UNCHANGED <<sem, shm, cnt, buf, stdin, pos, run, wid, wsum, reader>>

WUnlink ==
  /\ WStep("unlink", "done")
  /\ shm' = "none"
  /\ UNCHANGED <<semid, sem, cnt, buf, stdin, pos, run, wid, wsum, reader>>

\* The writer is killed; run again, it reads its input from the start.
WKilled ==
  /\ "kill" \in Faults
  /\ wpc \notin {"done", "failed", "killed"}
  /\ wpc' = "killed"
  /\ UNCHANGED <<kernel, stdin, pos, run, wid, wsum, reader>>

WRunAgain ==
  /\ wpc \in {"failed", "killed"}
  /\ run < MaxRuns
  /\ run' = run + 1
  /\ wpc' = "semget"
  /\ pos' = 0
  /\ wsum' = NoSum
  /\ UNCHANGED <<kernel, stdin, wid, reader>>

WriterStep ==
  \/ WSemget \/ WInitAvailable \/ WInitInUse \/ WShmOpen \/ WTruncate
  \/ WReserve \/ WRead \/ WStore \/ WReadEof \/ WRelease \/ WTest
  \/ WDrain \/ WRmid \/ WUnlink

-----------------------------------------------------------------------------
(* The readers.                                                            *)

\* semget(SEM_KEY, 0, 0), then shm_open(): errExit() if the writer has not
\* created the object yet, or has already removed it.
RSemget(r) ==
  /\ \/ /\ semid = 0
        /\ RStep(r, "semget", "failed")
        /\ UNCHANGED rid
     \/ /\ semid # 0
        /\ RStep(r, "semget", "shmOpen")
        /\ rid' = [rid EXCEPT ![r] = semid]
  /\ UNCHANGED <<kernel, writer, out, rsum>>

RShmOpen(r) ==
  /\ RStep(r, "shmOpen", IF shm = "none" THEN "failed" ELSE "reserve")
  /\ UNCHANGED <<kernel, writer, out, rid, rsum>>

RReserve(r) ==
  /\ RStep(r, "reserve", "test")
  /\ reserveSem(rid[r], READ_SEM)
  /\ UNCHANGED <<semid, shm, cnt, buf, writer, out, rid, rsum>>

\* semop() on a removed set returns -1, and so does reserveSem().
RSemGone(r) ==
  /\ semid # rid[r]
  /\ \E pc \in {"reserve", "release", "giveBack"} : RStep(r, pc, "failed")
  /\ UNCHANGED <<kernel, writer, out, rid, rsum>>

RTest(r) ==
  /\ shm # "empty"
  /\ IF cnt = 0
     THEN RStep(r, "test", "giveBack") /\ UNCHANGED rsum
     ELSE /\ RStep(r, "test", "write")
          /\ rsum' = [rsum EXCEPT ![r].bytes = @ + cnt]
  /\ UNCHANGED <<kernel, writer, out, rid>>

RWrite(r) ==
  /\ shm # "empty"
  /\ RStep(r, "write", "release")
  /\ out' = Append(out, Block(buf, cnt))
  /\ UNCHANGED <<kernel, writer, rid, rsum>>

\* A short or failed write() to standard output: fatal(), still reserved.
RWriteError(r) ==
  /\ "write" \in Faults
  /\ RStep(r, "write", "failed")
  /\ UNCHANGED <<kernel, writer, out, rid, rsum>>

\* The object has been truncated under the mapping: SIGBUS.
RBus(r) ==
  /\ shm = "empty"
  /\ \E pc \in {"test", "write"} : RStep(r, pc, "killed")
  /\ UNCHANGED <<kernel, writer, out, rid, rsum>>

RRelease(r) ==
  /\ RStep(r, "release", "reserve")
  /\ releaseSem(rid[r], WRITE_SEM)
  /\ rsum' = [rsum EXCEPT ![r].xfrs = @ + 1]
  /\ UNCHANGED <<semid, shm, cnt, buf, writer, out, rid>>

\* After end of file: give the writer one more turn, so it can clean up.
RGiveBack(r) ==
  /\ RStep(r, "giveBack", "done")
  /\ releaseSem(rid[r], WRITE_SEM)
  /\ UNCHANGED <<semid, shm, cnt, buf, writer, out, rid, rsum>>

RKilled(r) ==
  /\ "kill" \in Faults
  /\ rpc[r] \notin {"done", "failed", "killed"}
  /\ rpc' = [rpc EXCEPT ![r] = "killed"]
  /\ UNCHANGED <<kernel, writer, out, rid, rsum>>

ReaderStep(r) ==
  \/ RSemget(r) \/ RShmOpen(r) \/ RReserve(r) \/ RSemGone(r) \/ RTest(r)
  \/ RWrite(r) \/ RBus(r) \/ RRelease(r) \/ RGiveBack(r)

-----------------------------------------------------------------------------

Init ==
  /\ semid = 0
  /\ sem = [s \in {WRITE_SEM, READ_SEM} |-> 0]
  /\ shm = "none"
  /\ cnt = 0
  /\ buf = NoData
  /\ \E n \in 0..MaxInput : stdin \in [1..n -> Data]
  /\ pos = 0
  /\ out = <<>>
  /\ run = 1
  /\ wpc = "semget"
  /\ wid = 0
  /\ wsum = NoSum
  /\ rpc = [r \in Readers |-> "semget"]
  /\ rid = [r \in Readers |-> 0]
  /\ rsum = [r \in Readers |-> NoSum]

Fault ==
  \/ WReadError \/ WKilled \/ WRunAgain
  \/ \E r \in Readers : RWriteError(r) \/ RKilled(r)

Next == WriterStep \/ Fault \/ \E r \in Readers : ReaderStep(r)

Spec == Init /\ [][Next]_vars

\* Every process that can take its next step eventually takes it.
FairSpec ==
  Spec /\ WF_vars(WriterStep) /\ \A r \in Readers : WF_vars(ReaderStep(r))

-----------------------------------------------------------------------------

WriterPC == {"semget", "initWrite", "initRead", "shmOpen", "ftruncate",
             "reserve", "read", "store", "release", "test", "drain", "rmid",
             "unlink", "done", "failed", "killed"}
ReaderPC == {"semget", "shmOpen", "reserve", "test", "write", "release",
             "giveBack", "done", "failed", "killed"}
Sums == [xfrs : Nat, bytes : Int]

\* The shape of the state.
TypeOK ==
  /\ semid \in Nat
  /\ sem \in [{WRITE_SEM, READ_SEM} -> Nat]
  /\ shm \in {"none", "empty", "sized"}
  /\ cnt \in -1..BUF_SIZE
  /\ buf \in Data \cup {NoData}
  /\ stdin \in Seq(Data)
  /\ pos \in 0..Len(stdin)
  /\ out \in Seq([data : Data \cup {NoData}, len : -1..BUF_SIZE])
  /\ run \in 1..MaxRuns
  /\ wpc \in WriterPC
  /\ wid \in Nat
  /\ wsum \in Sums
  /\ rpc \in [Readers -> ReaderPC]
  /\ rid \in [Readers -> Nat]
  /\ rsum \in [Readers -> Sums]

\* The reserve-use-release section of each side, and the instants in it at
\* which the segment itself is read or written.
WHolds == wpc \in {"read", "store", "release"}
RHolds(r) == rpc[r] \in {"test", "write", "release", "giveBack"}
WAccess == wpc \in {"read", "store"}
RAccess(r) == rpc[r] \in {"test", "write"}

\* The segment is never filled while a reader looks at it, and two readers
\* never look at it together (svshm_xfr.h:13, "Writer has access to shared
\* memory"; "Reader has access to shared memory").
MutualExclusion ==
  /\ WAccess => \A r \in Readers : ~RAccess(r)
  /\ \A r, s \in Readers : RAccess(r) /\ RAccess(s) => r = s

\* The readers' output is the writer's input, block by block: none is lost,
\* repeated, reordered or written with the length of another, whichever
\* processes are killed on the way.
StreamIntegrity ==
  /\ Len(out) <= Len(stdin)
  /\ \A i \in 1..Len(out) : out[i] = Block(stdin[i], SizeOf[stdin[i]])

\* The totals the two programs print at the end ("Sent ...", "Received ...")
\* agree, the readers' taken together, and cover the whole input.
ReaderTotal(field) == MapThenSumSet(LAMBDA r : rsum[r][field], Readers)
TotalsAgree ==
  wpc = "done" => /\ wsum.xfrs = Len(stdin)
                  /\ \A field \in {"xfrs", "bytes"} :
                       wsum[field] = ReaderTotal(field)

\* The transfer implements the abstract stream: the semaphores are removed
\* only after every block has been written out and a reader has finished
\* (svshm_xfr_writer.c:58, "Wait until reader has let us have one more turn.
\* We then know reader has finished").
Removed == semid = 0 /\ wid # 0
Finished == \E r \in Readers : rpc[r] = "done"
Delivered == [i \in 1..Len(out) |-> out[i].data]
Stream == INSTANCE BlockStream WITH delivered <- Delivered, ended <- Finished,
                               closed <- Removed
ImplementsStream == Stream!Spec

\* Once a reader is attached, the writer gets to the end of its input and
\* removes the objects, a reader ends normally, and every other reader that
\* was attached terminates too, on the error that its semaphore is gone;
\* unless a process fails or is killed on the way.
Attached == \E r \in Readers : rpc[r] = "reserve"
Disturbed ==
  run > 1 \/ wpc \in {"failed", "killed"} \/ \E r \in Readers : rpc[r] = "killed"
TransferCompletes ==
  /\ Attached ~> Disturbed \/ (wpc = "done" /\ Len(out) = Len(stdin) /\ Finished)
  /\ Attached ~> Disturbed \/ (\A r \in Readers : rpc[r] \in {"done", "failed"})

\* A writer run again over the semaphores of one that was killed restores
\* the alternation for good, provided that when it comes to reset them no
\* reader is inside the segment and none has been given a turn: then its two
\* SETVALs leave one turn in the system, its own (svshm_xfr_writer.c:18-21).
Quiet == sem[READ_SEM] = 0 /\ \A r \in Readers : ~RHolds(r)
RerunSafeWhenQuiet ==
  [](run = MaxRuns /\ wpc = "initWrite" /\ Quiet => []MutualExclusion)
=============================================================================
