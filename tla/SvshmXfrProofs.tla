--------------------------- MODULE SvshmXfrProofs ---------------------------
(***************************************************************************)
(* Proofs about SvshmXfr, for every set of readers, every block size,      *)
(* every input and every choice of faults.  The type invariant holds       *)
(* however often the writer is run; the other theorems are about one run   *)
(* of it, because a second one resets the semaphores under the readers.    *)
(*                                                                         *)
(* The inductive invariant says where the turn is.  There is at most one:  *)
(* in WRITE_SEM, in READ_SEM, with the writer or with one reader; and for  *)
(* each place it says how much of the input has been written out.          *)
(***************************************************************************)
EXTENDS SvshmXfr, FiniteSums, TLAPS

\* The writer has the turn: it is between a reserveSem() and the matching
\* releaseSem(), or past the reserveSem() that has none.
WTurn == wpc \in {"read", "store", "release", "rmid", "unlink", "done"}
NoReader == \A r \in Readers : ~RHolds(r)

\* What the segment and the readers' output hold when a block, or the end of
\* file, has been put in the segment and not yet been taken.
Full ==
  /\ pos >= 1
  /\ buf = stdin[pos]
  /\ cnt = SizeOf[stdin[pos]]
  /\ Len(out) = pos - 1
Eof ==
  /\ cnt = 0
  /\ pos = Len(stdin)
  /\ Len(out) = pos

\* Which set each process uses, while the writer is run once.
IdInv ==
  /\ run = 1
  /\ wid \in {0, 1}
  /\ semid \in {0, wid}
  /\ wid = 0 => wpc \in {"semget", "killed"}
  /\ wpc = "semget" => wid = 0 /\ pos = 0 /\ out = <<>>
  /\ wpc = "initWrite" => pos = 0 /\ out = <<>>
  /\ semid = 0 /\ wid = 1 => wpc \in {"unlink", "done", "killed"}
  /\ wpc \in {"unlink", "done"} => semid = 0
  /\ wpc \in {"reserve", "read", "store", "release", "test", "drain",
              "rmid", "unlink"} => shm = "sized"
  /\ \A r \in Readers : rid[r] \in {0, 1}
  /\ \A r \in Readers :
       rpc[r] \notin {"semget", "failed", "killed"} => rid[r] = 1

\* There is at most one turn.
TurnInv ==
  /\ sem[WRITE_SEM] \in {0, 1}
  /\ sem[READ_SEM] \in {0, 1}
  /\ sem[WRITE_SEM] = 1 => sem[READ_SEM] = 0 /\ ~WTurn /\ NoReader
  /\ sem[READ_SEM] = 1 => ~WTurn /\ NoReader
  /\ WTurn => NoReader
  /\ \A r, s \in Readers : RHolds(r) /\ RHolds(s) => r = s
  /\ shm # "sized" \/ semid = 0 => sem[READ_SEM] = 0 /\ NoReader
  /\ wpc = "ftruncate" => shm = "empty"
  /\ wpc \in {"semget", "initWrite", "initRead", "shmOpen"} => shm = "none"

\* What has come through, wherever the turn is.
DataInv ==
  /\ StreamIntegrity
  /\ sem[WRITE_SEM] = 1 \/ wpc = "read" => Len(out) = pos
  /\ wpc = "store" => pos >= 1 /\ buf = stdin[pos] /\ Len(out) = pos - 1
  /\ sem[READ_SEM] = 1 \/ wpc = "release" => Full \/ Eof
  /\ wpc = "test" /\ cnt = 0 => pos = Len(stdin)
  /\ wpc = "drain" => pos = Len(stdin) /\ cnt = 0
  /\ wpc \in {"rmid", "unlink", "done"} => Len(out) = Len(stdin)
  /\ semid = 0 /\ wid # 0 => Len(out) = Len(stdin)
  /\ \A r \in Readers :
       /\ rpc[r] = "test" => Full \/ Eof
       /\ rpc[r] = "write" => Full
       /\ rpc[r] = "release" => Len(out) = pos /\ cnt # 0
       /\ rpc[r] = "giveBack" => Eof

\* A reader has finished before the writer gets the turn that follows the
\* end of file.
EndInv ==
  /\ wpc = "drain" \/ (wpc = "test" /\ cnt = 0)
       => sem[WRITE_SEM] = 0 \/ Finished
  /\ wpc \in {"rmid", "unlink", "done"} => Finished
  /\ semid = 0 /\ wid # 0 => Finished
  /\ Finished => Len(out) = Len(stdin)

IInv == TypeOK /\ IdInv /\ TurnInv /\ DataInv /\ EndInv

-----------------------------------------------------------------------------
(* The shape of the state.  WStore indexes the input with pos.             *)

TypeInv == TypeOK /\ (wpc = "store" => pos >= 1)

LEMMA TypeInit == Init => TypeInv
BY XfrAssumption DEF Init, TypeInv, TypeOK, NoSum, Sums, WriterPC, ReaderPC,
   WRITE_SEM, READ_SEM

LEMMA TypeStep ==
  ASSUME TypeInv, [Next]_vars
  PROVE  TypeInv'
<1> USE XfrAssumption DEF WRITE_SEM, READ_SEM, WriterPC, ReaderPC, Sums
<1>1. CASE WSemget
  BY <1>1 DEF TypeInv, TypeOK, kernel, writer, reader, vars, WSemget, WStep
<1>2. CASE WInitAvailable
  BY <1>2 DEF TypeInv, TypeOK, kernel, writer, reader, vars, WInitAvailable,
     WStep, SetVal
<1>3. CASE WInitInUse
  BY <1>3 DEF TypeInv, TypeOK, kernel, writer, reader, vars, WInitInUse,
     WStep, SetVal
<1>4. CASE WShmOpen
  BY <1>4 DEF TypeInv, TypeOK, kernel, writer, reader, vars, WShmOpen, WStep
<1>5. CASE WTruncate
  BY <1>5 DEF TypeInv, TypeOK, kernel, writer, reader, vars, WTruncate, WStep
<1>6. CASE WReserve
  BY <1>6 DEF TypeInv, TypeOK, kernel, writer, reader, vars, WReserve, WStep,
     reserveSem
<1>7. CASE WRead
  BY SMTT(20), <1>7 DEF TypeInv, TypeOK, kernel, writer, reader, vars, WRead, WStep
<1>8. CASE WStore
  BY SMTT(20), <1>8 DEF TypeInv, TypeOK, kernel, writer, reader, vars, WStore, WStep
<1>9. CASE WReadEof
  BY <1>9 DEF TypeInv, TypeOK, kernel, writer, reader, vars, WReadEof, WStep
<1>10. CASE WRelease
  BY <1>10 DEF TypeInv, TypeOK, kernel, writer, reader, vars, WRelease, WStep,
     releaseSem
<1>11. CASE WTest
  BY <1>11 DEF TypeInv, TypeOK, kernel, writer, reader, vars, WTest, WStep
<1>12. CASE WDrain
  BY <1>12 DEF TypeInv, TypeOK, kernel, writer, reader, vars, WDrain, WStep,
     reserveSem
<1>13. CASE WRmid
  BY <1>13 DEF TypeInv, TypeOK, kernel, writer, reader, vars, WRmid, WStep
<1>14. CASE WUnlink
  BY <1>14 DEF TypeInv, TypeOK, kernel, writer, reader, vars, WUnlink, WStep
<1>15. CASE WReadError
  BY <1>15 DEF TypeInv, TypeOK, kernel, writer, reader, vars, WReadError,
     WStep
<1>16. CASE WKilled
  BY <1>16 DEF TypeInv, TypeOK, kernel, writer, reader, vars, WKilled, vars
<1>17. CASE WRunAgain
  BY <1>17 DEF TypeInv, TypeOK, kernel, writer, reader, vars, WRunAgain,
     NoSum, Sums
<1>18. ASSUME NEW r \in Readers, RSemget(r) PROVE TypeInv'
  <2>1. rpc' \in [Readers -> ReaderPC]
    BY <1>18 DEF TypeInv, TypeOK, RSemget, RStep
  <2>2. rid' \in [Readers -> Nat]
    BY <1>18 DEF TypeInv, TypeOK, RSemget
  <2> QED
    BY <1>18, <2>1, <2>2 DEF TypeInv, TypeOK, kernel, writer, RSemget
<1>19. ASSUME NEW r \in Readers, RShmOpen(r) PROVE TypeInv'
  BY <1>19 DEF TypeInv, TypeOK, kernel, writer, reader, vars, RShmOpen, RStep
<1>20. ASSUME NEW r \in Readers, RReserve(r) PROVE TypeInv'
  BY <1>20 DEF TypeInv, TypeOK, kernel, writer, reader, vars, RReserve, RStep,
     reserveSem
<1>21. ASSUME NEW r \in Readers, RSemGone(r) PROVE TypeInv'
  BY <1>21 DEF TypeInv, TypeOK, kernel, writer, reader, vars, RSemGone, RStep
<1>22. ASSUME NEW r \in Readers, RTest(r) PROVE TypeInv'
  <2>1. rpc' \in [Readers -> ReaderPC]
    BY <1>22 DEF TypeInv, TypeOK, RTest, RStep
  <2>2. rsum' \in [Readers -> Sums]
    <3>1. rsum[r] \in Sums /\ cnt \in Int
      BY DEF TypeInv, TypeOK
    <3>2. [rsum[r] EXCEPT !.bytes = @ + cnt] \in Sums
      BY <3>1
    <3> QED
      BY <1>22, <3>1, <3>2 DEF TypeInv, TypeOK, RTest
  <2> QED
    BY <1>22, <2>1, <2>2 DEF TypeInv, TypeOK, kernel, writer, RTest
<1>23. ASSUME NEW r \in Readers, RWrite(r) PROVE TypeInv'
  BY <1>23 DEF TypeInv, TypeOK, kernel, writer, reader, vars, RWrite, RStep,
     Block
<1>24. ASSUME NEW r \in Readers, RBus(r) PROVE TypeInv'
  BY <1>24 DEF TypeInv, TypeOK, kernel, writer, reader, vars, RBus, RStep
<1>25. ASSUME NEW r \in Readers, RRelease(r) PROVE TypeInv'
  <2>1. rpc' \in [Readers -> ReaderPC]
    BY <1>25 DEF TypeInv, TypeOK, RRelease, RStep
  <2>2. rsum' \in [Readers -> Sums]
    <3>1. rsum[r] \in Sums
      BY DEF TypeInv, TypeOK
    <3>2. [rsum[r] EXCEPT !.xfrs = @ + 1] \in Sums
      BY <3>1
    <3> QED
      BY <1>25, <3>1, <3>2 DEF TypeInv, TypeOK, RRelease
  <2>3. sem' \in [{WRITE_SEM, READ_SEM} -> Nat]
    <3>1. sem[WRITE_SEM] \in Nat /\ sem \in [{WRITE_SEM, READ_SEM} -> Nat]
      BY DEF TypeInv, TypeOK
    <3>2. sem' = [sem EXCEPT ![WRITE_SEM] = @ + 1]
      BY <1>25 DEF RRelease, releaseSem
    <3> QED
      BY <3>1, <3>2
  <2>4. UNCHANGED <<semid, shm, cnt, buf, stdin, pos, out, run, wpc, wid,
                    wsum, rid>>
    BY <1>25 DEF RRelease, releaseSem, writer
  <2> QED
    BY <2>1, <2>2, <2>3, <2>4 DEF TypeInv, TypeOK
<1>26. ASSUME NEW r \in Readers, RGiveBack(r) PROVE TypeInv'
  BY SMTT(20), <1>26 DEF TypeInv, TypeOK, kernel, writer, reader, vars, RGiveBack,
     RStep, releaseSem
<1>27. ASSUME NEW r \in Readers, RWriteError(r) PROVE TypeInv'
  BY <1>27 DEF TypeInv, TypeOK, kernel, writer, reader, vars, RWriteError,
     RStep
<1>28. ASSUME NEW r \in Readers, RKilled(r) PROVE TypeInv'
  BY <1>28 DEF TypeInv, TypeOK, kernel, writer, reader, vars, RKilled, vars
<1>29. CASE UNCHANGED vars
  BY <1>29 DEF TypeInv, TypeOK, kernel, writer, reader, vars
<1> QED
  BY <1>1, <1>2, <1>3, <1>4, <1>5, <1>6, <1>7, <1>8, <1>9, <1>10, <1>11,
     <1>12, <1>13, <1>14, <1>15, <1>16, <1>17, <1>18, <1>19, <1>20, <1>21,
     <1>22, <1>23, <1>24, <1>25, <1>26, <1>27, <1>28, <1>29
  DEF Next, WriterStep, Fault, ReaderStep

\* Every variable keeps its type, however often the writer is run.
THEOREM TypeCorrect == Spec => []TypeOK
<1>1. TypeInv => TypeOK
  BY DEF TypeInv
<1> QED
  BY <1>1, TypeInit, TypeStep, PTL DEF Spec
-----------------------------------------------------------------------------
(* One run of the writer: the inductive invariant, part by part.           *)

LEMMA IInvInit == Init => IInv
<1> SUFFICES ASSUME Init PROVE IInv
  OBVIOUS
<1>1. TypeOK
  BY TypeInit DEF TypeInv
<1>2. IdInv
  BY DEF Init, IdInv
<1>3. TurnInv
  BY DEF Init, TurnInv, WTurn, NoReader, RHolds, WRITE_SEM, READ_SEM
<1>4. DataInv
  BY <1>1 DEF Init, DataInv, StreamIntegrity, TypeOK, WRITE_SEM, READ_SEM
<1>5. EndInv
  BY DEF Init, EndInv, Finished
<1> QED
  BY <1>1, <1>2, <1>3, <1>4, <1>5 DEF IInv

LEMMA IdStep ==
  ASSUME MaxRuns = 1, IInv, [Next]_vars
  PROVE  IdInv'
<1> USE DEF IInv, TypeOK, WRITE_SEM, READ_SEM
<1>1. CASE WSemget
  BY <1>1 DEF IdInv, TurnInv, WTurn, NoReader, RHolds, kernel, writer, reader,
      WSemget, WStep
<1>2. CASE WInitAvailable
  BY <1>2 DEF IdInv, TurnInv, WTurn, NoReader, RHolds, kernel, writer, reader,
      WInitAvailable, WStep, SetVal
<1>3. CASE WInitInUse
  BY <1>3 DEF IdInv, TurnInv, WTurn, NoReader, RHolds, kernel, writer, reader,
      WInitInUse, WStep, SetVal
<1>4. CASE WShmOpen
  BY <1>4 DEF IdInv, TurnInv, WTurn, NoReader, RHolds, kernel, writer, reader,
      WShmOpen, WStep
<1>5. CASE WTruncate
  BY <1>5 DEF IdInv, TurnInv, WTurn, NoReader, RHolds, kernel, writer, reader,
      WTruncate, WStep
<1>6. CASE WReserve
  BY <1>6 DEF IdInv, TurnInv, WTurn, NoReader, RHolds, kernel, writer, reader,
      WReserve, WStep, reserveSem
<1>7. CASE WRead
  BY <1>7 DEF IdInv, TurnInv, WTurn, NoReader, RHolds, kernel, writer, reader,
      WRead, WStep
<1>8. CASE WStore
  BY <1>8 DEF IdInv, TurnInv, WTurn, NoReader, RHolds, kernel, writer, reader,
      WStore, WStep
<1>9. CASE WReadEof
  BY <1>9 DEF IdInv, TurnInv, WTurn, NoReader, RHolds, kernel, writer, reader,
      WReadEof, WStep
<1>10. CASE WRelease
  BY <1>10 DEF IdInv, TurnInv, WTurn, NoReader, RHolds, kernel, writer,
      reader, WRelease, WStep, releaseSem
<1>11. CASE WTest
  BY <1>11 DEF IdInv, TurnInv, WTurn, NoReader, RHolds, kernel, writer,
      reader, WTest, WStep
<1>12. CASE WDrain
  BY <1>12 DEF IdInv, TurnInv, WTurn, NoReader, RHolds, kernel, writer,
      reader, WDrain, WStep, reserveSem
<1>13. CASE WRmid
  BY <1>13 DEF IdInv, TurnInv, WTurn, NoReader, RHolds, kernel, writer,
      reader, WRmid, WStep
<1>14. CASE WUnlink
  BY <1>14 DEF IdInv, TurnInv, WTurn, NoReader, RHolds, kernel, writer,
      reader, WUnlink, WStep
<1>15. CASE WReadError
  BY <1>15 DEF IdInv, TurnInv, WTurn, NoReader, RHolds, kernel, writer,
      reader, WReadError, WStep
<1>16. CASE WKilled
  BY <1>16 DEF IdInv, TurnInv, WTurn, NoReader, RHolds, kernel, writer,
      reader, WKilled, vars
<1>17. CASE WRunAgain
  BY <1>17 DEF IdInv, TurnInv, WTurn, NoReader, RHolds, kernel, writer,
      reader, WRunAgain, IdInv
<1>18. ASSUME NEW q \in Readers, RSemget(q) PROVE IdInv'
  BY <1>18 DEF IdInv, TurnInv, WTurn, NoReader, RHolds, kernel, writer,
      reader, RSemget, RStep
<1>19. ASSUME NEW q \in Readers, RShmOpen(q) PROVE IdInv'
  BY <1>19 DEF IdInv, TurnInv, WTurn, NoReader, RHolds, kernel, writer,
      reader, RShmOpen, RStep
<1>20. ASSUME NEW q \in Readers, RReserve(q) PROVE IdInv'
  BY <1>20 DEF IdInv, TurnInv, WTurn, NoReader, RHolds, kernel, writer,
      reader, RReserve, RStep, reserveSem
<1>21. ASSUME NEW q \in Readers, RSemGone(q) PROVE IdInv'
  BY <1>21 DEF IdInv, TurnInv, WTurn, NoReader, RHolds, kernel, writer,
      reader, RSemGone, RStep
<1>22. ASSUME NEW q \in Readers, RTest(q) PROVE IdInv'
  BY <1>22 DEF IdInv, TurnInv, WTurn, NoReader, RHolds, kernel, writer,
      reader, RTest, RStep
<1>23. ASSUME NEW q \in Readers, RWrite(q) PROVE IdInv'
  BY <1>23 DEF IdInv, TurnInv, WTurn, NoReader, RHolds, kernel, writer,
      reader, RWrite, RStep
<1>24. ASSUME NEW q \in Readers, RBus(q) PROVE IdInv'
  BY <1>24 DEF IdInv, TurnInv, WTurn, NoReader, RHolds, kernel, writer,
      reader, RBus, RStep
<1>25. ASSUME NEW q \in Readers, RRelease(q) PROVE IdInv'
  BY <1>25 DEF IdInv, TurnInv, WTurn, NoReader, RHolds, kernel, writer,
      reader, RRelease, RStep, releaseSem
<1>26. ASSUME NEW q \in Readers, RGiveBack(q) PROVE IdInv'
  BY <1>26 DEF IdInv, TurnInv, WTurn, NoReader, RHolds, kernel, writer,
      reader, RGiveBack, RStep, releaseSem
<1>27. ASSUME NEW q \in Readers, RWriteError(q) PROVE IdInv'
  BY <1>27 DEF IdInv, TurnInv, WTurn, NoReader, RHolds, kernel, writer,
      reader, RWriteError, RStep
<1>28. ASSUME NEW q \in Readers, RKilled(q) PROVE IdInv'
  BY <1>28 DEF IdInv, TurnInv, WTurn, NoReader, RHolds, kernel, writer,
      reader, RKilled, vars
<1>29. CASE UNCHANGED vars
  BY <1>29 DEF IdInv, TurnInv, WTurn, NoReader, RHolds, kernel, writer,
     reader, vars
<1> QED
  BY <1>1, <1>2, <1>3, <1>4, <1>5, <1>6, <1>7, <1>8, <1>9, <1>10, <1>11,
      <1>12, <1>13, <1>14, <1>15, <1>16, <1>17, <1>18, <1>19, <1>20, <1>21,
      <1>22, <1>23, <1>24, <1>25, <1>26, <1>27, <1>28, <1>29
  DEF Next, WriterStep, Fault, ReaderStep

LEMMA TurnStep ==
  ASSUME MaxRuns = 1, IInv, [Next]_vars
  PROVE  TurnInv'
<1> USE DEF IInv, TypeOK, IdInv, WTurn, NoReader, RHolds, WRITE_SEM, READ_SEM
<1>1. CASE WSemget
  BY <1>1 DEF TurnInv, kernel, writer, reader, WSemget, WStep
<1>2. CASE WInitAvailable
  BY <1>2 DEF TurnInv, kernel, writer, reader, WInitAvailable, WStep, SetVal
<1>3. CASE WInitInUse
  BY <1>3 DEF TurnInv, kernel, writer, reader, WInitInUse, WStep, SetVal
<1>4. CASE WShmOpen
  BY <1>4 DEF TurnInv, kernel, writer, reader, WShmOpen, WStep
<1>5. CASE WTruncate
  BY <1>5 DEF TurnInv, kernel, writer, reader, WTruncate, WStep
<1>6. CASE WReserve
  BY <1>6 DEF TurnInv, kernel, writer, reader, WReserve, WStep, reserveSem
<1>7. CASE WRead
  BY <1>7 DEF TurnInv, kernel, writer, reader, WRead, WStep
<1>8. CASE WStore
  BY <1>8 DEF TurnInv, kernel, writer, reader, WStore, WStep
<1>9. CASE WReadEof
  BY <1>9 DEF TurnInv, kernel, writer, reader, WReadEof, WStep
<1>10. CASE WRelease
  BY <1>10 DEF TurnInv, kernel, writer, reader, WRelease, WStep, releaseSem
<1>11. CASE WTest
  BY <1>11 DEF TurnInv, kernel, writer, reader, WTest, WStep
<1>12. CASE WDrain
  BY <1>12 DEF TurnInv, kernel, writer, reader, WDrain, WStep, reserveSem
<1>13. CASE WRmid
  BY <1>13 DEF TurnInv, kernel, writer, reader, WRmid, WStep
<1>14. CASE WUnlink
  BY <1>14 DEF TurnInv, kernel, writer, reader, WUnlink, WStep
<1>15. CASE WReadError
  BY <1>15 DEF TurnInv, kernel, writer, reader, WReadError, WStep
<1>16. CASE WKilled
  BY <1>16 DEF TurnInv, kernel, writer, reader, WKilled, vars
<1>17. CASE WRunAgain
  BY <1>17 DEF TurnInv, kernel, writer, reader, WRunAgain, IdInv
<1>18. ASSUME NEW q \in Readers, RSemget(q) PROVE TurnInv'
  BY <1>18 DEF TurnInv, kernel, writer, reader, RSemget, RStep
<1>19. ASSUME NEW q \in Readers, RShmOpen(q) PROVE TurnInv'
  BY <1>19 DEF TurnInv, kernel, writer, reader, RShmOpen, RStep
<1>20. ASSUME NEW q \in Readers, RReserve(q) PROVE TurnInv'
  BY <1>20 DEF TurnInv, kernel, writer, reader, RReserve, RStep, reserveSem
<1>21. ASSUME NEW q \in Readers, RSemGone(q) PROVE TurnInv'
  BY <1>21 DEF TurnInv, kernel, writer, reader, RSemGone, RStep
<1>22. ASSUME NEW q \in Readers, RTest(q) PROVE TurnInv'
  BY <1>22 DEF TurnInv, kernel, writer, reader, RTest, RStep
<1>23. ASSUME NEW q \in Readers, RWrite(q) PROVE TurnInv'
  BY <1>23 DEF TurnInv, kernel, writer, reader, RWrite, RStep
<1>24. ASSUME NEW q \in Readers, RBus(q) PROVE TurnInv'
  BY <1>24 DEF TurnInv, kernel, writer, reader, RBus, RStep
<1>25. ASSUME NEW q \in Readers, RRelease(q) PROVE TurnInv'
  BY <1>25 DEF TurnInv, kernel, writer, reader, RRelease, RStep, releaseSem
<1>26. ASSUME NEW q \in Readers, RGiveBack(q) PROVE TurnInv'
  BY <1>26 DEF TurnInv, kernel, writer, reader, RGiveBack, RStep, releaseSem
<1>27. ASSUME NEW q \in Readers, RWriteError(q) PROVE TurnInv'
  BY <1>27 DEF TurnInv, kernel, writer, reader, RWriteError, RStep
<1>28. ASSUME NEW q \in Readers, RKilled(q) PROVE TurnInv'
  BY <1>28 DEF TurnInv, kernel, writer, reader, RKilled, vars
<1>29. CASE UNCHANGED vars
  BY <1>29 DEF TurnInv, kernel, writer, reader, vars
<1> QED
  BY <1>1, <1>2, <1>3, <1>4, <1>5, <1>6, <1>7, <1>8, <1>9, <1>10, <1>11,
      <1>12, <1>13, <1>14, <1>15, <1>16, <1>17, <1>18, <1>19, <1>20, <1>21,
      <1>22, <1>23, <1>24, <1>25, <1>26, <1>27, <1>28, <1>29
  DEF Next, WriterStep, Fault, ReaderStep

LEMMA DataStep ==
  ASSUME MaxRuns = 1, IInv, [Next]_vars
  PROVE  DataInv'
<1> USE XfrAssumption DEF IInv, TypeOK, IdInv, TurnInv, WTurn, NoReader,
      RHolds, Full, Eof, StreamIntegrity, Block, WRITE_SEM, READ_SEM
<1>1. CASE WSemget
  BY <1>1 DEF DataInv, kernel, writer, reader, WSemget, WStep
<1>2. CASE WInitAvailable
  BY <1>2 DEF DataInv, kernel, writer, reader, WInitAvailable, WStep, SetVal
<1>3. CASE WInitInUse
  BY <1>3 DEF DataInv, kernel, writer, reader, WInitInUse, WStep, SetVal
<1>4. CASE WShmOpen
  BY <1>4 DEF DataInv, kernel, writer, reader, WShmOpen, WStep
<1>5. CASE WTruncate
  BY <1>5 DEF DataInv, kernel, writer, reader, WTruncate, WStep
<1>6. CASE WReserve
  BY <1>6 DEF DataInv, kernel, writer, reader, WReserve, WStep, reserveSem
<1>7. CASE WRead
  BY <1>7 DEF DataInv, kernel, writer, reader, WRead, WStep
<1>8. CASE WStore
  BY <1>8 DEF DataInv, kernel, writer, reader, WStore, WStep
<1>9. CASE WReadEof
  BY <1>9 DEF DataInv, kernel, writer, reader, WReadEof, WStep
<1>10. CASE WRelease
  BY <1>10 DEF DataInv, kernel, writer, reader, WRelease, WStep, releaseSem
<1>11. CASE WTest
  BY <1>11 DEF DataInv, kernel, writer, reader, WTest, WStep
<1>12. CASE WDrain
  BY <1>12 DEF DataInv, kernel, writer, reader, WDrain, WStep, reserveSem
<1>13. CASE WRmid
  BY <1>13 DEF DataInv, kernel, writer, reader, WRmid, WStep
<1>14. CASE WUnlink
  BY <1>14 DEF DataInv, kernel, writer, reader, WUnlink, WStep
<1>15. CASE WReadError
  BY <1>15 DEF DataInv, kernel, writer, reader, WReadError, WStep
<1>16. CASE WKilled
  BY <1>16 DEF DataInv, kernel, writer, reader, WKilled, vars
<1>17. CASE WRunAgain
  BY <1>17 DEF DataInv, kernel, writer, reader, WRunAgain, IdInv
<1>18. ASSUME NEW q \in Readers, RSemget(q) PROVE DataInv'
  BY <1>18 DEF DataInv, kernel, writer, reader, RSemget, RStep
<1>19. ASSUME NEW q \in Readers, RShmOpen(q) PROVE DataInv'
  BY <1>19 DEF DataInv, kernel, writer, reader, RShmOpen, RStep
<1>20. ASSUME NEW q \in Readers, RReserve(q) PROVE DataInv'
  BY <1>20 DEF DataInv, kernel, writer, reader, RReserve, RStep, reserveSem
<1>21. ASSUME NEW q \in Readers, RSemGone(q) PROVE DataInv'
  BY <1>21 DEF DataInv, kernel, writer, reader, RSemGone, RStep
<1>22. ASSUME NEW q \in Readers, RTest(q) PROVE DataInv'
  <2>1. Full \/ Eof
    BY <1>22 DEF DataInv, RTest, RStep
  <2>2. cnt # 0 <=> Full
    BY <2>1 DEF DataInv
  <2>3. rpc' = [rpc EXCEPT ![q] = IF cnt = 0 THEN "giveBack" ELSE "write"]
    BY <1>22 DEF RTest, RStep
  <2>4. UNCHANGED <<kernel, writer, out>>
    BY <1>22 DEF RTest
  <2>5. \A r \in Readers : RHolds(r) => r = q
    BY <1>22 DEF RTest, RStep
  <2> QED
    BY <2>1, <2>2, <2>3, <2>4, <2>5 DEF DataInv, kernel, writer
<1>23. ASSUME NEW q \in Readers, RWrite(q) PROVE DataInv'
  <2>1. Full
    BY <1>23 DEF DataInv, RWrite, RStep
  <2>2. UNCHANGED <<semid, sem, shm, cnt, buf, stdin, pos, run, wpc, wid>>
    BY <1>23 DEF RWrite, kernel, writer
  <2>3. /\ Len(out') = pos
        /\ out'[pos] = Block(stdin[pos], SizeOf[stdin[pos]])
        /\ \A i \in 1..pos - 1 : out'[i] = out[i]
    BY <1>23, <2>1 DEF RWrite
  <2>4. StreamIntegrity'
    <3>1. Len(out) = pos - 1 /\ pos \in 1..Len(stdin)
      BY <2>1
    <3>2. \A i \in 1..pos - 1 : out[i] = Block(stdin[i], SizeOf[stdin[i]])
      BY <3>1 DEF DataInv
    <3> QED
      <4> HIDE DEF IInv
      <4> QED
        BY SMTT(20), <2>2, <2>3, <3>1, <3>2
  <2>5. /\ sem[READ_SEM] = 0 /\ sem[WRITE_SEM] = 0
        /\ ~WTurn /\ semid # 0
        /\ \A r \in Readers : RHolds(r) => r = q
    BY <1>23 DEF RWrite, RStep
  <2>6. rpc' = [rpc EXCEPT ![q] = "release"]
    BY <1>23 DEF RWrite, RStep
  <2>7. cnt # 0
    BY <2>1
  <2>8. \A r \in Readers : RHolds(r)' => r = q /\ rpc'[r] = "release"
    BY <2>5, <2>6
  <2> QED
    BY <2>2, <2>3, <2>4, <2>5, <2>7, <2>8 DEF DataInv
<1>24. ASSUME NEW q \in Readers, RBus(q) PROVE DataInv'
  BY <1>24 DEF DataInv, kernel, writer, reader, RBus, RStep
<1>25. ASSUME NEW q \in Readers, RRelease(q) PROVE DataInv'
  BY <1>25 DEF DataInv, kernel, writer, reader, RRelease, RStep, releaseSem
<1>26. ASSUME NEW q \in Readers, RGiveBack(q) PROVE DataInv'
  BY <1>26 DEF DataInv, kernel, writer, reader, RGiveBack, RStep, releaseSem
<1>27. ASSUME NEW q \in Readers, RWriteError(q) PROVE DataInv'
  BY <1>27 DEF DataInv, kernel, writer, reader, RWriteError, RStep
<1>28. ASSUME NEW q \in Readers, RKilled(q) PROVE DataInv'
  BY <1>28 DEF DataInv, kernel, writer, reader, RKilled, vars
<1>29. CASE UNCHANGED vars
  BY <1>29 DEF DataInv, kernel, writer, reader, vars
<1> QED
  BY <1>1, <1>2, <1>3, <1>4, <1>5, <1>6, <1>7, <1>8, <1>9, <1>10, <1>11,
      <1>12, <1>13, <1>14, <1>15, <1>16, <1>17, <1>18, <1>19, <1>20, <1>21,
      <1>22, <1>23, <1>24, <1>25, <1>26, <1>27, <1>28, <1>29
  DEF Next, WriterStep, Fault, ReaderStep

\* Only giving back the end of file makes a reader finish, for good.
LEMMA FinishedStep ==
  ASSUME TypeOK, [Next]_vars
  PROVE  Finished' <=> Finished \/ \E q \in Readers : RGiveBack(q)
<1>1. ASSUME NEW q \in Readers, RGiveBack(q) PROVE Finished'
  BY <1>1 DEF RGiveBack, RStep, Finished, TypeOK
<1>2. ASSUME NEW q \in Readers,
             \/ ReaderStep(q) /\ ~RGiveBack(q)
             \/ RWriteError(q) \/ RKilled(q)
      PROVE  Finished' <=> Finished
  <2>1. \E pc \in ReaderPC \ {"done"} :
          rpc[q] # "done" /\ rpc' = [rpc EXCEPT ![q] = pc]
    BY <1>2 DEF ReaderStep, RSemget, RShmOpen, RReserve, RSemGone, RTest,
       RWrite, RBus, RRelease, RWriteError, RKilled, RStep, ReaderPC
  <2> QED
    BY <2>1 DEF Finished, TypeOK
<1>3. ASSUME WriterStep \/ WReadError \/ WKilled \/ WRunAgain \/ UNCHANGED
   vars
      PROVE  Finished' <=> Finished
  <2>1. rpc' = rpc
    BY <1>3 DEF WriterStep, WSemget, WInitAvailable, WInitInUse, WShmOpen,
       WTruncate, WReserve, WRead, WStore, WReadEof, WRelease, WTest, WDrain,
       WRmid, WUnlink, WReadError, WKilled, WRunAgain, reader, vars
  <2> QED
    BY <2>1 DEF Finished
<1>4. ASSUME NEW q \in Readers, RGiveBack(q)
      PROVE  \A r \in Readers : rpc[r] = "done" => rpc'[r] = "done"
  BY <1>4 DEF RGiveBack, RStep, TypeOK
<1> QED
  BY <1>1, <1>2, <1>3, <1>4 DEF Next, Fault, Finished

LEMMA EndStep ==
  ASSUME MaxRuns = 1, IInv, [Next]_vars
  PROVE  EndInv'
<1> USE DEF IInv
<1>1. Finished' <=> Finished \/ \E q \in Readers : RGiveBack(q)
  BY FinishedStep
<1>2. ASSUME NEW q \in Readers, RGiveBack(q) PROVE EndInv'
  <2>1. Finished' /\ Eof
    BY <1>1, <1>2 DEF DataInv, RGiveBack, RStep
  <2>2. UNCHANGED <<stdin, out>>
    BY <1>2 DEF RGiveBack, writer
  <2> QED
    BY <2>1, <2>2 DEF EndInv, Eof
<1>3. ASSUME NEW q \in Readers, RWrite(q) PROVE ~Finished
  <2>1. Full
    BY <1>3 DEF DataInv, RWrite, RStep
  <2> QED
    BY <2>1 DEF Full, EndInv, TypeOK
<1>4. ASSUME NEW q \in Readers,
             \/ ReaderStep(q) /\ ~RGiveBack(q)
             \/ RWriteError(q) \/ RKilled(q)
      PROVE  EndInv'
  <2>1. UNCHANGED <<semid, cnt, stdin, wpc, wid>>
    BY <1>4 DEF ReaderStep, RSemget, RShmOpen, RReserve, reserveSem, RSemGone,
       RTest, RWrite, RBus, RRelease, releaseSem, RWriteError, RKilled,
       kernel, writer
  <2>2. out' = out \/ ~Finished
    BY <1>3, <1>4 DEF ReaderStep, RSemget, RShmOpen, RReserve, RSemGone,
       RTest, RBus, RRelease, RWriteError, RKilled
  <2>3. /\ Finished => Finished'
        /\ Finished' => Finished
    BY <1>1, <1>4 DEF ReaderStep, RGiveBack, RSemget, RShmOpen, RReserve,
       RSemGone, RTest, RWrite, RBus, RRelease, RWriteError, RKilled, RStep,
       TypeOK
  <2>4. CASE sem' = sem
    BY <2>1, <2>2, <2>3, <2>4 DEF EndInv
  <2>5. CASE RReserve(q)
    BY <2>1, <2>2, <2>3, <2>5
    DEF EndInv, TurnInv, TypeOK, RReserve, reserveSem, WRITE_SEM, READ_SEM
  <2>6. CASE RRelease(q)
    <3>1. cnt # 0 /\ wpc # "drain"
      BY <2>6 DEF DataInv, RRelease, RStep
    <3> QED
      BY <2>1, <2>2, <2>3, <2>6, <3>1 DEF EndInv, RRelease
  <2> QED
    BY <1>4, <2>4, <2>5, <2>6 DEF ReaderStep, RSemget, RShmOpen, RSemGone,
       RTest, RWrite, RBus, RWriteError, RKilled, kernel
<1>5. ASSUME WriterStep \/ WReadError \/ WKilled \/ WRunAgain
      PROVE  EndInv'
  <2> USE DEF IdInv, TurnInv, WTurn, EndInv, TypeOK, kernel, WRITE_SEM,
     READ_SEM
  <2>1. UNCHANGED <<stdin, out>> /\ Finished' = Finished
    BY <1>5 DEF WriterStep, WSemget, WInitAvailable, WInitInUse, WShmOpen,
       WTruncate, WReserve, WRead, WStore, WReadEof, WRelease, WTest, WDrain,
       WRmid, WUnlink, WReadError, WKilled, WRunAgain, reader, Finished
  <2>2. CASE WSemget
    BY <2>1, <2>2 DEF WSemget, WStep
  <2>3. CASE WInitAvailable
    BY <2>1, <2>3 DEF WInitAvailable, WStep, SetVal
  <2>4. CASE WInitInUse
    BY <2>1, <2>4 DEF WInitInUse, WStep, SetVal
  <2>5. CASE WShmOpen
    BY <2>1, <2>5 DEF WShmOpen, WStep
  <2>6. CASE WTruncate
    BY <2>1, <2>6 DEF WTruncate, WStep
  <2>7. CASE WReserve
    BY <2>1, <2>7 DEF WReserve, WStep, reserveSem
  <2>8. CASE WRead
    BY <2>1, <2>8 DEF WRead, WStep
  <2>9. CASE WStore
    BY <2>1, <2>9 DEF WStore, WStep
  <2>10. CASE WReadEof
    BY <2>1, <2>10 DEF WReadEof, WStep
  <2>11. CASE WRelease
    BY <2>1, <2>11 DEF WRelease, WStep, releaseSem
  <2>12. CASE WTest
    BY <2>1, <2>12 DEF WTest, WStep
  <2>13. CASE WDrain
    BY <2>1, <2>13 DEF WDrain, WStep, reserveSem
  <2>14. CASE WRmid
    BY <2>1, <2>14 DEF WRmid, WStep
  <2>15. CASE WUnlink
    BY <2>1, <2>15 DEF WUnlink, WStep
  <2>16. CASE WReadError
    BY <2>1, <2>16 DEF WReadError, WStep
  <2>17. CASE WKilled
    BY <2>1, <2>17 DEF WKilled, kernel, writer
  <2> QED
    BY <1>5, <2>2, <2>3, <2>4, <2>5, <2>6, <2>7, <2>8, <2>9,
       <2>10, <2>11, <2>12, <2>13, <2>14, <2>15, <2>16, <2>17 DEF WriterStep,
          WRunAgain
<1>6. CASE UNCHANGED vars
  BY <1>6 DEF EndInv, Finished, kernel, writer, reader, vars
<1> QED
  BY <1>2, <1>4, <1>5, <1>6 DEF Next, Fault

LEMMA IInvStep ==
  ASSUME MaxRuns = 1, IInv, [Next]_vars
  PROVE  IInv'
<1>1. TypeInv
  BY DEF IInv, DataInv, TypeInv
<1> QED
  BY <1>1, TypeStep, IdStep, TurnStep, DataStep, EndStep
  DEF IInv, TypeInv

\* While the writer is run once, whichever processes are killed, it never
\* fills the segment under a reader's eyes, nor do two readers read it.
THEOREM Exclusion ==
  ASSUME MaxRuns = 1
  PROVE  Spec => []MutualExclusion
<1>1. IInv => MutualExclusion
  BY DEF IInv, TurnInv, MutualExclusion, WAccess, RAccess, WTurn, NoReader,
     RHolds
<1>2. IInv /\ [Next]_vars => IInv'
  BY IInvStep
<1> QED
  BY <1>1, <1>2, IInvInit, PTL DEF Spec

\* While the writer is run once, what the readers have written is a prefix
\* of its input, block by block, whichever processes are killed.
THEOREM Integrity ==
  ASSUME MaxRuns = 1
  PROVE  Spec => []StreamIntegrity
<1>1. IInv => StreamIntegrity
  BY DEF IInv, DataInv
<1>2. IInv /\ [Next]_vars => IInv'
  BY IInvStep
<1> QED
  BY <1>1, <1>2, IInvInit, PTL DEF Spec

-----------------------------------------------------------------------------
(* The refinement of BlockStream: RWrite delivers, WRmid closes, and every *)
(* other step of the writer and the readers is invisible.                  *)

LEMMA DeliveredSeq ==
  ASSUME TypeOK
  PROVE  /\ Delivered \in Seq(Data \cup {NoData})
         /\ Len(Delivered) = Len(out)
         /\ \A i \in 1..Len(out) : Delivered[i] = out[i].data
<1> DEFINE Out == [data : Data \cup {NoData}, len : -1..BUF_SIZE]
<1>0. out \in Seq(Out)
  BY DEF TypeOK
<1>1. \A i \in 1..Len(out) : out[i].data \in Data \cup {NoData}
  <2>1. \A i \in 1..Len(out) : out[i] \in Out
    <3> HIDE DEF Out
    <3> QED
      BY <1>0
  <2> QED
    BY <2>1
<1>2. Len(out) \in Nat
  BY <1>0
<1> QED
  BY <1>1, <1>2 DEF Delivered

LEMMA DeliverStep ==
  ASSUME IInv, IInv', NEW q \in Readers, RWrite(q)
  PROVE  Stream!Deliver
<1> USE DEF IInv
<1>1. Full /\ ~Removed /\ ~Finished
  <2>1. Full /\ semid # 0
    BY DEF DataInv, TurnInv, RWrite, RStep, NoReader, RHolds
  <2>2. ~Finished
    BY <2>1 DEF Full, EndInv, TypeOK
  <2> QED
    BY <2>1, <2>2 DEF Removed
<1>2. /\ Len(out) < Len(stdin)
      /\ stdin[Len(out) + 1] = buf
      /\ buf \in Data \cup {NoData} /\ Len(out) \in Nat
      /\ out \in Seq([data : Data \cup {NoData}, len : -1..BUF_SIZE])
      /\ cnt \in -1..BUF_SIZE
  <2>1. TypeOK /\ Len(out) = pos - 1 /\ buf = stdin[pos] /\ pos >= 1
    BY <1>1 DEF Full, IInv
  <2> HIDE DEF IInv
  <2> QED
    BY <2>1 DEF TypeOK
<1>3. /\ out' = Append(out, Block(buf, cnt))
      /\ UNCHANGED <<stdin, semid, wid>>
      /\ rpc' = [rpc EXCEPT ![q] = "release"]
  BY DEF RWrite, RStep, kernel, writer
<1>4. /\ Len(out') = Len(out) + 1
      /\ \A i \in 1..Len(out) : out'[i] = out[i]
      /\ out'[Len(out) + 1].data = buf
  BY <1>2, <1>3 DEF Block
<1>5. Delivered' = Append(Delivered, stdin[Len(Delivered) + 1])
  <2>1. TypeOK /\ TypeOK'
    BY DEF IInv
  <2>2. /\ Delivered \in Seq(Data \cup {NoData})
        /\ Len(Delivered) = Len(out)
        /\ \A i \in 1..Len(out) : Delivered[i] = out[i].data
    BY <2>1, DeliveredSeq
  <2>3. Delivered' = [i \in 1..Len(out) + 1 |-> out'[i].data]
    BY <1>4 DEF Delivered
  <2> HIDE DEF IInv, Delivered
  <2> QED
    BY <1>2, <1>4, <2>2, <2>3
<1>6. Len(Delivered) = Len(out)
  BY DeliveredSeq
<1>7. Finished' = Finished /\ Removed' = Removed
  BY <1>1, <1>3 DEF Finished, Removed, TypeOK
<1> QED
  BY <1>1, <1>2, <1>3, <1>5, <1>6, <1>7 DEF Stream!Deliver

LEMMA StreamStep ==
  ASSUME MaxRuns = 1, IInv, IInv', [Next]_vars
  PROVE  [Stream!Next]_(Stream!vars)
<1>1. ASSUME NEW q \in Readers, RWrite(q) PROVE Stream!Next
  BY <1>1, DeliverStep DEF Stream!Next
<1>2. ASSUME NEW q \in Readers, RGiveBack(q) PROVE Stream!Next
  <2>1. ~Removed /\ ~Removed' /\ Len(out) = Len(stdin)
    BY <1>2 DEF IInv, IdInv, TurnInv, DataInv, Eof, NoReader, RHolds,
       RGiveBack, RStep, releaseSem, writer, Removed
  <2>2. UNCHANGED <<stdin, out>>
    BY <1>2 DEF RGiveBack, writer
  <2>3. Len(Delivered) = Len(out) /\ Delivered' = Delivered
    BY <2>2, DeliveredSeq DEF IInv, Delivered
  <2>4. Finished'
    BY <1>2 DEF RGiveBack, RStep, Finished, IInv, TypeOK
  <2>5. Removed' = Removed /\ Finished' = TRUE
    BY <2>1, <2>4 DEF Removed, Finished
  <2> QED
    BY <2>1, <2>2, <2>3, <2>5 DEF Stream!Next, Stream!End
<1>3. CASE WRmid
  <2>1. ~Removed /\ Removed' /\ Finished
    BY <1>3 DEF IInv, IdInv, EndInv, WRmid, WStep, Removed
  <2>2. UNCHANGED <<stdin, out, rpc>>
    BY <1>3 DEF WRmid, reader
  <2> QED
    BY <2>1, <2>2 DEF Stream!Next, Stream!Close, Delivered, Finished
<1>4. CASE WSemget
  <2>1. ~Removed /\ ~Removed'
    BY <1>4 DEF IInv, IdInv, WSemget, WStep, Removed
  <2>2. UNCHANGED <<stdin, out, rpc>>
    BY <1>4 DEF WSemget, reader
  <2> QED
    BY <2>1, <2>2 DEF Stream!vars, Removed, Delivered, Finished
<1>5. CASE UNCHANGED <<stdin, out, semid, wid>> /\ Finished' = Finished
  BY <1>5 DEF Stream!vars, Removed, Delivered
<1>6. CASE WriterStep /\ ~WSemget /\ ~WRmid
  BY <1>5, <1>6 DEF WriterStep, WInitAvailable, WInitInUse, WShmOpen,
     WTruncate, WReserve, reserveSem, WRead, WStore, WReadEof, WRelease,
     releaseSem, WTest, WDrain, WUnlink, kernel, reader, Finished
<1>7. CASE WReadError \/ WKilled \/ WRunAgain
  BY <1>5, <1>7 DEF WReadError, WKilled, WRunAgain, kernel, reader, IInv,
     IdInv, Finished
<1>8. ASSUME NEW q \in Readers,
             \/ ReaderStep(q) /\ ~RWrite(q) /\ ~RGiveBack(q)
             \/ RWriteError(q) \/ RKilled(q)
      PROVE  UNCHANGED <<stdin, out, semid, wid>> /\ Finished' = Finished
  <2>1. UNCHANGED <<stdin, out, semid, wid>>
    BY <1>8 DEF ReaderStep, RSemget, RShmOpen, RReserve, reserveSem, RSemGone,
       RTest, RBus, RRelease, releaseSem, RWriteError, RKilled,
       kernel, writer
  <2>2. \E pc \in ReaderPC \ {"done"} :
          rpc[q] # "done" /\ rpc' = [rpc EXCEPT ![q] = pc]
    BY <1>8 DEF ReaderStep, RSemget, RShmOpen, RReserve, RSemGone, RTest,
       RBus, RRelease, RWriteError, RKilled, RStep, ReaderPC
  <2> QED
    BY <2>1, <2>2 DEF Finished, IInv, TypeOK
<1>9. CASE UNCHANGED vars
  BY <1>5, <1>9 DEF vars, kernel, writer, reader, Finished
<1> QED
  BY <1>1, <1>2, <1>3, <1>4, <1>5, <1>6, <1>7, <1>8, <1>9 DEF Next, Fault

\* While the writer is run once, the transfer implements the abstract
\* stream: blocks come out whole and in order, and the IPC objects go only
\* after the last one, whichever processes are killed.
THEOREM Implementation ==
  ASSUME MaxRuns = 1
  PROVE  Spec => ImplementsStream
<1>1. Init => Stream!Init
  BY DEF Init, Stream!Init, Delivered, Finished, Removed
<1>2. IInv /\ [Next]_vars => IInv'
  BY IInvStep
<1>3. IInv /\ IInv' /\ [Next]_vars => [Stream!Next]_(Stream!vars)
  BY StreamStep
<1> QED
  BY <1>1, <1>2, <1>3, IInvInit, PTL DEF Spec, ImplementsStream, Stream!Spec

-----------------------------------------------------------------------------
(* A writer that is run again.  What it finds is forgotten when it sets    *)
(* the semaphores: from then on there is at most one turn, its own.        *)

OneTurn ==
  /\ sem[WRITE_SEM] \in {0, 1} /\ sem[READ_SEM] \in {0, 1}
  /\ sem[WRITE_SEM] = 1 => sem[READ_SEM] = 0 /\ ~WTurn /\ NoReader
  /\ sem[READ_SEM] = 1 => ~WTurn /\ NoReader
  /\ WTurn => NoReader
  /\ \A r, s \in Readers : RHolds(r) /\ RHolds(s) => r = s

\* Before it has set them nobody has a turn; killed there, it leaves it so.
NoTurn == sem[READ_SEM] = 0 /\ NoReader

RerunInv ==
  /\ run = MaxRuns /\ wpc # "semget"
  /\ \/ wpc \in {"initWrite", "killed"} /\ NoTurn
     \/ wpc # "initWrite" /\ OneTurn

LEMMA RerunStep ==
  ASSUME TypeOK, RerunInv, [Next]_vars
  PROVE  RerunInv'
<1> USE DEF TypeOK, RerunInv, OneTurn, NoTurn, WTurn, NoReader, RHolds,
        WRITE_SEM, READ_SEM, kernel, writer, reader
<1>1. CASE WInitAvailable
  BY <1>1 DEF WInitAvailable, WStep, SetVal
<1>2. CASE WInitInUse
  BY <1>2 DEF WInitInUse, WStep, SetVal
<1>3. CASE WReserve
  BY <1>3 DEF WReserve, WStep, reserveSem
<1>4. CASE WRelease
  BY <1>4 DEF WRelease, WStep, releaseSem
<1>5. CASE WDrain
  BY <1>5 DEF WDrain, WStep, reserveSem
<1>6. CASE \/ WSemget \/ WShmOpen \/ WTruncate \/ WRead \/ WStore
           \/ WReadEof \/ WReadError \/ WTest \/ WRmid \/ WUnlink \/ WRunAgain
  BY <1>6 DEF WSemget, WShmOpen, WTruncate, WRead, WStore, WReadEof,
     WReadError, WTest, WRmid, WUnlink, WRunAgain, WStep
<1>7. CASE WKilled
  BY <1>7 DEF WKilled
<1>8. ASSUME NEW q \in Readers, RReserve(q) PROVE RerunInv'
  BY <1>8 DEF RReserve, RStep, reserveSem
<1>9. ASSUME NEW q \in Readers, RRelease(q) PROVE RerunInv'
  BY <1>9 DEF RRelease, RStep, releaseSem
<1>10. ASSUME NEW q \in Readers, RGiveBack(q) PROVE RerunInv'
  BY <1>10 DEF RGiveBack, RStep, releaseSem
<1>11. ASSUME NEW q \in Readers,
              \/ RSemget(q) \/ RShmOpen(q) \/ RSemGone(q) \/ RTest(q)
              \/ RWrite(q) \/ RBus(q) \/ RWriteError(q) \/ RKilled(q)
       PROVE  RerunInv'
  <2>1. /\ UNCHANGED <<sem, run, wpc>>
        /\ \E pc \in ReaderPC :
             rpc' = [rpc EXCEPT ![q] = pc]
             /\ (pc \in {"test", "write", "release", "giveBack"} => RHolds(q))
    BY <1>11 DEF RSemget, RShmOpen, RSemGone, RTest, RWrite, RBus, RWriteError,
       RKilled, RStep, ReaderPC
  <2> QED
    BY <2>1
<1>12. CASE UNCHANGED vars
  BY <1>12 DEF vars
<1> QED
  BY <1>1, <1>2, <1>3, <1>4, <1>5, <1>6, <1>7, <1>8, <1>9, <1>10, <1>11, <1>12
  DEF Next, WriterStep, Fault, ReaderStep

\* However often the writer was killed before, and whatever it left: its last
\* run has the segment to itself, or one reader has, if no reader has a turn
\* when it comes to set the semaphores.
THEOREM Rerun == Spec => RerunSafeWhenQuiet
<1>1. TypeOK /\ run = MaxRuns /\ wpc = "initWrite" /\ Quiet => RerunInv
  BY DEF RerunInv, NoTurn, Quiet, NoReader
<1>2. TypeOK /\ RerunInv /\ [Next]_vars => RerunInv'
  BY RerunStep
<1>3. RerunInv => MutualExclusion
  BY DEF RerunInv, OneTurn, NoTurn, NoReader, WTurn, MutualExclusion, WAccess,
     RAccess, RHolds
<1> QED
  BY <1>1, <1>2, <1>3, TypeCorrect, PTL DEF Spec, RerunSafeWhenQuiet

-----------------------------------------------------------------------------
(* The totals.  The writer counts a block after it has given it away, and  *)
(* a reader its bytes before it has written them and its transfer after:   *)
(* for each place of the turn, the invariant says how far the two are      *)
(* apart.                                                                  *)

Transfers == [r \in Readers |-> rsum[r].xfrs]
Received  == [r \in Readers |-> rsum[r].bytes]
RX == SumOf(Transfers, Readers)
RB == SumOf(Received, Readers)

\* What the writer has put in the segment, counted yet or not.
Given == wsum.bytes + IF wpc \in {"release", "test"} THEN cnt ELSE 0
Uncounted == wpc = "store" \/ (wpc \in {"release", "test"} /\ cnt # 0)

TotalsInv ==
  wpc \notin {"failed", "killed"} =>
    /\ wpc \in {"semget", "initWrite"} => RX = 0 /\ RB = 0 /\ wsum.bytes = 0
    /\ pos = wsum.xfrs + IF Uncounted THEN 1 ELSE 0
    /\ wpc \in {"rmid", "unlink", "done"} => pos = Len(stdin)
    /\ sem[WRITE_SEM] = 1 \/ WTurn => RX = Len(out)
    /\ sem[WRITE_SEM] = 1 \/ (WTurn /\ wpc # "release") => RB = Given
    /\ sem[READ_SEM] = 1 \/ wpc = "release" =>
         RX = Len(out) /\ RB = Given - cnt
    /\ \A r \in Readers :
         /\ RHolds(r) => RX = Len(out) - IF rpc[r] = "release" THEN 1 ELSE 0
         /\ RHolds(r) => RB = Given - IF rpc[r] = "test" THEN cnt ELSE 0

LEMMA SumsType ==
  ASSUME TypeOK
  PROVE  /\ Transfers \in [Readers -> Int] /\ Received \in [Readers -> Int]
         /\ RX \in Int /\ RB \in Int
<1>1. Transfers \in [Readers -> Int] /\ Received \in [Readers -> Int]
  BY DEF TypeOK, Sums, Transfers, Received
<1> QED
  BY <1>1, SumType, XfrAssumption DEF RX, RB

LEMMA TotalsInit == Init => TotalsInv
<1> SUFFICES ASSUME Init PROVE TotalsInv
  OBVIOUS
<1>1. \A r \in Readers : Transfers[r] = 0 /\ Received[r] = 0
  BY DEF Init, NoSum, Transfers, Received
<1>2. RX = 0 /\ RB = 0
  BY <1>1, SumZero, XfrAssumption DEF RX, RB
<1> QED
  BY <1>2 DEF Init, NoSum, TotalsInv, WTurn, RHolds, Uncounted, WRITE_SEM,
     READ_SEM

LEMMA SumsStay == ASSUME rsum' = rsum PROVE RX' = RX /\ RB' = RB
BY DEF RX, RB, Transfers, Received

\* A reader that finds a block in the segment counts its bytes ...
LEMMA ReceivedGrows ==
  ASSUME TypeOK, NEW q \in Readers, RTest(q), cnt # 0
  PROVE  RX' = RX /\ RB' = RB + cnt
<1>1. /\ \A r \in Readers : rsum'[r].xfrs = rsum[r].xfrs
      /\ \A r \in Readers :
           rsum'[r].bytes = rsum[r].bytes + IF r = q THEN cnt ELSE 0
      /\ \A r \in Readers : rsum[r].bytes \in Int
  <2>1. /\ rsum' = [rsum EXCEPT ![q].bytes = @ + cnt] /\ rsum \in [Readers -> Sums]
        /\ cnt \in Int
    BY XfrAssumption DEF RTest, TypeOK
  <2>2. ASSUME NEW r \in Readers
        PROVE  rsum[r] \in Sums /\ rsum'[r] =
                 IF r = q THEN [rsum[r] EXCEPT !.bytes = @ + cnt] ELSE rsum[r]
    BY <2>1
  <2> QED
    BY <2>1, <2>2 DEF Sums
<1>2. RX' = RX
  BY <1>1 DEF RX, Transfers
<1>3. Differ(Received, Received', Readers, q, cnt)
  <2>1. \A r \in Readers :
          Received[r] = rsum[r].bytes /\ Received'[r] = rsum'[r].bytes
    BY DEF Received
  <2>2. cnt \in Int
    BY XfrAssumption DEF TypeOK
  <2>3. \A r \in Readers :
          Received'[r] = Received[r] + (IF r = q THEN cnt ELSE 0)
    BY <1>1, <2>1
  <2>4. Received \in [Readers -> Int]
    BY SumsType
  <2>5. \A r \in Readers : Received'[r] \in Int
    BY <2>2, <2>3, <2>4
  <2>6. Received' \in [Readers -> Int]
    BY <2>5 DEF Received
  <2> QED
    BY <2>2, <2>3, <2>4, <2>6 DEF Differ
<1>4. RB' = RB + cnt
  BY <1>3, SumStep, XfrAssumption DEF RB
<1> QED
  BY <1>2, <1>4

\* ... and when it gives the segment back, one transfer.
LEMMA TransfersGrow ==
  ASSUME TypeOK, NEW q \in Readers, RRelease(q)
  PROVE  RX' = RX + 1 /\ RB' = RB
<1>1. /\ \A r \in Readers : rsum'[r].bytes = rsum[r].bytes
      /\ \A r \in Readers :
           rsum'[r].xfrs = rsum[r].xfrs + IF r = q THEN 1 ELSE 0
      /\ \A r \in Readers : rsum[r].xfrs \in Int
  BY SMTT(20) DEF RRelease, TypeOK, Sums
<1>2. RB' = RB
  BY <1>1 DEF RB, Received
<1>3. Differ(Transfers, Transfers', Readers, q, 1)
  <2>1. \A r \in Readers :
          Transfers[r] = rsum[r].xfrs /\ Transfers'[r] = rsum'[r].xfrs
    BY DEF Transfers
  <2>2. \A r \in Readers :
          Transfers'[r] = Transfers[r] + (IF r = q THEN 1 ELSE 0)
    BY <1>1, <2>1
  <2>3. Transfers \in [Readers -> Int]
    BY SumsType
  <2>4. \A r \in Readers : Transfers'[r] \in Int
    BY <2>2, <2>3
  <2>5. Transfers' \in [Readers -> Int]
    BY <2>4 DEF Transfers
  <2> QED
    BY <2>2, <2>3, <2>5 DEF Differ
<1>4. RX' = RX + 1
  BY <1>3, SumStep, XfrAssumption DEF RX
<1> QED
  BY <1>2, <1>4

\* The readers' steps.  The one that has the turn, or takes it, is past the
\* point where the writer could have it.
LEMMA ReaderTotalsStep ==
  ASSUME IInv, TotalsInv, NEW q \in Readers,
         RReserve(q) \/ RTest(q) \/ RWrite(q) \/ RRelease(q) \/ RGiveBack(q)
  PROVE  TotalsInv'
<1> DEFINE Runs == wpc \notin {"failed", "killed"}
<1> USE DEF RHolds, WRITE_SEM, READ_SEM
<1>0. /\ RX \in Int /\ RB \in Int /\ cnt \in Int /\ Given \in Int
      /\ Len(out) \in Int /\ sem \in [{WRITE_SEM, READ_SEM} -> Nat]
      /\ out \in Seq([data : Data \cup {NoData}, len : -1..BUF_SIZE])
      /\ rpc \in [Readers -> ReaderPC]
  BY SMTT(20), SumsType, XfrAssumption DEF IInv, TypeOK, Sums, Given
<1>1. /\ UNCHANGED <<cnt, stdin, pos, wpc, wsum>>
      /\ rsum' = rsum => RX' = RX /\ RB' = RB
      /\ \A r \in Readers : r # q => rpc'[r] = rpc[r]
  BY <1>0, SumsStay DEF RReserve, RTest, RWrite, RRelease, RGiveBack, RStep,
     kernel, writer
<1>2. Given' = Given /\ (Uncounted' <=> Uncounted) /\ (WTurn' <=> WTurn)
  BY <1>1 DEF Given, Uncounted, WTurn
<1>3. /\ ~WTurn /\ wpc \notin {"semget", "initWrite", "release"}
      /\ sem[WRITE_SEM] = 0 /\ \A r \in Readers : r # q => ~RHolds(r)
      /\ RHolds(q) => sem[READ_SEM] = 0
      /\ ~RHolds(q) => sem[READ_SEM] = 1
  BY <1>0 DEF IInv, TurnInv, NoReader, WTurn, RReserve, reserveSem, RTest,
     RWrite, RRelease, RGiveBack, RStep
<1>4. CASE RReserve(q)
  <2>1. /\ UNCHANGED <<out, rsum>> /\ sem[READ_SEM] = 1
        /\ sem'[WRITE_SEM] = 0 /\ sem'[READ_SEM] = 0 /\ rpc'[q] = "test"
    BY <1>0, <1>3, <1>4 DEF RReserve, reserveSem, RStep
  <2>2. Runs => RX = Len(out) /\ RB = Given - cnt
    BY <2>1 DEF TotalsInv
  <2> QED
    BY <1>0, <1>1, <1>2, <1>3, <2>1, <2>2 DEF TotalsInv
<1>5. CASE RTest(q)
  <2>1. /\ UNCHANGED <<out, sem>> /\ rpc[q] = "test"
        /\ rpc'[q] \in {"write", "giveBack"}
    BY <1>0, <1>5 DEF RTest, RStep, kernel
  <2>2. Runs => RX = Len(out) /\ RB = Given - cnt
    BY <2>1 DEF TotalsInv
  <2>3. RX' = RX /\ RB' = RB + cnt
    BY <1>0, <1>1, <1>5, ReceivedGrows DEF RTest, IInv
  <2>4. Runs => RX' = Len(out) /\ RB' = Given
    BY <1>0, <2>2, <2>3
  <2> QED
    BY <1>0, <1>1, <1>2, <1>3, <2>1, <2>4 DEF TotalsInv
<1>6. CASE RWrite(q)
  <2>1. /\ UNCHANGED <<rsum, sem>> /\ rpc[q] = "write" /\ rpc'[q] = "release"
        /\ Len(out') = Len(out) + 1
    BY <1>0, <1>6 DEF RWrite, RStep, kernel
  <2>2. Runs => RX = Len(out) /\ RB = Given
    BY <1>0, <2>1 DEF TotalsInv
  <2> QED
    BY <1>0, <1>1, <1>2, <1>3, <2>1, <2>2 DEF TotalsInv
<1>7. CASE RRelease(q) \/ RGiveBack(q)
  <2>1. /\ UNCHANGED out /\ rpc[q] \in {"release", "giveBack"}
        /\ sem'[READ_SEM] = 0 /\ rpc'[q] \in {"reserve", "done"}
        /\ rpc[q] = "release" => RX' = RX + 1 /\ RB' = RB
        /\ rpc[q] = "giveBack" => RX' = RX /\ RB' = RB
    BY <1>0, <1>1, <1>3, <1>7, TransfersGrow
    DEF RRelease, RGiveBack, releaseSem, RStep, IInv
  <2>2. Runs => RX' = Len(out) /\ RB' = Given
    BY <1>0, <2>1 DEF TotalsInv
  <2> QED
    BY <1>0, <1>1, <1>2, <1>3, <2>1, <2>2 DEF TotalsInv
<1> QED
  BY <1>4, <1>5, <1>6, <1>7

LEMMA TotalsStep ==
  ASSUME MaxRuns = 1, IInv, TotalsInv, [Next]_vars
  PROVE  TotalsInv'
<1> USE XfrAssumption DEF IInv, TypeOK, IdInv, TurnInv, WTurn, NoReader,
      RHolds, Full, Eof, Block, Sums, NoSum, kernel, writer, reader, Given,
      Uncounted, TotalsInv, DataInv, WRITE_SEM, READ_SEM
<1>0. RX \in Int /\ RB \in Int /\ (rsum' = rsum => RX' = RX /\ RB' = RB)
  BY SumsType, SumsStay
<1>1. CASE WSemget
  BY <1>0, <1>1 DEF WSemget, WStep
<1>2. CASE WInitAvailable
  BY <1>0, <1>2 DEF WInitAvailable, WStep, SetVal
<1>3. CASE WInitInUse
  BY <1>0, <1>3 DEF WInitInUse, WStep, SetVal
<1>4. CASE WShmOpen
  BY <1>0, <1>4 DEF WShmOpen, WStep
<1>5. CASE WTruncate
  BY <1>0, <1>5 DEF WTruncate, WStep
<1>6. CASE WReserve
  BY <1>0, <1>6 DEF WReserve, WStep, reserveSem
<1>7. CASE WRead
  BY <1>0, <1>7 DEF WRead, WStep
<1>8. CASE WStore
  BY SMTT(20), <1>0, <1>8 DEF WStore, WStep
<1>9. CASE WReadEof
  BY <1>0, <1>9 DEF WReadEof, WStep
<1>10. CASE WRelease
  BY <1>0, <1>10 DEF WRelease, WStep, releaseSem
<1>11. CASE WTest
  <2>1. /\ UNCHANGED <<sem, cnt, stdin, pos, out, rsum, rpc>> /\ wpc = "test"
        /\ wpc' = IF cnt = 0 THEN "drain" ELSE "reserve"
        /\ wsum' = IF cnt = 0 THEN wsum
                   ELSE [xfrs |-> wsum.xfrs + 1, bytes |-> wsum.bytes + cnt]
    BY <1>11 DEF WTest, WStep
  <2>2. CASE cnt = 0
    BY <1>0, <2>1, <2>2
  <2>3. CASE cnt # 0
    BY <1>0, <2>1, <2>3
  <2> QED
    BY <2>2, <2>3
<1>12. CASE WDrain
  BY <1>0, <1>12 DEF WDrain, WStep, reserveSem
<1>13. CASE WRmid
  BY <1>0, <1>13 DEF WRmid, WStep
<1>14. CASE WUnlink
  BY <1>0, <1>14 DEF WUnlink, WStep
<1>15. CASE WReadError
  BY <1>0, <1>15 DEF WReadError, WStep
<1>16. CASE WKilled
  BY <1>0, <1>16 DEF WKilled, WStep
<1>17. CASE WRunAgain
  BY <1>0, <1>17 DEF WRunAgain, WStep
<1>18. ASSUME NEW q \in Readers,
              RSemget(q) \/ RShmOpen(q) \/ RSemGone(q) \/ RBus(q)
              \/ RWriteError(q) \/ RKilled(q)
       PROVE  TotalsInv'
  <2>1. UNCHANGED <<sem, cnt, stdin, pos, wpc, wsum, out, rsum>>
    BY <1>18 DEF RSemget, RShmOpen, RSemGone, RBus, RWriteError, RKilled
  <2>2. \E pc \in {"shmOpen", "reserve", "failed", "killed"} :
          rpc' = [rpc EXCEPT ![q] = pc]
    BY <1>18 DEF RSemget, RShmOpen, RSemGone, RBus, RWriteError, RKilled, RStep
  <2>3. \A r \in Readers : RHolds(r)' => RHolds(r) /\ rpc'[r] = rpc[r]
    BY <2>2
  <2> QED
    BY <1>0, <2>1, <2>3
<1>19. ASSUME NEW q \in Readers,
              RReserve(q) \/ RTest(q) \/ RWrite(q) \/ RRelease(q) \/ RGiveBack(q)
       PROVE  TotalsInv'
  BY <1>19, ReaderTotalsStep
<1>20. CASE UNCHANGED vars
  BY <1>20, <1>0 DEF vars
<1> QED
  BY <1>1, <1>2, <1>3, <1>4, <1>5, <1>6, <1>7, <1>8, <1>9, <1>10, <1>11,
     <1>12, <1>13, <1>14, <1>15, <1>16, <1>17, <1>18, <1>19, <1>20
  DEF Next, WriterStep, Fault, ReaderStep

\* The fold over the readers is the sum.
LEMMA ReaderTotals ==
  ASSUME TypeOK
  PROVE  ReaderTotal("xfrs") = RX /\ ReaderTotal("bytes") = RB
<1>1. ASSUME NEW field, NEW f \in [Readers -> Int],
             \A r \in Readers : f[r] = rsum[r][field]
      PROVE  ReaderTotal(field) = SumOf(f, Readers)
  <2> DEFINE P(G) == G = [s \in SUBSET Readers |->
                            IF s = {} THEN 0
                            ELSE rsum[First(s)][field] + G[s \ {First(s)}]]
             H == CHOOSE G : P(G)
  <2>1. ASSUME NEW G PROVE P(G) <=> AddsUp(G, f, SUBSET Readers)
    <3>1. \A s \in SUBSET Readers : s # {} => f[First(s)] = rsum[First(s)][field]
      BY <1>1, FirstIn
    <3> QED
      BY <3>1 DEF AddsUp
  <2>2. P(H)
    <3>1. \E G : P(G)
      BY <2>1, SumExists, XfrAssumption
    <3> QED
      BY <3>1
  <2>3. H[Readers] = SumOf(f, Readers)
    BY <2>1, <2>2, SumIs, XfrAssumption
  <2>4. ReaderTotal(field) = H[Readers]
    BY DEF ReaderTotal, MapThenSumSet, MapThenFoldSet, First
  <2> QED
    BY <2>3, <2>4
<1>2. \A r \in Readers : /\ Transfers[r] = rsum[r]["xfrs"]
                         /\ Received[r] = rsum[r]["bytes"]
  BY DEF Transfers, Received
<1> QED
  BY <1>1, <1>2, SumsType DEF RX, RB

\* While the writer is run once, whichever processes are killed: if it gets to
\* the end, the totals it prints are those of its readers taken together, in
\* transfers and in bytes, and cover the whole input.
THEOREM Totals ==
  ASSUME MaxRuns = 1
  PROVE  Spec => []TotalsAgree
<1>1. IInv /\ TotalsInv => TotalsAgree
  <2> SUFFICES ASSUME IInv, TotalsInv, wpc = "done" PROVE
        /\ wsum.xfrs = Len(stdin)
        /\ wsum.xfrs = ReaderTotal("xfrs") /\ wsum.bytes = ReaderTotal("bytes")
    BY DEF TotalsAgree
  <2>1. ReaderTotal("xfrs") = RX /\ ReaderTotal("bytes") = RB
    BY ReaderTotals DEF IInv
  <2>2. /\ wsum.xfrs = Len(stdin) /\ Len(out) = Len(stdin)
        /\ RX = Len(out) /\ RB = wsum.bytes
    BY DEF IInv, TypeOK, Sums, DataInv, TotalsInv, WTurn, Given, Uncounted
  <2> QED
    BY <2>1, <2>2
<1>2. IInv /\ TotalsInv /\ [Next]_vars => (IInv /\ TotalsInv)'
  BY IInvStep, TotalsStep
<1> QED
  BY <1>1, <1>2, IInvInit, TotalsInit, PTL DEF Spec
=============================================================================
