----------------------------- MODULE ShmBroadcast -----------------------------
(***************************************************************************)
(* SP_HW10: a parent writes M numbered messages into a ring of B slots in  *)
(* shared memory and, after each, queues SIGUSR1 with the number to each   *)
(* of its N children.  A child waits in pause(), reads the slot it is at,  *)
(* and counts the message as received if its number is the one the last    *)
(* signal carried.  program.c uses no lock; program_enhanced.c takes a     *)
(* spin lock around each access to a slot.                                 *)
(*                                                                         *)
(* SIGUSR1 is not queued: while one is pending, those that follow are      *)
(* dropped.  Before its handler is installed it kills the child.  How long *)
(* usleep() lasts, compared with the children's work, is not known.        *)
(***************************************************************************)
EXTENDS Integers, FiniteSetsExt

CONSTANTS
  M,     \* data_num, the number of messages
  N,     \* the number of consumers
  B,     \* buf, the number of slots
  None   \* no signal, no number

ASSUME BroadcastAssumption ==
  M \in Nat \ {0} /\ N \in Nat \ {0} /\ B \in Nat \ {0} /\ None \notin Int

VARIABLES
  enhanced,  \* the program is program_enhanced
  shm,       \* the name "/SHM_DEMO" exists
  slots,     \* what each slot holds
  locked,    \* *p1, the spin lock
  total,     \* *p, the count of received messages
  ppc,       \* the parent's next step
  n, i,      \* the message it is at, and the consumer
  report,    \* the sum it has printed
  cpc,       \* each consumer's next step
  pending,   \* the number its pending SIGUSR1 carries
  recv_seq,  \* the number the last handled one carried
  b,         \* how many rounds it has made
  split,     \* its copy of a slot
  counted,   \* history: the messages it has counted
  lost       \* history: a signal has missed its consumer's pause()

parent    == <<ppc, n, i, report>>
consumers == <<cpc, recv_seq, b, split, counted>>
vars == <<enhanced, shm, slots, locked, total, parent, consumers, pending, lost>>

Messages  == 0 .. M - 1
Zero == -1   \* the text of a slot that was never written
Torn == -2   \* the text of a slot that is being written
Consumers == 1 .. N
Ended == {"done", "failed", "killed"}

PStep(from, to) == ppc = from /\ ppc' = to
CStep(c, from, to) == cpc[c] = from /\ cpc' = [cpc EXCEPT ![c] = to]

-----------------------------------------------------------------------------
(* Slips a programmer could make, not what the code does: each variant of  *)
(* a definition below breaks one of the properties at the end.             *)

\* The pointer goes back one slot too early.
SlotShort(k) == k % (B - 1)

PLockNever ==
  /\ PStep("lock", "write")
  /\ locked' = TRUE
  /\ UNCHANGED <<enhanced, shm, slots, total, n, i, report, consumers, pending,
                 lost>>

CUnlockNever(c) ==
  /\ CStep(c, "unlock", "compare")
  /\ UNCHANGED <<enhanced, shm, slots, locked, total, parent, recv_seq, b,
                 split, counted, pending, lost>>

HandleKeeps(c) ==
  recv_seq' = [recv_seq EXCEPT ![c] = pending[c]] /\ UNCHANGED pending

-----------------------------------------------------------------------------
(* What both programs share.                                               *)

\* ptr += 80, and back to addr after slot buf - 1.
Slot(k) == k % B

\* The first step of a round: the enhanced program takes the lock.
Round == IF enhanced THEN "lock" ELSE "access"

\* seqcmp(): the first word that is a number other than 0.  Without one the
\* function ends without a return statement, and what the Makefile's build
\* then returns is strtok()'s last result, 0.  A slot that is being written
\* may show the start of a message or digits of two numbers.
seqcmp(text) == IF text \in Messages THEN {text}
                ELSE IF text = Torn THEN Messages ELSE {0}

-----------------------------------------------------------------------------
(* The parent.                                                             *)

PFork ==
  /\ ppc = "fork"
  /\ cpc' = [cpc EXCEPT ![i] = "sigaction"]
  /\ IF i < N THEN i' = i + 1 /\ ppc' = ppc
              ELSE i' = 1 /\ ppc' = IF enhanced THEN "lock" ELSE "write"
  /\ UNCHANGED <<enhanced, shm, slots, locked, total, n, report, recv_seq, b,
                 split, counted, pending, lost>>

PLock ==
  /\ ~locked
  /\ PStep("lock", "write")
  /\ locked' = TRUE
  /\ UNCHANGED <<enhanced, shm, slots, total, n, i, report, consumers, pending,
                 lost>>

\* strcpy() into the slot takes a while.
PWrite ==
  /\ PStep("write", "written")
  /\ slots' = [slots EXCEPT ![Slot(n)] = Torn]
  /\ UNCHANGED <<enhanced, shm, locked, total, n, i, report, consumers, pending,
                 lost>>

PWritten ==
  /\ PStep("written", IF enhanced THEN "unlock" ELSE "sigqueue")
  /\ slots' = [slots EXCEPT ![Slot(n)] = n]
  /\ UNCHANGED <<enhanced, shm, locked, total, n, i, report, consumers, pending,
                 lost>>

PUnlock ==
  /\ PStep("unlock", "sigqueue")
  /\ locked' = FALSE
  /\ UNCHANGED <<enhanced, shm, slots, total, n, i, report, consumers, pending,
                 lost>>

\* A consumer that has ended is a zombie, and sigqueue() succeeds.
PSigqueue ==
  /\ ppc = "sigqueue"
  /\ pending' = [pending EXCEPT ![i] =
                   IF cpc[i] \notin Ended /\ @ = None THEN n ELSE @]
  /\ lost' = (lost \/ pending[i] # None \/ cpc[i] \in Ended)
  /\ IF i < N THEN i' = i + 1 /\ ppc' = ppc
              ELSE i' = 1 /\ ppc' = "usleep"
  /\ UNCHANGED <<enhanced, shm, slots, locked, total, n, report, consumers>>

PUsleep ==
  /\ ppc = "usleep"
  /\ n' = n + 1
  /\ ppc' = IF n + 1 = M THEN "wait" ELSE IF enhanced THEN "lock" ELSE "write"
  /\ UNCHANGED <<enhanced, shm, slots, locked, total, i, report, consumers,
                 pending, lost>>

PWait ==
  /\ ppc = "wait" /\ cpc[i] \in Ended
  /\ IF i < N THEN i' = i + 1 /\ ppc' = ppc
              ELSE i' = i /\ ppc' = "report"
  /\ UNCHANGED <<enhanced, shm, slots, locked, total, n, report, consumers,
                 pending, lost>>

PReport ==
  /\ PStep("report", "done")
  /\ report' = total
  /\ shm' = FALSE
  /\ UNCHANGED <<enhanced, slots, locked, total, n, i, consumers, pending, lost>>

ParentStep ==
  \/ PFork \/ PLock \/ PWrite \/ PWritten \/ PUnlock \/ PSigqueue \/ PUsleep
  \/ PWait \/ PReport

-----------------------------------------------------------------------------
(* The consumers.                                                          *)

CSigaction(c) ==
  /\ CStep(c, "sigaction", "pause")
  /\ UNCHANGED <<enhanced, shm, slots, locked, total, parent, recv_seq, b,
                 split, counted, pending, lost>>

CPause(c) ==
  /\ CStep(c, "pause", "paused")
  /\ UNCHANGED <<enhanced, shm, slots, locked, total, parent, recv_seq, b,
                 split, counted, pending, lost>>

\* capture_signal().
Handle(c) == /\ recv_seq' = [recv_seq EXCEPT ![c] = pending[c]]
             /\ pending' = [pending EXCEPT ![c] = None]

\* The handler ends pause(), if the consumer is in it; a signal that comes
\* before pause() is called leaves the consumer to wait for the next one.
CSignalled(c) ==
  /\ pending[c] # None
  /\ Handle(c)
  /\ \/ /\ CStep(c, "paused", IF b[c] = 0 THEN "open" ELSE Round)
        /\ UNCHANGED lost
     \/ /\ cpc[c] \notin Ended \cup {"sigaction", "paused"}
        /\ lost' = TRUE
        /\ UNCHANGED cpc
  /\ UNCHANGED <<enhanced, shm, slots, locked, total, parent, b, split, counted>>

\* SIGUSR1 before sigaction(): the child is killed.
CKilled(c) ==
  /\ pending[c] # None
  /\ CStep(c, "sigaction", "killed")
  /\ lost' = TRUE
  /\ UNCHANGED <<enhanced, shm, slots, locked, total, parent, recv_seq, b,
                 split, counted, pending>>

\* shm_open() without O_CREAT: another consumer may have unlinked the name.
COpen(c) ==
  /\ CStep(c, "open", IF shm THEN Round ELSE "failed")
  /\ lost' = (lost \/ ~shm)
  /\ UNCHANGED <<enhanced, shm, slots, locked, total, parent, recv_seq, b,
                 split, counted, pending>>

CLock(c) ==
  /\ ~locked
  /\ CStep(c, "lock", "access")
  /\ locked' = TRUE
  /\ UNCHANGED <<enhanced, shm, slots, total, parent, recv_seq, b, split,
                 counted, pending, lost>>

CAccess(c) ==
  /\ CStep(c, "access", IF enhanced THEN "unlock" ELSE "compare")
  /\ split' = [split EXCEPT ![c] = slots[Slot(b[c])]]
  /\ UNCHANGED <<enhanced, shm, slots, locked, total, parent, recv_seq, b,
                 counted, pending, lost>>

CUnlock(c) ==
  /\ CStep(c, "unlock", "compare")
  /\ locked' = FALSE
  /\ UNCHANGED <<enhanced, shm, slots, total, parent, recv_seq, b, split,
                 counted, pending, lost>>

\* recv_seq is the last signal's, not the one that ended pause().
CCompare(c) ==
  /\ CStep(c, "compare", "test")
  /\ \E seq \in seqcmp(split[c]) :
       IF recv_seq[c] = seq
       THEN /\ total' = total + 1
            /\ counted' = [counted EXCEPT ![c] = @ \cup {seq}]
       ELSE UNCHANGED <<total, counted>>
  /\ b' = [b EXCEPT ![c] = @ + 1]
  /\ UNCHANGED <<enhanced, shm, slots, locked, parent, recv_seq, split, pending,
                 lost>>

CTest(c) ==
  /\ CStep(c, "test", IF b[c] >= M THEN "unlink" ELSE "pause")
  /\ UNCHANGED <<enhanced, shm, slots, locked, total, parent, recv_seq, b,
                 split, counted, pending, lost>>

CUnlink(c) ==
  /\ CStep(c, "unlink", "done")
  /\ shm' = FALSE
  /\ UNCHANGED <<enhanced, slots, locked, total, parent, recv_seq, b, split,
                 counted, pending, lost>>

ConsumerStep(c) ==
  \/ CSigaction(c) \/ CPause(c) \/ CSignalled(c) \/ CKilled(c) \/ COpen(c)
  \/ CLock(c) \/ CAccess(c) \/ CUnlock(c) \/ CCompare(c) \/ CTest(c)
  \/ CUnlink(c)

-----------------------------------------------------------------------------

Init ==
  /\ enhanced \in BOOLEAN
  /\ shm = TRUE
  /\ slots = [k \in 0 .. B - 1 |-> Zero]
  /\ locked = FALSE
  /\ total = 0
  /\ ppc = "fork" /\ n = 0 /\ i = 1 /\ report = None
  /\ cpc = [c \in Consumers |-> "unborn"]
  /\ pending = [c \in Consumers |-> None]
  /\ recv_seq = [c \in Consumers |-> 0]
  /\ b = [c \in Consumers |-> 0]
  /\ split = [c \in Consumers |-> Zero]
  /\ counted = [c \in Consumers |-> {}]
  /\ lost = FALSE

Next == ParentStep \/ \E c \in Consumers : ConsumerStep(c)

Spec == Init /\ [][Next]_vars

\* Every process that can take its next step eventually takes it.  A spin
\* lock is asked for a bounded number of times, so it is free in the end.
FairSpec ==
  Spec /\ WF_vars(ParentStep) /\ \A c \in Consumers : WF_vars(ConsumerStep(c))

-----------------------------------------------------------------------------

Text == Messages \cup {Zero, Torn}

\* The shape of the state.
TypeOK ==
  /\ enhanced \in BOOLEAN /\ shm \in BOOLEAN /\ locked \in BOOLEAN
  /\ lost \in BOOLEAN
  /\ slots \in [0 .. B - 1 -> Text]
  /\ total \in Nat
  /\ ppc \in {"fork", "lock", "write", "written", "unlock", "sigqueue",
              "usleep", "wait", "report", "done"}
  /\ n \in 0..M /\ i \in Consumers
  /\ report \in Nat \cup {None}
  /\ cpc \in [Consumers -> Ended \cup {"unborn", "sigaction", "pause", "paused",
                "open", "lock", "access", "unlock", "compare", "test", "unlink"}]
  /\ pending \in [Consumers -> Messages \cup {None}]
  /\ recv_seq \in [Consumers -> Messages]
  /\ b \in [Consumers -> 0..M]
  /\ split \in [Consumers -> Text]
  /\ counted \in [Consumers -> SUBSET Messages]

\* "critical section" (program_enhanced.c:85 and 117): with the lock, no
\* consumer copies a slot while the parent is writing one, nor two at once.
LockExcludes ==
  enhanced =>
    /\ ppc = "written" => \A c \in Consumers : cpc[c] # "access"
    /\ \A c, d \in Consumers : cpc[c] = "access" /\ cpc[d] = "access" => c = d
    /\ \A c \in Consumers : split[c] # Torn

\* "Sum of received messages by all consumers": a consumer counts a message
\* once at most, however many signals were dropped or came at a bad time.
CountedOnce == total = MapThenSumSet(LAMBDA c : Cardinality(counted[c]), Consumers)

\* The sum that is printed is final: every consumer has ended.
ReportFinal ==
  ppc = "done" => /\ \A c \in Consumers : cpc[c] \in Ended
                  /\ report = total

\* If no signal is dropped and every one ends a pause(), a ring of three
\* slots or more loses nothing: the parent is at most two messages ahead,
\* with a signal pending for the first.
InStepLosesNothing == B > 2 /\ ~lost /\ ppc = "done" => report = M * N

\* ... and the program comes to an end.  A signal that misses a pause() may
\* leave a consumer, and the parent that waits for it, waiting for ever.
InStepEnds == <>(lost \/ ppc = "done")
=============================================================================
