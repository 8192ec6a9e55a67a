-------------------------- MODULE ShmBroadcastProofs --------------------------
(***************************************************************************)
(* Proofs about ShmBroadcast, for every number of messages, consumers and  *)
(* slots, and for both programs.                                           *)
(***************************************************************************)
EXTENDS ShmBroadcast, FiniteSums, TLAPS

LEMMA SlotType == ASSUME NEW k \in Nat PROVE Slot(k) \in 0 .. B - 1
BY BroadcastAssumption DEF Slot

LEMMA seqcmpType == ASSUME NEW text \in Text PROVE seqcmp(text) \subseteq Messages
BY BroadcastAssumption DEF seqcmp, Text, Messages, Torn, Zero

\* The parent signals messages that exist, and a consumer is in a round only
\* while it has one to make.
InRound == {"unborn", "sigaction", "pause", "paused", "open", "lock", "access",
            "unlock", "compare"}
TypeInv ==
  /\ TypeOK
  /\ ppc \notin {"wait", "report", "done"} => n < M
  /\ ppc = "fork" => \A c \in Consumers : c >= i => cpc[c] = "unborn"
  /\ \A c \in Consumers : cpc[c] \in InRound => b[c] < M

LEMMA TypeInit == Init => TypeInv
<1> SUFFICES ASSUME Init PROVE TypeInv
  OBVIOUS
<1> USE BroadcastAssumption DEF Init
<1>1. n \in 0..M /\ i \in Consumers /\ n < M
  BY DEF Consumers
<1>2. slots \in [0 .. B - 1 -> Text] /\ split \in [Consumers -> Text]
  BY DEF Text
<1>3. recv_seq \in [Consumers -> Messages] /\ b \in [Consumers -> 0..M]
  BY DEF Messages
<1>4. \A c \in Consumers : b[c] < M
  OBVIOUS
<1> QED
  BY <1>1, <1>2, <1>3, <1>4 DEF TypeInv, TypeOK, Ended

LEMMA TypeStep ==
  ASSUME TypeInv, [Next]_vars
  PROVE  TypeInv'
<1> USE DEF TypeInv, TypeOK, Ended, InRound, PStep, CStep, parent, consumers
<1>1. CASE PFork
  <2>1. i' \in Consumers /\ (ppc' = "fork" => i' = i + 1)
    BY <1>1, BroadcastAssumption DEF PFork, Consumers
  <2>2. b[i] < M /\ n < M
    BY <1>1 DEF PFork, Consumers
  <2>3. \A c \in Consumers : c >= i + 1 => c # i /\ c >= i
    BY DEF Consumers
  <2>4. cpc' = [cpc EXCEPT ![i] = "sigaction"]
        /\ ppc' \in {"fork", "lock", "write"} /\ ppc = "fork"
        /\ UNCHANGED <<enhanced, shm, slots, locked, total, n, report, recv_seq,
                       b, split, counted, pending, lost>>
    BY <1>1 DEF PFork
  <2> HIDE DEF Ended
  <2> QED
    BY <2>1, <2>2, <2>3, <2>4
<1>2. CASE PLock \/ PUnlock
  BY <1>2 DEF PLock, PUnlock
<1>3. CASE PWrite \/ PWritten
  <2>1. /\ slots' \in [0 .. B - 1 -> Text]
        /\ \/ ppc = "write" /\ ppc' = "written"
           \/ ppc = "written" /\ ppc' \in {"unlock", "sigqueue"}
        /\ UNCHANGED <<enhanced, shm, locked, total, n, i, report, consumers,
                       pending, lost>>
    <3>1. n \in Text /\ Torn \in Text
      BY <1>3, BroadcastAssumption DEF PWrite, PWritten, Text, Messages
    <3> QED
      BY <1>3, <3>1 DEF PWrite, PWritten
  <2> QED
    BY <2>1
<1>4. CASE PSigqueue
  <2>1. n \in Messages
    BY <1>4, BroadcastAssumption DEF PSigqueue, Messages
  <2>2. pending' \in [Consumers -> Messages \cup {None}] /\ lost' \in BOOLEAN
    BY <1>4, <2>1 DEF PSigqueue
  <2>3. i' \in Consumers
    BY <1>4, BroadcastAssumption DEF PSigqueue, Consumers
  <2> QED
    BY <1>4, <2>2, <2>3 DEF PSigqueue
<1>5. CASE PUsleep
  BY <1>5, BroadcastAssumption DEF PUsleep
<1>6. CASE PWait
  BY <1>6, BroadcastAssumption DEF PWait, Consumers
<1>7. CASE PReport
  BY <1>7 DEF PReport
<1>8. ASSUME NEW c \in Consumers,
             CSigaction(c) \/ CPause(c) \/ CKilled(c) \/ COpen(c) \/ CLock(c)
             \/ CUnlock(c) \/ CTest(c) \/ CUnlink(c)
      PROVE  TypeInv'
  <2>1. /\ cpc' \in [Consumers -> Ended \cup {"unborn", "sigaction", "pause",
              "paused", "open", "lock", "access", "unlock", "compare", "test",
              "unlink"}]
        /\ shm' \in BOOLEAN /\ locked' \in BOOLEAN /\ lost' \in BOOLEAN
        /\ UNCHANGED <<enhanced, slots, total, parent, recv_seq, b, split,
                       counted, pending>>
    BY <1>8 DEF CSigaction, CPause, CKilled, COpen, CLock, CUnlock, CTest,
       CUnlink, Round
  <2>2. \A d \in Consumers : cpc'[d] \in InRound => b[d] < M
    BY <1>8, BroadcastAssumption DEF CSigaction, CPause, CKilled, COpen, CLock,
       CUnlock, CTest, CUnlink, Round
  <2>3. \A d \in Consumers : cpc[d] = "unborn" => cpc'[d] = "unborn"
    BY <1>8 DEF CSigaction, CPause, CKilled, COpen, CLock, CUnlock, CTest, CUnlink
  <2> QED
    BY <2>1, <2>2, <2>3
<1>9. ASSUME NEW c \in Consumers, CSignalled(c) PROVE TypeInv'
  BY <1>9 DEF CSignalled, Handle, Round
<1>10. ASSUME NEW c \in Consumers, CAccess(c) PROVE TypeInv'
  <2>1. split' \in [Consumers -> Text]
    BY <1>10, SlotType DEF CAccess
  <2> QED
    BY <1>10, <2>1 DEF CAccess
<1>11. ASSUME NEW c \in Consumers, CCompare(c) PROVE TypeInv'
  <2>1. counted' \in [Consumers -> SUBSET Messages] /\ total' \in Nat
    <3>1. PICK seq \in seqcmp(split[c]) :
             IF recv_seq[c] = seq
             THEN /\ total' = total + 1
                  /\ counted' = [counted EXCEPT ![c] = @ \cup {seq}]
             ELSE UNCHANGED <<total, counted>>
      BY <1>11 DEF CCompare
    <3>2. seq \in Messages
      BY <3>1, seqcmpType
    <3> QED
      BY <3>1, <3>2
  <2>2. b' \in [Consumers -> 0..M]
        /\ \A d \in Consumers : d # c => b'[d] = b[d]
    BY <1>11, BroadcastAssumption DEF CCompare
  <2> QED
    BY <1>11, <2>1, <2>2 DEF CCompare
<1>12. CASE UNCHANGED vars
  BY <1>12 DEF vars
<1> QED
  BY <1>1, <1>2, <1>3, <1>4, <1>5, <1>6, <1>7, <1>8, <1>9, <1>10, <1>11, <1>12
  DEF Next, ParentStep, ConsumerStep

\* Every variable keeps its type: no slot outside the ring is touched and no
\* consumer makes a round too many.
THEOREM TypeCorrect == Spec => []TypeOK
<1>1. TypeInv => TypeOK
  BY DEF TypeInv
<1> QED
  BY <1>1, TypeInit, TypeStep, PTL DEF Spec

-----------------------------------------------------------------------------
(* The spin lock.                                                          *)

PHolds == ppc \in {"write", "written", "unlock"}
CHolds(c) == cpc[c] \in {"access", "unlock"}

LockInv ==
  enhanced =>
    /\ PHolds => locked /\ \A c \in Consumers : ~CHolds(c)
    /\ \A c \in Consumers : CHolds(c) => locked
    /\ \A c, d \in Consumers : CHolds(c) /\ CHolds(d) => c = d
    /\ \A k \in 0 .. B - 1 : slots[k] = Torn => ppc = "written" /\ k = Slot(n)
    /\ \A c \in Consumers : split[c] # Torn

LEMMA LockInit == Init => LockInv
BY DEF Init, LockInv, PHolds, CHolds, Zero, Torn

LEMMA LockStep ==
  ASSUME TypeInv, LockInv, [Next]_vars
  PROVE  LockInv'
<1> SUFFICES ASSUME enhanced PROVE LockInv'
  BY DEF LockInv, Next, ParentStep, ConsumerStep, PFork, PLock, PWrite, PWritten,
     PUnlock, PSigqueue, PUsleep, PWait, PReport, CSigaction, CPause, CSignalled,
     CKilled, COpen, CLock, CAccess, CUnlock, CCompare, CTest, CUnlink, vars
<1> USE DEF TypeInv, TypeOK, LockInv, PHolds, CHolds, PStep, CStep, parent,
    consumers
<1>1. CASE PFork \/ PSigqueue \/ PUsleep \/ PWait \/ PReport
  BY <1>1 DEF PFork, PSigqueue, PUsleep, PWait, PReport
<1>2. CASE PLock \/ PUnlock
  BY <1>2 DEF PLock, PUnlock
<1>3. CASE PWrite
  BY <1>3 DEF PWrite
<1>4. CASE PWritten
  <2>1. \A k \in 0 .. B - 1 : slots'[k] # Torn
    <3>1. n # Torn /\ Slot(n) \in 0 .. B - 1
      BY SlotType, BroadcastAssumption DEF Torn
    <3>2. slots' = [slots EXCEPT ![Slot(n)] = n]
      BY <1>4 DEF PWritten
    <3> QED
      BY <3>1, <3>2
  <2> QED
    BY <1>4, <2>1 DEF PWritten
<1>5. ASSUME NEW c \in Consumers,
             CSigaction(c) \/ CPause(c) \/ CKilled(c) \/ COpen(c) \/ CTest(c)
             \/ CUnlink(c) \/ CSignalled(c) \/ CCompare(c)
      PROVE  LockInv'
  <2>1. /\ \A d \in Consumers : CHolds(d)' <=> CHolds(d)
        /\ UNCHANGED <<ppc, n, locked, slots, split, enhanced>>
    <3>1. \/ UNCHANGED cpc
          \/ /\ cpc[c] \notin {"access", "unlock"}
             /\ cpc'[c] \notin {"access", "unlock"}
             /\ \A d \in Consumers : d # c => cpc'[d] = cpc[d]
      <4>1. CASE CSigaction(c) \/ CPause(c) \/ CKilled(c)
        BY <4>1 DEF CSigaction, CPause, CKilled, Round
      <4>2. CASE COpen(c) \/ CTest(c) \/ CUnlink(c)
        BY <4>2 DEF COpen, CTest, CUnlink, Round
      <4>3. CASE CSignalled(c)
        BY <4>3 DEF CSignalled, Round
      <4>4. CASE CCompare(c)
        BY <4>4 DEF CCompare, Round
      <4> QED
        BY <1>5, <4>1, <4>2, <4>3, <4>4
    <3>2. UNCHANGED <<ppc, n, locked, slots, split, enhanced>>
      BY <1>5 DEF CSigaction, CPause, CKilled, COpen, CTest, CUnlink, CSignalled,
         CCompare
    <3> QED
      BY <3>1, <3>2
  <2> QED
    BY <2>1 DEF Slot
<1>6. ASSUME NEW c \in Consumers, CLock(c) \/ CUnlock(c) PROVE LockInv'
  BY <1>6 DEF CLock, CUnlock
<1>7. ASSUME NEW c \in Consumers, CAccess(c) PROVE LockInv'
  <2>1. Slot(b[c]) \in 0 .. B - 1 /\ slots[Slot(b[c])] # Torn
    BY <1>7, SlotType, BroadcastAssumption DEF CAccess
  <2> QED
    BY <1>7, <2>1 DEF CAccess
<1>8. CASE UNCHANGED vars
  BY <1>8 DEF vars
<1> QED
  BY <1>1, <1>2, <1>3, <1>4, <1>5, <1>6, <1>7, <1>8
  DEF Next, ParentStep, ConsumerStep
\* With the lock, the writer and every reader of a slot exclude each other.
THEOREM Locking == Spec => []LockExcludes
<1>1. LockInv => LockExcludes
  BY DEF LockInv, LockExcludes, PHolds, CHolds
<1> QED
  BY <1>1, TypeInit, TypeStep, LockInit, LockStep, PTL DEF Spec

-----------------------------------------------------------------------------
(* The report: the parent has waited for the consumers before i.           *)

WaitInv ==
  /\ ppc \in {"lock", "write", "written", "unlock", "usleep"} => i = 1
  /\ ppc = "wait" => \A c \in Consumers : c < i => cpc[c] \in Ended
  /\ ppc \in {"report", "done"} => \A c \in Consumers : cpc[c] \in Ended
  /\ ppc = "done" => report = total

LEMMA WaitInit == Init => WaitInv
BY DEF Init, WaitInv

LEMMA WaitStep ==
  ASSUME TypeInv, WaitInv, [Next]_vars
  PROVE  WaitInv'
<1> USE DEF WaitInv, Ended, PStep, CStep
<1>1. CASE PFork \/ PSigqueue
  BY <1>1 DEF PFork, PSigqueue
<1>2. CASE PLock \/ PUnlock \/ PWrite \/ PWritten
  BY <1>2 DEF PLock, PUnlock, PWrite, PWritten
<1>3. CASE PUsleep
  BY <1>3 DEF PUsleep, Consumers, consumers
<1>4. CASE PWait
  <2>1. \A c \in Consumers : c < i + 1 => c < i \/ c = i
    BY DEF TypeInv, TypeOK, Consumers
  <2>2. \A c \in Consumers : c < N + 1
    BY BroadcastAssumption DEF Consumers
  <2>3. ~(i < N) => N + 1 <= i + 1
    BY BroadcastAssumption DEF TypeInv, TypeOK, Consumers
  <2>4. ~(i < N) => \A c \in Consumers : c < i + 1
    BY <2>2, <2>3, BroadcastAssumption DEF TypeInv, TypeOK, Consumers
  <2> QED
    BY <1>4, <2>1, <2>4 DEF PWait, consumers
<1>5. CASE PReport
  BY <1>5 DEF PReport, consumers
<1>6. ASSUME NEW c \in Consumers, ConsumerStep(c) PROVE WaitInv'
  <2>1. /\ cpc[c] \notin Ended /\ UNCHANGED parent
        /\ \A d \in Consumers : d # c => cpc'[d] = cpc[d]
    BY <1>6 DEF ConsumerStep, CSigaction, CPause, CSignalled, CKilled, COpen,
       CLock, CAccess, CUnlock, CCompare, CTest, CUnlink, TypeInv, TypeOK
  <2> QED
    BY <2>1 DEF parent
<1>7. CASE UNCHANGED vars
  BY <1>7 DEF vars, parent, consumers
<1> QED
  BY <1>1, <1>2, <1>3, <1>4, <1>5, <1>6, <1>7 DEF Next, ParentStep

\* The sum is printed when no consumer can add to it any more.
THEOREM ReportIsFinal == Spec => []ReportFinal
<1>1. WaitInv => ReportFinal
  BY DEF WaitInv, ReportFinal
<1> QED
  BY <1>1, TypeInit, TypeStep, WaitInit, WaitStep, PTL DEF Spec
-----------------------------------------------------------------------------
(* The sum.  A consumer counts a message once, as the numbers it is sent   *)
(* grow: what it has counted lies below what is pending, and below the     *)
(* number it is about to compare.                                          *)

\* In a round: its pause() has ended, and the slot is not compared yet.
Woken(c) == cpc[c] \in {"open", "lock", "access", "unlock", "compare"}

\* Message k has been signalled to c.
Sent(c, k) ==
  \/ k < n
  \/ k = n /\ (ppc = "usleep" \/ (ppc = "sigqueue" /\ c < i))

CountInv ==
  \A c \in Consumers :
    /\ pending[c] # None => Sent(c, pending[c])
    /\ Woken(c) => /\ Sent(c, recv_seq[c])
                   /\ pending[c] # None => recv_seq[c] < pending[c]
    /\ \A k \in counted[c] : /\ Sent(c, k)
                             /\ pending[c] # None => k < pending[c]
                             /\ Woken(c) => k < recv_seq[c]


LEMMA CountInit == Init => CountInv
BY DEF Init, CountInv, Woken

\* A step of the parent that signals nobody leaves what has been sent sent.
LEMMA SentStays ==
  ASSUME TypeInv, PFork \/ PLock \/ PWrite \/ PWritten \/ PUnlock \/ PUsleep
         \/ PWait \/ PReport,
         NEW c \in Consumers, NEW k \in Messages, Sent(c, k)
  PROVE  Sent(c, k)'
BY DEF TypeInv, TypeOK, Messages, Sent, PStep, PFork, PLock, PWrite, PWritten,
   PUnlock, PUsleep, PWait, PReport

LEMMA CountStep ==
  ASSUME TypeInv, CountInv, [Next]_vars
  PROVE  CountInv'
<1> USE DEF PStep, CStep, parent, consumers
<1>1. CASE PFork \/ PLock \/ PWrite \/ PWritten \/ PUnlock \/ PUsleep
           \/ PWait \/ PReport
  <2>1. UNCHANGED <<pending, recv_seq, counted>>
    BY <1>1 DEF PFork, PLock, PWrite, PWritten, PUnlock, PUsleep, PWait, PReport
  <2>2. \A c \in Consumers : Woken(c)' => Woken(c)
    BY <1>1 DEF PFork, PLock, PWrite, PWritten, PUnlock, PUsleep, PWait, PReport,
       Woken, TypeInv, TypeOK
  <2>3. \A c \in Consumers : \A k \in Messages : Sent(c, k) => Sent(c, k)'
    BY <1>1, SentStays
  <2>4. \A c \in Consumers :
          /\ pending[c] # None => pending[c] \in Messages
          /\ recv_seq[c] \in Messages /\ counted[c] \subseteq Messages
    BY DEF TypeInv, TypeOK
  <2> HIDE DEF Woken, Sent
  <2> QED
    BY <2>1, <2>2, <2>3, <2>4 DEF CountInv
<1>2. CASE PSigqueue
  <2>1. /\ UNCHANGED <<recv_seq, counted, cpc, n>> /\ i \in Consumers /\ n \in Nat
        /\ \A c \in Consumers : c # i => pending'[c] = pending[c]
        /\ pending'[i] = pending[i] \/ pending'[i] = n
    BY <1>2 DEF PSigqueue, TypeInv, TypeOK
  <2>2. \A c \in Consumers, k \in Messages : Sent(c, k) => Sent(c, k)'
    BY <1>2, BroadcastAssumption DEF PSigqueue, TypeInv, TypeOK, Sent, Consumers, Messages
  <2>3. ASSUME NEW k \in Messages, Sent(i, k) PROVE k < n
    <3>1. ppc = "sigqueue" /\ i \in Int
      BY <1>2, BroadcastAssumption DEF PSigqueue, TypeInv, TypeOK, Consumers
    <3> QED
      BY <2>3, <3>1 DEF Sent
  <2>4. ASSUME NEW c \in Consumers, c = i PROVE Sent(c, n)'
    <3>1. n' = n /\ c \in Nat
      BY <2>1, BroadcastAssumption DEF Consumers
    <3>2. ppc' = "usleep" \/ (ppc' = "sigqueue" /\ i' = c + 1)
      BY <1>2, <2>4 DEF PSigqueue
    <3> QED
      BY <3>1, <3>2 DEF Sent
  <2>5. \A c \in Consumers :
          /\ pending[c] # None => pending[c] \in Messages
          /\ recv_seq[c] \in Messages /\ counted[c] \subseteq Messages
          /\ Woken(c)' <=> Woken(c)
    BY <2>1 DEF TypeInv, TypeOK, Woken
  <2> HIDE DEF Woken, Sent
  <2> QED
    BY <2>1, <2>2, <2>3, <2>4, <2>5 DEF CountInv
<1>3. ASSUME NEW c \in Consumers, ConsumerStep(c) PROVE CountInv'
  <2>1. \A d \in Consumers : \A k : Sent(d, k)' <=> Sent(d, k)
    BY <1>3 DEF ConsumerStep, CSigaction, CPause, CSignalled, CKilled, COpen,
       CLock, CAccess, CUnlock, CCompare, CTest, CUnlink, Sent
  <2>2. CASE CSigaction(c) \/ CPause(c) \/ CKilled(c) \/ COpen(c) \/ CLock(c)
             \/ CAccess(c) \/ CUnlock(c) \/ CTest(c) \/ CUnlink(c)
    <3>1. UNCHANGED <<pending, recv_seq, counted>>
      BY <2>2 DEF CSigaction, CPause, CKilled, COpen, CLock, CAccess, CUnlock,
         CTest, CUnlink
    <3>2. \A d \in Consumers : Woken(d)' => Woken(d)
      BY <2>2 DEF CSigaction, CPause, CKilled, COpen, CLock, CAccess, CUnlock,
         CTest, CUnlink, Woken, TypeInv, TypeOK
    <3> HIDE DEF Woken, Sent
    <3> QED
      BY <2>1, <3>1, <3>2 DEF CountInv
  <2>3. CASE CSignalled(c)
    <3>1. /\ pending[c] # None /\ UNCHANGED counted
          /\ recv_seq' = [recv_seq EXCEPT ![c] = pending[c]]
          /\ pending' = [pending EXCEPT ![c] = None]
      BY <2>3 DEF CSignalled, Handle
    <3>2. \A d \in Consumers : d # c => (Woken(d)' <=> Woken(d))
      BY <2>3 DEF CSignalled, Woken, TypeInv, TypeOK
    <3>3. recv_seq'[c] = pending[c] /\ pending'[c] = None
      BY <3>1 DEF TypeInv, TypeOK
    <3>4. \A d \in Consumers :
            d # c => recv_seq'[d] = recv_seq[d] /\ pending'[d] = pending[d]
      BY <3>1 DEF TypeInv, TypeOK
    <3> HIDE DEF Woken, Sent
    <3> QED
      BY <2>1, <3>1, <3>2, <3>3, <3>4 DEF CountInv
  <2>4. CASE CCompare(c)
    <3>1. /\ Woken(c) /\ ~Woken(c)' /\ UNCHANGED <<pending, recv_seq>>
          /\ \A d \in Consumers : d # c => (Woken(d)' <=> Woken(d))
      BY <2>4 DEF CCompare, Woken, TypeInv, TypeOK
    <3>2. /\ \A d \in Consumers : d # c => counted'[d] = counted[d]
          /\ counted'[c] \subseteq counted[c] \cup {recv_seq[c]}
      BY <2>4 DEF CCompare, TypeInv, TypeOK
    <3> HIDE DEF Woken, Sent
    <3> QED
      BY <2>1, <3>1, <3>2 DEF CountInv
  <2> QED
    BY <1>3, <2>2, <2>3, <2>4 DEF ConsumerStep
<1>4. CASE UNCHANGED vars
  BY <1>4 DEF vars, CountInv, Woken, Sent
<1> QED
  BY <1>1, <1>2, <1>3, <1>4 DEF Next, ParentStep

Counts == [c \in Consumers |-> Cardinality(counted[c])]
SumInv == total = SumOf(Counts, Consumers)

LEMMA ConsumersFinite == IsFiniteSet(Consumers) /\ Cardinality(Consumers) = N
BY BroadcastAssumption, FS_Interval DEF Consumers

LEMMA CountsType ==
  ASSUME TypeInv
  PROVE  /\ \A c \in Consumers : IsFiniteSet(counted[c])
         /\ Counts \in [Consumers -> Int]
<1>1. IsFiniteSet(Messages)
  BY BroadcastAssumption, FS_Interval DEF Messages
<1>2. \A c \in Consumers : IsFiniteSet(counted[c])
  BY <1>1, FS_Subset DEF TypeInv, TypeOK
<1>3. \A c \in Consumers : Cardinality(counted[c]) \in Int
  BY <1>2, FS_CardinalityType
<1> QED
  BY <1>2, <1>3 DEF Counts

LEMMA SumInit == Init => SumInv
<1> SUFFICES ASSUME Init PROVE SumInv
  OBVIOUS
<1>1. \A c \in Consumers : Counts[c] = 0
  BY FS_EmptySet DEF Counts, Init
<1>2. SumOf(Counts, Consumers) = 0
  BY <1>1, ConsumersFinite, SumZero
<1> QED
  BY <1>2 DEF SumInv, Init

LEMMA SumStepInv ==
  ASSUME TypeInv, CountInv, SumInv, [Next]_vars
  PROVE  SumInv'
<1>1. CASE UNCHANGED <<total, counted>>
  BY <1>1 DEF SumInv, Counts
<1>2. ASSUME NEW c \in Consumers, CCompare(c), ~UNCHANGED <<total, counted>>
      PROVE  SumInv'
  <2>1. /\ total' = total + 1
        /\ counted' = [counted EXCEPT ![c] = @ \cup {recv_seq[c]}]
        /\ Woken(c)
    BY <1>2 DEF CCompare, CStep, Woken
  <2>2. recv_seq[c] \notin counted[c]
    BY <2>1, BroadcastAssumption DEF CountInv, TypeInv, TypeOK, Messages
  <2>3. IsFiniteSet(counted[c])
    BY CountsType
  <2>4. Cardinality(counted[c] \cup {recv_seq[c]}) = Cardinality(counted[c]) + 1
    BY <2>2, <2>3, FS_AddElement
  <2>5. Counts \in [Consumers -> Int]
    BY CountsType
  <2>6. /\ counted'[c] = counted[c] \cup {recv_seq[c]}
        /\ \A d \in Consumers : d # c => counted'[d] = counted[d]
    BY <2>1 DEF TypeInv, TypeOK
  <2>7. ASSUME NEW x \in Consumers
        PROVE  Cardinality(counted'[x])
                 = Cardinality(counted[x]) + (IF x = c THEN 1 ELSE 0)
    <3>1. CASE x = c
      BY <2>4, <2>6, <3>1
    <3>2. CASE x # c
      <4>1. Cardinality(counted[x]) \in Int
        BY CountsType, FS_CardinalityType
      <4> QED
        BY <2>6, <3>2, <4>1
    <3> QED
      BY <3>1, <3>2
  <2>8. Differ(Counts, Counts', Consumers, c, 1)
    <3>1. \A x \in Consumers : Counts[x] = Cardinality(counted[x])
                              /\ Counts'[x] = Cardinality(counted'[x])
      BY DEF Counts
    <3>2. \A x \in Consumers : Counts'[x] = Counts[x] + (IF x = c THEN 1 ELSE 0)
      BY <2>7, <3>1
    <3>3. \A x \in Consumers : Counts'[x] \in Int
      BY <2>5, <3>2
    <3>4. Counts' \in [Consumers -> Int]
      BY <3>3 DEF Counts
    <3> HIDE DEF Counts
    <3> QED
      BY <2>5, <3>2, <3>4 DEF Differ
  <2>9. SumOf(Counts', Consumers) = SumOf(Counts, Consumers) + 1
    BY <2>8, ConsumersFinite, SumStep
  <2> QED
    BY <2>1, <2>9 DEF SumInv
<1>3. Next => UNCHANGED <<total, counted>> \/ \E c \in Consumers : CCompare(c)
  BY DEF Next, ParentStep, ConsumerStep, PFork, PLock, PWrite, PWritten, PUnlock,
     PSigqueue, PUsleep, PWait, PReport, CSigaction, CPause, CSignalled, CKilled,
     COpen, CLock, CAccess, CUnlock, CTest, CUnlink, consumers
<1> QED
  BY <1>1, <1>2, <1>3 DEF vars, consumers

\* The fold over the consumers is the sum.
LEMMA CountedSum ==
  ASSUME TypeInv
  PROVE  MapThenSumSet(LAMBDA c : Cardinality(counted[c]), Consumers)
           = SumOf(Counts, Consumers)
<1> DEFINE P(G) == G = [s \in SUBSET Consumers |->
                          IF s = {} THEN 0
                          ELSE Cardinality(counted[First(s)]) + G[s \ {First(s)}]]
           H == CHOOSE G : P(G)
<1>1. ASSUME NEW G PROVE P(G) <=> AddsUp(G, Counts, SUBSET Consumers)
  <2>1. \A s \in SUBSET Consumers :
          s # {} => Counts[First(s)] = Cardinality(counted[First(s)])
    BY FirstIn DEF Counts
  <2> QED
    BY <2>1 DEF AddsUp
<1>2. P(H)
  <2>1. \E G : P(G)
    BY <1>1, SumExists, ConsumersFinite
  <2> QED
    BY <2>1
<1>3. H[Consumers] = SumOf(Counts, Consumers)
  BY <1>1, <1>2, SumIs, ConsumersFinite, CountsType
<1>4. MapThenSumSet(LAMBDA c : Cardinality(counted[c]), Consumers) = H[Consumers]
  BY DEF MapThenSumSet, MapThenFoldSet, First
<1> QED
  BY <1>3, <1>4

\* For any number of messages, consumers and slots, however many signals are
\* dropped or come at a bad time: what is printed as the sum of received
\* messages counts each message once for each consumer at most.
THEOREM Counting == Spec => []CountedOnce
<1>1. TypeInv /\ SumInv => CountedOnce
  BY CountedSum DEF CountedOnce, SumInv
<1>2. Init => TypeInv /\ CountInv /\ SumInv
  BY TypeInit, CountInit, SumInit
<1>3. TypeInv /\ CountInv /\ SumInv /\ [Next]_vars
      => (TypeInv /\ CountInv /\ SumInv)'
  BY TypeStep, CountStep, SumStepInv
<1> QED
  BY <1>1, <1>2, <1>3, PTL DEF Spec

-----------------------------------------------------------------------------
(* In step.  While no signal is lost, a consumer is sent the messages one  *)
(* by one and handles each before it is sent the one after the next, so    *)
(* that the slot it reads has not been used again.                         *)

\* The message whose signal c is to handle next, and how many it was sent.
Awaited(c) == IF Woken(c) THEN b[c] + 1 ELSE b[c]
SentTo(c)  == IF Sent(c, n) THEN n + 1 ELSE n

\* Message k is in its slot.
Written(k) ==
  \/ n - B < k /\ k < n
  \/ k = n /\ ppc \in {"unlock", "sigqueue", "usleep"}
SlotInv == \A k \in Messages : Written(k) => slots[Slot(k)] = k

InStep(c) ==
  /\ cpc[c] \notin {"failed", "killed"}
  /\ counted[c] = 0 .. b[c] - 1
  /\ IF pending[c] = None THEN SentTo(c) = Awaited(c)
     ELSE pending[c] = Awaited(c) /\ SentTo(c) = Awaited(c) + 1
  /\ Woken(c) => recv_seq[c] = b[c]
  /\ cpc[c] \in {"unlock", "compare"} => split[c] = b[c]
  /\ cpc[c] \in {"unlink", "done"} => b[c] = M
StepInv == B > 2 /\ ~lost => \A c \in Consumers : InStep(c)

LEMMA StepStart == Init => SlotInv /\ StepInv
<1> SUFFICES ASSUME Init PROVE SlotInv /\ StepInv
  OBVIOUS
<1>1. SlotInv
  BY DEF Init, SlotInv, Written, Messages
<1>2. \A c \in Consumers : InStep(c)
  BY DEF Init, InStep, SentTo, Sent, Awaited, Woken
<1> QED
  BY <1>1, <1>2 DEF StepInv

\* Two numbers that are less than B apart have different slots.
LEMMA SlotsApart ==
  ASSUME NEW k \in Nat, NEW m \in Nat, k < m, m - B < k
  PROVE  Slot(k) # Slot(m)
<1> SUFFICES ASSUME k % B = m % B PROVE FALSE
  BY DEF Slot
<1> DEFINE q == (m \div B) - (k \div B)
<1>0. B \in Int /\ B > 0 /\ k \in Int /\ m \in Int
  BY BroadcastAssumption
<1>1. /\ k = B * (k \div B) + (k % B) /\ m = B * (m \div B) + (m % B)
      /\ k \div B \in Int /\ m \div B \in Int /\ k % B \in Int
  <2>1. k = B * (k \div B) + (k % B)
    BY <1>0, SMTT(20)
  <2>2. m = B * (m \div B) + (m % B)
    BY <1>0, SMTT(20)
  <2> QED
    BY <1>0, <2>1, <2>2
<1>2. m - k = B * q /\ q \in Int
  BY <1>1, BroadcastAssumption
<1>3. q >= 1 => B * q >= B
  BY <1>2, BroadcastAssumption
<1>4. q <= 0 => B * q <= 0
  BY <1>2, BroadcastAssumption
<1> QED
  BY <1>2, <1>3, <1>4, BroadcastAssumption

LEMMA SlotStep ==
  ASSUME TypeInv, SlotInv, [Next]_vars
  PROVE  SlotInv'
<1> USE DEF PStep, parent
<1>0. /\ n \in Nat /\ B \in Nat \ {0} /\ Messages \subseteq Nat
      /\ slots \in [0 .. B - 1 -> Text]
      /\ ppc \notin {"wait", "report", "done"} => n \in Messages
  BY BroadcastAssumption DEF TypeInv, TypeOK, Messages
<1>1. CASE PWrite \/ PWritten
  <2>1. /\ UNCHANGED n /\ n \in Messages
        /\ \/ ppc' = "written"
           \/ ppc' \in {"unlock", "sigqueue"} /\ slots'[Slot(n)] = n
        /\ \A k \in 0 .. B - 1 : k # Slot(n) => slots'[k] = slots[k]
    BY <1>0, <1>1, SlotType DEF PWrite, PWritten
  <2>2. \A k \in Messages :
          n - B < k /\ k < n => Slot(k) # Slot(n) /\ Slot(k) \in 0 .. B - 1
    BY <1>0, SlotsApart, SlotType
  <2>3. UNCHANGED Messages /\ \A k : Slot(k)' = Slot(k)
    BY DEF Messages, Slot
  <2> HIDE DEF Slot
  <2> QED
    BY <1>0, <2>1, <2>2, <2>3 DEF SlotInv, Written
<1>2. CASE PUsleep
  <2>1. /\ UNCHANGED slots /\ n' = n + 1 /\ ppc = "usleep"
        /\ ppc' \in {"wait", "lock", "write"}
    BY <1>2 DEF PUsleep
  <2>2. \A k \in Messages : Written(k)' => Written(k)
    BY <1>0, <2>1 DEF Written
  <2> QED
    BY <2>1, <2>2 DEF SlotInv, Slot, Messages
<1>3. CASE PFork \/ PLock \/ PUnlock \/ PSigqueue \/ PWait \/ PReport
  <2>1. /\ UNCHANGED <<slots, n>>
        /\ ppc' \in {"unlock", "sigqueue", "usleep"} =>
             ppc \in {"unlock", "sigqueue", "usleep"}
    BY <1>3 DEF PFork, PLock, PUnlock, PSigqueue, PWait, PReport
  <2> QED
    BY <2>1 DEF SlotInv, Slot, Messages, Written
<1>4. CASE UNCHANGED <<slots, ppc, n>>
  BY <1>4 DEF SlotInv, Slot, Messages, Written
<1>5. ASSUME NEW c \in Consumers, ConsumerStep(c)
      PROVE  UNCHANGED <<slots, ppc, n>>
  BY <1>5 DEF ConsumerStep, CSigaction, CPause, CSignalled, CKilled, COpen,
     CLock, CAccess, CUnlock, CCompare, CTest, CUnlink
<1> QED
  BY <1>1, <1>2, <1>3, <1>4, <1>5 DEF Next, ParentStep, vars

\* A consumer that nothing happens to stays in step.
LEMMA InStepStays ==
  ASSUME NEW c \in Consumers, InStep(c), SentTo(c)' = SentTo(c),
         cpc'[c] = cpc[c], counted'[c] = counted[c], b'[c] = b[c],
         pending'[c] = pending[c], recv_seq'[c] = recv_seq[c],
         split'[c] = split[c]
  PROVE  InStep(c)'
BY DEF InStep, Awaited, Woken

LEMMA LostStays == ASSUME [Next]_vars, lost PROVE lost'
BY DEF Next, ParentStep, ConsumerStep, PFork, PLock, PWrite, PWritten, PUnlock,
   PSigqueue, PUsleep, PWait, PReport, CSigaction, CPause, CSignalled, CKilled,
   COpen, CLock, CAccess, CUnlock, CCompare, CTest, CUnlink, vars

\* The parent leaves the consumers in step: it signals one that waits for the
\* signal, or none.
LEMMA ParentInStep ==
  ASSUME TypeInv, WaitInv, ~lost', ParentStep, NEW c \in Consumers, InStep(c)
  PROVE  InStep(c)'
<1> USE DEF PStep, consumers
<1>0. /\ n \in Nat /\ N \in Nat /\ c \in Int /\ i \in Int /\ 1 <= c /\ c <= N
      /\ 1 <= i /\ i <= N
  BY BroadcastAssumption DEF TypeInv, TypeOK, Consumers
<1>1. CASE PFork
  <2>1. /\ cpc'[c] = cpc[c] \/ (cpc[c] = "unborn" /\ cpc'[c] = "sigaction")
        /\ ppc = "fork" /\ ppc' \in {"fork", "lock", "write"}
        /\ UNCHANGED <<n, recv_seq, b, split, counted, pending>>
    BY <1>0, <1>1 DEF PFork, TypeInv, TypeOK
  <2>2. SentTo(c)' = SentTo(c)
    BY <1>0, <2>1 DEF SentTo, Sent
  <2> QED
    BY <2>1, <2>2 DEF InStep, Awaited, Woken
<1>2. CASE PLock \/ PWrite \/ PWritten \/ PUnlock
  <2>1. /\ ppc \notin {"sigqueue", "usleep"} /\ ppc' # "usleep" /\ i' = 1
        /\ UNCHANGED <<n, cpc, recv_seq, b, split, counted, pending>>
    BY <1>2 DEF WaitInv, PLock, PWrite, PWritten, PUnlock
  <2>2. SentTo(c)' = SentTo(c)
    BY <1>0, <2>1 DEF SentTo, Sent
  <2> QED
    BY <2>1, <2>2, InStepStays
<1>3. CASE PSigqueue
  <2>1. /\ UNCHANGED <<n, cpc, recv_seq, b, split, counted>> /\ ppc = "sigqueue"
        /\ i < N => ppc' = "sigqueue" /\ i' = i + 1
        /\ ~(i < N) => ppc' = "usleep"
        /\ c # i => pending'[c] = pending[c]
        /\ c = i => pending[c] = None /\ pending'[c] = n
    BY <1>3 DEF PSigqueue, TypeInv, TypeOK
  <2>2. CASE c # i
    <3>1. SentTo(c)' = SentTo(c)
      BY <1>0, <2>1, <2>2 DEF SentTo, Sent
    <3> QED
      BY <2>1, <2>2, <3>1, InStepStays
  <2>3. CASE c = i
    <3>1. SentTo(c) = n /\ SentTo(c)' = n + 1
      BY <1>0, <2>1, <2>3 DEF SentTo, Sent
    <3>2. n # None
      BY <1>0, BroadcastAssumption
    <3> QED
      BY <2>1, <2>3, <3>1, <3>2 DEF InStep, Awaited, Woken
  <2> QED
    BY <2>2, <2>3
<1>4. CASE PUsleep
  <2>1. /\ n' = n + 1 /\ ppc = "usleep" /\ ppc' \in {"wait", "lock", "write"}
        /\ UNCHANGED <<cpc, recv_seq, b, split, counted, pending>>
    BY <1>4 DEF PUsleep
  <2>2. SentTo(c)' = SentTo(c)
    BY <1>0, <2>1 DEF SentTo, Sent
  <2> QED
    BY <2>1, <2>2, InStepStays
<1>5. CASE PWait \/ PReport
  <2>1. /\ ppc \notin {"sigqueue", "usleep"} /\ ppc' \notin {"sigqueue", "usleep"}
        /\ UNCHANGED <<n, cpc, recv_seq, b, split, counted, pending>>
    BY <1>5 DEF PWait, PReport
  <2>2. SentTo(c)' = SentTo(c)
    BY <1>0, <2>1 DEF SentTo, Sent
  <2> QED
    BY <2>1, <2>2, InStepStays
<1> QED
  BY <1>1, <1>2, <1>3, <1>4, <1>5 DEF ParentStep

\* While the consumer is in a round, the slot it is at holds its message.
LEMMA SlotAwaited ==
  ASSUME TypeInv, SlotInv, B > 2, NEW c \in Consumers, InStep(c), Woken(c)
  PROVE  b[c] \in Messages /\ slots[Slot(b[c])] = b[c]
<1>1. /\ n \in Nat /\ B \in Nat /\ b[c] \in Messages /\ b[c] \in Nat
  BY BroadcastAssumption DEF TypeInv, TypeOK, Woken, InRound, Messages
<1>2. SentTo(c) = b[c] + 1 \/ SentTo(c) = b[c] + 2
  BY <1>1 DEF InStep, Awaited
<1>3. SentTo(c) = n \/ (SentTo(c) = n + 1 /\ Sent(c, n))
  BY DEF SentTo
<1>4. Sent(c, n) => ppc \in {"sigqueue", "usleep"}
  BY <1>1 DEF Sent
<1>5. Written(b[c])
  BY <1>1, <1>2, <1>3, <1>4 DEF Written
<1> QED
  BY <1>1, <1>5 DEF SlotInv

LEMMA ConsumerInStep ==
  ASSUME TypeInv, SlotInv, B > 2, ~lost', NEW c \in Consumers, InStep(c),
         ConsumerStep(c)
  PROVE  InStep(c)'
<1> USE DEF CStep, Round, parent
<1>0. /\ b[c] \in 0..M /\ M \in Nat /\ DOMAIN cpc = Consumers
      /\ pending \in [Consumers -> Messages \cup {None}]
      /\ recv_seq \in [Consumers -> Messages] /\ b \in [Consumers -> 0..M]
      /\ split \in [Consumers -> Text]
      /\ counted \in [Consumers -> SUBSET Messages]
      /\ cpc = [d \in Consumers |-> cpc[d]]
  BY BroadcastAssumption DEF TypeInv, TypeOK
<1>1. CASE CSigaction(c) \/ CPause(c) \/ COpen(c) \/ CLock(c) \/ CUnlock(c)
           \/ CTest(c) \/ CUnlink(c)
  <2>1. UNCHANGED <<ppc, n, i, pending, recv_seq, b, split, counted>>
    BY <1>1 DEF CSigaction, CPause, COpen, CLock, CUnlock, CTest, CUnlink
  <2>2. /\ cpc'[c] \notin {"failed", "killed"}
        /\ Woken(c)' <=> Woken(c)
        /\ cpc'[c] \in {"unlock", "compare"} => cpc[c] \in {"unlock", "compare"}
        /\ cpc'[c] \in {"unlink", "done"} =>
             b[c] = M \/ cpc[c] \in {"unlink", "done"}
    <3>1. CASE CTest(c)
      BY <1>0, <3>1 DEF CTest, Woken
    <3>2. CASE ~CTest(c)
      BY <1>0, <1>1, <3>2
         DEF CSigaction, CPause, COpen, CLock, CUnlock, CUnlink, Woken
    <3> QED
      BY <3>1, <3>2
  <2>3. SentTo(c)' = SentTo(c) /\ Awaited(c)' = Awaited(c)
    BY <2>1, <2>2 DEF SentTo, Sent, Awaited
  <2> QED
    BY <2>1, <2>2, <2>3 DEF InStep
<1>2. CASE CSignalled(c)
  <2>1. /\ UNCHANGED <<ppc, n, i, b, split, counted>> /\ pending[c] # None
        /\ cpc[c] = "paused" /\ cpc'[c] \in {"open", "lock", "access"}
        /\ recv_seq'[c] = pending[c] /\ pending'[c] = None
    BY <1>0, <1>2 DEF CSignalled, Handle
  <2>2. SentTo(c)' = SentTo(c) /\ Awaited(c) = b[c] /\ Awaited(c)' = b[c] + 1
    BY <2>1 DEF SentTo, Sent, Awaited, Woken
  <2> QED
    BY <2>1, <2>2 DEF InStep
<1>3. CASE CKilled(c)
  BY <1>3 DEF CKilled
<1>4. CASE CAccess(c)
  <2>1. /\ UNCHANGED <<ppc, n, i, pending, recv_seq, b, counted>>
        /\ cpc[c] = "access" /\ cpc'[c] \in {"unlock", "compare"}
        /\ split'[c] = slots[Slot(b[c])]
    BY <1>0, <1>4 DEF CAccess
  <2>2. split'[c] = b[c]
    BY <2>1, SlotAwaited DEF Woken
  <2>3. SentTo(c)' = SentTo(c) /\ Awaited(c)' = Awaited(c) /\ Woken(c)
    BY <2>1 DEF SentTo, Sent, Awaited, Woken
  <2> QED
    BY <2>1, <2>2, <2>3 DEF InStep
<1>5. CASE CCompare(c)
  <2>1. /\ UNCHANGED <<ppc, n, i, pending, recv_seq, split>>
        /\ cpc[c] = "compare" /\ cpc'[c] = "test" /\ b'[c] = b[c] + 1
        /\ Woken(c)
    BY <1>0, <1>5 DEF CCompare, Woken
  <2>2. split[c] = b[c] /\ recv_seq[c] = b[c] /\ b[c] \in Messages
    BY <2>1, SlotAwaited DEF InStep
  <2>3. counted'[c] = counted[c] \cup {b[c]}
    BY <1>0, <1>5, <2>2 DEF CCompare, seqcmp
  <2>4. counted'[c] = 0 .. b'[c] - 1
    BY <1>0, <2>1, <2>3 DEF InStep
  <2>5. SentTo(c)' = SentTo(c) /\ Awaited(c)' = Awaited(c)
    BY <2>1 DEF SentTo, Sent, Awaited, Woken
  <2> QED
    BY <2>1, <2>4, <2>5 DEF InStep, Woken
<1> QED
  BY <1>1, <1>2, <1>3, <1>4, <1>5 DEF ConsumerStep

LEMMA StepStep ==
  ASSUME TypeInv, WaitInv, SlotInv, StepInv, [Next]_vars
  PROVE  StepInv'
<1> SUFFICES ASSUME B > 2, ~lost', NEW c \in Consumers PROVE InStep(c)'
  BY DEF StepInv, Consumers
<1>1. InStep(c)
  BY LostStays DEF StepInv
<1>2. CASE ParentStep
  BY <1>1, <1>2, ParentInStep
<1>3. ASSUME NEW d \in Consumers, ConsumerStep(d) PROVE InStep(c)'
  <2>1. CASE d = c
    BY <1>1, <1>3, <2>1, ConsumerInStep
  <2>2. CASE d # c
    <3>1. /\ UNCHANGED <<ppc, n, i>>
          /\ cpc'[c] = cpc[c] /\ counted'[c] = counted[c] /\ b'[c] = b[c]
          /\ pending'[c] = pending[c] /\ recv_seq'[c] = recv_seq[c]
          /\ split'[c] = split[c]
      BY <1>3, <2>2 DEF ConsumerStep, CSigaction, CPause, CSignalled, CKilled,
         COpen, CLock, CAccess, CUnlock, CCompare, CTest, CUnlink, CStep,
         Handle, parent, TypeInv, TypeOK
    <3>2. SentTo(c)' = SentTo(c)
      BY <3>1 DEF SentTo, Sent
    <3> QED
      BY <1>1, <3>1, <3>2, InStepStays
  <2> QED
    BY <2>1, <2>2
<1>4. CASE UNCHANGED vars
  <2>1. UNCHANGED <<ppc, n, i, cpc, counted, b, pending, recv_seq, split>>
    BY <1>4 DEF vars, parent, consumers
  <2>2. SentTo(c)' = SentTo(c)
    BY <2>1 DEF SentTo, Sent
  <2> QED
    BY <1>1, <2>1, <2>2, InStepStays
<1> QED
  BY <1>2, <1>3, <1>4 DEF Next

\* At the end every consumer has counted every message.
LEMMA AllCounted ==
  ASSUME TypeInv, WaitInv, SumInv, StepInv
  PROVE  InStepLosesNothing
<1> SUFFICES ASSUME B > 2, ~lost, ppc = "done" PROVE report = M * N
  BY DEF InStepLosesNothing
<1>1. ASSUME NEW c \in Consumers PROVE Counts[c] = M
  <2>1. InStep(c) /\ cpc[c] \in Ended
    BY <1>1 DEF StepInv, WaitInv
  <2>2. counted[c] = 0 .. M - 1
    BY <2>1 DEF InStep, Ended
  <2>3. Cardinality(0 .. M - 1) = M
    BY BroadcastAssumption, FS_Interval
  <2> QED
    BY <2>2, <2>3 DEF Counts
<1>2. SumOf(Counts, Consumers) = M * N
  BY <1>1, BroadcastAssumption, ConsumersFinite, SumEqual
<1> QED
  BY <1>2 DEF SumInv, WaitInv

\* For any number of messages and consumers and any ring of three slots or
\* more: as long as no signal is dropped or misses its pause(), the sum the
\* parent prints is every message for every consumer.
THEOREM NothingLost == Spec => []InStepLosesNothing
<1> DEFINE Inv == TypeInv /\ WaitInv /\ CountInv /\ SumInv /\ SlotInv /\ StepInv
<1>1. Init => Inv
  BY TypeInit, WaitInit, CountInit, SumInit, StepStart
<1>2. Inv /\ [Next]_vars => Inv'
  BY TypeStep, WaitStep, CountStep, SumStepInv, SlotStep, StepStep
<1>3. Inv => InStepLosesNothing
  BY AllCounted
<1> QED
  BY <1>1, <1>2, <1>3, PTL DEF Spec
=============================================================================
