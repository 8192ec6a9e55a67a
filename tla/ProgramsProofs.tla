--------------------------- MODULE ProgramsProofs ---------------------------
(***************************************************************************)
(* Proofs about ShellPipeline and the programs of SmallPrograms, for any   *)
(* files, processes, signals, clients and bounds.  Each is a theorem about *)
(* the program's own specification, with an inductive invariant that says  *)
(* where what is not yet watched, answered or handled is to be found.      *)
(***************************************************************************)
EXTENDS ShellPipeline, SmallPrograms, FiniteSetTheorems, WellFoundedInduction,
        TLAPS

-----------------------------------------------------------------------------
(* FileNotify.  QuietMeansWatched is about the moment when nothing is left *)
(* to read; what is inductive is about every moment: a file that is not    *)
(* watched is still to be visited, or its event is in the queue, or it has *)
(* been passed over.                                                       *)

Kinds == {"CREATE", "MOVED_TO", "DELETE", "MOVED_FROM", "other"}
HasNews == \E i \in 1..Len(queue) : queue[i] \in Notify!News

NotifyInv ==
  /\ queue \in Seq(Kinds)
  /\ step \in {"list", "watch", "read"} => dir
  /\ step = "watch" => exist \subseteq watched \cup toWatch \/ HasNews
  /\ step = "read" => exist \subseteq watched \/ passed \/ HasNews

LEMMA NotifyStart == Notify!Init => NotifyInv
BY DEF Notify!Init, NotifyInv, Kinds

\* What is queued of a change.
LEMMA QueuedType ==
  ASSUME NotifyInv, NEW events \in Seq(Kinds)
  PROVE  /\ Notify!Queued(events) \in Seq(Kinds)
         /\ dir => Notify!Queued(events) = queue \o events
BY DEF NotifyInv, Notify!Queued

\* News stay in the queue when more is queued, and come with a change that
\* brings a file.
LEMMA NewsStay ==
  ASSUME NotifyInv, NEW events \in Seq(Kinds),
         queue' = Notify!Queued(events), dir' = dir, step' = step,
         step \in {"watch", "read"},
         HasNews \/ \E i \in 1..Len(events) : events[i] \in Notify!News
  PROVE  HasNews'
<1>1. queue \in Seq(Kinds) /\ queue' = queue \o events
  BY QueuedType DEF NotifyInv
<1>2. CASE HasNews
  <2>1. PICK i \in 1..Len(queue) : queue[i] \in Notify!News
    BY <1>2 DEF HasNews
  <2>2. i \in 1..Len(queue') /\ queue'[i] = queue[i]
    BY <1>1, <2>1
  <2> QED
    BY <2>1, <2>2 DEF HasNews, Notify!News
<1>3. CASE \E i \in 1..Len(events) : events[i] \in Notify!News
  <2>1. PICK i \in 1..Len(events) : events[i] \in Notify!News
    BY <1>3
  <2>2. Len(queue) + i \in 1..Len(queue') /\ queue'[Len(queue) + i] = events[i]
    BY <1>1, <2>1
  <2> QED
    BY <2>1, <2>2 DEF HasNews, Notify!News
<1> QED
  BY <1>2, <1>3

\* A change after which every file there is was there, and watched if it
\* was before, or else there is news in the queue.
LEMMA ChangeKeeps ==
  ASSUME NotifyInv, NEW files, NEW events \in Seq(Kinds),
         Notify!Change(files, events),
         \/ files \cap watched \subseteq watched' /\ files \subseteq exist
         \/ \E i \in 1..Len(events) : events[i] \in Notify!News
  PROVE  NotifyInv'
<1> USE DEF Notify!Change
<1>1. queue' \in Seq(Kinds) /\ dir' = dir /\ step' = step /\ passed' = passed
      /\ toWatch' = toWatch /\ exist' = files
  BY QueuedType
<1>2. step \in {"watch", "read"} /\ HasNews => HasNews'
  BY <1>1, NewsStay
<1>3. CASE \E i \in 1..Len(events) : events[i] \in Notify!News
  <2>1. step \in {"watch", "read"} => HasNews'
    BY <1>1, <1>3, NewsStay
  <2> QED
    BY <1>1, <2>1 DEF NotifyInv
<1>4. CASE files \cap watched \subseteq watched' /\ files \subseteq exist
  BY <1>1, <1>2, <1>4 DEF NotifyInv
<1> QED
  BY <1>3, <1>4

LEMMA NotifyStep ==
  ASSUME NotifyInv, [Notify!Next]_(Notify!vars)
  PROVE  NotifyInv'
<1>1. CASE Notify!Start \/ Notify!Walk
  BY <1>1 DEF NotifyInv, Notify!Start, Notify!Walk
<1>2. CASE Notify!List
  <2>1. <<"other">> \in Seq(Kinds)
    BY DEF Kinds
  <2>2. queue' \in Seq(Kinds)
    BY <1>2, <2>1, QueuedType DEF Notify!List
  <2> QED
    BY <1>2, <2>2 DEF NotifyInv, Notify!List
<1>3. ASSUME NEW f \in Files, Notify!Watch(f) PROVE NotifyInv'
  <2>1. HasNews' <=> HasNews
    BY <1>3 DEF Notify!Watch, HasNews, Notify!News
  <2> QED
    BY <1>3, <2>1 DEF NotifyInv, Notify!Watch
<1>4. CASE Notify!WalkEnds
  <2>1. HasNews' <=> HasNews
    BY <1>4 DEF Notify!WalkEnds, HasNews, Notify!News
  <2> QED
    BY <1>4, <2>1 DEF NotifyInv, Notify!WalkEnds
<1>5. CASE Notify!Read
  <2>1. queue' = <<>> /\ queue' \in Seq(Kinds) /\ dir' = dir
        /\ exist' = exist /\ watched' = watched
    BY <1>5 DEF Notify!Read
  <2>2. CASE Notify!Walks(Head(queue))
    BY <1>5, <2>1, <2>2 DEF NotifyInv, Notify!Read
  <2>3. CASE ~Notify!Walks(Head(queue))
    <3>1. Head(queue) = queue[1] /\ queue[1] \notin Notify!News
      BY <1>5, <2>3
      DEF Notify!Read, Notify!Walks, Notify!Walked, Notify!News, NotifyInv
    <3>2. HasNews => \E i \in 2..Len(queue) : queue[i] \in Notify!News
      BY <3>1 DEF HasNews
    <3>3. exist \subseteq watched \/ passed \/ HasNews
      BY <1>5 DEF NotifyInv, Notify!Read
    <3>4. exist \subseteq watched \/ passed'
      BY <1>5, <2>3, <3>2, <3>3 DEF Notify!Read
    <3> QED
      BY <1>5, <2>1, <2>3, <3>4 DEF NotifyInv, Notify!Read
  <2> QED
    BY <2>2, <2>3
<1>6. CASE Notify!Touch
  <2>1. <<"other">> \in Seq(Kinds)
    BY DEF Kinds
  <2> QED
    BY <1>6, <2>1, ChangeKeeps DEF Notify!Touch
<1>7. ASSUME NEW f \in Files, Notify!Create(f) PROVE NotifyInv'
  <2>1. <<"CREATE">> \in Seq(Kinds) /\ 1 \in 1..Len(<<"CREATE">>)
        /\ <<"CREATE">>[1] \in Notify!News
    BY DEF Kinds, Notify!News
  <2> QED
    BY <1>7, <2>1, ChangeKeeps DEF Notify!Create
<1>8. ASSUME NEW f \in Files, Notify!MoveIn(f) PROVE NotifyInv'
  <2>1. <<"MOVED_TO">> \in Seq(Kinds) /\ 1 \in 1..Len(<<"MOVED_TO">>)
        /\ <<"MOVED_TO">>[1] \in Notify!News
    BY DEF Kinds, Notify!News
  <2> QED
    BY <1>8, <2>1, ChangeKeeps DEF Notify!MoveIn
<1>9. ASSUME NEW f \in Files, NEW g \in Files, Notify!Rename(f, g)
      PROVE  NotifyInv'
  <2> DEFINE events == <<"MOVED_FROM", "MOVED_TO">>
  <2>1. events \in Seq(Kinds)
    BY DEF Kinds
  <2>2. \E i \in 1..Len(events) : events[i] \in Notify!News
    <3>1. 2 \in 1..Len(events) /\ events[2] \in Notify!News
      BY DEF Notify!News
    <3> QED
      BY <3>1
  <2>3. Notify!Change((exist \ {f}) \cup {g}, events)
    BY <1>9 DEF Notify!Rename
  <2> HIDE DEF events
  <2> QED
    BY <2>1, <2>2, <2>3, ChangeKeeps
<1>10. ASSUME NEW f \in Files, Notify!Delete(f) PROVE NotifyInv'
  <2> DEFINE events == IF f \in watched THEN <<"other", "DELETE">> ELSE <<"DELETE">>
  <2>1. events \in Seq(Kinds)
    <3>1. <<"DELETE">> \in Seq(Kinds) /\ <<"other", "DELETE">> \in Seq(Kinds)
      BY DEF Kinds
    <3> QED
      BY <3>1
  <2>2. (exist \ {f}) \cap watched \subseteq watched'
    BY <1>10 DEF Notify!Delete
  <2>3. Notify!Change(exist \ {f}, events)
    BY <1>10 DEF Notify!Delete
  <2> HIDE DEF events
  <2> QED
    BY <2>1, <2>2, <2>3, ChangeKeeps
<1>11. ASSUME NEW f \in Files, Notify!MoveOut(f) PROVE NotifyInv'
  <2>1. <<"MOVED_FROM">> \in Seq(Kinds)
    BY DEF Kinds
  <2>2. (exist \ {f}) \cap watched \subseteq watched'
    BY <1>11 DEF Notify!MoveOut
  <2> QED
    BY <1>11, <2>1, <2>2, ChangeKeeps DEF Notify!MoveOut
<1>12. CASE UNCHANGED Notify!vars
  BY <1>12 DEF Notify!vars, NotifyInv, HasNews, Notify!News
<1> QED
  BY <1>1, <1>2, <1>3, <1>4, <1>5, <1>6, <1>7, <1>8, <1>9, <1>10, <1>11, <1>12
  DEF Notify!Next

\* However many files come and go, and whenever they do: when the program
\* waits with nothing to read and no news was passed over, every file that is
\* there is watched.
THEOREM Watching == Notify!Spec => []QuietMeansWatched
<1>1. NotifyInv => QuietMeansWatched
  BY DEF NotifyInv, HasNews, QuietMeansWatched, Notify!QuietMeansWatched
<1> QED
  BY <1>1, NotifyStart, NotifyStep, PTL DEF Notify!Spec

-----------------------------------------------------------------------------
(* SysVSignals.  The signal that is paused for stays blocked until the     *)
(* call of sigsuspend(), if it was blocked before.                         *)

PauseInv ==
  held => /\ step = "pause" => paused \subseteq sysvBlocked /\ ~missed
          /\ step = "suspended" => ~missed

LEMMA PauseStep ==
  ASSUME PauseInv, [SysV!Next]_(SysV!vars)
  PROVE  PauseInv'
<1> USE DEF PauseInv
<1>1. CASE SysV!Start
  BY <1>1 DEF SysV!Start
<1>2. CASE SysV!Suspend
  BY <1>2 DEF SysV!Suspend
<1>3. ASSUME NEW s \in Signals,
             SysV!my_sigset(s) \/ SysV!my_sighold(s) \/ SysV!my_sigrelse(s)
               \/ SysV!my_sigignore(s)
      PROVE  PauseInv'
  BY <1>3 DEF SysV!my_sigset, SysV!my_sighold, SysV!my_sigrelse,
     SysV!my_sigignore, SysV!Calls
<1>4. ASSUME NEW s \in Signals, SysV!my_sigpause(s) PROVE PauseInv'
  BY <1>4 DEF SysV!my_sigpause, SysV!Unblock
<1>5. ASSUME NEW s \in Signals, SysV!Send(s) PROVE PauseInv'
  BY <1>5 DEF SysV!Send
<1>6. ASSUME NEW s \in Signals, SysV!Deliver(s) PROVE PauseInv'
  <2>1. CASE step = "pause"
    <3>1. s \notin sysvBlocked
      BY <1>6, <2>1 DEF SysV!Deliver, SysV!Deliverable, SysV!Masked
    <3> QED
      BY <1>6, <2>1, <3>1 DEF SysV!Deliver
  <2>2. CASE step # "pause"
    BY <1>6, <2>2 DEF SysV!Deliver
  <2> QED
    BY <2>1, <2>2
<1>7. CASE UNCHANGED SysV!vars
  BY <1>7 DEF SysV!vars
<1> QED
  BY <1>1, <1>2, <1>3, <1>4, <1>5, <1>6, <1>7 DEF SysV!Next, SysV!ProgramStep

\* For any signals, however many are sent and whatever the program calls: it
\* is not suspended in my_sigpause() for a held signal that has come already.
THEOREM Pausing == SysV!Spec => []NoLostWakeup
<1>1. SysV!Init => PauseInv
  BY DEF SysV!Init, PauseInv
<1>2. PauseInv => NoLostWakeup
  BY DEF PauseInv, NoLostWakeup, SysV!NoLostWakeup
<1> QED
  BY <1>1, <1>2, PauseStep, PTL DEF SysV!Spec

-----------------------------------------------------------------------------
(* PipeFilter.  The processes form a chain: each but the last has forked   *)
(* the next and is busy with it, and only the last may be at the input.    *)
(* The lines that have not come out are held by different processes.       *)

Busy == {"send", "reply", "print", "wait"}
Last == {"read", "fork", "recv", "answer", "ended"}

Chain(k) ==
  /\ at[k] \in Last
  /\ \A p \in Procs : p < k => at[p] \in Busy /\ child[p] = p + 1
  /\ \A p \in Procs : p > k => at[p] = "free"

ChainInv ==
  /\ at \in [Procs -> Busy \cup Last \cup {"free"}]
  /\ child \in [Procs -> Nat]
  /\ \E k \in Procs : Chain(k)

\* The processes whose line has still to come out.
Holds(p) == at[p] \in {"fork", "send", "reply", "print"} /\ line[p] # 0

LinesInv ==
  /\ read \in Nat /\ shown \in Seq(Nat)
  /\ line \in [Procs -> Nat] /\ up \in [Procs -> Nat \cup {-1}]
  /\ \A i \in 1..Len(shown) : shown[i] <= read
  /\ \A i, j \in 1..Len(shown) : i # j => shown[i] # shown[j]
  /\ \A p \in Procs : Holds(p) =>
       line[p] <= read /\ \A i \in 1..Len(shown) : shown[i] # line[p]
  /\ \A p, q \in Procs : Holds(p) /\ Holds(q) /\ p # q => line[p] # line[q]

LEMMA ProcsNat ==
  /\ Procs \subseteq Nat \ {0} /\ 1 \in Procs
  /\ \A p, q \in Nat \ {0} : q \in Procs /\ p < q => p \in Procs
<1>1. Cardinality(Procs) \in Nat
  BY ProcsAssumption, FS_CardinalityType
<1> QED
  BY <1>1, ProcsAssumption

LEMMA ChainStart == Filter!Init => ChainInv
<1> SUFFICES ASSUME Filter!Init PROVE ChainInv
  OBVIOUS
<1>1. Chain(1)
  BY ProcsNat DEF Filter!Init, Chain, Last
<1>2. /\ at \in [Procs -> Busy \cup Last \cup {"free"}]
      /\ child \in [Procs -> Nat]
  BY DEF Filter!Init, Busy, Last
<1> QED
  BY <1>1, <1>2, ProcsNat DEF ChainInv

\* A step of the last process that leaves it the last.
LEMMA LastMoves ==
  ASSUME ChainInv, NEW p \in Procs, at[p] \in Last, NEW to \in Last,
         at' = [at EXCEPT ![p] = to], child' = child
  PROVE  ChainInv'
<1>1. PICK k \in Procs : Chain(k)
  BY DEF ChainInv
<1>2. p = k
  BY <1>1, ProcsNat DEF Chain, Busy, Last
<1>3. Chain(k)'
  BY <1>1, <1>2 DEF Chain, ChainInv, Busy, Last
<1>4. at' \in [Procs -> Busy \cup Last \cup {"free"}]
  BY DEF ChainInv
<1> QED
  BY <1>3, <1>4 DEF ChainInv

\* A step of a busy process that leaves it busy.
LEMMA BusyMoves ==
  ASSUME ChainInv, NEW p \in Procs, at[p] \in Busy, NEW to \in Busy,
         at' = [at EXCEPT ![p] = to], child' = child
  PROVE  ChainInv'
<1>1. PICK k \in Procs : Chain(k)
  BY DEF ChainInv
<1>2. p < k
  BY <1>1, ProcsNat DEF Chain, Busy, Last
<1>3. Chain(k)'
  BY <1>1, <1>2, ProcsNat DEF Chain, ChainInv
<1>4. at' \in [Procs -> Busy \cup Last \cup {"free"}]
  BY DEF ChainInv
<1> QED
  BY <1>3, <1>4 DEF ChainInv

LEMMA ForkGrows ==
  ASSUME ChainInv, NEW p \in Procs, Filter!Fork(p)
  PROVE  ChainInv'
<1>1. PICK k \in Procs : Chain(k)
  BY DEF ChainInv
<1>2. p = k
  BY <1>1, ProcsNat DEF Chain, Filter!Fork, Busy
<1>3. \A r \in Procs : at[r] = "free" <=> r > k
  <2> TAKE r \in Procs
  <2>1. k \in Nat /\ r \in Nat
    BY ProcsNat
  <2> QED
    BY <1>1, <2>1 DEF Chain, Busy, Last
<1>4. /\ \A r \in Filter!Free : r \in Nat /\ k + 1 <= r
      /\ k + 1 \in Filter!Free
  <2>1. PICK r \in Procs : r > k
    BY <1>3 DEF Filter!Fork, Filter!Free
  <2>2. k + 1 \in Procs
    BY <2>1, ProcsNat
  <2> QED
    BY <1>3, <2>2, ProcsNat DEF Filter!Free
<1> DEFINE q == CHOOSE q \in Filter!Free : \A r \in Filter!Free : q <= r
<1>5. q \in Filter!Free /\ \A r \in Filter!Free : q <= r
  BY <1>4
<1>6. q = k + 1 /\ q \in Procs
  <2> HIDE DEF q
  <2>1. q \in Procs /\ q \in Nat
    BY <1>4, <1>5 DEF Filter!Free
  <2> QED
    BY <1>4, <1>5, <2>1, ProcsNat
<1>7. /\ at' = [at EXCEPT ![k] = "send", ![q] = "recv"]
      /\ child' = [child EXCEPT ![k] = q]
  BY <1>2 DEF Filter!Fork
<1> HIDE DEF q
<1>8. Chain(k + 1)'
  BY <1>1, <1>6, <1>7, ProcsNat DEF Chain, ChainInv, Busy, Last
<1>9. /\ at' \in [Procs -> Busy \cup Last \cup {"free"}]
      /\ child' \in [Procs -> Nat]
  BY <1>6, <1>7, ProcsNat DEF ChainInv, Busy, Last
<1> QED
  BY <1>6, <1>8, <1>9 DEF ChainInv

LEMMA WaitShrinks ==
  ASSUME ChainInv, NEW p \in Procs, Filter!Wait(p)
  PROVE  ChainInv'
<1>1. PICK k \in Procs : Chain(k)
  BY DEF ChainInv
<1>2. p < k /\ child[p] = p + 1
  BY <1>1, ProcsNat DEF Chain, Filter!Wait, Last
<1>3. p + 1 \in Procs
  BY <1>2, ProcsNat
<1>4. k = p + 1
  BY <1>1, <1>2, <1>3, ProcsNat DEF Chain, Filter!Wait, Busy
<1>5. /\ at' = [at EXCEPT ![p] = "read", ![p + 1] = "free"]
      /\ child' = [child EXCEPT ![p] = 0]
  BY <1>2 DEF Filter!Wait
<1>6. Chain(p)'
  BY <1>1, <1>4, <1>5, ProcsNat DEF Chain, ChainInv, Last
<1>7. /\ at' \in [Procs -> Busy \cup Last \cup {"free"}]
      /\ child' \in [Procs -> Nat]
  BY <1>3, <1>5 DEF ChainInv, Last
<1> QED
  BY <1>6, <1>7 DEF ChainInv

LEMMA ChainStep == ChainInv /\ [Filter!Next]_(Filter!vars) => ChainInv'
<1> SUFFICES ASSUME ChainInv, [Filter!Next]_(Filter!vars) PROVE ChainInv'
  OBVIOUS
<1>1. CASE Filter!Type \/ Filter!EndOfInput \/ UNCHANGED Filter!vars
  BY <1>1 DEF ChainInv, Chain, Filter!Type, Filter!EndOfInput, Filter!vars,
     Filter!processes
<1>2. ASSUME NEW p \in Procs, Filter!ProcessStep(p) PROVE ChainInv'
  <2> USE DEF Filter!Step, Busy, Last
  <2>1. CASE Filter!Read(p)
    BY <2>1, LastMoves DEF Filter!Read
  <2>2. CASE Filter!Fork(p)
    BY <2>2, ForkGrows
  <2>3. CASE Filter!ForkFails(p)
    BY <2>3, LastMoves DEF Filter!ForkFails
  <2>4. CASE Filter!Send(p)
    BY <2>4, BusyMoves DEF Filter!Send
  <2>5. CASE Filter!Reply(p)
    BY <2>5, BusyMoves DEF Filter!Reply
  <2>6. CASE Filter!WriteOut(p)
    BY <2>6, BusyMoves DEF Filter!WriteOut
  <2>7. CASE Filter!Wait(p)
    BY <2>7, WaitShrinks
  <2>8. CASE Filter!Recv(p)
    BY <2>8, LastMoves DEF Filter!Recv
  <2>9. CASE Filter!Answer(p)
    BY <2>9, LastMoves DEF Filter!Answer
  <2> QED
    BY <1>2, <2>1, <2>2, <2>3, <2>4, <2>5, <2>6, <2>7, <2>8, <2>9
    DEF Filter!ProcessStep
<1> QED
  BY <1>1, <1>2 DEF Filter!Next

LEMMA LinesStart == Filter!Init => LinesInv
BY ProcsNat DEF Filter!Init, LinesInv, Holds, Filter!NoChild

\* A step that changes what a process does, but not which lines are held.
LEMMA SameLines ==
  ASSUME LinesInv, read' \in Nat, read' >= read, shown' = shown,
         line' \in [Procs -> Nat], up' \in [Procs -> Nat \cup {-1}],
         \A p \in Procs : Holds(p)' => Holds(p) /\ line'[p] = line[p]
  PROVE  LinesInv'
<1>1. \A i \in 1..Len(shown') : shown'[i] <= read'
  BY DEF LinesInv
<1>2. \A p \in Procs : Holds(p)' =>
        line'[p] <= read' /\ \A i \in 1..Len(shown') : shown'[i] # line'[p]
  BY DEF LinesInv
<1>3. \A p, q \in Procs : Holds(p)' /\ Holds(q)' /\ p # q => line'[p] # line'[q]
  BY DEF LinesInv
<1> QED
  BY <1>1, <1>2, <1>3 DEF LinesInv

LEMMA ReadLines ==
  ASSUME LinesInv, ChainInv, NEW p \in Procs, Filter!Read(p)
  PROVE  LinesInv'
<1>1. /\ at[p] = "read" /\ at' = [at EXCEPT ![p] = "fork"]
      /\ shown' = shown /\ up' = up
  BY DEF Filter!Read, Filter!Step, Filter!pipes
<1>2. CASE read' = read + 1 /\ line' = [line EXCEPT ![p] = read + 1]
  <2>1. \A r \in Procs : r # p /\ Holds(r)' =>
          /\ line'[r] = line[r] /\ line[r] \in Nat /\ line[r] <= read
          /\ \A i \in 1..Len(shown) : shown[i] # line[r]
    BY <1>1, <1>2 DEF LinesInv, ChainInv, Holds
  <2>2. line'[p] = read + 1 /\ \A i \in 1..Len(shown) : shown[i] # line'[p]
    BY <1>2 DEF LinesInv
  <2>3. \A r \in Procs : Holds(r)' =>
          line'[r] <= read' /\ \A i \in 1..Len(shown') : shown'[i] # line'[r]
    BY <1>1, <1>2, <2>1, <2>2 DEF LinesInv
  <2>4. \A r, q \in Procs : r # p /\ q # p /\ Holds(r)' /\ Holds(q)'
                            => Holds(r) /\ Holds(q)
    BY <1>1, <1>2 DEF LinesInv, ChainInv, Holds
  <2>5. \A r,
  q \in Procs : Holds(r)' /\ Holds(q)' /\ r # q => line'[r] # line'[q]
    BY <2>1, <2>2, <2>4 DEF LinesInv
  <2>6. /\ read' \in Nat /\ line' \in [Procs -> Nat]
        /\ \A i \in 1..Len(shown') : shown'[i] <= read'
    BY <1>1, <1>2 DEF LinesInv
  <2> QED
    BY <1>1, <2>3, <2>5, <2>6 DEF LinesInv
<1>3. CASE read' = read /\ line' = [line EXCEPT ![p] = 0]
  <2>1. read' \in Nat /\ read' >= read /\ line' \in [Procs -> Nat]
        /\ up' \in [Procs -> Nat \cup {-1}]
    BY <1>1, <1>3 DEF LinesInv
  <2>2. \A r \in Procs : Holds(r)' => Holds(r) /\ line'[r] = line[r]
    BY <1>1, <1>3 DEF LinesInv, ChainInv, Holds
  <2> QED
    BY <1>1, <2>1, <2>2, SameLines
<1> QED
  BY <1>2, <1>3 DEF Filter!Read

LEMMA WriteLines ==
  ASSUME LinesInv, ChainInv, NEW p \in Procs, Filter!WriteOut(p)
  PROVE  LinesInv'
<1>1. /\ at[p] = "print" /\ at' = [at EXCEPT ![p] = "wait"]
      /\ read' = read /\ line' = line /\ up' = up
  BY DEF Filter!WriteOut, Filter!Step, Filter!pipes
<1>2. \A r \in Procs : Holds(r)' => Holds(r) /\ r # p
  BY <1>1 DEF Holds, ChainInv
<1>3. CASE line[p] = 0
  BY <1>1, <1>2, <1>3, SameLines DEF Filter!WriteOut, LinesInv
<1>4. CASE line[p] # 0
  <2>1. shown' = Append(shown, line[p]) /\ Holds(p)
    BY <1>1, <1>4 DEF Filter!WriteOut, Holds
  <2>2. /\ Len(shown) \in Nat /\ Len(shown') = Len(shown) + 1
        /\ shown' \in Seq(Nat) /\ shown'[Len(shown')] = line[p]
        /\ \A i \in 1..Len(shown) : shown'[i] = shown[i]
    BY <2>1 DEF LinesInv
  <2>3. \A i \in 1..Len(shown') : i \in 1..Len(shown) \/ shown'[i] = line[p]
    BY <2>2
  <2>4. \A i \in 1..Len(shown') : shown'[i] <= read'
    BY <1>1, <2>1, <2>2, <2>3 DEF LinesInv
  <2>5. \A i, j \in 1..Len(shown') : i # j => shown'[i] # shown'[j]
    <3> SUFFICES ASSUME NEW i \in 1..Len(shown'), NEW j \in 1..Len(shown'),
                        i # j
                 PROVE  shown'[i] # shown'[j]
      OBVIOUS
    <3>1. CASE i \in 1..Len(shown) /\ j \in 1..Len(shown)
      BY <2>2, <3>1 DEF LinesInv
    <3>2. CASE i \in 1..Len(shown) /\ j = Len(shown')
      BY <2>1, <2>2, <3>2 DEF LinesInv
    <3>3. CASE i = Len(shown') /\ j \in 1..Len(shown)
      BY <2>1, <2>2, <3>3 DEF LinesInv
    <3> QED
      BY <2>2, <3>1, <3>2, <3>3
  <2>6. \A r \in Procs : Holds(r)' =>
          line'[r] <= read' /\ \A i \in 1..Len(shown') : shown'[i] # line'[r]
    BY <1>1, <1>2, <2>1, <2>2, <2>3 DEF LinesInv
  <2>7. \A r,
  q \in Procs : Holds(r)' /\ Holds(q)' /\ r # q => line'[r] # line'[q]
    BY <1>1, <1>2 DEF LinesInv
  <2> QED
    BY <1>1, <2>2, <2>4, <2>5, <2>6, <2>7 DEF LinesInv
<1> QED
  BY <1>3, <1>4

LEMMA LinesStep ==
  LinesInv /\ ChainInv /\ [Filter!Next]_(Filter!vars) => LinesInv'
<1> SUFFICES ASSUME LinesInv, ChainInv, [Filter!Next]_(Filter!vars)
             PROVE  LinesInv'
  OBVIOUS
<1>1. CASE Filter!Type \/ Filter!EndOfInput \/ UNCHANGED Filter!vars
  BY <1>1 DEF LinesInv, Holds, Filter!Type, Filter!EndOfInput, Filter!vars,
     Filter!processes, Filter!pipes
<1>2. ASSUME NEW p \in Procs, Filter!ProcessStep(p) PROVE LinesInv'
  <2> USE DEF Filter!Step, Filter!pipes
  <2>1. CASE Filter!Read(p)
    BY <2>1, ReadLines
  <2>2. CASE Filter!Fork(p)
    <3>1. read' = read /\ shown' = shown /\ line' = line /\ up' = up
      BY <2>2 DEF Filter!Fork
    <3>2. \A r \in Procs : Holds(r)' => Holds(r)
      <4>1. PICK q : at' = [at EXCEPT ![p] = "send", ![q] = "recv"]
        BY <2>2 DEF Filter!Fork
      <4>2. at[p] = "fork"
        BY <2>2 DEF Filter!Fork
      <4> QED
        BY <3>1, <4>1, <4>2 DEF Holds, ChainInv
    <3> QED
      BY <3>1, <3>2, SameLines DEF LinesInv
  <2>3. CASE Filter!ForkFails(p)
    BY <2>3, SameLines DEF Filter!ForkFails, LinesInv, ChainInv, Holds
  <2>4. CASE Filter!Send(p)
    <3>1. /\ read' = read /\ shown' = shown /\ line' = line
          /\ up' = [up EXCEPT ![child[p]] = line[p]]
          /\ at[p] = "send" /\ at' = [at EXCEPT ![p] = "reply"]
      BY <2>4 DEF Filter!Send
    <3>2. up' \in [Procs -> Nat \cup {-1}]
      BY <3>1 DEF LinesInv
    <3>3. \A r \in Procs : Holds(r)' => Holds(r)
      BY <3>1 DEF Holds, ChainInv
    <3> QED
      BY <3>1, <3>2, <3>3, SameLines DEF LinesInv
  <2>5. CASE Filter!Reply(p)
    BY <2>5, SameLines DEF Filter!Reply, LinesInv, ChainInv, Holds
  <2>6. CASE Filter!WriteOut(p)
    BY <2>6, WriteLines
  <2>7. CASE Filter!Wait(p)
    <3>1. /\ read' = read /\ shown' = shown /\ up' = up
          /\ line' = [line EXCEPT ![p] = 0, ![child[p]] = 0]
          /\ at' = [at EXCEPT ![p] = "read", ![child[p]] = "free"]
      BY <2>7 DEF Filter!Wait
    <3>2. line' \in [Procs -> Nat]
      BY <3>1 DEF LinesInv
    <3>3. \A r \in Procs : Holds(r)' => Holds(r) /\ line'[r] = line[r]
      BY <3>1 DEF Holds, ChainInv, LinesInv
    <3>4. /\ read' \in Nat /\ read' >= read
          /\ up' \in [Procs -> Nat \cup {-1}]
      BY <3>1 DEF LinesInv
    <3> QED
      BY <3>1, <3>2, <3>3, <3>4, SameLines
  <2>8. CASE Filter!Recv(p)
    <3>1. /\ read' = read /\ shown' = shown
          /\ line' = [line EXCEPT ![p] = up[p]] /\ up[p] # -1
          /\ up' = [up EXCEPT ![p] = -1]
          /\ at' = [at EXCEPT ![p] = "answer"]
      BY <2>8 DEF Filter!Recv, Filter!NoChild
    <3>2. line' \in [Procs -> Nat] /\ up' \in [Procs -> Nat \cup {-1}]
      BY <3>1 DEF LinesInv
    <3>3. \A r \in Procs : Holds(r)' => Holds(r) /\ line'[r] = line[r]
      BY <3>1 DEF Holds, ChainInv, LinesInv
    <3> QED
      BY <3>1, <3>2, <3>3, SameLines DEF LinesInv
  <2>9. CASE Filter!Answer(p)
    <3>1. /\ read' = read /\ shown' = shown /\ up' = up
          /\ line' = [line EXCEPT ![p] = 0]
          /\ at' = [at EXCEPT ![p] = "read"]
      BY <2>9 DEF Filter!Answer
    <3>2. line' \in [Procs -> Nat]
      BY <3>1 DEF LinesInv
    <3>3. \A r \in Procs : Holds(r)' => Holds(r) /\ line'[r] = line[r]
      BY <3>1 DEF Holds, ChainInv, LinesInv
    <3> QED
      BY <3>1, <3>2, <3>3, SameLines DEF LinesInv
  <2> QED
    BY <1>2, <2>1, <2>2, <2>3, <2>4, <2>5, <2>6, <2>7, <2>8, <2>9
    DEF Filter!ProcessStep
<1> QED
  BY <1>1, <1>2 DEF Filter!Next

\* For any number of processes and of lines: only the last of the chain of
\* processes reads the input, and no line comes out twice.
THEOREM OneAtTheInput == Filter!Spec => []OneReader
<1>1. ChainInv /\ LinesInv => OneReader
  <2> SUFFICES ASSUME ChainInv, LinesInv PROVE OneReader
    OBVIOUS
  <2>1. PICK k \in Procs : Chain(k)
    BY DEF ChainInv
  <2>2. ASSUME NEW p \in Procs, at[p] \in {"read", "fork"} PROVE p = k
    <3>1. p \in Nat /\ k \in Nat
      BY ProcsNat
    <3> QED
      BY <2>1, <2>2, <3>1 DEF Chain, Busy
  <2>3. DOMAIN shown = 1..Len(shown)
    BY DEF LinesInv
  <2>4. \A i, j \in DOMAIN shown : i # j => shown[i] # shown[j]
    BY <2>3 DEF LinesInv
  <2> QED
    BY <2>2, <2>4 DEF OneReader, Filter!OneReader
<1>2. Filter!Init => ChainInv /\ LinesInv
  BY ChainStart, LinesStart
<1>3. ChainInv /\ LinesInv /\ [Filter!Next]_(Filter!vars)
      => (ChainInv /\ LinesInv)'
  BY ChainStep, LinesStep
<1> QED
  BY <1>1, <1>2, <1>3, PTL DEF Filter!Spec

-----------------------------------------------------------------------------
(* SeqnumNonblock.  The server writes for the request it holds, and nobody *)
(* is answered twice as a request that waits or is held is the only one of *)
(* a client that has not been answered.                                    *)

OnClients(f) == \E S : f \in [Clients -> S]

PollType ==
  /\ requests \in Seq(Clients)
  /\ pollSpc \in {"openClient", "write", "close"} => req \in Clients
  /\ pollSpc = "write" => clientFd \in {req, None}
  /\ OnClients(fifo) /\ OnClients(cpc)

HeldBy(c) == pollSpc \in {"openClient", "write"} /\ req = c
ToSend(c) == cpc[c] \in {"mkfifo", "openServer", "send"}

PollInv ==
  /\ \A i, j \in 1..Len(requests) : requests[i] = requests[j] => i = j
  /\ \A i \in 1..Len(requests) :
       fifo[requests[i]] = None /\ ~HeldBy(requests[i]) /\ ~ToSend(requests[i])
  /\ \A c \in Clients : /\ HeldBy(c) \/ ToSend(c) => fifo[c] = None
                        /\ ~(HeldBy(c) /\ ToSend(c))

LEMMA PollStart == Seqnum!Init => PollType /\ PollInv
<1> SUFFICES ASSUME Seqnum!Init PROVE PollType /\ PollInv
  OBVIOUS
<1>1. cpc \in [Clients -> {"mkfifo"}] /\ fifo \in [Clients -> {None}]
  BY DEF Seqnum!Init
<1>2. OnClients(cpc) /\ OnClients(fifo)
  BY <1>1 DEF OnClients
<1> QED
  BY <1>2 DEF Seqnum!Init, PollType, PollInv, HeldBy, ToSend

LEMMA PollTypeStep ==
  ASSUME PollType, [Seqnum!Next]_(Seqnum!vars)
  PROVE  PollType'
<1> USE DEF PollType, Seqnum!SStep, Seqnum!CStep, Seqnum!clients, Seqnum!server
<1>0. ASSUME NEW c \in Clients, NEW to, cpc' = [cpc EXCEPT ![c] = to]
      PROVE  OnClients(cpc')
  <2>1. PICK S : cpc \in [Clients -> S]
    BY DEF OnClients
  <2>2. cpc' \in [Clients -> S \cup {to}]
    BY <1>0, <2>1
  <2> QED
    BY <2>2 DEF OnClients
<1>1. CASE Seqnum!SOpen \/ Seqnum!SKilled \/ Seqnum!SClose
  BY <1>1 DEF Seqnum!SOpen, Seqnum!SKilled, Seqnum!SClose
<1>2. CASE Seqnum!SRead
  <2>1. Head(requests) \in Clients /\ Tail(requests) \in Seq(Clients)
    BY <1>2 DEF Seqnum!SRead
  <2> QED
    BY <1>2, <2>1 DEF Seqnum!SRead
<1>3. CASE Seqnum!SOpenClient
  BY <1>3 DEF Seqnum!SOpenClient
<1>4. CASE Seqnum!SWrite
  <2>1. PICK S : fifo \in [Clients -> S]
    BY DEF OnClients
  <2>2. fifo' \in [Clients -> S \cup {seqNum}]
    BY <1>4, <2>1 DEF Seqnum!SWrite
  <2>3. OnClients(fifo')
    BY <2>2 DEF OnClients
  <2>4. UNCHANGED <<requests, req, clientFd, cpc>> /\ pollSpc' = "close"
    BY <1>4 DEF Seqnum!SWrite
  <2>5. req' \in Clients /\ pollSpc' # "write"
    BY <1>4, <2>4 DEF Seqnum!SWrite
  <2>6. requests' \in Seq(Clients) /\ OnClients(cpc')
    BY <2>4
  <2> QED
    BY <2>3, <2>5, <2>6
<1>5. ASSUME NEW c \in Clients, Seqnum!CSend(c) PROVE PollType'
  <2>1. UNCHANGED <<pollSpc, req, clientFd, fifo>>
    BY <1>5 DEF Seqnum!CSend
  <2>2. requests' = Append(requests, c)
    BY <1>5 DEF Seqnum!CSend
  <2>3. requests' \in Seq(Clients)
    BY <1>5, <2>2
  <2>4. cpc' = [cpc EXCEPT ![c] = "open"]
    BY <1>5 DEF Seqnum!CSend
  <2>5. OnClients(cpc')
    BY ONLY <1>0, <1>5, <2>4
  <2> QED
    BY <2>1, <2>3, <2>5
<1>6. ASSUME NEW c \in Clients,
             \/ Seqnum!CMkfifo(c) \/ Seqnum!COpenServer(c) \/ Seqnum!CSendFull(c)
             \/ Seqnum!CPipe(c) \/ Seqnum!COpen(c) \/ Seqnum!CPoll(c)
             \/ Seqnum!CRead(c) \/ Seqnum!CKilled(c)
      PROVE  PollType'
  <2>1. UNCHANGED <<requests, pollSpc, req, clientFd, fifo>>
    BY <1>6 DEF Seqnum!CMkfifo, Seqnum!COpenServer, Seqnum!CSendFull,
       Seqnum!CPipe, Seqnum!COpen, Seqnum!CPoll, Seqnum!CRead, Seqnum!CKilled
  <2>2. PICK to : cpc' = [cpc EXCEPT ![c] = to]
    BY <1>6 DEF Seqnum!CMkfifo, Seqnum!COpenServer, Seqnum!CSendFull,
       Seqnum!CPipe, Seqnum!COpen, Seqnum!CPoll, Seqnum!CRead, Seqnum!CKilled,
       Seqnum!CEnds
  <2>3. OnClients(cpc')
    BY <1>0, <2>2
  <2> QED
    BY <2>1, <2>3
<1>7. CASE UNCHANGED Seqnum!vars
  BY <1>7 DEF Seqnum!vars
<1> QED
  BY <1>1, <1>2, <1>3, <1>4, <1>5, <1>6, <1>7
  DEF Seqnum!Next, Seqnum!ServerStep, Seqnum!ClientStep

\* A step that leaves the requests alone and makes no client unsent again.
LEMMA PollOther ==
  ASSUME PollType, PollInv, UNCHANGED <<requests, pollSpc, req, fifo>>,
         \A c \in Clients : ToSend(c)' => ToSend(c)
  PROVE  PollInv'
<1>1. \A i \in 1..Len(requests) : requests[i] \in Clients
  BY DEF PollType
<1>2. \A c \in Clients : HeldBy(c)' <=> HeldBy(c)
  BY DEF HeldBy
<1> HIDE DEF HeldBy, ToSend
<1> QED
  BY <1>1, <1>2 DEF PollInv

LEMMA PollStep ==
  ASSUME PollType, PollInv, [Seqnum!Next]_(Seqnum!vars)
  PROVE  PollInv'
<1> USE DEF Seqnum!SStep, Seqnum!CStep, Seqnum!clients, Seqnum!server
<1>1. CASE Seqnum!SOpen \/ Seqnum!SOpenClient \/ Seqnum!SClose \/ Seqnum!SKilled
  BY <1>1 DEF Seqnum!SOpen, Seqnum!SOpenClient, Seqnum!SClose, Seqnum!SKilled,
     PollInv, HeldBy, ToSend
<1>2. CASE Seqnum!SRead
  <2>1. /\ requests # <<>> /\ Len(requests') = Len(requests) - 1
        /\ \A i \in 1..Len(requests') : requests'[i] = requests[i + 1]
        /\ req' = requests[1] /\ req' \in Clients
        /\ 1 \in 1..Len(requests)
        /\ Len(requests) \in Nat /\ Len(requests') \in Nat
    BY <1>2 DEF Seqnum!SRead, PollType
  <2>2. \A i \in 1..Len(requests') :
          i + 1 \in 1..Len(requests) /\ requests'[i] # req'
    BY <2>1 DEF PollInv
  <2>3. UNCHANGED <<fifo, cpc>> /\ \A c \in Clients : HeldBy(c)' => c = req'
    BY <1>2 DEF Seqnum!SRead, HeldBy
  <2>4. \A i, j \in 1..Len(requests') : requests'[i] = requests'[j] => i = j
    BY <2>1, <2>2 DEF PollInv
  <2>5. \A i \in 1..Len(requests') :
          /\ fifo'[requests'[i]] = None
          /\ ~HeldBy(requests[i])'
          /\ ~ToSend(requests[i])'
    BY <2>1, <2>2, <2>3 DEF PollInv, HeldBy, ToSend
  <2>6. \A c \in Clients : /\ HeldBy(c)' \/ ToSend(c)' => fifo'[c] = None
                           /\ ~(HeldBy(c)' /\ ToSend(c)')
    BY <2>1, <2>3 DEF PollInv, ToSend
  <2> QED
    BY <2>4, <2>5, <2>6 DEF PollInv
<1>3. CASE Seqnum!SWrite
  <2>1. UNCHANGED <<requests, cpc>> /\ req \in Clients /\ HeldBy(req)
    BY <1>3 DEF Seqnum!SWrite, HeldBy, PollType
  <2>2. \A c \in Clients : ~HeldBy(c)' /\ (ToSend(c)' <=> ToSend(c))
    BY <1>3, <2>1 DEF Seqnum!SWrite, HeldBy, ToSend
  <2>3. \A c \in Clients : c # req => fifo'[c] = fifo[c]
    BY <1>3, PollingAssumption DEF Seqnum!SWrite, PollType
  <2>4. \A i \in 1..Len(requests) : requests[i] \in Clients \ {req}
    BY <2>1 DEF PollInv, PollType
  <2>5. ~ToSend(req)
    BY <2>1 DEF PollInv
  <2> QED
    BY <2>1, <2>2, <2>3, <2>4, <2>5 DEF PollInv, HeldBy
<1>4. ASSUME NEW c \in Clients, Seqnum!CSend(c) PROVE PollInv'
  <2>1. /\ ToSend(c) /\ ~ToSend(c)'
        /\ \A d \in Clients : ToSend(d)' => ToSend(d)
        /\ UNCHANGED <<pollSpc, req, fifo>>
    BY <1>4 DEF Seqnum!CSend, ToSend, PollType, OnClients
  <2>2. /\ Len(requests') = Len(requests) + 1
        /\ requests'[Len(requests) + 1] = c
        /\ \A i \in 1..Len(requests) : requests'[i] = requests[i]
        /\ Len(requests) \in Nat
    BY <1>4 DEF Seqnum!CSend, PollType
  <2>3. \A i \in 1..Len(requests) : requests[i] \in Clients \ {c}
    BY <2>1 DEF PollInv, PollType
  <2>4. \A i \in 1..Len(requests') : i \in 1..Len(requests) \/ requests'[i] = c
    BY <2>2
  <2>5. fifo[c] = None /\ ~HeldBy(c)
    BY <2>1 DEF PollInv
  <2>6. \A d \in Clients : HeldBy(d)' <=> HeldBy(d)
    BY <2>1 DEF HeldBy
  <2>7. \A i, j \in 1..Len(requests') : requests'[i] = requests'[j] => i = j
    BY <2>2, <2>3, <2>4 DEF PollInv
  <2>8. \A i \in 1..Len(requests') :
          /\ fifo'[requests'[i]] = None
          /\ ~HeldBy(requests[i])'
          /\ ~ToSend(requests[i])'
    BY <2>1, <2>2, <2>3, <2>4, <2>5, <2>6 DEF PollInv
  <2>9. \A d \in Clients : /\ HeldBy(d)' \/ ToSend(d)' => fifo'[d] = None
                           /\ ~(HeldBy(d)' /\ ToSend(d)')
    BY <2>1, <2>6 DEF PollInv
  <2> QED
    BY <2>7, <2>8, <2>9 DEF PollInv
<1>5. ASSUME NEW c \in Clients,
             \/ Seqnum!CMkfifo(c) \/ Seqnum!COpenServer(c) \/ Seqnum!CSendFull(c)
             \/ Seqnum!CPipe(c) \/ Seqnum!COpen(c) \/ Seqnum!CPoll(c)
             \/ Seqnum!CRead(c) \/ Seqnum!CKilled(c)
      PROVE  PollInv'
  <2> USE DEF Seqnum!CMkfifo, Seqnum!COpenServer, Seqnum!CSendFull,
          Seqnum!CPipe, Seqnum!COpen, Seqnum!CPoll, Seqnum!CRead,
          Seqnum!CKilled, Seqnum!CEnds
  <2>1. UNCHANGED <<requests, pollSpc, req, fifo>>
    BY <1>5
  <2>2. PICK to : /\ cpc' = [cpc EXCEPT ![c] = to]
                  /\ to \in {"mkfifo", "openServer", "send"} => ToSend(c)
    BY <1>5 DEF ToSend
  <2>3. PICK S : cpc \in [Clients -> S]
    BY DEF PollType, OnClients
  <2>4. \A d \in Clients : ToSend(d)' => ToSend(d)
    BY <2>2, <2>3 DEF ToSend
  <2> QED
    BY <2>1, <2>4, PollOther
<1>6. CASE UNCHANGED Seqnum!vars
  <2>1. UNCHANGED <<requests, pollSpc, req, fifo, cpc>>
    BY <1>6 DEF Seqnum!vars
  <2> QED
    BY <2>1, PollOther DEF ToSend
<1> QED
  BY <1>1, <1>2, <1>3, <1>4, <1>5, <1>6
  DEF Seqnum!Next, Seqnum!ServerStep, Seqnum!ClientStep

LEMMA PollServes ==
  ASSUME PollType, PollInv, [Seqnum!Next]_(Seqnum!vars)
  PROVE  [Seqnum!Service!Next]_(Seqnum!Service!vars)
<1> USE DEF Seqnum!NextNumber, Seqnum!SStep, Seqnum!clients, Seqnum!server
<1>1. CASE Seqnum!SWrite
  <2>1. req \in Clients /\ pollSpc = "write" /\ pollSpc' = "close"
        /\ UNCHANGED <<seqLen, seqNum, req>>
    BY <1>1 DEF Seqnum!SWrite, PollType
  <2>2. fifo[req] = None
    BY <2>1 DEF PollInv, HeldBy
  <2>3. fifo' \in {fifo, [fifo EXCEPT ![req] = seqNum]}
    <3>1. PICK S : fifo \in [Clients -> S]
      BY DEF PollType, OnClients
    <3>2. CASE clientFd = req /\ reading[req]
      BY <1>1, <2>1, <3>1, <3>2 DEF Seqnum!SWrite
    <3>3. CASE ~(clientFd = req /\ reading[req])
      <4>1. \A c \in Clients : ~(c = clientFd /\ reading[c])
        BY <2>1, <3>3, PollingAssumption DEF PollType
      <4> QED
        BY <1>1, <3>1, <4>1 DEF Seqnum!SWrite
    <3> QED
      BY <3>2, <3>3
  <2>4. Seqnum!NextNumber = seqNum
        /\ Seqnum!NextNumber' = Seqnum!Wrap(seqNum + seqLen[req])
    BY <2>1
  <2>5. Seqnum!Service!Serve(req)
    BY <2>1, <2>2, <2>3, <2>4 DEF Seqnum!Service!Serve
  <2> QED
    BY <2>1, <2>5 DEF Seqnum!Service!Next
<1>2. CASE \/ Seqnum!SClose \/ Seqnum!SOpen \/ Seqnum!SRead
           \/ Seqnum!SOpenClient \/ Seqnum!SKilled
  BY <1>2 DEF Seqnum!SClose, Seqnum!SOpen, Seqnum!SRead, Seqnum!SOpenClient,
     Seqnum!SKilled, Seqnum!Service!vars
<1>3. ASSUME NEW c \in Clients, Seqnum!ClientStep(c) \/ Seqnum!CKilled(c)
      PROVE  UNCHANGED Seqnum!Service!vars
  BY <1>3 DEF Seqnum!ClientStep, Seqnum!CMkfifo, Seqnum!COpenServer,
     Seqnum!CSend, Seqnum!CSendFull, Seqnum!CPipe, Seqnum!COpen, Seqnum!CPoll,
     Seqnum!CRead, Seqnum!CKilled, Seqnum!Service!vars
<1>4. CASE UNCHANGED Seqnum!vars
  BY <1>4 DEF Seqnum!vars, Seqnum!Service!vars
<1> QED
  BY <1>1, <1>2, <1>3, <1>4 DEF Seqnum!Next, Seqnum!ServerStep

\* For any number of clients, lengths and size of the FIFO, whatever is
\* killed: the polling programs implement the service, though the server
\* goes on from every call that fails.
THEOREM Polling == Seqnum!Spec => PollingImplementsService
<1>1. Seqnum!Init => Seqnum!Service!Init
  BY DEF Seqnum!Init, Seqnum!Service!Init, Seqnum!NextNumber
<1>2. PollType /\ PollInv /\ [Seqnum!Next]_(Seqnum!vars)
      => (PollType /\ PollInv)' /\ [Seqnum!Service!Next]_(Seqnum!Service!vars)
  BY PollTypeStep, PollStep, PollServes
<1> QED
  BY <1>1, <1>2, PollStart, PTL
  DEF Seqnum!Spec, PollingImplementsService, Seqnum!ImplementsService,
      Seqnum!Service!Spec

-----------------------------------------------------------------------------
(* Popen.  That my_pclose() waits for the right process is a matter of its *)
(* descriptors, none of which is ever closed; that the output is whole, of *)
(* where its pieces are: in the pipe, in the buffer or printed.            *)

\* The descriptors: in mode "r" the lowest ones, the last two aside; in mode
\* "w" all but the reading end, which is closed, is the lowest free one.
FdInv ==
  /\ open \subseteq 0 .. OPEN_MAX - 1 /\ 0..2 \subseteq open
  /\ mode = "r" => OPEN_MAX - 1 \notin open
  /\ step = "start" \/ mode = "w" => 3 \notin open
  /\ pid \in Nat
  /\ fdtopid \in [0..OPEN_MAX -> Nat]
  /\ step \in {"fread", "copy", "pclose"} =>
       keep_fd \in 0..OPEN_MAX /\ fdtopid[keep_fd] = pid

\* The first n pieces of a command's output, and those that are out of the
\* pipe.
Pieces(n) == [i \in 1..n |-> i]
Taken == written - pipe

\* What has been taken is in the buffer, until all of it is printed.
OutputInv ==
  /\ got = Taken /\ buf1 = Pieces(got) /\ popenShown = <<>>
  \/ /\ got = 0 /\ ~running /\ pipe = 0
     /\ popenShown = Pieces(command.out)

PopenInv ==
  /\ mode \in {"r", "w"} /\ command.out \in Nat
  /\ written \in Nat /\ pipe \in Nat /\ got \in Nat
  /\ step = "start" => mode = "r"
  /\ step = "fread" => mode = "r" /\ pipe <= written
  /\ step = "copy" => mode = "w"
  /\ running => step \in {"fread", "copy", "pclose", "killed"}
  /\ running /\ mode = "r" => written <= command.out /\ step = "fread"
  /\ step = "popen" => popenShown = <<>> /\ written = 0
  /\ step = "start" => command.out = 0 /\ popenShown = <<>>
  /\ mode = "r" /\ step = "fread" =>
       /\ ~running => written = command.out
       /\ command.out < BUF => OutputInv
  /\ mode = "r" /\ step \in {"pclose", "prompt"} /\ command.out < BUF =>
       popenShown = Pieces(command.out)

LEMMA PopenStart == PopenP!Init => FdInv /\ PopenInv
<1> SUFFICES ASSUME PopenP!Init PROVE FdInv /\ PopenInv
  OBVIOUS
<1>1. FdInv
  BY PopenAssumption DEF PopenP!Init, FdInv
<1>2. PopenInv
  BY DEF PopenP!Init, PopenP!Empty, PopenInv
<1> QED
  BY <1>1, <1>2

\* Every nonempty set of numbers has a least one.
LEMMA LeastNumber ==
  ASSUME NEW T, T \subseteq Nat, T # {}
  PROVE  \E m \in T : \A n \in T : ~(n < m)
<1>1. \E m \in T : \A n \in T : <<n, m>> \notin OpToRel(<, Nat)
  BY NatLessThanWellFounded, WFMin
<1> QED
  BY <1>1 DEF OpToRel

\* The lowest of the descriptors that are free.
LEMMA LowestFree ==
  ASSUME NEW fds, NEW fd \in 0..OPEN_MAX, fd \notin fds
  PROVE  /\ PopenP!Lowest(fds) \in 0..OPEN_MAX
         /\ PopenP!Lowest(fds) \notin fds
         /\ PopenP!Lowest(fds) <= fd
<1> DEFINE T == 0..OPEN_MAX \ fds
<1>1. \E m \in T : \A n \in T : m <= n
  <2>1. T \subseteq Nat /\ T # {}
    BY PopenAssumption
  <2> HIDE DEF T
  <2>2. PICK m \in T : \A n \in T : ~(n < m)
    BY <2>1, LeastNumber
  <2>3. \A n \in T : m <= n
    BY <2>1, <2>2
  <2> QED
    BY <2>3
<1>2. PopenP!Lowest(fds) \in T /\ \A n \in T : PopenP!Lowest(fds) <= n
  BY <1>1 DEF PopenP!Lowest, PopenP!Min
<1> QED
  BY <1>2

LEMMA FdStep ==
  ASSUME FdInv, PopenInv, [PopenP!Next]_(PopenP!vars)
  PROVE  FdInv'
<1>1. CASE PopenP!my_popen
  <2> DEFINE p0 == PopenP!Lowest(open)
             p1 == PopenP!Lowest(open \cup {p0})
  <2>1. /\ p1 < OPEN_MAX /\ keep_fd' = IF mode = "r" THEN p0 ELSE p1
        /\ open' = open \cup {keep_fd'} /\ fdtopid' = [fdtopid EXCEPT ![keep_fd'] = pid]
        /\ UNCHANGED <<mode, pid>> /\ step' \in {"fread", "copy"}
    BY <1>1 DEF PopenP!my_popen, PopenP!state
  <2>2. OPEN_MAX \in Nat /\ OPEN_MAX > 4 /\ mode \in {"r", "w"}
    BY PopenAssumption DEF PopenInv
  <2>3. p0 \in 0..OPEN_MAX /\ p0 \notin open
    BY <2>2, LowestFree DEF FdInv
  <2>4. CASE mode = "r"
    <3>1. p0 <= OPEN_MAX - 1
      BY <2>2, <2>4, LowestFree DEF FdInv
    <3>2. p1 \in 0..OPEN_MAX /\ p1 \notin open \cup {p0}
      BY SMTT(20), <2>2, <3>1, LowestFree DEF FdInv
    <3>3. p0 <= p1
      BY <3>2, LowestFree
    <3> HIDE DEF p0, p1
    <3>4. p0 # OPEN_MAX - 1
      BY <2>1, <2>2, <2>3, <3>2, <3>3
    <3> QED
      BY <2>1, <2>2, <2>3, <2>4, <3>1, <3>4 DEF FdInv
  <2>5. CASE mode = "w"
    <3>1. p0 = 3
      <4>1. p0 <= 3
        BY <2>2, <2>5, LowestFree DEF FdInv
      <4> HIDE DEF p0
      <4> QED
        BY <2>3, <4>1 DEF FdInv
    <3>2. p1 \in 0..OPEN_MAX /\ p1 \notin open \cup {p0}
      <4>1. OPEN_MAX \in 0..OPEN_MAX /\ OPEN_MAX \notin open \cup {p0}
        BY <2>2, <3>1 DEF FdInv
      <4> QED
        BY <4>1, LowestFree
    <3> HIDE DEF p0, p1
    <3> QED
      BY <2>1, <2>2, <2>5, <3>1, <3>2 DEF FdInv
  <2> QED
    BY <2>2, <2>4, <2>5
<1>2. CASE ~PopenP!my_popen
  <2>1. UNCHANGED <<open, keep_fd, fdtopid>>
    BY <1>2 DEF PopenP!Next, PopenP!Start, PopenP!Prompt, PopenP!CommandStep,
       PopenP!Writes, PopenP!Reads, PopenP!Ends, PopenP!ProgramStep,
       PopenP!PopenFails, PopenP!FreadMore, PopenP!FreadPrint,
       PopenP!FreadEnd, PopenP!my_pclose, PopenP!Copy, PopenP!CopyKilled,
       PopenP!CopyEnd, PopenP!files, PopenP!vars
  <2>2. CASE PopenP!Start \/ PopenP!Prompt
    <3>1. CASE PopenP!Start
      <4>1. step = "start" /\ step' = "prompt" /\ pid' = pid
        BY <3>1 DEF PopenP!Start
      <4>2. mode' \in {"r", "w"} /\ mode = "r"
        BY <3>1 DEF PopenP!Start, PopenInv
      <4> QED
        BY <2>1, <4>1, <4>2 DEF FdInv
    <3>2. CASE PopenP!Prompt
      <4>1. /\ step = "prompt" /\ step' = "popen"
            /\ mode' = mode /\ pid' = pid + 1
        BY <3>2 DEF PopenP!Prompt
      <4> QED
        BY <2>1, <4>1 DEF FdInv
    <3> QED
      BY <2>2, <3>1, <3>2
  <2>3. CASE ~(PopenP!Start \/ PopenP!Prompt)
    <3>1. /\ UNCHANGED <<mode, pid>> /\ step' # "start"
          /\ step' \in {"fread", "copy", "pclose"} =>
               step \in {"fread", "copy", "pclose"}
          \/ UNCHANGED <<mode, pid, step>>
      BY <1>2, <2>3 DEF PopenP!Next, PopenP!CommandStep,
         PopenP!Writes, PopenP!Reads, PopenP!Ends, PopenP!ProgramStep,
         PopenP!PopenFails, PopenP!FreadMore, PopenP!FreadPrint,
         PopenP!FreadEnd, PopenP!my_pclose, PopenP!Copy, PopenP!CopyKilled,
         PopenP!CopyEnd, PopenP!state, PopenP!vars
    <3> QED
      BY <2>1, <3>1 DEF FdInv
  <2> QED
    BY <2>2, <2>3
<1> QED
  BY <1>1, <1>2

LEMMA PopenStep ==
  ASSUME FdInv, PopenInv, [PopenP!Next]_(PopenP!vars)
  PROVE  PopenInv'
<1> USE PopenAssumption
    DEF PopenP!state, PopenP!child, PopenP!files, PopenP!reader
<1>1. CASE PopenP!Start
  BY <1>1 DEF PopenP!Start, PopenInv, OutputInv, Pieces, Taken
<1>2. CASE PopenP!Prompt
  <2>1. command'.out \in Nat
    BY <1>2 DEF PopenP!Prompt, PopenP!Commands, PopenP!Empty
  <2> QED
    BY <1>2, <2>1 DEF PopenP!Prompt, PopenInv
<1>3. CASE PopenP!my_popen
  <2>1. Pieces(0) = <<>>
    BY DEF Pieces
  <2> QED
    BY <1>3, <2>1 DEF PopenP!my_popen, PopenInv, OutputInv, Taken
<1>4. CASE PopenP!PopenFails \/ PopenP!CopyKilled \/ PopenP!CopyEnd
  BY <1>4 DEF PopenP!PopenFails, PopenP!CopyKilled, PopenP!CopyEnd, PopenInv,
     OutputInv
<1>5. CASE PopenP!Writes
  BY <1>5 DEF PopenP!Writes, PopenInv, OutputInv, Taken, Pieces
<1>6. CASE PopenP!Reads
  BY <1>6 DEF PopenP!Reads, PopenInv
<1>7. CASE PopenP!Ends
  BY <1>7 DEF PopenP!Ends, PopenInv, OutputInv, Taken, Pieces
<1>8. CASE PopenP!FreadMore
  <2>1. /\ step = "fread" /\ pipe > 0 /\ got < BUF /\ pipe' = pipe - 1
        /\ got' = got + 1
        /\ UNCHANGED <<step, mode, command, running, written, popenShown>>
        /\ buf1' = IF got < Len(buf1)
                   THEN [buf1 EXCEPT ![got + 1] = written - pipe + 1]
                   ELSE Append(buf1, written - pipe + 1)
    BY <1>8 DEF PopenP!FreadMore
  <2>2. mode = "r" /\ command.out < BUF => OutputInv'
    <3> SUFFICES ASSUME mode = "r", command.out < BUF PROVE OutputInv'
      OBVIOUS
    <3>1. got = written - pipe /\ buf1 = Pieces(got) /\ popenShown = <<>>
      BY <2>1 DEF PopenInv, OutputInv, Taken
    <3>2. Len(Pieces(got)) = got /\ got \in Nat
      BY DEF Pieces, PopenInv
    <3>3. Append(Pieces(got), got + 1) = Pieces(got + 1)
      BY <3>2 DEF Pieces
    <3>4. buf1' = Pieces(got') /\ popenShown' = <<>>
      <4>1. ~(got < Len(buf1)) /\ written - pipe + 1 = got + 1
        BY <3>1, <3>2
      <4>2. buf1' = Append(Pieces(got), got + 1)
        BY <2>1, <3>1, <4>1
      <4> QED
        BY <2>1, <3>1, <3>3, <4>2
    <3>5. got' = written' - pipe'
      BY <2>1, <3>1 DEF PopenInv
    <3> QED
      BY <3>4, <3>5 DEF OutputInv, Taken
  <2> QED
    BY <2>1, <2>2 DEF PopenInv
<1>9. CASE PopenP!FreadPrint
  <2>1. /\ step = "fread" /\ PopenP!FreadReturns /\ got' = 0
        /\ popenShown' = popenShown \o buf1
             \o (IF Len(buf1) = BUF THEN <<PopenP!Odd>> ELSE <<>>)
        /\ UNCHANGED <<step, mode, command, running, written, pipe, buf1>>
    BY <1>9 DEF PopenP!FreadPrint
  <2>2. mode = "r" /\ command.out < BUF => OutputInv'
    <3> SUFFICES ASSUME mode = "r", command.out < BUF PROVE OutputInv'
      OBVIOUS
    <3>1. /\ got = Taken /\ buf1 = Pieces(got) /\ popenShown = <<>>
          /\ pipe = 0 /\ ~running /\ got = command.out
      BY <2>1 DEF PopenInv, OutputInv, PopenP!FreadReturns, Taken
    <3>2. Len(Pieces(got)) = got /\ Pieces(got) \in Seq(Nat)
      BY <3>1 DEF Pieces, PopenInv
    <3>3. popenShown' = Pieces(command.out)
      BY <2>1, <3>1, <3>2
    <3> QED
      BY <2>1, <3>1, <3>3 DEF OutputInv
  <2> QED
    BY <2>1, <2>2 DEF PopenInv
<1>10. CASE PopenP!FreadEnd
  <2>1. Pieces(0) = <<>>
    BY DEF Pieces
  <2> QED
    BY <1>10, <2>1 DEF PopenP!FreadEnd, PopenInv, OutputInv, Taken
<1>11. CASE PopenP!Copy
  BY <1>11 DEF PopenP!Copy, PopenInv
<1>12. CASE PopenP!my_pclose
  BY <1>12 DEF PopenP!my_pclose, PopenInv, FdInv
<1>13. CASE UNCHANGED PopenP!vars
  BY <1>13 DEF PopenP!vars, PopenInv, OutputInv, Taken
<1> QED
  BY <1>1, <1>2, <1>3, <1>4, <1>5, <1>6, <1>7, <1>8, <1>9, <1>10, <1>11,
     <1>12, <1>13 DEF PopenP!Next, PopenP!CommandStep, PopenP!ProgramStep

\* For any number of commands and descriptors, whatever the commands write
\* and whenever they end: at the prompt none of them is running, and what
\* was shorter than the buffer has been shown whole and once.
THEOREM Prompting == PopenP!Spec => []PromptAfterCommand
<1>1. FdInv /\ PopenInv => PromptAfterCommand
  BY DEF PopenInv, PromptAfterCommand, PopenP!PromptAfterCommand, Pieces
<1>2. FdInv /\ PopenInv /\ [PopenP!Next]_(PopenP!vars) => (FdInv /\ PopenInv)'
  BY FdStep, PopenStep
<1> QED
  BY <1>1, <1>2, PopenStart, PTL DEF PopenP!Spec

-----------------------------------------------------------------------------
(* FileCopy.  A file that only grows keeps what it held at the start, so   *)
(* every length that is measured is still right when it is used.           *)

Chars == Bytes \cup {Copy!NUL, Copy!Odd}
Tees == {"tee", "tee_a"}
Begins(s, t) == Len(s) <= Len(t) /\ \A i \in 1..Len(s) : s[i] = t[i]

\* Which program a step is one of.
ToolInv ==
  /\ src \in Seq(Chars) /\ old \in Seq(Chars) /\ size \in Nat
  /\ tool = "none" => step = "start"
  /\ step = "start" => tool = "none" /\ stdout = <<>> /\ size = 0 /\ ~cut
  /\ step \in {"copy", "copy_read", "copy_write"} => tool = "copy"
  /\ step \in {"mmap", "mmap_target", "mmap_copy"} => tool = "mmap"
  /\ step = "mycat" => tool = "mycat"
  /\ step \in Tees => tool = step
  /\ step = "failed" => tool \in Tees
  /\ tool \in Tees => step \in Tees \cup {"failed"}

\* While the file only grows: what was measured is there, and what has been
\* read begins the file.
GrowInv ==
  ~cut /\ tool \notin Tees =>
    /\ Begins(old, src)
    /\ step \in {"copy_read", "mmap_target", "mmap_copy"} =>
         Len(old) <= size /\ size <= Len(src)
    /\ step = "copy_write" =>
         buf \in Seq(Chars) /\ Begins(old, buf) /\ Begins(buf, src)
    /\ step = "mycat" =>
         /\ stdout \in Seq(Chars) /\ Begins(stdout, src)
         /\ size = Len(stdout) /\ size <= Len(src)
    /\ step = "ended" =>
         LET copied == IF tool = "mycat" THEN stdout ELSE dst IN
           copied \in Seq(Chars) /\ Begins(old, copied) /\ Begins(copied, src)

TeeInv ==
  tool \in Tees =>
    dst \in Seq(Chars) /\ stdout \in Seq(Chars) /\ Copy!TeeCopies

CopyInv == ToolInv /\ GrowInv /\ TeeInv

LEMMA BeginsIsPrefix ==
  ASSUME NEW s \in Seq(Chars), NEW t \in Seq(Chars), Begins(s, t)
  PROVE  Copy!IsPrefix(s, t)
BY DEF Begins, Copy!IsPrefix

LEMMA EndIsSuffix ==
  ASSUME NEW s \in Seq(Chars), NEW t \in Seq(Chars)
  PROVE  Copy!IsSuffix(t, s \o t)
BY DEF Copy!IsSuffix, Copy!IsPrefix, Copy!Reverse

LEMMA TakeBegins ==
  ASSUME NEW s \in Seq(Chars), NEW n \in Nat, n <= Len(s)
  PROVE  /\ Copy!Take(s, n) \in Seq(Chars)
         /\ Len(Copy!Take(s, n)) = n
         /\ Begins(Copy!Take(s, n), s)
BY DEF Copy!Take, Begins

\* What is shown of a block are bytes of it, or of what comes after it.
LEMMA TextsType ==
  ASSUME NEW block \in Seq(Chars)
  PROVE  Copy!Texts(block) \subseteq Seq(Chars)
<1> DEFINE nuls == {i \in DOMAIN block : block[i] = Copy!NUL}
<1>1. CASE Copy!Contains(block, Copy!NUL)
  <2>1. nuls \subseteq Nat /\ nuls # {}
    BY <1>1 DEF Copy!Contains
  <2> HIDE DEF nuls
  <2>2. PICK m \in nuls : \A n \in nuls : ~(n < m)
    BY <2>1, LeastNumber
  <2>3. \A n \in nuls : m <= n
    BY <2>1, <2>2
  <2>4. Copy!Min(nuls) \in nuls
    BY <2>3 DEF Copy!Min
  <2>5. Copy!Min(nuls) \in 1..Len(block)
    BY <2>4 DEF nuls
  <2>6. Copy!Take(block, Copy!Min(nuls) - 1) \in Seq(Chars)
    BY <2>5, TakeBegins
  <2> QED
    BY <1>1, <2>6 DEF Copy!Texts, nuls
<1>2. CASE ~Copy!Contains(block, Copy!NUL)
  <2>1. block \o <<Copy!Odd>> \in Seq(Chars)
    BY DEF Chars
  <2> QED
    BY <1>2, <2>1 DEF Copy!Texts
<1> QED
  BY <1>1, <1>2

\* What a file holds at the start.
LEMMA ContentsType ==
  /\ Copy!Contents \subseteq Seq(Chars)
  /\ {<<>>} \cup {<<b>> : b \in Bytes} \subseteq Seq(Chars)
<1>1. ASSUME NEW s \in Copy!Contents PROVE s \in Seq(Chars)
  <2>1. PICK m \in 0..MaxLen : s \in [1..m -> Bytes \cup {Copy!NUL}]
    BY DEF Copy!Contents, Copy!SeqOf
  <2>2. m \in Nat /\ s \in [1..m -> Chars]
    BY <2>1, CopyAssumption DEF Chars
  <2> QED
    BY <2>2
<1>2. ASSUME NEW b \in Bytes PROVE <<b>> \in Seq(Chars)
  BY DEF Chars
<1>3. <<>> \in Seq(Chars)
  OBVIOUS
<1> QED
  BY <1>1, <1>2, <1>3

LEMMA CopyStart == Copy!Init => CopyInv
BY DEF Copy!Init, CopyInv, ToolInv, GrowInv, TeeInv, Tees, Begins

LEMMA ToolStep ==
  ASSUME ToolInv, [Copy!Next]_(Copy!vars)
  PROVE  ToolInv'
<1> USE DEF ToolInv, Tees
<1>1. CASE Copy!Start
  <2>1. /\ tool' \in {"copy", "mmap", "mycat", "tee", "tee_a"} /\ step' = tool'
        /\ size' = size
    BY <1>1 DEF Copy!Start
  <2>2. src' \in Seq(Chars) /\ old' \in Seq(Chars)
    BY <1>1, ContentsType DEF Copy!Start
  <2> QED
    BY <2>1, <2>2
<1>2. CASE Copy!Measure \/ Copy!ReadAll \/ Copy!WriteAll \/ Copy!MapSource
           \/ Copy!MapTarget \/ Copy!TeeEnds
  <2>1. UNCHANGED <<tool, src, old, cut>> /\ size' \in Nat
    BY <1>2 DEF Copy!Measure, Copy!ReadAll, Copy!WriteAll, Copy!MapSource,
       Copy!MapTarget, Copy!TeeEnds
  <2>2. \/ step = "copy" /\ step' = "copy_read"
        \/ step = "copy_read" /\ step' = "copy_write"
        \/ step = "copy_write" /\ step' = "ended"
        \/ step = "mmap" /\ step' = "mmap_target"
        \/ step = "mmap_target" /\ step' = "mmap_copy"
        \/ step \in Tees /\ step' = "failed"
    BY <1>2 DEF Copy!Measure, Copy!ReadAll, Copy!WriteAll, Copy!MapSource,
       Copy!MapTarget, Copy!TeeEnds
  <2> QED
    BY <2>1, <2>2
<1>3. CASE Copy!MapCopy
  <2>1. /\ step = "mmap_copy" /\ step' \in {"killed", "ended"}
        /\ UNCHANGED <<tool, src, size, buf, stdout, old, cut>>
    BY <1>3 DEF Copy!MapCopy
  <2> QED
    BY <2>1
<1>4. CASE Copy!CatBlock
  <2>1. /\ step = "mycat" /\ step' \in {"mycat", "ended"} /\ size' \in Nat
        /\ UNCHANGED <<tool, src, old, cut>>
    BY <1>4, CopyAssumption DEF Copy!CatBlock, Copy!Least
  <2> QED
    BY <2>1
<1>5. CASE Copy!TeeBlock
  <2>1. step \in Tees /\ UNCHANGED <<tool, size, old, cut>>
    BY <1>5 DEF Copy!TeeBlock
  <2>2. step' \in {step, "failed"}
    BY <1>5 DEF Copy!TeeBlock
  <2>3. PICK n \in 1..Copy!Least(BLOCK, Len(src)) :
          src' = SubSeq(src, n + 1, Len(src))
    BY <1>5 DEF Copy!TeeBlock
  <2>4. n \in Nat /\ n <= Len(src) /\ src \in Seq(Chars)
    BY CopyAssumption DEF Copy!Least
  <2>5. src' \in Seq(Chars)
    BY <2>3, <2>4
  <2> QED
    BY <2>1, <2>2, <2>5
<1>6. CASE Copy!Grow \/ Copy!Shrink
  <2>1. UNCHANGED <<step, tool, size, stdout, old>> /\ step # "start"
    BY <1>6 DEF Copy!Grow, Copy!Shrink, Copy!Busy
  <2>2. src' \in Seq(Chars)
    <3>1. \A b \in Bytes : Append(src, b) \in Seq(Chars)
      BY DEF Chars
    <3>2. \A n \in 0..Len(src) - 1 : Copy!Take(src, n) \in Seq(Chars)
      BY TakeBegins
    <3> QED
      BY <1>6, <3>1, <3>2 DEF Copy!Grow, Copy!Shrink
  <2> QED
    BY <2>1, <2>2
<1>7. CASE UNCHANGED Copy!vars
  BY <1>7 DEF Copy!vars
<1> QED
  BY <1>1, <1>2, <1>3, <1>4, <1>5, <1>6, <1>7 DEF Copy!Next

LEMMA GrowStep ==
  ASSUME ToolInv, GrowInv, [Copy!Next]_(Copy!vars)
  PROVE  GrowInv'
<1> SUFFICES ASSUME ~cut', tool' \notin Tees PROVE GrowInv'
  BY DEF GrowInv
<1> USE DEF ToolInv
<1>1. CASE Copy!Start
  <2>1. step' = tool' /\ tool' \in {"copy", "mmap", "mycat"}
    BY <1>1 DEF Copy!Start, Tees
  <2>2. /\ src' \in Seq(Chars) /\ old' = src' /\ stdout' = <<>> /\ size' = 0
    BY <1>1, <2>1, ContentsType DEF Copy!Start, Tees
  <2>3. Begins(old', src') /\ Begins(stdout', src')
    BY <2>2 DEF Begins
  <2> QED
    BY <2>1, <2>2, <2>3 DEF GrowInv, Begins
<1>2. CASE Copy!Measure \/ Copy!MapSource
  <2>1. /\ size' = Len(src) /\ step' \in {"copy_read", "mmap_target"}
        /\ UNCHANGED <<tool, src, old, cut>>
    BY <1>2 DEF Copy!Measure, Copy!MapSource
  <2>2. Begins(old, src) /\ Len(old) <= Len(src)
    BY <2>1 DEF GrowInv, Begins
  <2>3. Begins(old', src') /\ Len(old') <= size' /\ size' <= Len(src')
    BY <2>1, <2>2
  <2> QED
    BY <2>1, <2>3 DEF GrowInv
<1>3. CASE Copy!ReadAll
  <2>1. /\ step = "copy_read" /\ step' = "copy_write"
        /\ UNCHANGED <<tool, src, dst, size, stdout, old, cut>>
        /\ LET n == Copy!Least(size, Len(src)) IN
             buf' = Copy!Take(src, n) \o Copy!Fill(Copy!Odd, size - n)
    BY <1>3 DEF Copy!ReadAll
  <2>2. /\ Len(old) <= size /\ size <= Len(src) /\ Begins(old, src)
        /\ size \in Nat /\ old \in Seq(Chars) /\ src \in Seq(Chars)
    BY <2>1 DEF GrowInv
  <2>3. Copy!Least(size, Len(src)) = size
    BY <2>2 DEF Copy!Least
  <2>4. Copy!Fill(Copy!Odd, size - size) = <<>>
    BY <2>2 DEF Copy!Fill
  <2>5. buf' = Copy!Take(src, size) \o <<>>
    BY <2>1, <2>3, <2>4
  <2>6. /\ Copy!Take(src, size) \in Seq(Chars)
        /\ Len(Copy!Take(src, size)) = size /\ Begins(Copy!Take(src, size), src)
    BY <2>2, TakeBegins
  <2>7. buf' = Copy!Take(src, size)
    BY <2>5, <2>6, SMTT(20)
  <2>8. Begins(old, buf') /\ Begins(buf', src)
    BY <2>2, <2>6, <2>7 DEF Begins
  <2> QED
    BY <2>1, <2>2, <2>6, <2>7, <2>8 DEF GrowInv, Begins
<1>4. CASE Copy!WriteAll
  BY <1>4 DEF Copy!WriteAll, GrowInv, ToolInv, Begins
<1>5. CASE Copy!MapTarget
  BY <1>5 DEF Copy!MapTarget, GrowInv, ToolInv, Begins
<1>6. CASE Copy!MapCopy
  <2>1. /\ step = "mmap_copy" /\ step' \in {"killed", "ended"} /\ tool = "mmap"
        /\ UNCHANGED <<tool, src, size, buf, stdout, old, cut>>
        /\ LET there == Copy!Least(size, Len(src)) IN
             dst' = Copy!Take(src, there) \o Copy!Fill(Copy!NUL, size - there)
    BY <1>6 DEF Copy!MapCopy
  <2>2. /\ Len(old) <= size /\ size <= Len(src) /\ Begins(old, src)
        /\ size \in Nat /\ old \in Seq(Chars) /\ src \in Seq(Chars)
    BY <2>1 DEF GrowInv
  <2>3. Copy!Least(size, Len(src)) = size
    BY <2>2 DEF Copy!Least
  <2>4. Copy!Fill(Copy!NUL, size - size) = <<>>
    BY <2>2 DEF Copy!Fill
  <2>5. dst' = Copy!Take(src, size) \o <<>>
    BY <2>1, <2>3, <2>4
  <2>6. /\ Copy!Take(src, size) \in Seq(Chars)
        /\ Len(Copy!Take(src, size)) = size /\ Begins(Copy!Take(src, size), src)
    BY <2>2, TakeBegins
  <2>7. dst' = Copy!Take(src, size)
    BY <2>5, <2>6, SMTT(20)
  <2>8. Begins(old, dst') /\ Begins(dst', src)
    BY <2>2, <2>6, <2>7 DEF Begins
  <2> QED
    BY <2>1, <2>2, <2>6, <2>7, <2>8 DEF GrowInv, Begins
<1>7. CASE Copy!CatBlock
  <2> DEFINE n == Copy!Least(BLOCK, Len(src) - size)
  <2>1. /\ step = "mycat" /\ tool = "mycat"
        /\ UNCHANGED <<tool, src, dst, buf, old, cut>>
        /\ IF n > 0 THEN /\ stdout' = stdout \o SubSeq(src, size + 1, size + n)
                         /\ size' = size + n /\ step' = step
           ELSE step' = "ended" /\ UNCHANGED <<stdout, size>>
    BY <1>7 DEF Copy!CatBlock
  <2>2. /\ Begins(old, src) /\ stdout \in Seq(Chars) /\ Begins(stdout, src)
        /\ size = Len(stdout) /\ size <= Len(src) /\ src \in Seq(Chars)
        /\ size \in Nat /\ old \in Seq(Chars)
    BY <2>1 DEF GrowInv
  <2>3. n \in Int /\ n <= Len(src) - size /\ (n <= 0 => size = Len(src))
    BY <2>2, CopyAssumption DEF Copy!Least
  <2> HIDE DEF n
  <2>4. CASE n > 0
    <3> DEFINE more == SubSeq(src, size + 1, size + n)
    <3>1. /\ more \in Seq(Chars) /\ Len(more) = n
          /\ \A i \in 1..n : more[i] = src[size + i]
      BY <2>2, <2>3, <2>4, SMTT(30)
    <3>2. stdout' = stdout \o more /\ n \in Nat
      BY SMTT(20), <2>1, <2>3, <2>4
    <3> HIDE DEF more
    <3>3. stdout' \in Seq(Chars) /\ Len(stdout') = size + n
      <4>1. stdout \in Seq(Chars) /\ more \in Seq(Chars)
        BY <2>2, <3>1
      <4>2. /\ stdout \o more \in Seq(Chars)
            /\ Len(stdout \o more) = Len(stdout) + Len(more)
        BY <4>1
      <4> QED
        BY <2>2, <3>1, <3>2, <4>2
    <3>4. Begins(stdout', src)
      BY <2>2, <2>3, <3>1, <3>2, <3>3 DEF Begins
    <3> QED
      BY <2>1, <2>2, <2>3, <2>4, <3>3, <3>4 DEF GrowInv, Begins
  <2>5. CASE ~(n > 0)
    <3>1. Begins(old, stdout)
      BY <2>2, <2>3, <2>5 DEF Begins
    <3> QED
      BY <2>1, <2>2, <2>5, <3>1 DEF GrowInv, Begins
  <2> QED
    BY <2>4, <2>5
<1>8. CASE Copy!TeeBlock \/ Copy!TeeEnds
  <2>1. step \in Tees /\ tool' = tool
    BY <1>8 DEF Copy!TeeBlock, Copy!TeeEnds, Tees
  <2> QED
    BY <2>1
<1>9. CASE Copy!Grow
  <2>1. PICK b \in Bytes : src' = Append(src, b)
    BY <1>9 DEF Copy!Grow
  <2>2. /\ UNCHANGED <<step, tool, dst, size, buf, stdout, old, cut>>
        /\ step # "ended"
    BY <1>9 DEF Copy!Grow, Copy!Busy
  <2>3. Len(src') = Len(src) + 1 /\ \A i \in 1..Len(src) : src'[i] = src[i]
    <3>1. b \in Chars
      BY DEF Chars
    <3> QED
      BY <2>1, <3>1
  <2>4. \A s \in Seq(Chars) : Begins(s, src) => Begins(s, src')
    BY <2>3 DEF Begins
  <2>5. Begins(old, src')
    BY <2>2, <2>4 DEF GrowInv
  <2>6. step \in {"copy_read", "mmap_target", "mmap_copy"} =>
          Len(old) <= size /\ size <= Len(src')
    BY <2>2, <2>3 DEF GrowInv
  <2>7. step = "copy_write" =>
          buf \in Seq(Chars) /\ Begins(old, buf) /\ Begins(buf, src')
    BY <2>2, <2>4 DEF GrowInv
  <2>8. step = "mycat" =>
          /\ stdout \in Seq(Chars) /\ Begins(stdout, src')
          /\ size = Len(stdout) /\ size <= Len(src')
    BY <2>2, <2>3, <2>4 DEF GrowInv
  <2> QED
    BY <2>2, <2>5, <2>6, <2>7, <2>8 DEF GrowInv, Begins
<1>10. CASE Copy!Shrink
  BY <1>10 DEF Copy!Shrink
<1>11. CASE UNCHANGED Copy!vars
  BY <1>11 DEF Copy!vars, GrowInv, Begins
<1> QED
  BY <1>1, <1>2, <1>3, <1>4, <1>5, <1>6, <1>7, <1>8, <1>9, <1>10, <1>11
  DEF Copy!Next

LEMMA TeeStep ==
  ASSUME ToolInv, TeeInv, [Copy!Next]_(Copy!vars)
  PROVE  TeeInv'
<1> SUFFICES ASSUME tool' \in Tees PROVE TeeInv'
  BY DEF TeeInv
<1>1. CASE Copy!Start
  <2>1. dst' \in Seq(Chars) /\ dst' = old'
    BY <1>1, ContentsType DEF Copy!Start, Tees
  <2>2. stdout' = <<>>
    BY <1>1 DEF Copy!Start, ToolInv
  <2> QED
    <3>1. stdout' \in Seq(Chars) /\ old' \o stdout' = dst'
      BY <2>1, <2>2
    <3> QED
      BY <2>1, <2>2, <3>1 DEF TeeInv, Copy!TeeCopies
<1>2. CASE Copy!TeeBlock
  <2>1. /\ step \in Tees /\ tool = step /\ UNCHANGED <<tool, old>>
        /\ dst \in Seq(Chars) /\ stdout \in Seq(Chars) /\ Copy!TeeCopies
        /\ old \in Seq(Chars) /\ src \in Seq(Chars)
    BY <1>2 DEF Copy!TeeBlock, Tees, TeeInv, ToolInv
  <2>2. PICK n \in 1..Copy!Least(BLOCK, Len(src)) :
          \E text1 \in Copy!Texts(Copy!Take(src, n)) :
            /\ stdout' = stdout \o text1
            /\ IF text1 = <<>> THEN step' = "failed" /\ UNCHANGED dst
               ELSE /\ dst' = (IF tool = "tee_a" THEN dst ELSE <<>>) \o text1
                    /\ UNCHANGED step
    BY <1>2 DEF Copy!TeeBlock
  <2>3. PICK text1 \in Copy!Texts(Copy!Take(src, n)) :
          /\ stdout' = stdout \o text1
          /\ IF text1 = <<>> THEN step' = "failed" /\ UNCHANGED dst
             ELSE /\ dst' = (IF tool = "tee_a" THEN dst ELSE <<>>) \o text1
                  /\ UNCHANGED step
    BY <2>2
  <2>4. text1 \in Seq(Chars)
    <3>1. n \in Nat /\ n <= Len(src)
      BY <2>1, CopyAssumption DEF Copy!Least
    <3> QED
      BY <2>1, <2>3, <3>1, TakeBegins, TextsType
  <2>5. CASE text1 = <<>>
    <3>1. stdout' = stdout /\ dst' = dst
      BY <2>1, <2>3, <2>5
    <3> QED
      BY <2>1, <3>1 DEF TeeInv, Copy!TeeCopies
  <2>6. CASE text1 # <<>> /\ tool = "tee_a"
    <3>1. dst' = dst \o text1 /\ stdout' = stdout \o text1
      BY <2>3, <2>6
    <3>2. dst = old \o stdout
      BY <2>1, <2>6 DEF Copy!TeeCopies
    <3>3. dst' = old \o stdout'
      BY <2>1, <2>4, <3>1, <3>2
    <3>4. dst' \in Seq(Chars) /\ stdout' \in Seq(Chars)
      BY <2>1, <2>4, <3>1
    <3> QED
      BY <2>1, <2>6, <3>3, <3>4 DEF TeeInv, Copy!TeeCopies
  <2>7. CASE text1 # <<>> /\ tool = "tee"
    <3>1. dst' = text1 /\ stdout' = stdout \o text1
      BY <2>3, <2>4, <2>7
    <3>2. Copy!IsSuffix(text1, stdout \o text1)
      BY <2>1, <2>4, EndIsSuffix
    <3>3. Copy!IsSuffix(dst', stdout')
      BY <3>1, <3>2
    <3>4. stdout' \in Seq(Chars)
      BY <2>1, <2>4, <3>1
    <3> QED
      BY <2>1, <2>4, <2>7, <3>1, <3>3, <3>4 DEF TeeInv, Copy!TeeCopies
  <2> QED
    BY <2>1, <2>5, <2>6, <2>7 DEF Tees
<1>3. CASE Copy!TeeEnds \/ UNCHANGED Copy!vars
  <2>1. UNCHANGED <<tool, dst, stdout, old>>
    BY <1>3 DEF Copy!TeeEnds, Copy!vars
  <2> QED
    BY <2>1 DEF TeeInv, Copy!TeeCopies
<1>4. CASE Copy!Measure \/ Copy!ReadAll \/ Copy!WriteAll \/ Copy!MapSource
           \/ Copy!MapTarget \/ Copy!MapCopy \/ Copy!CatBlock
           \/ Copy!Grow \/ Copy!Shrink
  <2>1. tool' = tool /\ tool \notin Tees
    BY <1>4 DEF Copy!Measure, Copy!ReadAll, Copy!WriteAll, Copy!MapSource,
       Copy!MapTarget, Copy!MapCopy, Copy!CatBlock, Copy!Grow, Copy!Shrink,
       Copy!Busy, ToolInv, Tees
  <2> QED
    BY <2>1
<1> QED
  BY <1>1, <1>2, <1>3, <1>4 DEF Copy!Next

\* For files and blocks of any size, whatever is appended to the file while
\* it is copied: the copy begins it and holds what it held before; and tee
\* appends what it shows with "-a", and keeps the end of it without.
THEOREM Copying == Copy!Spec => []CopyFaithful
<1>1. CopyInv => CopyFaithful
  <2> SUFFICES ASSUME CopyInv PROVE CopyFaithful
    OBVIOUS
  <2>1. Copy!GrowingFileCopied
    <3> SUFFICES ASSUME step = "ended", ~cut PROVE
          LET copied == IF tool = "mycat" THEN stdout ELSE dst IN
            Copy!IsPrefix(old, copied) /\ Copy!IsPrefix(copied, src)
      BY DEF Copy!GrowingFileCopied
    <3> DEFINE copied == IF tool = "mycat" THEN stdout ELSE dst
    <3>1. /\ copied \in Seq(Chars) /\ Begins(old, copied) /\ Begins(copied, src)
          /\ old \in Seq(Chars) /\ src \in Seq(Chars)
      BY DEF CopyInv, ToolInv, GrowInv, Tees
    <3> HIDE DEF copied
    <3>2. Copy!IsPrefix(old, copied) /\ Copy!IsPrefix(copied, src)
      BY <3>1, BeginsIsPrefix
    <3> QED
      BY <3>2 DEF copied
  <2>2. Copy!TeeCopies
    BY DEF CopyInv, TeeInv, Tees, Copy!TeeCopies
  <2> QED
    BY <2>1, <2>2 DEF CopyFaithful, Copy!CopyFaithful
<1>2. CopyInv /\ [Copy!Next]_(Copy!vars) => CopyInv'
  BY ToolStep, GrowStep, TeeStep DEF CopyInv
<1> QED
  BY <1>1, <1>2, CopyStart, PTL DEF Copy!Spec

-----------------------------------------------------------------------------
(* DictFile.  The records are the entries that have been read, in their    *)
(* order; f, which record is which entry, is kept nowhere, so that the     *)
(* invariant says that there is one.                                       *)

\* How far convert has come in the text.
Pos == Len(text) - Len(rest)

RestInv ==
  /\ text \in Seq(Dict!AllLines) /\ rest \in Seq(Dict!AllLines)
  /\ Len(rest) <= Len(text)
  /\ \A i \in 1..Len(rest) : rest[i] = text[Pos + i]
  /\ Pos = 0 \/ text[Pos] = Dict!Blank

Records(f) ==
  /\ f \in [1..Len(datafile) -> Dict!Entries]
  /\ \A i, j \in 1..Len(datafile) : i < j => f[i][1] < f[j][1]
  /\ \A i \in 1..Len(datafile) :
       /\ f[i][2] <= Pos
       /\ datafile[i].word = text[f[i][1]]
       /\ datafile[i].text = Dict!Definition(f[i])
  /\ \A e \in Dict!Entries : e[2] <= Pos => \E i \in 1..Len(datafile) : f[i] = e

Kept == [word : Dict!AllLines, text : Seq(Dict!AllLines)]
AllRecorded == \E f : Records(f)

DictInv ==
  /\ step \in {"start", "convert"} => dictShown = <<>>
  /\ step = "start" => datafile = <<>> /\ ~present
  /\ step = "convert" => present
  /\ present => RestInv /\ datafile \in Seq(Kept) /\ (Dict!InForm => AllRecorded)
  /\ present /\ step # "convert" => Dict!Ends(rest) = {}
  /\ LookupRight

\* What an entry is.
LEMMA EntryIs ==
  ASSUME RestInv, NEW e \in Dict!Entries
  PROVE  /\ e[1] \in 1..Len(text) /\ e[2] \in 1..Len(text)
         /\ e = <<e[1], e[2]>>
         /\ e[1] < e[2] /\ text[e[2]] = Dict!Blank
         /\ e[1] = 1 \/ text[e[1] - 1] = Dict!Blank
         /\ \A i \in e[1] .. e[2] - 1 : text[i] # Dict!Blank
BY DEF Dict!Entries, RestInv

\* Two entries do not overlap: they begin at lines of their own.
LEMMA EntryStarts ==
  ASSUME RestInv, NEW d \in Dict!Entries, NEW e \in Dict!Entries, d[1] = e[1]
  PROVE  d = e
<1>1. d[2] = e[2]
  BY EntryIs
<1> QED
  BY <1>1, EntryIs

\* In a text in the form, the line at which convert stands is not blank.
LEMMA FirstLine ==
  ASSUME RestInv, Dict!InForm, NEW i \in 1..Len(rest), rest[i] = Dict!Blank
  PROVE  i > 1
<1>1. /\ Pos \in Nat /\ Pos + i \in 1..Len(text) /\ text[Pos + i] = Dict!Blank
      /\ DOMAIN text = 1..Len(text)
  BY DEF RestInv, Pos
<1>2. PICK p \in DOMAIN text : p = Pos + i /\ text[p] = Dict!Blank
  BY <1>1
<1>3. p > 1 /\ text[p - 1] # Dict!Blank
  BY <1>2, Zenon DEF Dict!InForm
<1>4. SUFFICES ASSUME i = 1 PROVE FALSE
  OBVIOUS
<1>5. p - 1 = Pos /\ Pos > 0
  BY <1>1, <1>2, <1>3, <1>4
<1> QED
  BY <1>1, <1>3, <1>5 DEF RestInv

\* The first of the lines that end a definition.
LEMMA FirstEnd ==
  ASSUME RestInv, Dict!Ends(rest) # {}
  PROVE  /\ Dict!Min(Dict!Ends(rest)) \in 2..Len(rest)
         /\ rest[Dict!Min(Dict!Ends(rest))] = Dict!Blank
         /\ \A i \in 2..Dict!Min(Dict!Ends(rest)) - 1 : rest[i] # Dict!Blank
<1>1. /\ Dict!Ends(rest) \subseteq Nat
      /\ \A i : i \in Dict!Ends(rest) <=> i \in 2..Len(rest) /\ rest[i] = Dict!Blank
  BY DEF Dict!Ends, RestInv
<1> DEFINE ending == Dict!Ends(rest)
<1> HIDE DEF ending
<1>2. PICK m \in ending : \A n \in ending : ~(n < m)
  BY <1>1, LeastNumber DEF ending
<1>3. \A n \in ending : m <= n
  BY <1>1, <1>2 DEF ending
<1>4. Dict!Min(ending) \in ending /\ \A n \in ending : Dict!Min(ending) <= n
  BY <1>3 DEF Dict!Min
<1>5. Len(rest) \in Nat
  BY DEF RestInv
<1>6. /\ Dict!Min(ending) \in 2..Len(rest) /\ rest[Dict!Min(ending)] = Dict!Blank
      /\ \A n \in 2..Len(rest) : rest[n] = Dict!Blank => Dict!Min(ending) <= n
  BY <1>1, <1>4 DEF ending
<1> HIDE DEF ending
<1>7. \A i \in 2..Dict!Min(ending) - 1 : rest[i] # Dict!Blank
  BY <1>5, <1>6
<1> QED
  BY <1>6, <1>7 DEF ending

\* The entry that convert reads next, and that there is no other up to its
\* end.
LEMMA NextEntry ==
  ASSUME RestInv, Dict!InForm, NEW end \in 2..Len(rest),
         rest[end] = Dict!Blank, \A i \in 2..end - 1 : rest[i] # Dict!Blank
  PROVE  /\ <<Pos + 1, Pos + end>> \in Dict!Entries
         /\ \A e \in Dict!Entries :
              e[2] <= Pos \/ e[2] > Pos + end \/ e = <<Pos + 1, Pos + end>>
<1>1. /\ Pos \in Nat /\ Len(rest) \in Nat /\ Len(text) \in Nat
      /\ Len(text) = Pos + Len(rest) /\ DOMAIN text = 1..Len(text)
  BY DEF RestInv, Pos
<1>2. \A i \in 1..Len(rest) : text[Pos + i] = rest[i]
  BY DEF RestInv
<1>3. \A i \in 1..end - 1 : rest[i] # Dict!Blank
  BY <1>1, FirstLine
<1>4. Pos = 0 \/ text[Pos] = Dict!Blank
  BY DEF RestInv
<1>5. \A i \in Pos + 1 .. Pos + end - 1 : text[i] # Dict!Blank
  <2> SUFFICES ASSUME NEW i \in Pos + 1 .. Pos + end - 1
               PROVE  text[i] # Dict!Blank
    OBVIOUS
  <2>1. i - Pos \in 1..end - 1 /\ i - Pos \in 1..Len(rest) /\ Pos + (i - Pos) = i
    BY <1>1
  <2> QED
    BY <1>2, <1>3, <2>1
<1>6. text[Pos + end] = Dict!Blank
  BY <1>1, <1>2
<1> HIDE DEF Pos
<1>7. <<Pos + 1, Pos + end>> \in Dict!Entries
  <2>1. <<Pos + 1, Pos + end>> \in (DOMAIN text) \X (DOMAIN text)
    BY <1>1
  <2>2. Pos + 1 < Pos + end
    BY <1>1
  <2> DEFINE en == <<Pos + 1, Pos + end>>
  <2>4. /\ en[1] = Pos + 1 /\ en[2] = Pos + end
        /\ en[1] - 1 = Pos /\ en[2] - 1 = Pos + end - 1
    BY <1>1
  <2> HIDE DEF en
  <2>5. /\ en[1] < en[2] /\ text[en[2]] = Dict!Blank
        /\ en[1] = 1 \/ text[en[1] - 1] = Dict!Blank
        /\ \A i \in en[1] .. en[2] - 1 : text[i] # Dict!Blank
    <3>1. en[1] < en[2] /\ text[en[2]] = Dict!Blank
      BY <1>6, <2>2, <2>4
    <3>2. en[1] = 1 \/ text[en[1] - 1] = Dict!Blank
      BY <1>4, <2>4
    <3>3. \A i \in en[1] .. en[2] - 1 : text[i] # Dict!Blank
      BY <1>5, <2>4
    <3> QED
      BY <3>1, <3>2, <3>3
  <2>6. en \in Dict!Entries
    <3>1. en \in (DOMAIN text) \X (DOMAIN text)
      BY <2>1 DEF en
    <3> QED
      BY <2>5, <3>1 DEF Dict!Entries
  <2> QED
    BY <2>6 DEF en
<1>8. ASSUME NEW e \in Dict!Entries, e[2] > Pos, e[2] <= Pos + end
      PROVE  e = <<Pos + 1, Pos + end>>
  <2>1. /\ e[1] \in 1..Len(text) /\ e[2] \in 1..Len(text) /\ e = <<e[1], e[2]>>
        /\ e[1] < e[2] /\ text[e[2]] = Dict!Blank
        /\ e[1] = 1 \/ text[e[1] - 1] = Dict!Blank
        /\ \A i \in e[1] .. e[2] - 1 : text[i] # Dict!Blank
    BY EntryIs
  <2>2. e[2] = Pos + end
    BY SMTT(20), <1>1, <1>5, <1>8, <2>1
  <2>3. e[1] > Pos
    BY <1>1, <1>4, <1>8, <2>1
  <2>4. e[1] = Pos + 1
    BY SMTT(20), <1>1, <1>5, <2>1, <2>2, <2>3
  <2> QED
    BY <2>1, <2>2, <2>4
<1> QED
  BY <1>1, <1>7, <1>8, EntryIs

\* The record that convert adds.
LEMMA NextRecord ==
  ASSUME RestInv, datafile \in Seq(Kept), Dict!InForm, AllRecorded,
         Dict!ConvertEntry
  PROVE  AllRecorded'
<1> DEFINE end == Dict!Min(Dict!Ends(rest))
           en  == <<Pos + 1, Pos + end>>
<1>1. /\ Dict!Ends(rest) # {} /\ text' = text
      /\ datafile' = Append(datafile, [word |-> rest[1],
                                      text |-> SubSeq(rest, 2, end - 1)])
      /\ rest' = SubSeq(rest, end + 1, Len(rest))
  BY DEF Dict!ConvertEntry
<1>2. /\ end \in 2..Len(rest) /\ rest[end] = Dict!Blank
      /\ \A i \in 2..end - 1 : rest[i] # Dict!Blank
  BY <1>1, FirstEnd
<1>3. /\ en \in Dict!Entries
      /\ \A e \in Dict!Entries : e[2] <= Pos \/ e[2] > Pos + end \/ e = en
  BY <1>2, NextEntry
<1> HIDE DEF end
<1>4. /\ Pos \in Nat /\ Len(rest) \in Nat /\ Len(text) = Pos + Len(rest)
      /\ \A i \in 1..Len(rest) : rest[i] = text[Pos + i]
      /\ text \in Seq(Dict!AllLines) /\ rest \in Seq(Dict!AllLines)
      /\ Len(text) \in Nat
  BY DEF RestInv, Pos
<1>5. Pos' = Pos + end
  <2>1. Len(rest') = Len(rest) - end
    BY <1>1, <1>2, <1>4
  <2>2. Len(text') = Len(text)
    BY <1>1
  <2> QED
    BY <1>2, <1>4, <2>1, <2>2 DEF Pos
<1>6. SubSeq(rest, 2, end - 1) = Dict!Definition(en)
  <2>1. Dict!Definition(en) = SubSeq(text, Pos + 2, Pos + end - 1)
    <3>1. en[1] + 1 = Pos + 2 /\ en[2] - 1 = Pos + end - 1
      BY <1>2, <1>4
    <3> QED
      BY <3>1 DEF Dict!Definition
  <2> HIDE DEF Pos
  <2>2. \A i \in 2..end - 1 : rest[i] = text[Pos + i]
    BY <1>2, <1>4
  <2>3. SubSeq(rest, 2, end - 1) = SubSeq(text, Pos + 2, Pos + end - 1)
    BY <1>2, <1>4, <2>2, SMTT(30)
  <2> QED
    BY <2>1, <2>3
<1> DEFINE k   == Len(datafile)
           new == [word |-> rest[1], text |-> SubSeq(rest, 2, end - 1)]
<1>7. k \in Nat
  OBVIOUS
<1>8. /\ Len(datafile') = k + 1 /\ datafile'[k + 1] = new
      /\ \A i \in 1..k : datafile'[i] = datafile[i]
  BY <1>1
<1>9. new.word = text[Pos + 1] /\ new.text = Dict!Definition(en)
  <2>1. rest[1] = text[Pos + 1]
    <3> HIDE DEF Pos
    <3>1. 1 \in 1..Len(rest)
      BY <1>2, <1>4
    <3> QED
      BY <1>4, <3>1
  <2> QED
    BY <1>6, <2>1
<1>10. en[1] = Pos + 1 /\ en[2] = Pos + end
  OBVIOUS
<1>11. PICK f : Records(f)
  BY DEF AllRecorded
<1>g. PICK g : g = [i \in 1..k + 1 |-> IF i = k + 1 THEN en ELSE f[i]]
  OBVIOUS
<1>12. /\ f \in [1..k -> Dict!Entries]
       /\ \A i, j \in 1..k : i < j => f[i][1] < f[j][1]
       /\ \A i \in 1..k : /\ f[i][2] <= Pos
                           /\ datafile[i].word = text[f[i][1]]
                           /\ datafile[i].text = Dict!Definition(f[i])
       /\ \A e \in Dict!Entries : e[2] <= Pos => \E i \in 1..k : f[i] = e
  BY <1>11 DEF Records
<1>13. \A i \in 1..k : f[i][1] < Pos + 1 /\ f[i] \in Dict!Entries
  <2> SUFFICES ASSUME NEW i \in 1..k PROVE f[i][1] < Pos + 1 /\ f[i] \in Dict!Entries
    OBVIOUS
  <2>1. f[i] \in Dict!Entries /\ f[i][2] <= Pos
    BY <1>12
  <2> QED
    BY <1>4, <2>1, EntryIs
<1> HIDE DEF en, new, k
<1>14. /\ \A i \in 1..k : g[i] = f[i]
       /\ g[k + 1] = en
       /\ DOMAIN g = 1..k + 1
  BY <1>7, <1>g
<1>15. g \in [1..k + 1 -> Dict!Entries]
  BY <1>3, <1>7, <1>13, <1>g
<1> HIDE DEF Pos
<1>16. \A i, j \in 1..k + 1 : i < j => g[i][1] < g[j][1]
  <2> SUFFICES ASSUME NEW i \in 1..k + 1, NEW j \in 1..k + 1, i < j
               PROVE  g[i][1] < g[j][1]
    OBVIOUS
  <2>1. i \in 1..k
    BY <1>7
  <2>2. CASE j = k + 1
    BY <1>10, <1>13, <1>14, <2>1, <2>2
  <2>3. CASE j # k + 1
    BY <1>7, <1>12, <1>14, <2>1, <2>3
  <2> QED
    BY <2>2, <2>3
<1>17. \A i \in 1..k + 1 : /\ g[i][2] <= Pos + end
                           /\ datafile'[i].word = text[g[i][1]]
                           /\ datafile'[i].text = Dict!Definition(g[i])
  <2> SUFFICES ASSUME NEW i \in 1..k + 1
               PROVE  /\ g[i][2] <= Pos + end
                      /\ datafile'[i].word = text[g[i][1]]
                      /\ datafile'[i].text = Dict!Definition(g[i])
    OBVIOUS
  <2>1. CASE i = k + 1
    BY <1>2, <1>4, <1>8, <1>9, <1>10, <1>14, <2>1
  <2>2. CASE i \in 1..k
    <3>1. f[i][2] \in Nat
      BY <1>4, <1>13, <2>2, EntryIs
    <3> QED
      BY SMTT(20), <1>2, <1>4, <1>8, <1>12, <1>14, <2>2, <3>1
  <2> QED
    BY <1>7, <2>1, <2>2
<1>18. \A e \in Dict!Entries : e[2] <= Pos + end => \E i \in 1..k + 1 : g[i] = e
  <2> SUFFICES ASSUME NEW e \in Dict!Entries, e[2] <= Pos + end
               PROVE  \E i \in 1..k + 1 : g[i] = e
    OBVIOUS
  <2>1. e[2] \in Nat
    BY <1>4, EntryIs
  <2>2. CASE e[2] <= Pos
    <3>1. PICK i \in 1..k : f[i] = e
      BY <1>12, <2>2
    <3> QED
      BY <1>7, <1>14, <3>1
  <2>3. CASE e = en
    BY <1>7, <1>14, <2>3
  <2> QED
    BY <1>2, <1>3, <1>4, <2>1, <2>2, <2>3
<1>19. Dict!Entries' = Dict!Entries
  BY <1>1 DEF Dict!Entries
<1>20. Records(g)'
  <2>1. \A i \in 1..k + 1 :
          /\ g[i][2] <= Pos'
          /\ datafile'[i].word = text'[g[i][1]]
          /\ datafile'[i].text = SubSeq(text', g[i][1] + 1, g[i][2] - 1)
    BY <1>1, <1>5, <1>17 DEF Dict!Definition
  <2>2. g \in [1..Len(datafile') -> Dict!Entries']
    BY <1>8, <1>15, <1>19
  <2>3. \A e \in Dict!Entries' :
          e[2] <= Pos' => \E i \in 1..Len(datafile') : g[i] = e
    BY <1>5, <1>8, <1>18, <1>19
  <2> QED
    BY <1>8, <1>16, <2>1, <2>2, <2>3 DEF Records, Dict!Definition
<1> QED
  BY <1>20 DEF AllRecorded

\* What convert does to the text and the rest of it.
LEMMA RestStep ==
  ASSUME RestInv, datafile \in Seq(Kept), Dict!ConvertEntry
  PROVE  RestInv' /\ (datafile \in Seq(Kept))'
<1> DEFINE end == Dict!Min(Dict!Ends(rest))
<1>1. /\ Dict!Ends(rest) # {} /\ text' = text
      /\ datafile' = Append(datafile, [word |-> rest[1],
                                      text |-> SubSeq(rest, 2, end - 1)])
      /\ rest' = SubSeq(rest, end + 1, Len(rest))
  BY DEF Dict!ConvertEntry
<1>2. end \in 2..Len(rest) /\ rest[end] = Dict!Blank
  BY <1>1, FirstEnd
<1> HIDE DEF end
<1>3. /\ Pos \in Nat /\ Len(rest) \in Nat /\ Len(text) = Pos + Len(rest)
      /\ \A i \in 1..Len(rest) : rest[i] = text[Pos + i]
      /\ text \in Seq(Dict!AllLines) /\ rest \in Seq(Dict!AllLines)
      /\ Len(text) \in Nat
  BY DEF RestInv, Pos
<1>4. /\ rest' \in Seq(Dict!AllLines) /\ Len(rest') = Len(rest) - end
      /\ \A i \in 1..Len(rest) - end : rest'[i] = rest[end + i]
  BY <1>1, <1>2, <1>3, SMTT(30)
<1>5. Pos' = Pos + end
  <2>1. Len(text') = Len(text) /\ Len(rest') = Len(rest) - end
    BY <1>1, <1>4
  <2> QED
    BY <1>2, <1>3, <2>1 DEF Pos
<1>6. RestInv'
  <2> HIDE DEF Pos
  <2>1. \A i \in 1..Len(rest') : rest'[i] = text'[Pos' + i]
    <3> SUFFICES ASSUME NEW i \in 1..Len(rest) - end
                 PROVE  rest'[i] = text[Pos + end + i]
      BY <1>1, <1>4, <1>5
    <3>1. end + i \in 1..Len(rest) /\ Pos + (end + i) = Pos + end + i
      BY <1>2, <1>3
    <3> QED
      BY <1>3, <1>4, <3>1
  <2>2. text'[Pos'] = Dict!Blank
    BY <1>1, <1>2, <1>3, <1>5
  <2>3. Len(rest') <= Len(text')
    BY <1>1, <1>2, <1>3, <1>4
  <2> QED
    BY <1>1, <1>3, <1>4, <2>1, <2>2, <2>3 DEF RestInv
<1>7. [word |-> rest[1], text |-> SubSeq(rest, 2, end - 1)] \in Kept
  <2>1. 1 \in 1..Len(rest) /\ rest[1] \in Dict!AllLines
    BY <1>2, <1>3
  <2>2. SubSeq(rest, 2, end - 1) \in Seq(Dict!AllLines)
    BY <1>2, <1>3, SMTT(30)
  <2> QED
    BY <2>1, <2>2 DEF Kept
<1> QED
  BY <1>1, <1>6, <1>7

\* What a search finds, once every entry is recorded.
LEMMA SearchRight ==
  ASSUME RestInv, Dict!InForm, datafile \in Seq(Kept), AllRecorded,
         Dict!Ends(rest) = {}, NEW w
  PROVE  Dict!Search(w) =
           IF Dict!Named(w) = {} THEN <<w, "NOTFOUND", <<>>>>
           ELSE <<w, "FOUND",
                  Dict!Printed(Dict!Definition(Dict!First(Dict!Named(w))))>>
<1> DEFINE k == Len(datafile)
           found == {i \in DOMAIN datafile : Dict!Holds(datafile[i], w)}
<1>1. k \in Nat /\ DOMAIN datafile = 1..k
  OBVIOUS
<1>2. \A e \in Dict!Entries : e[2] <= Pos
  <2> SUFFICES ASSUME NEW e \in Dict!Entries, ~(e[2] <= Pos) PROVE FALSE
    OBVIOUS
  <2>1. /\ Pos \in Nat /\ Len(rest) \in Nat /\ Len(text) = Pos + Len(rest)
        /\ \A i \in 1..Len(rest) : rest[i] = text[Pos + i]
    BY DEF RestInv, Pos
  <2> HIDE DEF Pos
  <2>2. e[2] \in 1..Len(text) /\ text[e[2]] = Dict!Blank
    BY EntryIs
  <2>3. e[2] - Pos \in 1..Len(rest) /\ Pos + (e[2] - Pos) = e[2]
    BY <2>1, <2>2
  <2>4. rest[e[2] - Pos] = Dict!Blank
    BY <2>1, <2>2, <2>3
  <2>5. e[2] - Pos \in 2..Len(rest)
    BY <2>1, <2>3, <2>4, FirstLine
  <2> QED
    BY <2>4, <2>5 DEF Dict!Ends
<1>3. PICK f : Records(f)
  BY DEF AllRecorded
<1>4. /\ f \in [1..k -> Dict!Entries]
      /\ \A i, j \in 1..k : i < j => f[i][1] < f[j][1]
      /\ \A i \in 1..k : /\ datafile[i].word = text[f[i][1]]
                          /\ datafile[i].text = Dict!Definition(f[i])
      /\ \A e \in Dict!Entries : \E i \in 1..k : f[i] = e
  BY <1>2, <1>3 DEF Records
<1>5. \A i : i \in found <=> i \in 1..k /\ f[i] \in Dict!Named(w)
  BY <1>1, <1>4 DEF Dict!Named, Dict!Holds
<1>6. Dict!Search(w) = IF found = {} THEN <<w, "NOTFOUND", <<>>>>
                       ELSE <<w, "FOUND",
                              Dict!Printed(datafile[Dict!Min(found)].text)>>
  BY DEF Dict!Search
<1> HIDE DEF k, found
<1>7. CASE found = {}
  <2>1. Dict!Named(w) = {}
    BY <1>4, <1>5, <1>7 DEF Dict!Named
  <2> QED
    BY <1>6, <1>7, <2>1
<1>8. CASE found # {}
  <2>1. found \subseteq Nat
    BY <1>1, <1>5
  <2>2. PICK m \in found : \A n \in found : ~(n < m)
    BY <1>8, <2>1, LeastNumber
  <2>3. \A n \in found : m <= n
    BY <2>1, <2>2
  <2> DEFINE i == Dict!Min(found)
  <2>4. i \in found /\ \A n \in found : i <= n
    BY <2>3 DEF Dict!Min
  <2> HIDE DEF i
  <2>5. i \in 1..k /\ f[i] \in Dict!Named(w) /\ f[i] \in Dict!Entries
    BY <1>4, <1>5, <2>4
  <2>6. \A d \in Dict!Named(w) : f[i][1] <= d[1]
    <3> SUFFICES ASSUME NEW d \in Dict!Named(w) PROVE f[i][1] <= d[1]
      OBVIOUS
    <3>1. d \in Dict!Entries
      BY DEF Dict!Named
    <3>2. PICK j \in 1..k : f[j] = d
      BY <1>4, <3>1
    <3>3. i <= j
      BY <1>5, <2>4, <3>2
    <3>4. f[i][1] \in Nat /\ f[j][1] \in Nat /\ Len(text) \in Nat
      <4>1. f[i][1] \in 1..Len(text) /\ d[1] \in 1..Len(text)
        BY <2>5, <3>1, EntryIs
      <4>2. Len(text) \in Nat
        BY DEF RestInv
      <4> QED
        BY <3>2, <4>1, <4>2
    <3>5. i = j \/ i < j
      BY <1>1, <2>5, <3>3
    <3> QED
      BY <1>4, <2>5, <3>2, <3>4, <3>5
  <2>7. Dict!First(Dict!Named(w)) = f[i]
    <3> DEFINE e == Dict!First(Dict!Named(w))
    <3>1. e \in Dict!Named(w) /\ \A d \in Dict!Named(w) : e[1] <= d[1]
      BY <2>5, <2>6 DEF Dict!First
    <3> HIDE DEF e
    <3>2. e \in Dict!Entries
      BY <3>1 DEF Dict!Named
    <3>3. e[1] <= f[i][1] /\ f[i][1] <= e[1]
      BY <2>5, <2>6, <3>1
    <3>4. e[1] = f[i][1]
      <4>1. e[1] \in 1..Len(text) /\ f[i][1] \in 1..Len(text)
        BY <2>5, <3>2, EntryIs
      <4>2. Len(text) \in Nat
        BY DEF RestInv
      <4> QED
        BY <3>3, <4>1, <4>2
    <3>5. e = f[i]
      BY <2>5, <3>2, <3>4, EntryStarts
    <3> QED
      BY <3>5 DEF e
  <2>8. datafile[i].text = Dict!Definition(f[i])
    BY <1>4, <2>5
  <2> QED
    BY <1>6, <1>8, <2>5, <2>7, <2>8 DEF i
<1> QED
  BY <1>7, <1>8

\* The files stay as they are, and so does what is recorded.
SameFiles == UNCHANGED <<text, rest, datafile, present>>

LEMMA SameRecords ==
  ASSUME SameFiles
  PROVE  /\ RestInv' <=> RestInv
         /\ (datafile \in Seq(Kept))' <=> datafile \in Seq(Kept)
         /\ (Dict!InForm => AllRecorded)' <=> (Dict!InForm => AllRecorded)
         /\ Dict!Ends(rest)' = Dict!Ends(rest)
         /\ present' = present
<1> USE DEF SameFiles
<1>1. RestInv' <=> RestInv
  BY DEF RestInv, Pos
<1>2. AllRecorded' <=> AllRecorded
  BY DEF AllRecorded, Records, Dict!Entries, Dict!Definition, Pos
<1>3. Dict!InForm' <=> Dict!InForm
  BY DEF Dict!InForm
<1>4. Dict!Ends(rest)' = Dict!Ends(rest)
  BY DEF Dict!Ends
<1> QED
  BY <1>1, <1>2, <1>3, <1>4

LEMMA DictStart == Dict!Init => DictInv
<1> SUFFICES ASSUME Dict!Init PROVE DictInv
  OBVIOUS
<1>1. dictShown = <<>> /\ datafile = <<>> /\ present = FALSE /\ step = "start"
  BY DEF Dict!Init
<1>2. LookupRight
  BY <1>1 DEF LookupRight, Dict!LookupRight
<1> QED
  BY <1>1, <1>2 DEF DictInv

LEMMA DictStep ==
  ASSUME DictInv, [Dict!Next]_(Dict!vars)
  PROVE  DictInv'
<1>1. CASE Dict!Start
  <2>1. /\ step = "start" /\ dictShown = <<>> /\ datafile = <<>> /\ ~present
        /\ dictShown' = <<>> /\ datafile' = <<>> /\ rest' = text'
    BY <1>1 DEF Dict!Start, DictInv
  <2>2. LookupRight'
    BY <2>1 DEF LookupRight, Dict!LookupRight
  <2>3. CASE step' = "lookup" /\ ~present'
    BY <2>1, <2>2, <2>3 DEF DictInv
  <2>4. CASE /\ step' = "convert" /\ present' = TRUE
             /\ text' \in Dict!SeqOf(Dict!AllLines, MaxText)
    <3>1. text' \in Seq(Dict!AllLines)
      <4>1. PICK n \in 0..MaxText : text' \in [1..n -> Dict!AllLines]
        BY <2>4 DEF Dict!SeqOf
      <4>2. n \in Nat
        BY TextAssumption
      <4> QED
        BY <4>1, <4>2
    <3>2. Pos' = 0 /\ Len(rest') = Len(text') /\ Len(text') \in Nat
      BY <2>1, <3>1 DEF Pos
    <3>3. RestInv'
      BY <2>1, <3>1, <3>2 DEF RestInv
    <3>4. datafile' \in Seq(Kept) /\ Len(datafile') = 0
      BY <2>1
    <3>5. \A e \in Dict!Entries' : ~(e[2] <= 0)
      <4> SUFFICES ASSUME NEW e \in Dict!Entries' PROVE ~(e[2] <= 0)
        OBVIOUS
      <4>1. e \in (DOMAIN text') \X (DOMAIN text') /\ DOMAIN text' = 1..Len(text')
        BY <3>1 DEF Dict!Entries
      <4>2. e[2] \in 1..Len(text')
        BY <4>1
      <4> QED
        BY <3>2, <4>2
    <3>6. AllRecorded'
      <4>1. PICK f : f = [i \in 1..0 |-> <<1, 1>>]
        OBVIOUS
      <4>2. f \in [1..Len(datafile') -> Dict!Entries']
        BY <3>4, <4>1
      <4>3. ~\E i : i \in 1..Len(datafile')
        BY <3>4
      <4>4. Records(f)'
        BY <3>2, <3>5, <4>2, <4>3 DEF Records
      <4> QED
        BY <4>4 DEF AllRecorded
    <3> QED
      BY <2>1, <2>2, <2>4, <3>3, <3>4, <3>6 DEF DictInv
  <2>5. \/ /\ step' = "convert" /\ present' = TRUE
           /\ text' \in Dict!SeqOf(Dict!AllLines, MaxText)
        \/ step' = "lookup" /\ present' = present
    BY <1>1 DEF Dict!Start
  <2> QED
    BY <2>1, <2>3, <2>4, <2>5
<1>2. CASE Dict!ConvertEntry
  <2>1. /\ step = "convert" /\ dictShown = <<>>
        /\ UNCHANGED <<step, text, present, dictIn, dictShown>>
    BY <1>2 DEF Dict!ConvertEntry, DictInv
  <2>2. LookupRight'
    BY <2>1 DEF LookupRight, Dict!LookupRight
  <2>3. present /\ RestInv /\ datafile \in Seq(Kept)
    BY <2>1 DEF DictInv
  <2>4. RestInv' /\ (datafile \in Seq(Kept))'
    BY <1>2, <2>3, RestStep
  <2>5. (Dict!InForm => AllRecorded)'
    <3>1. Dict!InForm' <=> Dict!InForm
      BY <2>1 DEF Dict!InForm
    <3>2. Dict!InForm => AllRecorded
      BY <2>3 DEF DictInv
    <3> QED
      BY <1>2, <2>3, <3>1, <3>2, NextRecord
  <2> QED
    BY <2>1, <2>2, <2>4, <2>5 DEF DictInv
<1>3. CASE Dict!ConvertEnds
  <2>1. /\ step = "convert" /\ step' = "lookup" /\ Dict!Ends(rest) = {}
        /\ UNCHANGED <<text, rest, datafile, present, dictIn, dictShown>>
    BY <1>3 DEF Dict!ConvertEnds
  <2>2. SameFiles
    BY <2>1 DEF SameFiles
  <2>3. /\ LookupRight' <=> LookupRight
    BY <2>1 DEF LookupRight, Dict!LookupRight, Dict!InForm, Dict!Named,
       Dict!Entries, Dict!First, Dict!Definition
  <2> QED
    BY <2>1, <2>2, <2>3, SameRecords DEF DictInv
<1>4. ASSUME NEW w \in Dict!AllLines, Dict!Lookup(w) PROVE DictInv'
  <2>1. /\ step = "lookup" /\ present /\ dictShown' = Dict!Search(w)
        /\ UNCHANGED <<step, text, rest, datafile, present>>
    BY <1>4 DEF Dict!Lookup
  <2>2. SameFiles
    BY <2>1 DEF SameFiles
  <2>3. LookupRight'
    <3> SUFFICES ASSUME Dict!InForm' PROVE LookupRight'
      BY DEF LookupRight, Dict!LookupRight
    <3>1. /\ RestInv /\ Dict!InForm /\ datafile \in Seq(Kept) /\ AllRecorded
          /\ Dict!Ends(rest) = {}
      <4>1. Dict!InForm
        BY <2>1 DEF Dict!InForm
      <4> QED
        BY <2>1, <4>1 DEF DictInv
    <3>2. dictShown' =
            IF Dict!Named(w) = {} THEN <<w, "NOTFOUND", <<>>>>
            ELSE <<w, "FOUND",
                   Dict!Printed(Dict!Definition(Dict!First(Dict!Named(w))))>>
      BY <2>1, <3>1, SearchRight
    <3>3. dictShown'[1] = w
      BY <3>2
    <3>4. text' = text
      BY <2>1
    <3>5. Dict!Named(dictShown[1])' = Dict!Named(w)
      BY <3>3, <3>4 DEF Dict!Named, Dict!Entries
    <3>6. Dict!Definition(Dict!First(Dict!Named(dictShown[1])))'
            = Dict!Definition(Dict!First(Dict!Named(w)))
      BY <3>3, <3>4 DEF Dict!Named, Dict!Entries, Dict!First, Dict!Definition
    <3> QED
      BY <3>2, <3>3, <3>5, <3>6 DEF LookupRight, Dict!LookupRight
  <2> QED
    BY <2>1, <2>2, <2>3, SameRecords DEF DictInv
<1>5. CASE Dict!LookupCrash \/ \E w \in Dict!AllLines : Dict!LookupNoFile(w)
  <2>1. UNCHANGED <<text, rest, datafile, present>> /\ step = "lookup"
        /\ step' \in {"lookup", "crashed"}
    BY <1>5 DEF Dict!LookupCrash, Dict!LookupNoFile
  <2>2. ~present \/ dictShown' = dictShown
    BY <1>5 DEF Dict!LookupCrash, Dict!LookupNoFile
  <2>3. SameFiles
    BY <2>1 DEF SameFiles
  <2>4. LookupRight'
    BY <2>1, <2>2 DEF DictInv, LookupRight, Dict!LookupRight, Dict!InForm,
       Dict!Named, Dict!Entries, Dict!First, Dict!Definition
  <2> QED
    BY <2>1, <2>3, <2>4, SameRecords DEF DictInv
<1>6. CASE UNCHANGED Dict!vars
  <2>1. SameFiles /\ UNCHANGED <<step, dictShown>>
    BY <1>6 DEF Dict!vars, SameFiles
  <2>2. LookupRight'
    BY <2>1 DEF DictInv, LookupRight, Dict!LookupRight, Dict!InForm,
       Dict!Named, Dict!Entries, Dict!First, Dict!Definition, SameFiles
  <2> QED
    BY <2>1, <2>2, SameRecords DEF DictInv, SameFiles
<1> QED
  BY <1>1, <1>2, <1>3, <1>4, <1>5, <1>6 DEF Dict!Next

\* For every text and dictionary, and any number of searches: what is found
\* of a text in the form is what its entries say.
THEOREM Lookups == Dict!Spec => []LookupRight
<1>1. DictInv => LookupRight
  BY DEF DictInv
<1>2. DictInv /\ [Dict!Next]_(Dict!vars) => DictInv'
  BY DictStep
<1> QED
  BY <1>1, <1>2, DictStart, PTL DEF Dict!Spec

-----------------------------------------------------------------------------
(* SigPingPong, for every number of rounds and of stray signals.           *)
(* Alternation is not inductive.  What is, is that there is one baton:     *)
(* after the fork the child has it and may send, or its signal is on the   *)
(* way, or the parent has it, or the parent's signal is on the way.        *)

Setup == pc["parent"] \in {"sigaction", "sigprocmask", "fork"}
Waits(p) == pc[p] \in {"suspend", "suspended"}

PingInv ==
  /\ Ping!TypeOK
  /\ Setup => /\ pc["child"] = "unborn" /\ ~pending["child"]
              /\ \A p \in Ping!Process : scnt[p] = 0 /\ kills[p] = 0
  /\ \A p \in Ping!Process :
       /\ pc[p] = "kill" \/ Waits(p) => scnt[p] < numSigs
       /\ pc[p] \in {"exit", "done"} => scnt[p] = numSigs
       /\ pc[p] \in {"fork", "loop", "kill", "suspend", "exit"} => blocked[p]
  /\ kills["parent"] <= scnt["parent"]
  /\ pc["child"] \in {"loop", "kill"} => kills["child"] <= scnt["child"]
  /\ Waits("child") => kills["child"] <= scnt["child"] + 1

LEMMA PingStart == Ping!Init => PingInv
<1> SUFFICES ASSUME Ping!Init PROVE PingInv
  OBVIOUS
<1>1. /\ scnt \in [Ping!Process -> 0..numSigs]
      /\ kills \in [Ping!Process -> 0..numSigs]
      /\ strays \in 0..MaxStrays
  BY PingPongAssumption DEF Ping!Init
<1>2. \A p \in Ping!Process : scnt[p] = 0 /\ kills[p] = 0 /\ ~pending[p]
  BY DEF Ping!Init
<1>3. /\ pc["parent"] = "sigaction" /\ pc["child"] = "unborn"
      /\ \A p \in Ping!Process : pc[p] \in {"sigaction", "unborn"}
  BY DEF Ping!Init, Ping!Process
<1>4. Ping!TypeOK
  BY <1>1 DEF Ping!Init, Ping!TypeOK, Ping!Ended
<1> QED
  BY <1>2, <1>3, <1>4 DEF PingInv, Setup, Waits, Ping!Process

LEMMA PingStep ==
  ASSUME PingInv, [Ping!Next]_(Ping!vars)
  PROVE  PingInv'
<1> USE PingPongAssumption
    DEF PingInv, Ping!TypeOK, Setup, Waits, Ping!Process, Ping!Ended
<1>1. CASE Ping!Sigaction
  BY <1>1 DEF Ping!Sigaction, Ping!Step
<1>2. CASE Ping!Block
  BY <1>2 DEF Ping!Block, Ping!Step
<1>3. CASE Ping!Fork
  BY <1>3 DEF Ping!Fork, Ping!First
<1>4. ASSUME NEW p \in Ping!Process, Ping!Iterate(p) PROVE PingInv'
  BY <1>4 DEF Ping!Iterate, Ping!Step, Ping!Loop, Ping!First
<1>5. ASSUME NEW p \in Ping!Process, Ping!Kill(p) PROVE PingInv'
  <2>1. CASE p = "parent"
    <3>1. scnt["parent"] + 1 \in 0..numSigs /\ kills["parent"] + 1 \in 0..numSigs
      BY <1>5, <2>1 DEF Ping!Kill
    <3>2. pending' \in [Ping!Process -> BOOLEAN]
      <4>1. PICK b \in BOOLEAN :
              pending' = [pending EXCEPT ![Ping!Partner(p)] = b]
        BY <1>5, <2>1, Zenon DEF Ping!Kill
      <4>2. Ping!Partner(p) \in Ping!Process
        BY <2>1 DEF Ping!Partner
      <4> QED
        BY <4>1, <4>2
    <3> QED
      BY <1>5, <2>1, <3>1, <3>2 DEF Ping!Kill, Ping!Partner
  <2>2. CASE p = "child"
    BY <1>5, <2>2 DEF Ping!Kill, Ping!Partner
  <2> QED
    BY <2>1, <2>2
<1>6. ASSUME NEW p \in Ping!Process, Ping!Suspend(p) PROVE PingInv'
  BY <1>6 DEF Ping!Suspend, Ping!Step
<1>7. ASSUME NEW p \in Ping!Process, Ping!Return(p) PROVE PingInv'
  BY <1>7 DEF Ping!Return
<1>8. ASSUME NEW p \in Ping!Process, Ping!Exit(p) PROVE PingInv'
  BY <1>8 DEF Ping!Exit, Ping!Step
<1>9. ASSUME NEW p \in Ping!Process, Ping!Deliver(p) PROVE PingInv'
  BY <1>9 DEF Ping!Deliver
<1>10. ASSUME NEW p \in Ping!Process, Ping!Stray(p) PROVE PingInv'
  BY <1>10 DEF Ping!Stray
<1>11. CASE UNCHANGED Ping!vars
  BY <1>11 DEF Ping!vars
<1> QED
  BY <1>1, <1>2, <1>3, <1>4, <1>5, <1>6, <1>7, <1>8, <1>9, <1>10, <1>11
  DEF Ping!Next, Ping!Start, Ping!ProcessStep

\* Every variable keeps its type; no process runs a round too many.
THEOREM PingPongTypes == Ping!Spec => []Ping!TypeOK
<1>1. PingInv => Ping!TypeOK
  BY DEF PingInv
<1> QED
  BY <1>1, PingStart, PingStep, PTL DEF Ping!Spec

-----------------------------------------------------------------------------
(* The baton.                                                              *)

NonePending == ~pending["parent"] /\ ~pending["child"]
Idle(p) == pc[p] \in {"loop", "exit", "done"} \/ Waits(p)

ChildHas  == /\ pc["child"] \in {"loop", "kill", "exit", "done"}
             /\ Idle("parent") /\ NonePending
             /\ scnt["child"] = scnt["parent"] /\ kills["child"] = scnt["child"]
ToParent  == /\ Waits("child")
             /\ pc["parent"] \in {"loop", "suspend", "suspended"}
             /\ pending["parent"] /\ ~pending["child"]
             /\ scnt["child"] = scnt["parent"]
             /\ kills["child"] = scnt["child"] + 1
ParentHas == /\ Waits("child") /\ pc["parent"] = "kill" /\ NonePending
             /\ scnt["child"] = scnt["parent"]
             /\ kills["child"] = scnt["child"] + 1
ToChild   == /\ Waits("child") /\ Idle("parent")
             /\ pending["child"] /\ ~pending["parent"]
             /\ scnt["parent"] = scnt["child"] + 1
             /\ kills["child"] = scnt["parent"]

Baton ==
  strays = 0 =>
    \/ Setup /\ NonePending
    \/ /\ kills["parent"] = scnt["parent"]
       /\ ChildHas \/ ToParent \/ ParentHas \/ ToChild

LEMMA BatonStart == Ping!Init => Baton
BY DEF Ping!Init, Baton, Setup, NonePending, Ping!Process

LEMMA BatonStep ==
  ASSUME PingInv, Baton, [Ping!Next]_(Ping!vars)
  PROVE  Baton'
<1> USE PingPongAssumption
    DEF PingInv, Ping!TypeOK, Setup, Waits, Idle, NonePending, Ping!Process,
        Ping!Ended
<1>1. CASE Ping!Sigaction
  BY <1>1 DEF Ping!Sigaction, Ping!Step, Baton, ChildHas, ToParent,
     ParentHas, ToChild
<1>2. CASE Ping!Block
  BY <1>2 DEF Ping!Block, Ping!Step, Baton, ChildHas, ToParent, ParentHas,
     ToChild
<1>3. CASE Ping!Fork
  BY <1>3 DEF Ping!Fork, Ping!First, Baton, ChildHas, ToParent, ParentHas,
     ToChild
<1>4. ASSUME NEW p \in Ping!Process, Ping!Iterate(p) PROVE Baton'
  BY <1>4 DEF Ping!Iterate, Ping!Step, Ping!Loop, Ping!First, Baton,
     ChildHas, ToParent, ParentHas,
     ToChild
<1>5. ASSUME NEW p \in Ping!Process, Ping!Kill(p) PROVE Baton'
  <2>1. CASE p = "parent"
    BY <1>5, <2>1 DEF Ping!Kill, Ping!Partner, Baton, ChildHas, ToParent,
       ParentHas, ToChild
  <2>2. CASE p = "child"
    <3> SUFFICES ASSUME strays = 0 PROVE ToParent' /\ kills'["parent"] = scnt'["parent"]
      BY <1>5, <2>2 DEF Ping!Kill, Baton
    <3>1. ChildHas /\ pc["child"] = "kill" /\ kills["parent"] = scnt["parent"]
      BY <1>5, <2>2 DEF Ping!Kill, Baton, ToParent, ParentHas, ToChild
    <3>2. pc["parent"] \in {"loop", "suspend", "suspended"}
      BY <3>1 DEF ChildHas
    <3>3. /\ pc' = [pc EXCEPT !["child"] = "suspend"]
          /\ pending' = [pending EXCEPT !["parent"] = TRUE]
          /\ kills' = [kills EXCEPT !["child"] = @ + 1] /\ scnt' = scnt
      BY <1>5, <2>2, <3>2 DEF Ping!Kill, Ping!Partner
    <3> QED
      BY <3>1, <3>2, <3>3 DEF ChildHas, ToParent
  <2> QED
    BY <2>1, <2>2
<1>6. ASSUME NEW p \in Ping!Process, Ping!Suspend(p) PROVE Baton'
  BY <1>6 DEF Ping!Suspend, Ping!Step, Baton, ChildHas, ToParent, ParentHas,
     ToChild
<1>7. ASSUME NEW p \in Ping!Process, Ping!Return(p) PROVE Baton'
  BY <1>7 DEF Ping!Return, Baton, ChildHas, ToParent, ParentHas, ToChild
<1>8. ASSUME NEW p \in Ping!Process, Ping!Exit(p) PROVE Baton'
  BY <1>8 DEF Ping!Exit, Ping!Step, Baton, ChildHas, ToParent, ParentHas,
     ToChild
<1>9. ASSUME NEW p \in Ping!Process, Ping!Deliver(p) PROVE Baton'
  BY <1>9 DEF Ping!Deliver, Baton, ChildHas, ToParent, ParentHas, ToChild
<1>10. ASSUME NEW p \in Ping!Process, Ping!Stray(p) PROVE Baton'
  BY <1>10 DEF Ping!Stray, Baton
<1>11. CASE UNCHANGED Ping!vars
  BY <1>11 DEF Ping!vars, Baton, ChildHas, ToParent, ParentHas, ToChild
<1> QED
  BY <1>1, <1>2, <1>3, <1>4, <1>5, <1>6, <1>7, <1>8, <1>9, <1>10, <1>11
  DEF Ping!Next, Ping!Start, Ping!ProcessStep

\* Without strays the signals alternate: none is merged with another, and
\* getppid() and childPid always name a live partner.
THEOREM Alternates == Ping!Spec => []Alternation
<1>1. PingInv /\ Baton => Alternation
  BY DEF PingInv, Ping!TypeOK, Baton, Alternation, Ping!Alternation,
     ChildHas, ToParent, ParentHas,
     ToChild, Setup, NonePending, Waits, Idle, Ping!Partner, Ping!Process,
     Ping!Ended
<1> QED
  BY <1>1, PingStart, PingStep, BatonStart, BatonStep, PTL DEF Ping!Spec

-----------------------------------------------------------------------------
(* Signals are used once: what is pending, and the turn they give, are     *)
(* accounted for too.                                                      *)

Count(b) == IF b THEN 1 ELSE 0

Account ==
  /\ scnt["child"] + Count(pending["child"]) <= kills["parent"] + strays
  /\ kills["parent"] + Count(pc["parent"] = "kill") + Count(pending["parent"])
       <= kills["child"] + strays

LEMMA AccountStart == Ping!Init => Account
BY DEF Ping!Init, Account, Count, Ping!Process

LEMMA AccountStep ==
  ASSUME PingInv, Account, [Ping!Next]_(Ping!vars)
  PROVE  Account'
<1> USE
    DEF PingInv, Ping!TypeOK, Setup, Account, Count, Ping!Process, Ping!Ended
<1>1. CASE Ping!Sigaction \/ Ping!Block
  BY <1>1 DEF Ping!Sigaction, Ping!Block, Ping!Step
<1>2. CASE Ping!Fork
  BY <1>2 DEF Ping!Fork, Ping!First
<1>3. ASSUME NEW p \in Ping!Process,
             Ping!Iterate(p) \/ Ping!Suspend(p) \/ Ping!Exit(p)
      PROVE  Account'
  BY <1>3 DEF Ping!Iterate, Ping!Suspend, Ping!Exit, Ping!Step, Ping!Loop,
     Ping!First, Waits
<1>4. ASSUME NEW p \in Ping!Process, Ping!Kill(p) PROVE Account'
  <2>1. CASE p = "parent"
    BY <1>4, <2>1 DEF Ping!Kill, Ping!Partner
  <2>2. CASE p = "child"
    BY <1>4, <2>2 DEF Ping!Kill, Ping!Partner
  <2> QED
    BY <2>1, <2>2
<1>5. ASSUME NEW p \in Ping!Process, Ping!Return(p) PROVE Account'
  BY <1>5 DEF Ping!Return
<1>6. ASSUME NEW p \in Ping!Process, Ping!Deliver(p) PROVE Account'
  BY <1>6 DEF Ping!Deliver
<1>7. ASSUME NEW p \in Ping!Process, Ping!Stray(p) PROVE Account'
  BY <1>7, PingPongAssumption DEF Ping!Stray
<1>8. CASE UNCHANGED Ping!vars
  BY <1>8 DEF Ping!vars
<1> QED
  BY <1>1, <1>2, <1>3, <1>4, <1>5, <1>6, <1>7, <1>8
  DEF Ping!Next, Ping!Start, Ping!ProcessStep

\* No process wakes more often than it was sent signals, whoever sent them.
THEOREM Accounted == Ping!Spec => []Ping!WakesAccounted
<1>1. PingInv /\ Account => Ping!WakesAccounted
  BY DEF PingInv, Ping!TypeOK, Account, Count, Ping!WakesAccounted,
     Ping!Process
<1> QED
  BY <1>1, PingStart, PingStep, AccountStart, AccountStep, PTL DEF Ping!Spec

-----------------------------------------------------------------------------
(* ShellPipeline.  The prompt comes after the child because the shell      *)
(* waits for it, and after the writers because the child has waited for    *)
(* each: what is inductive is which line's processes may still be there.   *)

LeaderPC == {"unborn", "start", "fork", "dup", "wait", "missing", "exec",
             "run", "zombie", "gone"}
WriterPC == {"none", "exec", "run", "zombie"}

ShellType ==
  /\ MaxLines \in Nat
  /\ script \in Seq(Seq(STRING)) /\ taken \in Seq(Int)
  /\ Len(taken) <= MaxLines
  /\ offset \in Int /\ next \in Int /\ avail \in Int
  /\ unread \in [Jobs -> Int]
  /\ lpc \in [Jobs -> LeaderPC]
  /\ wpc \in [Jobs -> WriterPC]

InBackground(j) == is_background(script[taken[j]])

WaitInv ==
  /\ \A j \in Jobs :
       /\ wpc[j] # "none" => lpc[j] \in {"dup", "wait"}
       /\ j > Len(taken) => lpc[j] = "unborn"
  /\ spc \in {"fork", "wait", "poll"} => Len(taken) > 0
  /\ spc = "fork" => lpc[Len(taken)] = "unborn"
  /\ \A j \in 1..Len(taken) :
       \/ InBackground(j) \/ lpc[j] \in {"unborn", "gone"}
       \/ j = Len(taken) /\ spc = "wait"

ShellInv == ShellType /\ WaitInv

LEMMA SameAmpersand ==
  ASSUME UNCHANGED <<first, script>>,
         NEW i, taken'[i] = taken[i]
  PROVE  InBackground(i)' <=> InBackground(i)
BY Zenon DEF InBackground, is_background

LEMMA ShellStart == Init => ShellInv
<1> SUFFICES ASSUME Init PROVE ShellInv
  OBVIOUS
<1>1. MaxLines \in Nat \ {0} /\ script \in Seq(Seq(STRING))
  BY ShellAssumption DEF Init
<1>2. /\ offset = 0 /\ next = 1 /\ avail = 0 /\ spc = "prompt" /\ taken = <<>>
      /\ lpc = [j \in Jobs |-> "unborn"]
      /\ wpc = [j \in Jobs |-> "none"]
      /\ unread = [j \in Jobs |-> 0]
  BY DEF Init
<1>3. ShellType
  BY <1>1, <1>2 DEF ShellType, LeaderPC, WriterPC
<1>4. WaitInv
  BY <1>1, <1>2 DEF WaitInv, Jobs
<1> QED
  BY <1>3, <1>4 DEF ShellInv

\* A step of the child of line j, or of its writer.
JobMoves(j) ==
  /\ UNCHANGED <<first, script, taken, next, avail, spc, unread>> /\ offset' \in Int
  /\ lpc[j] \notin {"unborn", "gone"}
  /\ lpc' \in [Jobs -> LeaderPC] /\ wpc' \in [Jobs -> WriterPC]
  /\ \A i \in Jobs : i # j => lpc'[i] = lpc[i] /\ wpc'[i] = wpc[i]
  /\ wpc'[j] # "none" => lpc'[j] \in {"dup", "wait"}

LEMMA JobStep ==
  ASSUME ShellInv, NEW j \in Jobs, JobMoves(j)
  PROVE  ShellInv'
<1> USE DEF JobMoves
<1>1. ShellType'
  BY DEF ShellInv, ShellType
<1>2. \A i \in 1..Len(taken) : i \in Jobs
  BY DEF ShellInv, ShellType, Jobs
<1>3. \A i \in 1..Len(taken) : InBackground(i)' <=> InBackground(i)
  <2> SUFFICES ASSUME NEW i \in 1..Len(taken)
               PROVE  InBackground(i)' <=> InBackground(i)
    OBVIOUS
  <2>1. taken'[i] = taken[i]
    OBVIOUS
  <2> QED
    BY <2>1, SameAmpersand
<1>4. WaitInv'
  BY <1>2, <1>3 DEF ShellInv, WaitInv
<1> QED
  BY <1>1, <1>4 DEF ShellInv

\* What the steps of a child and of its writer do to their next steps.
LEMMA JobMovesOn ==
  ASSUME ShellInv, NEW j \in Jobs,
         \/ LeaderStep(j) \/ LForkFails(j)
         \/ WriterStep(j) \/ KKilled(j)
  PROVE  JobMoves(j)
<1> USE DEF LStep, KStep, JobMoves, LeaderPC, WriterPC
<1>1. /\ lpc \in [Jobs -> LeaderPC] /\ wpc \in [Jobs -> WriterPC]
      /\ offset \in Int /\ unread[j] \in Int
      /\ wpc[j] # "none" => lpc[j] \in {"dup", "wait"}
  BY DEF ShellInv, ShellType, WaitInv
<1>2. ASSUME NEW from, exit(j, from)
      PROVE  offset' \in Int /\ UNCHANGED <<next, avail>>
  BY <1>1, <1>2 DEF exit
<1>3. ASSUME NEW from \in {"fork", "missing", "exec"}, LExits(j, from)
      PROVE  JobMoves(j)
  <2>1. /\ lpc[j] = from /\ lpc' = [lpc EXCEPT ![j] = "zombie"]
        /\ UNCHANGED <<first, script, taken, spc, unread, wpc>>
    BY <1>3 DEF LExits, input, shell, writer
  <2>2. offset' \in Int /\ UNCHANGED <<next, avail>>
    BY <1>2, <1>3 DEF LExits
  <2> QED
    BY <1>1, <2>1, <2>2
<1>4. CASE LStart(j)
  <2>1. /\ lpc[j] = "start"
        /\ lpc' \in {[lpc EXCEPT ![j] = s] : s \in {"zombie", "fork", "exec"}}
        /\ UNCHANGED <<first, script, taken, spc, unread, wpc, offset, next,
                      avail>>
    BY <1>4 DEF LStart, input, shell, writer, stdin
  <2> QED
    BY <1>1, <2>1
<1>5. CASE LFork(j)
  <2>1. /\ lpc[j] = "fork" /\ lpc' = [lpc EXCEPT ![j] = "dup"]
        /\ wpc' = [wpc EXCEPT ![j] = "exec"]
        /\ UNCHANGED <<first, script, taken, spc, unread, offset, next, avail>>
    BY <1>5 DEF LFork, input, shell, stdin
  <2> QED
    BY <1>1, <2>1
<1>6. CASE LDup(j)
  <2>1. /\ lpc[j] = "dup" /\ lpc' = [lpc EXCEPT ![j] = "wait"]
        /\ UNCHANGED <<first, script, taken, spc, unread, wpc, offset, next,
                      avail>>
    BY <1>6 DEF LDup, input, shell, writer, stdin
  <2> QED
    BY <1>1, <2>1
<1>7. CASE LReap(j)
  <2>1. /\ lpc[j] = "wait" /\ wpc' = [wpc EXCEPT ![j] = "none"]
        /\ lpc' \in {[lpc EXCEPT ![j] = s] : s \in {"fork", "exec", "missing"}}
        /\ UNCHANGED <<first, script, taken, spc, unread, offset, next, avail>>
    BY <1>7 DEF LReap, input, shell, stdin
  <2> QED
    BY <1>1, <2>1
<1>8. CASE LExec(j)
  <2>1. /\ lpc[j] = "exec" /\ lpc' = [lpc EXCEPT ![j] = "run"]
        /\ UNCHANGED <<first, script, taken, spc, unread, wpc, offset, next,
                      avail>>
    BY <1>8 DEF LExec, input, shell, writer, stdin
  <2> QED
    BY <1>1, <2>1
<1>9. CASE LExecFails(j)
  <2>1. \/ LExits(j, "exec")
        \/ /\ lpc[j] = "exec"
           /\ UNCHANGED <<first, script, taken, spc, unread, lpc, wpc, offset,
                         next, avail>>
    BY <1>9 DEF LExecFails, input, shell, writer,
       stdin
  <2> QED
    BY <1>1, <1>3, <2>1
<1>10. CASE LEnd(j)
  <2>1. /\ lpc[j] = "run" /\ lpc' = [lpc EXCEPT ![j] = "zombie"]
        /\ UNCHANGED <<first, script, taken, spc, unread, wpc, offset, next,
                      avail>>
    BY <1>10 DEF LEnd, input, shell, writer, stdin
  <2> QED
    BY <1>1, <2>1
<1>11. CASE LMissing(j) \/ LForkFails(j)
  BY <1>3, <1>11 DEF LMissing, LForkFails
<1>12. CASE WriterStep(j) \/ KKilled(j)
  <2>1. /\ wpc[j] # "none" /\ wpc'[j] \in WriterPC
        /\ wpc' = [wpc EXCEPT ![j] = wpc'[j]]
        /\ UNCHANGED <<first, script, taken, spc, unread, lpc>>
    <3>1. CASE KExec(j)
      BY <1>1, <3>1 DEF KExec, input, shell, leader
    <3>2. CASE KExecFails(j)
      BY <1>1, <3>2 DEF KExecFails, input, shell, leader
    <3>3. CASE KWrite(j)
      BY <1>1, <3>3 DEF KWrite, input, shell, leader
    <3>4. CASE KEnd(j)
      BY <1>1, <3>4 DEF KEnd, input, shell, leader
    <3>5. CASE KKilled(j)
      BY <1>1, <3>5 DEF KKilled, input, shell, leader
    <3> QED
      BY <1>12, <3>1, <3>2, <3>3, <3>4, <3>5 DEF WriterStep
  <2>2. offset' \in Int /\ UNCHANGED <<next, avail>>
    <3>1. CASE KExecFails(j)
      BY <1>2, <3>1 DEF KExecFails
    <3>2. CASE ~KExecFails(j)
      BY <1>1, <1>12, <3>2 DEF WriterStep, KExec, KWrite,
         KEnd, KKilled, stdin
    <3> QED
      BY <3>1, <3>2
  <2> QED
    BY <1>1, <2>1, <2>2
<1> QED
  BY <1>4, <1>5, <1>6, <1>7, <1>8, <1>9, <1>10, <1>11, <1>12
  DEF LeaderStep

\* The shell's own steps.
LEMMA ShellMoves ==
  ASSUME ShellInv, ShellStep \/ SForkFails
  PROVE  ShellInv'
<1>1. /\ Len(taken) \in Nat /\ taken \in Seq(Int)
      /\ \A j \in 1..Len(taken) : j \in Jobs
      /\ offset \in Int /\ next \in Int /\ avail \in Int
      /\ script \in Seq(Seq(STRING)) /\ Len(script) \in Int
      /\ MaxLines \in Nat /\ Len(taken) <= MaxLines
  BY DEF ShellInv, ShellType, Jobs
<1>2. CASE SRead
  <2>1. PICK x \in Int :
          /\ spc = "prompt" /\ Len(taken) < MaxLines /\ taken' = Append(taken, x)
          /\ offset' \in Int /\ next' \in Int /\ avail' \in Int
    <3>1. /\ spc = "prompt" /\ Len(taken) < MaxLines
          /\ \/ /\ next' = next + 1 /\ taken' = Append(taken, next)
                /\ UNCHANGED <<offset, avail>>
             \/ /\ next' = offset + 2 /\ taken' = Append(taken, offset + 1)
                /\ offset' = IF seekable THEN Len(script) ELSE offset + 1
                /\ avail' = offset'
      BY <1>2 DEF SRead
    <3>2. CASE /\ next' = next + 1 /\ taken' = Append(taken, next)
               /\ UNCHANGED <<offset, avail>>
      BY <1>1, <3>1, <3>2
    <3>3. CASE /\ next' = offset + 2 /\ taken' = Append(taken, offset + 1)
               /\ offset' = IF seekable THEN Len(script) ELSE offset + 1
               /\ avail' = offset'
      <4>1. next' \in Int /\ offset' \in Int /\ avail' \in Int /\ offset + 1 \in Int
        BY <1>1, <3>3
      <4> QED
        BY <3>1, <3>3, <4>1
    <3> QED
      BY <3>1, <3>2, <3>3
  <2>2. UNCHANGED <<first, script, unread, lpc, wpc>>
    BY <1>2 DEF SRead, input, leader, writer
  <2>3. /\ taken' \in Seq(Int) /\ Len(taken') = Len(taken) + 1
        /\ \A j \in 1..Len(taken) : taken'[j] = taken[j]
    BY <1>1, <2>1
  <2>4. ShellType'
    BY <1>1, <2>1, <2>2, <2>3 DEF ShellInv, ShellType
  <2>5. lpc[Len(taken')] = "unborn"
    BY <1>1, <2>1, <2>3 DEF ShellInv, WaitInv, Jobs
  <2>6. \A j \in 1..Len(taken') :
          InBackground(j)' \/ lpc'[j] \in {"unborn", "gone"}
    <3> SUFFICES ASSUME NEW j \in 1..Len(taken')
                 PROVE  InBackground(j)' \/ lpc'[j] \in {"unborn", "gone"}
      OBVIOUS
    <3>1. CASE j = Len(taken')
      BY <2>2, <2>5, <3>1
    <3>2. CASE j # Len(taken')
      <4>1. j \in 1..Len(taken) /\ taken'[j] = taken[j]
        BY <1>1, <2>3, <3>2
      <4>2. InBackground(j)' <=> InBackground(j)
        BY <2>2, <4>1, SameAmpersand
      <4>3. InBackground(j) \/ lpc[j] \in {"unborn", "gone"}
        BY <2>1, <4>1 DEF ShellInv, WaitInv
      <4> QED
        BY <2>2, <4>2, <4>3
    <3> QED
      BY <3>1, <3>2
  <2>7. WaitInv'
    <3>1. \A j \in Jobs :
            /\ wpc'[j] # "none" => lpc'[j] \in {"dup", "wait"}
            /\ j > Len(taken') => lpc'[j] = "unborn"
      BY <1>1, <2>2, <2>3 DEF ShellInv, WaitInv, Jobs
    <3>2. Len(taken') > 0 /\ lpc'[Len(taken')] = "unborn"
      BY <1>1, <2>2, <2>3, <2>5
    <3> QED
      BY <2>6, <3>1, <3>2 DEF WaitInv
  <2> QED
    BY <2>4, <2>7 DEF ShellInv
<1>3. ASSUME UNCHANGED <<first, script, taken>>,
             NEW j \in 1..Len(taken)
      PROVE  InBackground(j)' <=> InBackground(j)
  BY <1>3, SameAmpersand
<1>4. CASE SEof \/ SForkFails
  <2>1. /\ spc \in {"prompt", "fork"} /\ spc' = "exited"
        /\ UNCHANGED <<first, script, taken, offset, next, avail, unread, lpc,
                      wpc>>
    BY <1>4 DEF SEof, SForkFails, SStep, input,
       stdin, leader, writer
  <2>2. ShellType'
    BY <2>1 DEF ShellInv, ShellType
  <2>3. WaitInv'
    BY <1>3, <2>1 DEF ShellInv, WaitInv
  <2> QED
    BY <2>2, <2>3 DEF ShellInv
<1>5. CASE SFork \/ SWait \/ SPoll
  <2> DEFINE n == Len(taken)
  <2>1. n \in 1..Len(taken) /\ n \in Jobs
    BY <1>1, <1>5 DEF SFork, SWait, SPoll, SStep,
       ShellInv, WaitInv
  <2>2. UNCHANGED <<first, script, taken, offset, next, avail, wpc>>
    BY <1>5 DEF SFork, SWait, SPoll, input,
       stdin, writer
  <2>3. unread' \in [Jobs -> Int]
    BY <1>1, <1>5 DEF SFork, SWait, SPoll, ShellInv, ShellType
  <2>4. CASE SFork
    <3>1. /\ spc = "fork" /\ spc' \in {"wait", "poll", "prompt"}
          /\ ~InBackground(n) => spc' = "wait"
      BY <2>4 DEF SFork, SStep, Line, InBackground
    <3>2. lpc[n] = "unborn" /\ lpc' = [lpc EXCEPT ![n] = "start"]
      BY <2>4 DEF SFork, LStep, Job
    <3>3. \A j \in Jobs : j # n => lpc'[j] = lpc[j]
      BY <3>2
    <3>4. lpc' \in [Jobs -> LeaderPC]
      BY <1>1, <3>2 DEF ShellInv, ShellType, LeaderPC
    <3>5. /\ wpc[n] # "none" => lpc[n] \in {"dup", "wait"}
          /\ lpc \in [Jobs -> LeaderPC]
      BY <2>1 DEF ShellInv, ShellType, WaitInv
    <3>6. WaitInv'
      BY <1>1, <1>3, <2>1, <2>2, <3>1, <3>2, <3>3, <3>5 DEF ShellInv, WaitInv
    <3> QED
      BY <2>2, <2>3, <3>4, <3>6 DEF ShellInv, ShellType
  <2>5. CASE SWait
    <3>1. spc = "wait" /\ spc' \in {"prompt", "crashed"}
      BY <2>5 DEF SWait, SStep
    <3>2. lpc[n] = "zombie" /\ lpc' = [lpc EXCEPT ![n] = "gone"]
      BY <2>5 DEF SWait, LStep, Job
    <3>3. \A j \in Jobs : j # n => lpc'[j] = lpc[j]
      BY <3>2
    <3>4. lpc' \in [Jobs -> LeaderPC]
      BY <1>1, <3>2 DEF ShellInv, ShellType, LeaderPC
    <3>5. /\ wpc[n] # "none" => lpc[n] \in {"dup", "wait"}
          /\ lpc \in [Jobs -> LeaderPC]
      BY <2>1 DEF ShellInv, ShellType, WaitInv
    <3>6. WaitInv'
      BY <1>1, <1>3, <2>1, <2>2, <3>1, <3>2, <3>3, <3>5 DEF ShellInv, WaitInv
    <3> QED
      BY <2>2, <2>3, <3>4, <3>6 DEF ShellInv, ShellType
  <2>6. CASE SPoll
    <3>1. spc = "poll" /\ spc' = "prompt"
      BY <2>6 DEF SPoll, SStep
    <3>2. \/ lpc' = lpc
          \/ lpc[n] = "zombie" /\ lpc' = [lpc EXCEPT ![n] = "gone"]
      <4>1. lpc' = IF lpc[n] = "zombie" THEN [lpc EXCEPT ![n] = "gone"] ELSE lpc
        BY <2>6, Zenon DEF SPoll, Job
      <4>2. CASE lpc[n] = "zombie"
        BY <4>1, <4>2
      <4>3. CASE lpc[n] # "zombie"
        BY <4>1, <4>3
      <4> QED
        BY <4>2, <4>3
    <3>3. \A j \in Jobs : j # n => lpc'[j] = lpc[j]
      <4>1. CASE lpc' = lpc
        BY <4>1
      <4>2. CASE lpc' = [lpc EXCEPT ![n] = "gone"]
        BY <4>2
      <4> QED
        BY <3>2, <4>1, <4>2
    <3>4. lpc' \in [Jobs -> LeaderPC]
      BY <1>1, <3>2 DEF ShellInv, ShellType, LeaderPC
    <3>5. /\ wpc[n] # "none" => lpc[n] \in {"dup", "wait"}
          /\ lpc \in [Jobs -> LeaderPC]
      BY <2>1 DEF ShellInv, ShellType, WaitInv
    <3>6. WaitInv'
      BY <1>1, <1>3, <2>1, <2>2, <3>1, <3>2, <3>3, <3>5 DEF ShellInv, WaitInv
    <3> QED
      BY <2>2, <2>3, <3>4, <3>6 DEF ShellInv, ShellType
  <2> QED
    BY <1>5, <2>4, <2>5, <2>6
<1> QED
  BY <1>2, <1>4, <1>5 DEF ShellStep

\* For every script, whatever its commands do and whichever process is
\* killed: at the prompt no process of a line without "&" is left.
THEOREM Waiting == Spec => []PromptLast
<1>1. ShellInv => PromptLast
  <2> SUFFICES ASSUME ShellInv, spc = "prompt", NEW j \in 1..Len(taken),
                      lpc[j] # "unborn", ~InBackground(j)
               PROVE  lpc[j] = "gone" /\ wpc[j] = "none"
    BY DEF PromptLast, InBackground
  <2>1. j \in Jobs
    BY DEF ShellInv, ShellType, Jobs
  <2> QED
    BY <2>1 DEF ShellInv, WaitInv
<1>2. ShellInv /\ [Next]_vars => ShellInv'
  <2> SUFFICES ASSUME ShellInv, [Next]_vars PROVE ShellInv'
    OBVIOUS
  <2>1. CASE ShellStep \/ SForkFails
    BY <2>1, ShellMoves
  <2>2. ASSUME NEW j \in Jobs,
               \/ LeaderStep(j) \/ LForkFails(j)
               \/ WriterStep(j) \/ KKilled(j)
        PROVE  ShellInv'
    BY <2>2, JobMovesOn, JobStep
  <2>3. CASE UNCHANGED vars
    <3>1. UNCHANGED <<first, script, taken, offset, next, avail, unread, lpc,
                     wpc, spc>>
      BY <2>3 DEF vars, input, stdin, shell,
         leader, writer
    <3>2. ShellType'
      BY <3>1 DEF ShellInv, ShellType
    <3>3. WaitInv'
      BY <3>1, SameAmpersand DEF ShellInv, WaitInv
    <3> QED
      BY <3>2, <3>3 DEF ShellInv
  <2> QED
    BY <2>1, <2>2, <2>3 DEF Next
<1> QED
  BY <1>1, <1>2, ShellStart, PTL DEF Spec
-----------------------------------------------------------------------------
(* ShellPipeline: what the code makes of a line.                           *)

\* The words that the shells treat specially.
Bar     == "|"
Amp     == "&"
Less    == "<"
Greater == ">"

LEMMA Marks ==
  /\ Special = {Bar, Less, Greater, Amp}
  /\ Bar # Amp /\ Bar # Less /\ Bar # Greater
  /\ Amp # Less /\ Amp # Greater /\ Less # Greater
BY Zenon DEF Special, Bar, Amp, Less, Greater

\* Before() ends at the first t, or with the line.
LEMMA UpTo ==
  ASSUME NEW S, NEW w \in Seq(S), NEW t
  PROVE  /\ Len(Before(w, t)) \in 0..Len(w)
         /\ Before(w, t) = SubSeq(w, 1, Len(Before(w, t)))
         /\ \A i \in 1..Len(Before(w, t)) : w[i] # t
         /\ Len(Before(w, t)) < Len(w) => w[Len(Before(w, t)) + 1] = t
<1> DEFINE P(n) == (\A i \in 1..n : w[i] # t) /\ (n < Len(w) => w[n + 1] = t)
           T == {n \in 0..Len(w) : n = Len(w) \/ w[n + 1] = t}
           c == CHOOSE n \in 0..Len(w) : P(n)
<1>1. PICK n \in T : \A k \in T : ~(k < n)
  <2>1. Len(w) \in T /\ T \subseteq Nat
    OBVIOUS
  <2> QED
    BY <2>1, LeastNumber
<1>2. n \in 0..Len(w) /\ P(n)
  <2>1. n \in 0..Len(w) /\ (n < Len(w) => w[n + 1] = t)
    BY <1>1
  <2>2. ASSUME NEW i \in 1..n, w[i] = t PROVE FALSE
    <3>1. i - 1 \in 0..Len(w) /\ i - 1 + 1 = i /\ i - 1 < n
      BY <2>1
    <3>2. i - 1 \in T
      BY <2>2, <3>1
    <3> QED
      BY <1>1, <3>1, <3>2
  <2> QED
    BY <2>1, <2>2
<1>3. c \in 0..Len(w) /\ P(c)
  BY <1>2
<1>4. Before(w, t) = SubSeq(w, 1, c)
  BY DEF Before
<1>5. Len(Before(w, t)) = c
  <2>1. c \in 0..Len(w)
    BY <1>3
  <2> HIDE DEF c
  <2> QED
    BY <1>4, <2>1
<1> QED
  BY <1>3, <1>4, <1>5

LEMMA HasOne ==
  ASSUME NEW S, NEW w \in Seq(S), NEW t
  PROVE  Has(w, t) <=> \E i \in 1..Len(w) : w[i] = t
<1> DEFINE n == Len(Before(w, t))
<1>1. /\ n \in 0..Len(w) /\ \A i \in 1..n : w[i] # t
      /\ n < Len(w) => w[n + 1] = t
  BY UpTo
<1>2. Has(w, t) <=> n < Len(w)
  BY DEF Has
<1>3. ASSUME n < Len(w) PROVE \E i \in 1..Len(w) : w[i] = t
  BY <1>1, <1>3
<1> QED
  BY <1>1, <1>2, <1>3

LEMMA BarsOf ==
  ASSUME NEW S, NEW w \in Seq(S)
  PROVE  /\ Bars(w) = {i \in 1..Len(w) : w[i] = Bar}
         /\ Stages(w) = {1} \cup {i + 1 : i \in Bars(w)}
         /\ Stages(w) \subseteq 1..Len(w) + 1
<1>1. Bars(w) = {i \in DOMAIN w : w[i] = Bar}
  BY Zenon DEF Bars, Bar
<1>2. Bars(w) = {i \in 1..Len(w) : w[i] = Bar}
  BY <1>1
<1>3. Stages(w) = {1} \cup {i + 1 : i \in Bars(w)}
  BY DEF Stages
<1> QED
  BY <1>2, <1>3

\* How many of the commands start with word i or before it.
Nth(w, i) == Cardinality({k \in Stages(w) : k <= i})

\* From one command to the next the number grows by one.
LEMMA NthGrows ==
  ASSUME NEW S, NEW w \in Seq(S)
  PROVE  /\ \A i : Nth(w, i) \in Nat
         /\ Nth(w, 1) = 1
         /\ \A b, c \in Stages(w) :
              (b < c /\ \A k \in Stages(w) : k <= b \/ k >= c)
                => Nth(w, c) = Nth(w, b) + 1
<1>1. Stages(w) \subseteq 1..Len(w) + 1 /\ IsFiniteSet(1..Len(w) + 1)
  BY BarsOf, FS_Interval
<1>2. ASSUME NEW i
      PROVE  /\ IsFiniteSet({k \in Stages(w) : k <= i})
             /\ Nth(w, i) \in Nat
  <2>1. {k \in Stages(w) : k <= i} \subseteq 1..Len(w) + 1
    BY <1>1
  <2> QED
    BY <1>1, <2>1, FS_Subset, FS_CardinalityType DEF Nth
<1>3. Nth(w, 1) = 1
  <2>1. {k \in Stages(w) : k <= 1} = {1}
    BY <1>1, BarsOf
  <2> QED
    BY <2>1, FS_Singleton DEF Nth
<1>4. ASSUME NEW b \in Stages(w), NEW c \in Stages(w), b < c,
             \A k \in Stages(w) : k <= b \/ k >= c
      PROVE  Nth(w, c) = Nth(w, b) + 1
  <2>1. {k \in Stages(w) : k <= c} = {k \in Stages(w) : k <= b} \cup {c}
    BY <1>1, <1>4
  <2> DEFINE T == {k \in Stages(w) : k <= b}
  <2>2. c \notin T /\ IsFiniteSet(T)
    BY <1>1, <1>2, <1>4
  <2>3. Nth(w, b) = Cardinality(T) /\ Nth(w, c) = Cardinality(T \cup {c})
    BY <2>1 DEF Nth
  <2> HIDE DEF T
  <2> QED
    BY <2>2, <2>3, FS_AddElement
<1> QED
  BY <1>2, <1>3, <1>4

\* The words of the commands end with word m, "|" being none of the ends.
Until(w, m) == m \in 1..Len(w) /\ \A i \in Bars(w) : i < m

LEMMA BeforeOfPart ==
  ASSUME NEW S, NEW w \in Seq(S), NEW n \in 0..Len(w), NEW t
  PROVE  \E m \in 0..n :
           /\ Before(SubSeq(w, 1, n), t) = SubSeq(w, 1, m)
           /\ \A i \in 1..m : w[i] # t
           /\ m < n => w[m + 1] = t
<1> DEFINE v == SubSeq(w, 1, n)
           m == Len(Before(v, t))
<1>1. v \in Seq(S) /\ Len(v) = n /\ \A i \in 1..n : v[i] = w[i]
  OBVIOUS
<1> HIDE DEF v
<1>2. /\ m \in 0..n /\ Before(v, t) = SubSeq(v, 1, m)
      /\ \A i \in 1..m : v[i] # t
      /\ m < n => v[m + 1] = t
  BY <1>1, UpTo
<1> HIDE DEF m
<1>3. SubSeq(v, 1, m) = SubSeq(w, 1, m)
  BY <1>1, <1>2, SMTT(30)
<1>4. /\ \A i \in 1..m : w[i] # t
      /\ m < n => w[m + 1] = t
  BY <1>1, <1>2
<1> QED
  BY <1>2, <1>3, <1>4 DEF v

\* WellPlaced() word by word.
LEMMA Placed ==
  ASSUME NEW w \in Seq(STRING), WellPlaced(w)
  PROVE  /\ \A i \in 1..Len(w) : w[i] \in Special =>
              /\ i > 1 /\ w[i - 1] \notin Special
              /\ w[i] = Amp => i = Len(w)
              /\ w[i] # Amp => i < Len(w) /\ w[i + 1] \notin Special
              /\ w[i] \in {Less, Greater} => \A k \in Bars(w) : k < i
              /\ w[i] = Less => ~Has(w, Greater)
         /\ first => ~Has(w, Bar) /\ ~Has(w, Less) /\ ~Has(w, Greater)
<1>1. DOMAIN w = 1..Len(w)
  OBVIOUS
<1> QED
  BY <1>1, Zenon DEF WellPlaced, Amp, Bar, Less, Greater

\* What is cut from a line that is well placed leaves all of its commands.
LEMMA Parsed ==
  ASSUME NEW w \in Seq(STRING), w # <<>>, WellPlaced(w)
  PROVE  /\ \E m \in Nat : Until(w, m) /\ Arguments(w) = SubSeq(w, 1, m)
         /\ first => Bars(w) = {}
         /\ ~first => /\ Has(Started(w), Less) <=> Has(w, Less)
                      /\ Has(redirect_in(Started(w)), Greater) <=> Has(w, Greater)
         /\ \A i \in {1} \cup {k + 1 : k \in Bars(w)} : w[i] # Bar
<1>1. /\ \A i \in 1..Len(w) : w[i] \in Special =>
           /\ i > 1 /\ w[i - 1] \notin Special
           /\ w[i] = Amp => i = Len(w)
           /\ w[i] # Amp => i < Len(w) /\ w[i + 1] \notin Special
           /\ w[i] \in {Less, Greater} => \A k \in Bars(w) : k < i
           /\ w[i] = Less => ~Has(w, Greater)
      /\ first => ~Has(w, Bar) /\ ~Has(w, Less) /\ ~Has(w, Greater)
  BY Placed
<1>2. Len(w) > 0 /\ w[1] \notin Special
  BY <1>1
<1>3. /\ Bars(w) = {i \in 1..Len(w) : w[i] = Bar}
      /\ \A i \in Bars(w) : i \in 2..Len(w) - 1 /\ w[i + 1] \notin Special
  BY <1>1, BarsOf, Marks
<1>4. PICK a \in 0..Len(w) :
        /\ Before(w, Amp) = SubSeq(w, 1, a)
        /\ \A i \in 1..a : w[i] # Amp
        /\ a < Len(w) => w[a + 1] = Amp
  BY UpTo
<1>5. /\ a > 0 /\ a \in {Len(w), Len(w) - 1}
      /\ Until(w, a)
  <2>1. a > 0 /\ a \in {Len(w), Len(w) - 1}
    BY <1>1, <1>2, <1>4, Marks
  <2> QED
    BY <1>3, <1>4, <2>1, Marks DEF Until
<1>6. Started(w) = SubSeq(w, 1, a)
  <2>1. CASE Has(w, Amp)
    <3>1. Len(Before(w, Amp)) > 0
      BY <1>4, <1>5
    <3>2. is_background(w)
      BY <2>1, <3>1, Zenon DEF is_background, Amp
    <3>3. Started(w) = Before(w, Amp)
      BY <3>2, Zenon DEF Started, Amp
    <3> QED
      BY <1>4, <3>3
  <2>2. CASE ~Has(w, Amp)
    <3>1. ~is_background(w)
      BY <2>2, Zenon DEF is_background, Amp
    <3>2. Started(w) = w
      BY <3>1, Zenon DEF Started
    <3>3. a = Len(w)
      BY <1>4, <2>2, HasOne
    <3> QED
      BY <3>2, <3>3
  <2> QED
    BY <2>1, <2>2
<1>7. PICK x \in 0..a :
        /\ Before(SubSeq(w, 1, a), Less) = SubSeq(w, 1, x)
        /\ \A i \in 1..x : w[i] # Less
        /\ x < a => w[x + 1] = Less
  BY BeforeOfPart
<1>8. x > 0 /\ Until(w, x)
  BY <1>1, <1>2, <1>3, <1>5, <1>7, Marks DEF Until
<1>9. PICK y \in 0..x :
        /\ Before(SubSeq(w, 1, x), Greater) = SubSeq(w, 1, y)
        /\ \A i \in 1..y : w[i] # Greater
        /\ y < x => w[y + 1] = Greater
  <2>1. x \in 0..Len(w)
    BY <1>7
  <2> QED
    BY <2>1, BeforeOfPart
<1>10. y > 0 /\ Until(w, y)
  BY <1>1, <1>2, <1>3, <1>8, <1>9, Marks DEF Until
<1>11. \E m \in Nat : Until(w, m) /\ Arguments(w) = SubSeq(w, 1, m)
  <2>1. CASE first
    <3>1. Arguments(w) = Before(w, Amp)
      BY <2>1, Zenon DEF Arguments, Amp
    <3> QED
      BY <1>4, <1>5, <3>1
  <2>2. CASE ~first
    <3>1. Arguments(w) = Before(Before(Started(w), Less), Greater)
      BY <2>2, Zenon DEF Arguments, redirect_in, redirect_out, Less, Greater
    <3>2. Arguments(w) = SubSeq(w, 1, y)
      BY <1>6, <1>7, <1>9, <3>1
    <3> QED
      BY <1>10, <3>2
  <2> QED
    BY <2>1, <2>2
<1>12. first => Bars(w) = {}
  BY <1>1, <1>3, HasOne
<1>13. Has(Started(w), Less) <=> Has(w, Less)
  <2>1. Started(w) \in Seq(STRING) /\ Len(Started(w)) = a
    BY <1>6
  <2>2. \A i \in 1..a : Started(w)[i] = w[i]
    BY <1>6
  <2>3. \A i \in 1..Len(w) : w[i] = Less => i \in 1..a
    BY <1>1, <1>4, <1>5, Marks
  <2> QED
    BY <1>5, <2>1, <2>2, <2>3, HasOne
<1>14. Has(redirect_in(Started(w)), Greater) <=> Has(w, Greater)
  <2>1. redirect_in(Started(w)) = SubSeq(w, 1, x)
    <3>1. redirect_in(Started(w)) = Before(Started(w), Less)
      BY Zenon DEF redirect_in, Less
    <3> QED
      BY <1>6, <1>7, <3>1
  <2>2. /\ redirect_in(Started(w)) \in Seq(STRING)
        /\ Len(redirect_in(Started(w))) = x
        /\ \A i \in 1..x : redirect_in(Started(w))[i] = w[i]
    BY <1>7, <2>1
  <2>3. \A i \in 1..Len(w) : w[i] = Greater => i \in 1..x
    <3> SUFFICES ASSUME NEW i \in 1..Len(w), w[i] = Greater PROVE i \in 1..x
      OBVIOUS
    <3>1. i < Len(w) /\ i <= a
      BY <1>1, <1>4, <1>5, Marks
    <3>2. CASE x < a
      <4>1. w[x + 1] = Less /\ x + 1 \in 1..Len(w)
        BY <1>7, <3>2
      <4>2. ~Has(w, Greater)
        BY <1>1, <4>1, Marks
      <4> QED
        BY <4>2, HasOne
    <3> QED
      BY <1>7, <3>1, <3>2
  <2> QED
    BY <1>8, <2>2, <2>3, HasOne DEF Until
<1> QED
  BY <1>2, <1>3, <1>11, <1>12, <1>13, <1>14, Marks

\* What is left of the line from word b on.
LEMMA Remaining ==
  ASSUME NEW w \in Seq(STRING), NEW m \in Nat, Until(w, m),
         NEW b \in Stages(w), w[b] # Bar
  PROVE  /\ b \in 1..m
         /\ SubSeq(w, b, m) # <<>> /\ SubSeq(w, b, m)[1] = w[b]
         /\ pipe_present(SubSeq(w, b, m)) \in Nat
         /\ pipe_present(SubSeq(w, b, m)) > 0 <=> \E k \in Stages(w) : k > b
         /\ (\E k \in Stages(w) : k > b) =>
              \E c \in Stages(w) :
                /\ c > b /\ \A k \in Stages(w) : k <= b \/ k >= c
                /\ After(SubSeq(w, b, m), Bar) = SubSeq(w, c, m)
<1> DEFINE v == SubSeq(w, b, m)
           n == Len(Before(v, Bar))
<1>1. /\ Bars(w) = {i \in 1..Len(w) : w[i] = Bar}
      /\ Stages(w) = {1} \cup {i + 1 : i \in Bars(w)}
      /\ m \in 1..Len(w) /\ \A i \in Bars(w) : i < m
  BY BarsOf DEF Until
<1>2. b \in 1..m
  BY <1>1
<1>3. /\ v \in Seq(STRING) /\ Len(v) = m - b + 1
      /\ \A i \in 1..Len(v) : v[i] = w[b + i - 1]
  BY <1>1, <1>2
<1> HIDE DEF v
<1>4. /\ n \in 0..Len(v) /\ \A i \in 1..n : v[i] # Bar
      /\ n < Len(v) => v[n + 1] = Bar
  BY <1>3, UpTo
<1>5. v[1] = w[b] /\ v[Len(v)] = w[m]
  BY <1>2, <1>3
<1>6. v[1] # Bar /\ v[Len(v)] # Bar
  BY <1>1, <1>5
<1>7. pipe_present(v) = IF Has(v, Bar) THEN n ELSE 0
  <2>1. pipe_present(v) = IF v[1] = Bar \/ v[Len(v)] = Bar THEN -1
                          ELSE IF Has(v, Bar) THEN n ELSE 0
    BY Zenon DEF pipe_present, Bar
  <2> QED
    BY <1>6, <2>1
<1>8. Has(v, Bar) <=> n < Len(v)
  BY DEF Has
<1>9. n > 0
  BY <1>2, <1>3, <1>4, <1>6
<1> HIDE DEF n
<1>10. ASSUME NEW k \in Stages(w), k > b PROVE n < Len(v)
  <2>1. k - 1 \in 1..Len(w) /\ w[k - 1] = Bar /\ k - 1 < m /\ k - 1 >= b
    BY <1>1, <1>2, <1>10
  <2>2. k - b \in 1..Len(v) /\ v[k - b] = Bar
    BY <1>2, <1>3, <2>1
  <2> QED
    BY <1>4, <2>2
<1>11. ASSUME n < Len(v)
       PROVE  /\ b + n + 1 \in Stages(w)
              /\ \A k \in Stages(w) : k <= b \/ k >= b + n + 1
              /\ After(v, Bar) = SubSeq(w, b + n + 1, m)
  <2>1. w[b + n] = Bar /\ b + n \in 1..m
    BY <1>2, <1>3, <1>4, <1>11
  <2>2. b + n \in Bars(w)
    BY <1>1, <2>1
  <2>3. ASSUME NEW k \in Stages(w), k > b, k < b + n + 1 PROVE FALSE
    <3>1. b \in Nat /\ n \in Nat /\ n <= Len(v)
      BY <1>2, <1>4
    <3>2. k - 1 \in Bars(w)
      BY <1>1, <2>3, <3>1
    <3>3. k \in Int /\ w[k - 1] = Bar
      BY <1>1, <3>2
    <3>4. k - b \in 1..n /\ b + (k - b) - 1 = k - 1
      BY <2>3, <3>1, <3>3
    <3>5. v[k - b] = Bar
      BY <1>3, <3>1, <3>3, <3>4
    <3> QED
      BY <1>4, <3>4, <3>5
  <2>4. After(v, Bar) = SubSeq(v, n + 2, Len(v))
    BY Zenon DEF After, n
  <2>5. SubSeq(v, n + 2, Len(v)) = SubSeq(w, b + n + 1, m)
    BY <1>1, <1>2, <1>3, <1>4, <2>1, SMTT(30)
  <2>6. b + n + 1 \in Stages(w)
    BY <1>1, <2>2
  <2>7. \A k \in Stages(w) : k <= b \/ k >= b + n + 1
    BY <1>1, <1>2, <1>4, <2>3
  <2> QED
    BY <2>4, <2>5, <2>6, <2>7
<1>12. b + n + 1 > b
  BY <1>2, <1>4
<1>13. v # <<>> /\ n \in Nat
  BY <1>2, <1>3, <1>4
<1>14. pipe_present(v) > 0 <=> \E k \in Stages(w) : k > b
  BY <1>7, <1>8, <1>9, <1>10, <1>11, <1>12
<1>15. ASSUME NEW k \in Stages(w), k > b
       PROVE  \E c \in Stages(w) :
                /\ c > b /\ \A i \in Stages(w) : i <= b \/ i >= c
                /\ After(v, Bar) = SubSeq(w, c, m)
  BY <1>10, <1>11, <1>12, <1>15
<1>16. pipe_present(v) \in Nat
  BY <1>7, <1>13
<1> QED
  BY <1>2, <1>5, <1>13, <1>14, <1>15, <1>16 DEF v

-----------------------------------------------------------------------------
(* InOrder.  The child of a line has always come to one of its commands;   *)
(* what is left of the line, the standard input and output, the writer and *)
(* the history are what the plan of the line makes of that command.        *)

\* The plan's standard input and output, and its entry, for the command that
\* starts with word i.
InFrom(w, i) ==
  IF i > 1 THEN Pipe(Nth(w, i) - 1) ELSE IF Has(w, Less) THEN File ELSE Stdin
LastOut(w) == IF Has(w, Greater) THEN File ELSE Stdout
Planned(w, i) ==
  [nth |-> Nth(w, i), cmd |-> w[i], in |-> InFrom(w, i),
   out |-> IF \E k \in Stages(w) : k > i THEN Pipe(Nth(w, i)) ELSE LastOut(w)]

\* The lines of which InOrder says something.
Sound(w) == w # <<>> /\ WellPlaced(w) /\ Executable(w)

\* Nothing has been made of line j yet.
Fresh(j) ==
  /\ argv[j] = <<>> /\ log[j] = <<>> /\ stage[j] = 0 /\ status[j] = "none"
  /\ in[j] = Stdin /\ out[j] = Stdout

\* The command at word i has been executed, if it can be.
Past(j, i, b, q) ==
  IF lpc[j] = "run" THEN i <= b ELSE IF wpc[j] = "exec" THEN i < q ELSE i < b

Logged(j, w, i) == \E k \in 1..Len(log[j]) : log[j][k] = Planned(w, i)

\* The child of line j, which is w, has come to the command at word b; the
\* one before it starts at q.
Place(j, w, m, b, q) ==
  /\ argv[j] = SubSeq(w, b, m)
  /\ stage[j] = Nth(w, b) - 1
  /\ lpc[j] # "dup" => in[j] = InFrom(w, b)
  /\ out[j] = LastOut(w)
  /\ lpc[j] = "fork" => \E k \in Stages(w) : k > b
  /\ lpc[j] \in {"exec", "run"} => \A k \in Stages(w) : k <= b
  /\ lpc[j] \in {"dup", "wait"} =>
       /\ b > q /\ \A k \in Stages(w) : k <= q \/ k >= b
       /\ stage[j] = Nth(w, q)
  /\ wpc[j] # "none" => wcmd[j] = w[q] /\ win[j] = InFrom(w, q)
History(j, w, b, q) ==
  /\ \A k \in 1..Len(log[j]) :
       log[j][k].nth <= IF lpc[j] = "run" THEN stage[j] + 1
                        ELSE IF wpc[j] = "exec" THEN stage[j] - 1 ELSE stage[j]
  /\ ~hit => \A i \in Stages(w) :
       Past(j, i, b, q) /\ w[i] \in Commands => Logged(j, w, i)
At(j, w) ==
  \E m \in Nat, b, q \in Stages(w) :
    Until(w, m) /\ Place(j, w, m, b, q) /\ History(j, w, b, q)

AtCommand == {"fork", "dup", "wait", "exec", "run"}

Rising(s) == \A k \in 2..Len(s) : s[k - 1].nth < s[k].nth

Ended(j, w) ==
  /\ lpc[j] \in {"zombie", "gone"}
  /\ ~hit => \A i \in Stages(w) : w[i] \in Commands => Logged(j, w, i)

Follows(j, w) ==
  /\ lpc[j] \in AtCommand => At(j, w)
  /\ log[j] \in Seq(Plan(w)) /\ Rising(log[j])
  /\ status[j] = "ok" => Ended(j, w)

\* The lines of the script that the shell has taken are there.
StdinInv ==
  /\ offset \in 0..Len(script)
  /\ next \in 1..avail + 1 /\ avail <= Len(script)
  /\ \A j \in Jobs : unread[j] >= 0
  /\ \A j \in 1..Len(taken) : taken[j] \in 1..Len(script)

Tables ==
  /\ DOMAIN argv = Jobs /\ DOMAIN in = Jobs /\ DOMAIN out = Jobs
  /\ DOMAIN status = Jobs /\ DOMAIN wcmd = Jobs /\ DOMAIN win = Jobs
  /\ DOMAIN stage = Jobs /\ DOMAIN log = Jobs

OrderInv ==
  /\ ShellInv /\ StdinInv /\ Tables
  /\ \A j \in Jobs : lpc[j] \in {"unborn", "start"} => Fresh(j)
  /\ \A j \in 1..Len(taken) :
       Sound(script[taken[j]]) => Follows(j, script[taken[j]])

LEMMA PlanOf ==
  ASSUME NEW w
  PROVE  Plan(w) = {Planned(w, i) : i \in Stages(w)}
BY Zenon DEF Plan, Planned, InFrom, LastOut, Nth, Less, Greater

LEMMA SoundStays ==
  ASSUME NEW w, first' = first
  PROVE  Sound(w)' <=> Sound(w)
BY Zenon DEF Sound, WellPlaced, Executable

\* Nothing of line i has changed.
Same(i) ==
  /\ lpc'[i] = lpc[i] /\ argv'[i] = argv[i] /\ in'[i] = in[i]
  /\ out'[i] = out[i] /\ status'[i] = status[i] /\ wpc'[i] = wpc[i]
  /\ wcmd'[i] = wcmd[i] /\ win'[i] = win[i] /\ stage'[i] = stage[i]
  /\ log'[i] = log[i] /\ (hit => hit')

LEMMA SameFollows ==
  ASSUME NEW i, NEW w, Same(i)
  PROVE  /\ Follows(i, w) => Follows(i, w)'
         /\ Fresh(i) => Fresh(i)'
<1> USE DEF Same
<1>1. Fresh(i) => Fresh(i)'
  BY DEF Fresh
<1>2. \A k : Logged(i, w, k)' <=> Logged(i, w, k)
  BY DEF Logged
<1>3. ASSUME At(i, w) PROVE At(i, w)'
  <2>1. PICK m \in Nat, b \in Stages(w), q \in Stages(w) :
          Until(w, m) /\ Place(i, w, m, b, q) /\ History(i, w, b, q)
    BY <1>3 DEF At
  <2>2. Place(i, w, m, b, q)'
    BY <2>1 DEF Place
  <2>3. History(i, w, b, q)'
    BY <1>2, <2>1 DEF History, Past
  <2> QED
    BY <2>1, <2>2, <2>3 DEF At
<1>4. Ended(i, w) => Ended(i, w)'
  BY <1>2 DEF Ended
<1> QED
  BY <1>1, <1>3, <1>4 DEF Follows

\* A pipe follows: the writer takes the command's place, and the child goes
\* on to the next.
LEMMA ForkFollows ==
  ASSUME OrderInv, NEW j \in Jobs, NEW w \in Seq(STRING), Sound(w),
         Follows(j, w), LFork(j)
  PROVE  Follows(j, w)'
<1>1. /\ lpc[j] = "fork" /\ lpc'[j] = "dup" /\ wpc'[j] = "exec"
      /\ UNCHANGED <<in, out, status, log, hit>>
  BY DEF LFork, LStep, KStep, OrderInv, ShellInv, ShellType
<1>2. /\ wcmd' = [wcmd EXCEPT ![j] = argv[j][1]]
      /\ win' = [win EXCEPT ![j] = in[j]]
      /\ stage' = [stage EXCEPT ![j] = stage[j] + 1]
  BY DEF LFork
<1>3. argv' = [argv EXCEPT ![j] = After(argv[j], Bar)]
  BY Zenon DEF LFork, Bar
<1>4. /\ wcmd'[j] = argv[j][1] /\ win'[j] = in[j]
      /\ stage'[j] = stage[j] + 1 /\ argv'[j] = After(argv[j], Bar)
  BY <1>2, <1>3 DEF OrderInv, Tables
<1>5. PICK m \in Nat, b \in Stages(w), q \in Stages(w) :
        Until(w, m) /\ Place(j, w, m, b, q) /\ History(j, w, b, q)
  BY <1>1 DEF Follows, At, AtCommand
<1>6. /\ argv[j] = SubSeq(w, b, m) /\ stage[j] = Nth(w, b) - 1
      /\ in[j] = InFrom(w, b) /\ out[j] = LastOut(w)
      /\ \E k \in Stages(w) : k > b
  BY <1>1, <1>5 DEF Place
<1>7. w[b] # Bar
  BY Parsed, BarsOf DEF Sound
<1>8. b \in 1..m /\ argv[j][1] = w[b]
  BY <1>5, <1>6, <1>7, Remaining
<1>9. PICK c \in Stages(w) :
        /\ c > b /\ \A k \in Stages(w) : k <= b \/ k >= c
        /\ After(SubSeq(w, b, m), Bar) = SubSeq(w, c, m)
  BY <1>5, <1>6, <1>7, Remaining
<1>10. Nth(w, c) = Nth(w, b) + 1 /\ Nth(w, b) \in Nat
  BY <1>8, <1>9, BarsOf, NthGrows
<1>11. Place(j, w, m, c, b)'
  BY <1>1, <1>4, <1>6, <1>8, <1>9, <1>10 DEF Place
<1>12. History(j, w, c, b)'
  <2>1. wpc[j] = "none"
    BY <1>1 DEF OrderInv, ShellInv, WaitInv
  <2>2. \A k \in 1..Len(log[j]) : log[j][k].nth <= stage[j]
    BY <1>1, <1>5, <2>1 DEF History
  <2>3. \A k \in 1..Len(log'[j]) : log'[j][k].nth <= stage'[j] - 1
    BY <1>1, <1>4, <1>6, <1>10, <2>2
  <2>4. ASSUME ~hit', NEW i \in Stages(w), i < b, w[i] \in Commands
        PROVE  Logged(j, w, i)'
    BY <1>1, <1>5, <2>1, <2>4 DEF History, Past, Logged
  <2> QED
    BY <1>1, <2>3, <2>4 DEF History, Past
<1>13. At(j, w)'
  BY <1>5, <1>9, <1>11, <1>12 DEF At
<1>14. lpc'[j] \notin {"zombie", "gone"} /\ status'[j] # "ok"
  BY <1>1 DEF Follows, Ended
<1> QED
  BY <1>1, <1>13, <1>14 DEF Follows

LEMMA DupFollows ==
  ASSUME OrderInv, NEW j \in Jobs, NEW w \in Seq(STRING), Sound(w),
         Follows(j, w), LDup(j)
  PROVE  Follows(j, w)'
<1>1. /\ lpc[j] = "dup" /\ lpc'[j] = "wait"
      /\ in'[j] = Pipe(stage[j])
      /\ UNCHANGED <<argv, out, status, stage, wpc, wcmd, win, log, hit>>
  BY DEF LDup, LStep, OrderInv, ShellInv, ShellType, Tables, writer
<1>2. PICK m \in Nat, b \in Stages(w), q \in Stages(w) :
        Until(w, m) /\ Place(j, w, m, b, q) /\ History(j, w, b, q)
  BY <1>1 DEF Follows, At, AtCommand
<1>3. b > q /\ stage[j] = Nth(w, b) - 1
  BY <1>1, <1>2 DEF Place
<1>4. in'[j] = InFrom(w, b)
  <2>1. b > 1
    BY <1>3, BarsOf
  <2> QED
    BY <1>1, <1>3, <2>1 DEF InFrom
<1>5. Place(j, w, m, b, q)'
  BY <1>1, <1>2, <1>4 DEF Place
<1>6. History(j, w, b, q)'
  BY <1>1, <1>2 DEF History, Past, Logged
<1>7. At(j, w)'
  BY <1>2, <1>5, <1>6 DEF At
<1>8. status'[j] # "ok"
  BY <1>1 DEF Follows, Ended
<1> QED
  BY <1>1, <1>7, <1>8 DEF Follows

\* The writer has ended; what follows depends on the rest of the line.
LEMMA ReapFollows ==
  ASSUME OrderInv, NEW j \in Jobs, NEW w \in Seq(STRING), Sound(w),
         Follows(j, w), LReap(j)
  PROVE  Follows(j, w)'
<1> DEFINE n == pipe_present(argv[j])
<1>1. /\ lpc[j] = "wait" /\ wpc[j] = "zombie" /\ wpc'[j] = "none"
      /\ UNCHANGED <<argv, in, out, status, stage, wcmd, win, log, hit>>
      /\ lpc'[j] = CASE n > 0 -> "fork" [] n = 0 -> "exec" [] OTHER -> "missing"
  BY DEF LReap, LStep, KStep, OrderInv, ShellInv, ShellType
<1>2. PICK m \in Nat, b \in Stages(w), q \in Stages(w) :
        Until(w, m) /\ Place(j, w, m, b, q) /\ History(j, w, b, q)
  BY <1>1 DEF Follows, At, AtCommand
<1>3. argv[j] = SubSeq(w, b, m) /\ w[b] # Bar
  BY <1>2, Parsed, BarsOf DEF Place, Sound
<1>4. n \in Nat /\ (n > 0 <=> \E k \in Stages(w) : k > b)
  BY <1>2, <1>3, Remaining
<1>5. \/ lpc'[j] = "fork" /\ \E k \in Stages(w) : k > b
      \/ lpc'[j] = "exec" /\ \A k \in Stages(w) : k <= b
  <2> HIDE DEF n
  <2>1. CASE n > 0
    BY <1>1, <1>4, <2>1
  <2>2. CASE n = 0
    <3>1. \A k \in Stages(w) : k <= b
      BY <1>4, <2>2, BarsOf
    <3> QED
      BY <1>1, <2>2, <3>1
  <2> QED
    BY <1>4, <2>1, <2>2
<1>6. Place(j, w, m, b, q)'
  BY <1>1, <1>2, <1>5 DEF Place
<1>7. History(j, w, b, q)'
  BY <1>1, <1>2, <1>5 DEF History, Past, Logged
<1>8. At(j, w)'
  BY <1>2, <1>6, <1>7 DEF At
<1>9. status'[j] # "ok"
  BY <1>1 DEF Follows, Ended
<1> QED
  BY <1>1, <1>5, <1>8, <1>9 DEF Follows

LEMMA LogNumbers ==
  ASSUME NEW S, NEW w \in Seq(S), NEW s \in Seq(Plan(w)), NEW k \in 1..Len(s)
  PROVE  s[k].nth \in Int
<1>1. s[k] \in Plan(w)
  OBVIOUS
<1>2. PICK i \in Stages(w) : s[k] = Planned(w, i)
  BY <1>1, PlanOf
<1>3. s[k].nth = Nth(w, i)
  BY <1>2 DEF Planned
<1> QED
  BY <1>3, NthGrows

\* One more entry of the plan, after all the others.
LEMMA AppendLog ==
  ASSUME NEW w, NEW s \in Seq(Plan(w)), Rising(s), NEW i \in Stages(w),
         \A k \in 1..Len(s) : s[k].nth < Nth(w, i)
  PROVE  /\ Append(s, Planned(w, i)) \in Seq(Plan(w))
         /\ Rising(Append(s, Planned(w, i)))
         /\ Len(Append(s, Planned(w, i))) = Len(s) + 1
         /\ Append(s, Planned(w, i))[Len(s) + 1] = Planned(w, i)
         /\ \A k \in 1..Len(s) : Append(s, Planned(w, i))[k] = s[k]
<1> DEFINE e == Planned(w, i)
<1>1. e \in Plan(w) /\ e.nth = Nth(w, i)
  <2>1. e \in Plan(w)
    BY PlanOf
  <2>2. e.nth = Nth(w, i)
    BY DEF Planned
  <2> QED
    BY <2>1, <2>2
<1> HIDE DEF e
<1>2. /\ Append(s, e) \in Seq(Plan(w))
      /\ Len(Append(s, e)) = Len(s) + 1
      /\ Append(s, e)[Len(s) + 1] = e
      /\ \A k \in 1..Len(s) : Append(s, e)[k] = s[k]
  BY <1>1
<1>3. Rising(Append(s, e))
  <2> SUFFICES ASSUME NEW k \in 2..Len(s) + 1
               PROVE  Append(s, e)[k - 1].nth < Append(s, e)[k].nth
    BY <1>2 DEF Rising
  <2>1. CASE k = Len(s) + 1
    BY <1>1, <1>2, <2>1
  <2>2. CASE k # Len(s) + 1
    BY <1>2, <2>2 DEF Rising
  <2> QED
    BY <2>1, <2>2
<1> QED
  BY <1>2, <1>3 DEF e

\* The child becomes the last command.
LEMMA ExecFollows ==
  ASSUME OrderInv, NEW j \in Jobs, NEW w \in Seq(STRING), Sound(w),
         Follows(j, w), LExec(j)
  PROVE  Follows(j, w)'
<1>1. /\ lpc[j] = "exec" /\ lpc'[j] = "run" /\ wpc[j] = "none"
      /\ UNCHANGED <<argv, in, out, status, stage, wpc, wcmd, win, hit>>
      /\ argv[j][1] \in Commands
  BY DEF LExec, LStep, OrderInv, ShellInv, ShellType, WaitInv, writer
<1>2. log'[j] = Append(log[j], [nth |-> stage[j] + 1, cmd |-> argv[j][1],
                                in |-> in[j], out |-> out[j]])
  BY DEF LExec, Executes, OrderInv, Tables
<1>3. PICK m \in Nat, b \in Stages(w), q \in Stages(w) :
        Until(w, m) /\ Place(j, w, m, b, q) /\ History(j, w, b, q)
  BY <1>1 DEF Follows, At, AtCommand
<1>4. /\ argv[j] = SubSeq(w, b, m) /\ stage[j] = Nth(w, b) - 1
      /\ in[j] = InFrom(w, b) /\ out[j] = LastOut(w)
      /\ \A k \in Stages(w) : k <= b
  BY <1>1, <1>3 DEF Place
<1>5. w[b] # Bar
  BY Parsed, BarsOf DEF Sound
<1>6. argv[j][1] = w[b]
  BY <1>3, <1>4, <1>5, Remaining
<1>7. Nth(w, b) \in Nat /\ stage[j] + 1 = Nth(w, b)
  BY <1>4, NthGrows
<1>8. ~\E k \in Stages(w) : k > b
  BY <1>4, BarsOf
<1>9. log'[j] = Append(log[j], Planned(w, b))
  BY <1>2, <1>4, <1>6, <1>7, <1>8 DEF Planned
<1>10. log[j] \in Seq(Plan(w)) /\ Rising(log[j])
  BY DEF Follows
<1>11. \A k \in 1..Len(log[j]) : log[j][k].nth <= stage[j]
  BY <1>1, <1>3 DEF History
<1>12. \A k \in 1..Len(log[j]) : log[j][k].nth < Nth(w, b)
  BY <1>4, <1>7, <1>10, <1>11, LogNumbers
<1>13. /\ log'[j] \in Seq(Plan(w)) /\ Rising(log'[j])
       /\ Len(log'[j]) = Len(log[j]) + 1
       /\ log'[j][Len(log[j]) + 1] = Planned(w, b)
       /\ \A k \in 1..Len(log[j]) : log'[j][k] = log[j][k]
  BY <1>9, <1>10, <1>12, AppendLog
<1>14. Place(j, w, m, b, q)'
  BY <1>1, <1>3, <1>4 DEF Place
<1>15. History(j, w, b, q)'
  <2>1. \A k \in 1..Len(log'[j]) : log'[j][k].nth <= stage[j] + 1
    <3>1. Planned(w, b).nth = stage[j] + 1
      BY <1>7 DEF Planned
    <3>2. stage[j] + 1 \in Nat
      BY <1>7
    <3>3. \A k \in 1..Len(log[j]) : log'[j][k].nth <= stage[j] + 1
      <4>1. \A k \in 1..Len(log[j]) : log[j][k].nth \in Int
        BY <1>10, LogNumbers
      <4>2. stage[j] \in Int
        BY <1>4, <1>7
      <4>3. \A k \in 1..Len(log[j]) : log[j][k].nth <= stage[j] + 1
        BY <1>11, <4>1, <4>2
      <4>4. \A k \in 1..Len(log[j]) : log'[j][k] = log[j][k]
        BY <1>13
      <4> QED
        BY <4>3, <4>4
    <3>4. log'[j][Len(log[j]) + 1].nth <= stage[j] + 1
      BY <1>13, <3>1, <3>2
    <3> QED
      BY <1>10, <1>13, <3>3, <3>4
  <2>2. ASSUME ~hit, NEW i \in Stages(w), i <= b, w[i] \in Commands
        PROVE  Logged(j, w, i)'
    <3>1. CASE i = b
      BY <1>10, <1>13, <3>1 DEF Logged
    <3>2. CASE i < b
      <4>1. Logged(j, w, i)
        BY <1>1, <1>3, <2>2, <3>2 DEF History, Past
      <4> QED
        BY <1>10, <1>13, <4>1 DEF Logged
    <3> QED
      BY <2>2, <3>1, <3>2, BarsOf
  <2> QED
    BY <1>1, <2>1, <2>2 DEF History, Past
<1>16. At(j, w)'
  BY <1>3, <1>14, <1>15 DEF At
<1>17. status'[j] # "ok"
  BY <1>1 DEF Follows, Ended
<1> QED
  BY <1>1, <1>13, <1>16, <1>17 DEF Follows

\* A child that ends without a command has nothing more to be shown.
LEMMA FailsFollows ==
  ASSUME OrderInv, NEW j \in Jobs, NEW w, Follows(j, w),
         NEW from, LExits(j, from)
  PROVE  Follows(j, w)'
<1>1. lpc'[j] = "zombie" /\ status'[j] = "failed" /\ UNCHANGED log
  BY DEF LExits, LStep, OrderInv, ShellInv, ShellType, Tables
<1> QED
  BY <1>1 DEF Follows, AtCommand

LEMMA ExecFailsFollows ==
  ASSUME OrderInv, NEW j \in Jobs, NEW w \in Seq(STRING), Sound(w),
         Follows(j, w), LExecFails(j)
  PROVE  Follows(j, w)'
<1>1. /\ lpc[j] = "exec" /\ argv[j][1] \notin Commands
      /\ stage[j] > 0 \/ LExits(j, "exec")
  BY DEF LExecFails
<1>2. PICK m \in Nat, b \in Stages(w), q \in Stages(w) :
        Until(w, m) /\ Place(j, w, m, b, q) /\ History(j, w, b, q)
  BY <1>1 DEF Follows, At, AtCommand
<1>3. argv[j] = SubSeq(w, b, m) /\ stage[j] = Nth(w, b) - 1
  BY <1>2 DEF Place
<1>4. argv[j][1] = w[b]
  <2>1. w[b] # Bar
    BY Parsed, BarsOf DEF Sound
  <2> QED
    BY <1>2, <1>3, <2>1, Remaining
<1>5. b = 1
  BY <1>1, <1>4 DEF Sound, Executable
<1>6. ~(stage[j] > 0)
  BY <1>3, <1>5, NthGrows
<1> QED
  BY <1>1, <1>6, FailsFollows

LEMMA EndFollows ==
  ASSUME OrderInv, NEW j \in Jobs, NEW w \in Seq(STRING), Sound(w),
         Follows(j, w), LEnd(j)
  PROVE  Follows(j, w)'
<1>1. lpc[j] = "run" /\ lpc'[j] = "zombie" /\ UNCHANGED <<log, hit>>
  BY DEF LEnd, LStep, OrderInv, ShellInv, ShellType
<1>2. PICK m \in Nat, b \in Stages(w), q \in Stages(w) :
        Until(w, m) /\ Place(j, w, m, b, q) /\ History(j, w, b, q)
  BY <1>1 DEF Follows, At, AtCommand
<1>3. \A k \in Stages(w) : k <= b
  BY <1>1, <1>2 DEF Place
<1>4. Ended(j, w)'
  BY <1>1, <1>2, <1>3 DEF History, Past, Ended, Logged
<1> QED
  BY <1>1, <1>4 DEF Follows, AtCommand

\* The writer becomes the command before the child's.
LEMMA WriterExecFollows ==
  ASSUME OrderInv, NEW j \in Jobs, NEW w \in Seq(STRING), Sound(w),
         Follows(j, w), KExec(j)
  PROVE  Follows(j, w)'
<1>1. /\ wpc[j] = "exec" /\ wpc'[j] = "run" /\ lpc[j] \in {"dup", "wait"}
      /\ UNCHANGED <<lpc, argv, in, out, status, stage, wcmd, win, hit>>
      /\ wcmd[j] \in Commands
  BY DEF KExec, KStep, OrderInv, ShellInv, ShellType, WaitInv, leader
<1>2. log'[j] = Append(log[j], [nth |-> stage[j], cmd |-> wcmd[j],
                                in |-> win[j], out |-> Pipe(stage[j])])
  BY DEF KExec, Executes, OrderInv, Tables
<1>3. PICK m \in Nat, b \in Stages(w), q \in Stages(w) :
        Until(w, m) /\ Place(j, w, m, b, q) /\ History(j, w, b, q)
  BY <1>1 DEF Follows, At, AtCommand
<1>4. /\ stage[j] = Nth(w, q) /\ wcmd[j] = w[q] /\ win[j] = InFrom(w, q)
      /\ b > q /\ \A k \in Stages(w) : k <= q \/ k >= b
  BY <1>1, <1>3 DEF Place
<1>5. log'[j] = Append(log[j], Planned(w, q))
  BY <1>2, <1>4 DEF Planned
<1>6. log[j] \in Seq(Plan(w)) /\ Rising(log[j])
  BY DEF Follows
<1>7. /\ \A k \in 1..Len(log[j]) : log[j][k].nth <= stage[j] - 1
      /\ \A k \in 1..Len(log[j]) : log[j][k].nth \in Int
      /\ stage[j] \in Int
  <2>1. \A k \in 1..Len(log[j]) : log[j][k].nth <= stage[j] - 1
    BY <1>1, <1>3 DEF History
  <2> QED
    BY <1>4, <1>6, <2>1, LogNumbers, NthGrows
<1>8. ASSUME NEW k \in 1..Len(log[j])
      PROVE  log[j][k].nth < Nth(w, q)
  <2>1. /\ log[j][k].nth <= stage[j] - 1
        /\ log[j][k].nth \in Int /\ stage[j] \in Int
    BY <1>7
  <2>2. log[j][k].nth < stage[j]
    BY <2>1
  <2>3. stage[j] = Nth(w, q)
    BY <1>4
  <2> QED
    BY <2>2, <2>3
<1>9. /\ log'[j] \in Seq(Plan(w)) /\ Rising(log'[j])
      /\ Len(log'[j]) = Len(log[j]) + 1
      /\ log'[j][Len(log[j]) + 1] = Planned(w, q)
      /\ \A k \in 1..Len(log[j]) : log'[j][k] = log[j][k]
  BY <1>5, <1>6, <1>8, AppendLog
<1>10. Place(j, w, m, b, q)'
  BY <1>1, <1>3 DEF Place
<1>11. History(j, w, b, q)'
  <2>1. \A k \in 1..Len(log'[j]) : log'[j][k].nth <= stage[j]
    <3>1. Planned(w, q).nth = stage[j]
      BY <1>4 DEF Planned
    <3>2. \A k \in 1..Len(log[j]) : log'[j][k].nth <= stage[j]
      <4>1. \A k \in 1..Len(log[j]) : log[j][k].nth <= stage[j]
        BY <1>7
      <4>2. \A k \in 1..Len(log[j]) : log'[j][k] = log[j][k]
        BY <1>9
      <4> QED
        BY <4>1, <4>2
    <3>3. log'[j][Len(log[j]) + 1].nth <= stage[j]
      <4>1. log'[j][Len(log[j]) + 1] = Planned(w, q)
        BY <1>9
      <4> QED
        BY <1>7, <3>1, <4>1
    <3>4. Len(log[j]) \in Nat
      BY <1>6
    <3>5. \A k \in 1..Len(log'[j]) : k \in 1..Len(log[j]) \/ k = Len(log[j]) + 1
      BY <1>9, <3>4
    <3> QED
      BY <3>2, <3>3, <3>5
  <2>2. ASSUME ~hit, NEW i \in Stages(w), i < b, w[i] \in Commands
        PROVE  Logged(j, w, i)'
    <3>1. CASE i = q
      BY <1>6, <1>9, <3>1 DEF Logged
    <3>2. CASE i < q
      <4>1. Logged(j, w, i)
        BY <1>1, <1>3, <2>2, <3>2 DEF History, Past
      <4> QED
        BY <1>6, <1>9, <4>1 DEF Logged
    <3>3. i <= q
      BY <1>4, <2>2, BarsOf
    <3> QED
      BY <3>1, <3>2, <3>3, BarsOf
  <2> QED
    BY <1>1, <2>1, <2>2 DEF History, Past
<1>12. At(j, w)'
  BY <1>3, <1>10, <1>11 DEF At
<1>13. status'[j] # "ok"
  BY <1>1 DEF Follows, Ended
<1> QED
  BY <1>1, <1>9, <1>12, <1>13 DEF Follows

\* What else the writer does, and what is done to it.
LEMMA WriterFollows ==
  ASSUME OrderInv, NEW j \in Jobs, NEW w \in Seq(STRING), Sound(w),
         Follows(j, w),
         KExecFails(j) \/ KWrite(j) \/ KEnd(j) \/ KKilled(j)
  PROVE  Follows(j, w)'
<1>1. /\ wpc[j] # "none" /\ wpc'[j] # "none" /\ wpc'[j] # "exec"
      /\ UNCHANGED <<lpc, argv, in, out, status, stage, wcmd, win, log>>
      /\ hit' \/ (hit' = hit /\ (wpc[j] # "exec" \/ wcmd[j] \notin Commands))
  <2> USE DEF KStep, OrderInv, ShellInv, ShellType, leader
  <2>1. CASE KExecFails(j)
    BY <2>1 DEF KExecFails
  <2>2. CASE KWrite(j)
    BY <2>2 DEF KWrite
  <2>3. CASE KEnd(j)
    BY <2>3 DEF KEnd
  <2>4. CASE KKilled(j)
    BY <2>4 DEF KKilled
  <2> QED
    BY <2>1, <2>2, <2>3, <2>4
<1>2. lpc[j] \in {"dup", "wait"}
  BY <1>1 DEF OrderInv, ShellInv, WaitInv
<1>3. PICK m \in Nat, b \in Stages(w), q \in Stages(w) :
        Until(w, m) /\ Place(j, w, m, b, q) /\ History(j, w, b, q)
  BY <1>2 DEF Follows, At, AtCommand
<1>4. /\ stage[j] = Nth(w, q) /\ wcmd[j] = w[q]
      /\ b > q /\ \A k \in Stages(w) : k <= q \/ k >= b
  BY <1>1, <1>2, <1>3 DEF Place
<1>5. Place(j, w, m, b, q)'
  BY <1>1, <1>3 DEF Place
<1>6. History(j, w, b, q)'
  <2>1. \A k \in 1..Len(log[j]) : log[j][k].nth <= stage[j]
    <3>1. \A k \in 1..Len(log[j]) :
            /\ log[j][k].nth <= IF wpc[j] = "exec" THEN stage[j] - 1 ELSE stage[j]
            /\ log[j][k].nth \in Int
      BY <1>2, <1>3, LogNumbers DEF History, Follows
    <3>2. stage[j] \in Int
      BY <1>4, NthGrows
    <3> QED
      BY <3>1, <3>2
  <2>2. ASSUME ~hit', NEW i \in Stages(w), i < b, w[i] \in Commands
        PROVE  Logged(j, w, i)'
    <3>1. ~hit /\ (wpc[j] # "exec" \/ i # q)
      BY <1>1, <1>4, <2>2
    <3>2. i <= q
      BY <1>4, <2>2, BarsOf
    <3>3. Past(j, i, b, q)
      BY <1>2, <2>2, <3>1, <3>2, BarsOf DEF Past
    <3>4. Logged(j, w, i)
      BY <1>3, <2>2, <3>1, <3>3 DEF History
    <3> QED
      BY <1>1, <3>4 DEF Logged
  <2> QED
    BY <1>1, <1>2, <2>1, <2>2 DEF History, Past
<1>7. At(j, w)'
  BY <1>3, <1>5, <1>6 DEF At
<1>8. status'[j] # "ok"
  BY <1>1, <1>2 DEF Follows, Ended
<1> QED
  BY <1>1, <1>7, <1>8 DEF Follows

\* The redirections leave the commands, from the first on.
LEMMA StartFollows ==
  ASSUME OrderInv, NEW j \in Jobs, NEW w \in Seq(STRING), Sound(w),
         w = script[taken[j]], LStart(j)
  PROVE  Follows(j, w)'
<1>1. lpc[j] = "start" /\ Fresh(j) /\ wpc[j] = "none"
  BY DEF LStart, OrderInv, ShellInv, WaitInv
<1>2. PICK m \in Nat : Until(w, m) /\ Arguments(w) = SubSeq(w, 1, m)
  BY Parsed DEF Sound
<1>3. argv'[j] = SubSeq(w, 1, m)
  <2>1. argv' = [argv EXCEPT ![j] = Arguments(w)]
    BY Zenon DEF LStart
  <2> QED
    BY <1>2, <2>1 DEF OrderInv, Tables
<1>4. 1 \in Stages(w) /\ w[1] # Bar /\ Nth(w, 1) = 1
  BY Parsed, BarsOf, NthGrows DEF Sound
<1>5. /\ argv'[j] # <<>>
      /\ pipe_present(argv'[j]) > 0 <=> \E k \in Stages(w) : k > 1
  <2> DEFINE v == SubSeq(w, 1, m)
  <2>1. v # <<>> /\ (pipe_present(v) > 0 <=> \E k \in Stages(w) : k > 1)
    BY <1>2, <1>4, Remaining
  <2> HIDE DEF v
  <2>2. argv'[j] = v
    BY <1>3 DEF v
  <2> QED
    BY <2>1, <2>2
<1>6. /\ LStep(j, "start", IF ~first /\ pipe_present(argv'[j]) > 0
                           THEN "fork" ELSE "exec")
      /\ in' = IF ~first /\ Has(Started(w), Less)
               THEN [in EXCEPT ![j] = File] ELSE in
      /\ out' = IF ~first /\ Has(redirect_in(Started(w)), Greater)
                THEN [out EXCEPT ![j] = File] ELSE out
      /\ UNCHANGED <<status, writer, log, hit>>
  <2> DEFINE v == Started(script[taken[j]])
  <2>1. /\ LStep(j, "start", IF ~first /\ pipe_present(argv'[j]) > 0
                             THEN "fork" ELSE "exec")
        /\ in' = IF ~first /\ Has(v, Less) THEN [in EXCEPT ![j] = File] ELSE in
        /\ out' = IF ~first /\ Has(redirect_in(v), Greater)
                  THEN [out EXCEPT ![j] = File] ELSE out
        /\ UNCHANGED status
    BY <1>5, Zenon DEF LStart, Less, Greater
  <2>2. UNCHANGED <<writer, log, hit>>
    BY Zenon DEF LStart
  <2> QED
    BY <2>1, <2>2, Zenon
<1>7. UNCHANGED <<stage, wpc, log, hit, status>>
  BY <1>6, Zenon DEF writer
<1>8. first => Bars(w) = {} /\ ~Has(w, Less) /\ ~Has(w, Greater)
  BY Parsed, Placed DEF Sound
<1>9. \/ lpc'[j] = "fork" /\ \E k \in Stages(w) : k > 1
      \/ lpc'[j] = "exec" /\ \A k \in Stages(w) : k <= 1
  <2>1. first => ~\E k \in Stages(w) : k > 1
    BY <1>8, BarsOf
  <2>2. lpc'[j] = IF ~first /\ pipe_present(argv'[j]) > 0 THEN "fork" ELSE "exec"
    BY <1>6 DEF LStep, OrderInv, ShellInv, ShellType
  <2>3. CASE \E k \in Stages(w) : k > 1
    BY <1>5, <2>1, <2>2, <2>3
  <2>4. CASE ~\E k \in Stages(w) : k > 1
    <3>1. lpc'[j] = "exec"
      BY <1>5, <2>2, <2>4
    <3> QED
      BY <2>4, <3>1, BarsOf
  <2> QED
    BY <2>3, <2>4
<1>10. in'[j] = InFrom(w, 1)
  <2>1. in[j] = Stdin /\ DOMAIN in = Jobs
    BY <1>1 DEF Fresh, OrderInv, Tables
  <2>2. ~first => (Has(Started(w), Less) <=> Has(w, Less))
    BY Parsed DEF Sound
  <2>3. in'[j] = IF Has(w, Less) THEN File ELSE Stdin
    <3>1. CASE Has(w, Less)
      BY <1>6, <1>8, <2>1, <2>2, <3>1
    <3>2. CASE ~Has(w, Less)
      BY <1>6, <1>8, <2>1, <2>2, <3>2
    <3> QED
      BY <3>1, <3>2
  <2> QED
    BY <2>3 DEF InFrom
<1>11. out'[j] = LastOut(w)
  <2>1. out[j] = Stdout /\ DOMAIN out = Jobs
    BY <1>1 DEF Fresh, OrderInv, Tables
  <2>2. ~first => (Has(redirect_in(Started(w)), Greater) <=> Has(w, Greater))
    BY Parsed DEF Sound
  <2>3. out'[j] = IF Has(w, Greater) THEN File ELSE Stdout
    <3>1. CASE Has(w, Greater)
      BY <1>6, <1>8, <2>1, <2>2, <3>1
    <3>2. CASE ~Has(w, Greater)
      BY <1>6, <1>8, <2>1, <2>2, <3>2
    <3> QED
      BY <3>1, <3>2
  <2> QED
    BY <2>3 DEF LastOut
<1>12. stage'[j] = 0 /\ log'[j] = <<>> /\ status'[j] = "none" /\ wpc'[j] = "none"
  BY <1>1, <1>7 DEF Fresh
<1>13. Place(j, w, m, 1, 1)'
  BY <1>3, <1>4, <1>9, <1>10, <1>11, <1>12 DEF Place
<1>14. History(j, w, 1, 1)'
  BY <1>9, <1>12, BarsOf DEF History, Past
<1>15. At(j, w)'
  BY <1>2, <1>4, <1>13, <1>14 DEF At
<1> QED
  BY <1>12, <1>15 DEF Follows, Rising

\* A step of the child of line j, or of its writer, leaves the other lines
\* alone.
Local(j) ==
  /\ UNCHANGED <<first, script, taken, next, avail, unread>>
  /\ Tables' /\ \A i \in Jobs : i # j => Same(i)

LEMMA JobLocal ==
  ASSUME OrderInv, NEW j \in Jobs,
         LeaderStep(j) \/ LForkFails(j) \/ WriterStep(j) \/ KKilled(j)
  PROVE  Local(j)
<1>1. /\ UNCHANGED <<first, script, taken, next, avail, unread>>
      /\ \A i \in Jobs : i # j => lpc'[i] = lpc[i] /\ wpc'[i] = wpc[i]
  BY JobMovesOn DEF OrderInv, JobMoves
<1> USE DEF Local, Tables, Same
<1>2. Tables
  BY DEF OrderInv
<1>3. ASSUME NEW from, LExits(j, from), hit => hit'
      PROVE  Local(j)
  BY <1>1, <1>2, <1>3 DEF LExits, writer
<1>4. CASE LStart(j)
  <2>1. /\ argv' = [argv EXCEPT ![j] = Arguments(script[taken[j]])]
        /\ UNCHANGED <<writer, log, hit>>
    BY <1>4, Zenon DEF LStart
  <2>2. \/ UNCHANGED <<in, out>> /\ status' = [status EXCEPT ![j] = "failed"]
        \/ /\ \/ in' = [in EXCEPT ![j] = File]
              \/ in' = in
           /\ \/ out' = [out EXCEPT ![j] = File]
              \/ out' = out
           /\ UNCHANGED status
    <3>1. CASE argv'[j] = <<>>
      BY <1>4, <3>1, Zenon DEF LStart
    <3>2. CASE argv'[j] # <<>>
      <4> DEFINE v == Started(script[taken[j]])
      <4>1. /\ in' = IF ~first /\ Has(v, Less) THEN [in EXCEPT ![j] = File] ELSE in
            /\ out' = IF ~first /\ Has(redirect_in(v), Greater)
                      THEN [out EXCEPT ![j] = File] ELSE out
            /\ UNCHANGED status
        BY <1>4, <3>2, Zenon DEF LStart, Less, Greater
      <4> QED
        BY <4>1, Zenon
    <3> QED
      BY <3>1, <3>2
  <2>3. UNCHANGED <<wcmd, win, stage, log, hit>>
    BY <2>1, Zenon DEF writer
  <2> QED
    BY <1>1, <1>2, <2>1, <2>2, <2>3
<1>5. CASE LFork(j)
  <2>1. argv' = [argv EXCEPT ![j] = After(argv[j], Bar)]
    BY <1>5, Zenon DEF LFork, Bar
  <2>2. /\ wcmd' = [wcmd EXCEPT ![j] = argv[j][1]]
        /\ win' = [win EXCEPT ![j] = in[j]]
        /\ stage' = [stage EXCEPT ![j] = stage[j] + 1]
        /\ UNCHANGED <<in, out, status, log, hit>>
    BY <1>5 DEF LFork
  <2> QED
    BY <1>1, <1>2, <2>1, <2>2
<1>6. CASE LDup(j)
  BY <1>1, <1>2, <1>6 DEF LDup, writer
<1>7. CASE LReap(j)
  BY <1>1, <1>2, <1>7 DEF LReap
<1>8. CASE LExec(j)
  BY <1>1, <1>2, <1>8 DEF LExec, Executes, writer
<1>9. CASE LExecFails(j)
  <2>1. CASE LExits(j, "exec")
    BY <1>3, <1>9, <2>1 DEF LExecFails
  <2>2. CASE ~LExits(j, "exec")
    BY <1>1, <1>2, <1>9, <2>2 DEF LExecFails, writer
  <2> QED
    BY <2>1, <2>2
<1>10. CASE LMissing(j) \/ LForkFails(j)
  BY <1>3, <1>10 DEF LMissing, LForkFails
<1>11. CASE LEnd(j)
  BY <1>1, <1>2, <1>11 DEF LEnd, writer
<1>12. CASE KExec(j)
  BY <1>1, <1>2, <1>12 DEF KExec, Executes, leader
<1>13. CASE KExecFails(j) \/ KWrite(j) \/ KEnd(j) \/ KKilled(j)
  BY <1>1, <1>2, <1>13 DEF KExecFails, KWrite, KEnd, KKilled, leader
<1> QED
  BY <1>4, <1>5, <1>6, <1>7, <1>8, <1>9, <1>10, <1>11, <1>12, <1>13
  DEF LeaderStep, WriterStep

\* exit() moves the offset back, and never before the beginning.
LEMMA JobStdin ==
  ASSUME OrderInv, NEW j \in Jobs,
         LeaderStep(j) \/ LForkFails(j) \/ WriterStep(j) \/ KKilled(j)
  PROVE  StdinInv'
<1>1. UNCHANGED <<script, taken, next, avail, unread>>
  BY JobLocal DEF Local
<1>2. \/ offset' = offset
      \/ unread[j] <= offset /\ offset' = offset - unread[j]
  <2>1. ASSUME NEW from, exit(j, from)
        PROVE  \/ offset' = offset
               \/ unread[j] <= offset /\ offset' = offset - unread[j]
    BY <2>1 DEF exit
  <2>2. ASSUME NEW from, LExits(j, from)
        PROVE  \/ offset' = offset
               \/ unread[j] <= offset /\ offset' = offset - unread[j]
    BY <2>1, <2>2 DEF LExits
  <2>3. CASE LStart(j) \/ LFork(j) \/ LDup(j) \/ LReap(j)
    BY <2>3, Zenon DEF LStart, LFork, LDup, LReap, stdin
  <2>4. CASE LMissing(j) \/ LForkFails(j)
    BY <2>2, <2>4 DEF LMissing, LForkFails
  <2>5. CASE LExecFails(j)
    BY <2>2, <2>5 DEF LExecFails, stdin
  <2>6. CASE LExec(j) \/ LEnd(j)
    BY <2>6 DEF LExec, LEnd, stdin
  <2>7. CASE KExecFails(j)
    BY <2>1, <2>7 DEF KExecFails
  <2>8. CASE KExec(j) \/ KWrite(j) \/ KEnd(j) \/ KKilled(j)
    BY <2>8 DEF KExec, KWrite, KEnd, KKilled, stdin
  <2> QED
    BY <2>3, <2>4, <2>5, <2>6, <2>7, <2>8 DEF LeaderStep, WriterStep
<1>3. /\ offset \in 0..Len(script) /\ Len(script) \in Int
      /\ unread[j] >= 0 /\ unread[j] \in Int
  BY DEF OrderInv, StdinInv, ShellInv, ShellType
<1>4. offset' \in 0..Len(script)
  <2>1. CASE offset' = offset
    BY <1>3, <2>1
  <2>2. CASE unread[j] <= offset /\ offset' = offset - unread[j]
    BY <1>3, <2>2
  <2> QED
    BY <1>2, <2>1, <2>2
<1> QED
  BY <1>1, <1>4 DEF OrderInv, StdinInv

LEMMA JobOrder ==
  ASSUME OrderInv, NEW j \in Jobs,
         LeaderStep(j) \/ LForkFails(j) \/ WriterStep(j) \/ KKilled(j)
  PROVE  OrderInv'
<1>1. ShellInv' /\ StdinInv' /\ Local(j)
  BY JobMovesOn, JobStep, JobStdin, JobLocal DEF OrderInv
<1>2. lpc'[j] \notin {"unborn", "start"}
  <2>1. \/ lpc' = lpc /\ lpc[j] \in {"dup", "wait", "exec"}
        \/ lpc' \in {[lpc EXCEPT ![j] = s] : s \in LeaderPC \ {"unborn", "start"}}
    <3> USE DEF LStep, LeaderPC
    <3>1. ASSUME NEW from, LExits(j, from)
          PROVE  lpc' = [lpc EXCEPT ![j] = "zombie"]
      BY <3>1 DEF LExits
    <3>2. CASE LStart(j)
      BY <3>2, Zenon DEF LStart
    <3>3. CASE LFork(j) \/ LDup(j) \/ LExec(j) \/ LEnd(j)
      BY <3>3 DEF LFork, LDup, LExec, LEnd
    <3>4. CASE LReap(j)
      BY <3>4 DEF LReap
    <3>5. CASE LMissing(j) \/ LForkFails(j)
      BY <3>1, <3>5 DEF LMissing, LForkFails
    <3>6. CASE LExecFails(j)
      BY <3>1, <3>6 DEF LExecFails
    <3>7. CASE WriterStep(j) \/ KKilled(j)
      <4>1. lpc' = lpc /\ wpc[j] # "none"
        BY <3>7 DEF WriterStep, KExec, KExecFails, KWrite, KEnd, KKilled, KStep,
           leader
      <4> QED
        BY <4>1 DEF OrderInv, ShellInv, WaitInv
    <3> QED
      BY <3>2, <3>3, <3>4, <3>5, <3>6, <3>7 DEF LeaderStep
  <2> QED
    BY <2>1 DEF OrderInv, ShellInv, ShellType
<1>3. ASSUME NEW i \in Jobs, lpc'[i] \in {"unborn", "start"} PROVE Fresh(i)'
  <2>1. i # j /\ Same(i)
    BY <1>1, <1>2, <1>3 DEF Local
  <2>2. Fresh(i)
    BY <1>3, <2>1 DEF Same, OrderInv
  <2> QED
    BY <2>1, <2>2, SameFollows
<1>4. ASSUME NEW i \in 1..Len(taken)', Sound(script[taken[i]])'
      PROVE  Follows(i, script[taken[i]])'
  <2> DEFINE w == script[taken[i]]
  <2>1. i \in 1..Len(taken) /\ i \in Jobs /\ script'[taken'[i]] = w
        /\ first' = first
    BY <1>1, <1>4 DEF Local, OrderInv, ShellInv, ShellType, Jobs
  <2>2. w \in Seq(STRING)
    <3>1. taken[i] \in 1..Len(script) /\ script \in Seq(Seq(STRING))
      BY <2>1 DEF OrderInv, ShellInv, ShellType, StdinInv
    <3> QED
      BY <3>1
  <2>3. PICK v \in Seq(STRING) : v = w
    BY <2>2
  <2>4. Sound(v)' /\ script'[taken'[i]] = v
    BY <1>4, <2>1, <2>3
  <2>5. Sound(v)
    BY <2>1, <2>4, SoundStays
  <2>6. Follows(i, v)
    BY <2>1, <2>3, <2>5 DEF OrderInv
  <2>7. Follows(i, v)'
    <3>1. CASE i # j
      BY <1>1, <2>1, <2>6, <3>1, SameFollows DEF Local
    <3>2. CASE i = j
      <4>1. CASE LStart(j)
        BY <2>3, <2>5, <3>2, <4>1, StartFollows
      <4>2. CASE LFork(j) \/ LDup(j) \/ LReap(j)
        BY <2>5, <2>6, <3>2, <4>2, ForkFollows, DupFollows, ReapFollows
      <4>3. CASE LMissing(j) \/ LForkFails(j)
        BY <2>6, <3>2, <4>3, FailsFollows DEF LMissing, LForkFails
      <4>4. CASE LExec(j) \/ LExecFails(j) \/ LEnd(j)
        BY <2>5, <2>6, <3>2, <4>4, ExecFollows, ExecFailsFollows, EndFollows
      <4>5. CASE WriterStep(j) \/ KKilled(j)
        BY <2>5, <2>6, <3>2, <4>5, WriterExecFollows, WriterFollows
        DEF WriterStep
      <4> QED
        BY <4>1, <4>2, <4>3, <4>4, <4>5 DEF LeaderStep
    <3> QED
      BY <3>1, <3>2
  <2> QED
    BY <2>4, <2>7
<1> QED
  BY <1>1, <1>3, <1>4 DEF OrderInv, Local

\* What the shell itself does to a line: it makes the child, and it waits
\* for its end.
Turns(i) ==
  /\ \/ lpc'[i] = lpc[i]
     \/ lpc[i] = "unborn" /\ lpc'[i] = "start"
     \/ lpc[i] = "zombie" /\ lpc'[i] = "gone"
  /\ UNCHANGED <<argv, in, out, status, writer, log>>
  /\ hit => hit'

LEMMA TurnsFollows ==
  ASSUME NEW i, NEW w, Turns(i)
  PROVE  /\ Follows(i, w) => Follows(i, w)'
         /\ lpc'[i] \in {"unborn", "start"} =>
              /\ lpc[i] \in {"unborn", "start"}
              /\ Fresh(i) => Fresh(i)'
<1>1. CASE lpc'[i] = lpc[i]
  <2>1. Same(i)
    BY <1>1 DEF Turns, Same, writer
  <2> QED
    BY <1>1, <2>1, SameFollows
<1>2. CASE lpc'[i] # lpc[i]
  <2>1. /\ lpc'[i] \notin AtCommand
        /\ lpc[i] = "zombie" => lpc'[i] = "gone"
        /\ lpc[i] # "gone"
        /\ lpc'[i] \in {"unborn", "start"} => lpc[i] = "unborn"
    BY <1>2 DEF Turns, AtCommand
  <2>2. UNCHANGED <<argv, in, out, status, wpc, wcmd, win, stage, log>>
    BY DEF Turns, writer
  <2>3. \A k : Logged(i, w, k)' <=> Logged(i, w, k)
    BY <2>2 DEF Logged
  <2>4. Ended(i, w) => Ended(i, w)'
    BY <2>1, <2>3 DEF Ended, Turns
  <2> QED
    BY <2>1, <2>2, <2>4 DEF Follows, Fresh
<1> QED
  BY <1>1, <1>2

LEMMA ShellTurns ==
  ASSUME OrderInv, ShellStep \/ SForkFails
  PROVE  /\ \A i \in Jobs : Turns(i)
         /\ UNCHANGED <<first, script, argv, in, out, status, writer, log>>
<1> USE DEF Turns, LStep
<1>1. \A i \in Jobs : lpc[i] \in LeaderPC
  BY DEF OrderInv, ShellInv, ShellType
<1>2. CASE SRead
  BY <1>2, Zenon DEF SRead, leader, input
<1>3. CASE SEof \/ SForkFails
  BY <1>3 DEF SEof, SForkFails, leader, input
<1>4. CASE SFork
  BY <1>1, <1>4 DEF SFork, input
<1>5. CASE SWait
  BY <1>1, <1>5 DEF SWait, leader, input
<1>6. CASE SPoll
  <2>1. /\ lpc' = IF lpc[Job] = "zombie" THEN [lpc EXCEPT ![Job] = "gone"]
                  ELSE lpc
        /\ UNCHANGED <<first, script, argv, in, out, status, writer, log, hit>>
    BY <1>6 DEF SPoll, input
  <2>2. CASE lpc[Job] = "zombie"
    BY <1>1, <2>1, <2>2
  <2>3. CASE lpc[Job] # "zombie"
    BY <1>1, <2>1, <2>3
  <2> QED
    BY <2>2, <2>3
<1> QED
  BY <1>2, <1>3, <1>4, <1>5, <1>6 DEF ShellStep

\* The line that fgets() gives out is one of the script's.
LEMMA ShellStdin ==
  ASSUME OrderInv, ShellStep \/ SForkFails
  PROVE  /\ StdinInv'
         /\ Len(taken') \in {Len(taken), Len(taken) + 1}
         /\ \A i \in 1..Len(taken) : taken'[i] = taken[i]
<1>1. /\ offset \in 0..Len(script) /\ Len(script) \in Nat
      /\ next \in 1..avail + 1 /\ avail \in Int /\ avail <= Len(script)
      /\ \A j \in Jobs : unread[j] >= 0
      /\ \A j \in 1..Len(taken) : taken[j] \in 1..Len(script)
      /\ taken \in Seq(Int) /\ unread \in [Jobs -> Int]
  BY DEF OrderInv, StdinInv, ShellInv, ShellType
<1>2. CASE SRead
  <2>1. /\ \/ /\ next <= avail
              /\ next' = next + 1
              /\ taken' = Append(taken, next)
              /\ UNCHANGED <<offset, avail>>
           \/ /\ next > avail /\ offset < Len(script)
              /\ next' = offset + 2
              /\ taken' = Append(taken, offset + 1)
              /\ offset' = IF seekable THEN Len(script) ELSE offset + 1
              /\ avail' = offset'
    BY <1>2, Zenon DEF SRead
  <2>2. UNCHANGED <<script, unread>>
    BY <1>2, Zenon DEF SRead, input, leader
  <2>3. PICK x \in 1..Len(script) : taken' = Append(taken, x)
    <3>1. CASE next <= avail /\ taken' = Append(taken, next)
      <4>1. next \in 1..Len(script)
        BY <1>1, <3>1
      <4> QED
        BY <3>1, <4>1
    <3>2. CASE offset < Len(script) /\ taken' = Append(taken, offset + 1)
      <4>1. offset + 1 \in 1..Len(script)
        BY <1>1, <3>2
      <4> QED
        BY <3>2, <4>1
    <3> QED
      BY <2>1, <3>1, <3>2
  <2>4. /\ Len(taken') = Len(taken) + 1
        /\ \A i \in 1..Len(taken) : taken'[i] = taken[i]
        /\ taken'[Len(taken) + 1] = x
    BY <1>1, <2>3
  <2>5. \A i \in 1..Len(taken') : taken'[i] \in 1..Len(script)
    BY <1>1, <2>4
  <2>6. /\ offset' \in 0..Len(script) /\ next' \in 1..avail' + 1
        /\ avail' <= Len(script)
    BY <1>1, <2>1
  <2> QED
    BY <1>1, <2>2, <2>4, <2>5, <2>6 DEF StdinInv
<1>3. CASE SFork
  <2>1. /\ unread' = [unread EXCEPT ![Job] = avail - next + 1]
        /\ UNCHANGED <<script, offset, next, avail, taken>>
    BY <1>3 DEF SFork, input, stdin
  <2>2. \A j \in Jobs : unread'[j] >= 0
    BY <1>1, <2>1
  <2> QED
    BY <1>1, <2>1, <2>2 DEF StdinInv
<1>4. CASE SEof \/ SForkFails \/ SWait \/ SPoll
  <2>1. UNCHANGED <<script, offset, next, avail, taken, unread>>
    BY <1>4 DEF SEof, SForkFails, SWait, SPoll, input, stdin, leader
  <2> QED
    BY <1>1, <2>1 DEF StdinInv
<1> QED
  BY <1>2, <1>3, <1>4 DEF ShellStep

LEMMA ShellOrder ==
  ASSUME OrderInv, ShellStep \/ SForkFails
  PROVE  OrderInv'
<1>1. /\ ShellInv' /\ StdinInv' /\ \A i \in Jobs : Turns(i)
      /\ UNCHANGED <<first, script, argv, in, out, status, writer, log>>
      /\ Len(taken') \in {Len(taken), Len(taken) + 1}
      /\ \A i \in 1..Len(taken) : taken'[i] = taken[i]
  BY ShellMoves, ShellTurns, ShellStdin DEF OrderInv
<1>2. Tables'
  BY <1>1 DEF Tables, writer, OrderInv
<1>3. ASSUME NEW i \in Jobs, lpc'[i] \in {"unborn", "start"} PROVE Fresh(i)'
  BY <1>1, <1>3, TurnsFollows DEF OrderInv
<1>4. ASSUME NEW i \in 1..Len(taken)', Sound(script[taken[i]])'
      PROVE  Follows(i, script[taken[i]])'
  <2>1. PICK w : w = script'[taken'[i]]
    OBVIOUS
  <2>2. Sound(w)
    <3>1. Sound(w)'
      BY <1>4, <2>1
    <3> QED
      BY <1>1, <3>1, SoundStays
  <2>3. i \in Jobs /\ Len(taken) \in Nat
    BY <1>1 DEF OrderInv, ShellInv, ShellType, Jobs
  <2>4. CASE i <= Len(taken)
    <3>1. i \in 1..Len(taken)
      BY <2>3, <2>4
    <3>2. w = script[taken[i]]
      BY <1>1, <2>1, <3>1
    <3>3. Follows(i, w)
      BY <2>2, <3>1, <3>2 DEF OrderInv
    <3>4. Follows(i, w)'
      BY <1>1, <2>3, <3>3, TurnsFollows
    <3> QED
      BY <2>1, <3>4
  <2>5. CASE i > Len(taken)
    <3>1. lpc[i] = "unborn" /\ Fresh(i)
      BY <2>3, <2>5 DEF OrderInv, ShellInv, WaitInv
    <3>2. Follows(i, w)
      BY <3>1 DEF Follows, Fresh, AtCommand, Rising
    <3>3. Follows(i, w)'
      BY <1>1, <2>3, <3>2, TurnsFollows
    <3> QED
      BY <2>1, <3>3
  <2> QED
    BY <2>3, <2>4, <2>5
<1> QED
  BY <1>1, <1>2, <1>3, <1>4 DEF OrderInv

LEMMA OrderStart == Init => OrderInv
<1> SUFFICES ASSUME Init PROVE OrderInv
  OBVIOUS
<1>1. ShellInv
  BY ShellStart
<1>2. /\ offset = 0 /\ next = 1 /\ avail = 0 /\ taken = <<>>
      /\ unread = [j \in Jobs |-> 0]
  BY Zenon DEF Init
<1>3. /\ argv = [j \in Jobs |-> <<>>]
      /\ in = [j \in Jobs |-> Stdin] /\ out = [j \in Jobs |-> Stdout]
      /\ status = [j \in Jobs |-> "none"]
      /\ wcmd = [j \in Jobs |-> ""] /\ win = [j \in Jobs |-> Stdin]
      /\ stage = [j \in Jobs |-> 0] /\ log = [j \in Jobs |-> <<>>]
  BY Zenon DEF Init
<1>4. Len(script) \in Nat
  BY <1>1 DEF ShellInv, ShellType
<1>5. StdinInv
  BY <1>2, <1>4 DEF StdinInv
<1>6. DOMAIN wcmd = Jobs
  BY <1>3, Zenon
<1>7. Tables
  BY <1>3, <1>6 DEF Tables
<1>8. \A j \in Jobs : Fresh(j)
  BY <1>3 DEF Fresh
<1> QED
  BY <1>1, <1>2, <1>5, <1>7, <1>8 DEF OrderInv

\* For every script, with any number of pipes in a line and in any order in
\* which the processes that run_command() and pipe_and_exec() fork take their
\* steps: of a line that is well placed each command is executed at most
\* once, from left to right, with the input and output the line gives it,
\* and all of them are if the line ends well and nothing was killed.
THEOREM PipelinesInOrder == Spec => []InOrder
<1>1. OrderInv => InOrder
  <2> SUFFICES ASSUME OrderInv, NEW j \in 1..Len(taken),
                      Sound(script[taken[j]])
               PROVE  LET w == script[taken[j]]
                          done == {log[j][k] : k \in 1..Len(log[j])}
                      IN  /\ done \subseteq Plan(w)
                          /\ \A k \in 2..Len(log[j]) :
                               log[j][k - 1].nth < log[j][k].nth
                          /\ status[j] = "ok" /\ ~hit =>
                               \A c \in Plan(w) : c.cmd \in Commands => c \in done
    BY Zenon DEF InOrder, Sound
  <2> DEFINE w == script[taken[j]]
             done == {log[j][k] : k \in 1..Len(log[j])}
  <2>1. Follows(j, w)
    BY DEF OrderInv
  <2> HIDE DEF w
  <2>2. done \subseteq Plan(w)
    BY <2>1 DEF Follows
  <2>3. \A k \in 2..Len(log[j]) : log[j][k - 1].nth < log[j][k].nth
    BY <2>1 DEF Follows, Rising
  <2>4. ASSUME status[j] = "ok", ~hit, NEW c \in Plan(w), c.cmd \in Commands
        PROVE  c \in done
    <3>1. PICK i \in Stages(w) : c = Planned(w, i)
      BY PlanOf
    <3>2. w[i] \in Commands
      BY <2>4, <3>1 DEF Planned
    <3> QED
      BY <2>1, <2>4, <3>1, <3>2 DEF Follows, Ended, Logged
  <2> QED
    BY <2>2, <2>3, <2>4 DEF w
<1>2. OrderInv /\ [Next]_vars => OrderInv'
  <2> SUFFICES ASSUME OrderInv, [Next]_vars PROVE OrderInv'
    OBVIOUS
  <2>1. CASE ShellStep \/ SForkFails
    BY <2>1, ShellOrder
  <2>2. ASSUME NEW j \in Jobs,
               \/ LeaderStep(j) \/ LForkFails(j)
               \/ WriterStep(j) \/ KKilled(j)
        PROVE  OrderInv'
    BY <2>2, JobOrder
  <2>3. CASE UNCHANGED vars
    <3>1. UNCHANGED <<first, script, offset, next, avail, taken, spc, lpc, argv,
                     in, out, unread, status, wpc, wcmd, win, stage, log, hit>>
      BY <2>3 DEF vars, input, stdin, shell, leader, writer
    <3>2. ShellInv'
      <4>1. ShellType' /\ WaitInv'
        BY <3>1, SameAmpersand DEF OrderInv, ShellInv, ShellType, WaitInv
      <4> QED
        BY <4>1 DEF ShellInv
    <3>3. StdinInv' /\ Tables'
      BY <3>1 DEF OrderInv, StdinInv, Tables
    <3>4. \A i : Same(i)
      BY <3>1 DEF Same
    <3>5. ASSUME NEW i \in Jobs, lpc'[i] \in {"unborn", "start"} PROVE Fresh(i)'
      BY <3>1, <3>4, <3>5, SameFollows DEF OrderInv
    <3>6. ASSUME NEW i \in 1..Len(taken)', Sound(script[taken[i]])'
          PROVE  Follows(i, script[taken[i]])'
      <4>1. PICK w : w = script'[taken'[i]]
        OBVIOUS
      <4>2. Sound(w)'
        BY <3>6, <4>1
      <4>3. Sound(w)
        BY <3>1, <4>2, SoundStays
      <4>4. Follows(i, w)
        BY <3>1, <4>1, <4>3 DEF OrderInv
      <4>5. Follows(i, w)'
        BY <3>4, <4>4, SameFollows
      <4> QED
        BY <4>1, <4>5
    <3> QED
      BY <3>2, <3>3, <3>5, <3>6 DEF OrderInv
  <2> QED
    BY <2>1, <2>2, <2>3 DEF Next
<1> QED
  BY <1>1, <1>2, OrderStart, PTL DEF Spec

-----------------------------------------------------------------------------
(* ProcessTree.  TreeShown is about the whole of what traversal() prints; *)
(* what is inductive says of every call how far it has come: of the rows   *)
(* under the root that it began with, all are printed but those that the   *)
(* calls on the stack, and the next call, are still to go over.            *)

Row == [pid : 1..MaxPid, ppid : 0..MaxPid]

\* The first two rows are those of the first two processes.
TwoRoots ==
  /\ Len(rows) >= 2
  /\ rows[1].pid = 1 /\ rows[1].ppid = 0
  /\ rows[2].pid = 2 /\ rows[2].ppid \in {0, 1}

RowsInv ==
  /\ rows \in Seq(Row)
  /\ \A i, j \in 1..Len(rows) : i < j => rows[i].pid < rows[j].pid

\* The first two processes do not end.
FathersInv ==
  /\ DOMAIN father \subseteq 1..MaxPid /\ {1, 2} \subseteq DOMAIN father
  /\ \A p \in DOMAIN father : father[p] \in 0..MaxPid
  /\ father[1] = 0 /\ father[2] \in {0, 1}

\* The names that are left are greater than those that have been read.
NamesInv ==
  /\ names \subseteq 1..MaxPid
  /\ \A i \in 1..Len(rows), n \in names : rows[i].pid < n
  /\ \/ rows = <<>> /\ {1, 2} \subseteq names
     \/ Len(rows) = 1 /\ rows[1].pid = 1 /\ rows[1].ppid = 0 /\ 2 \in names
     \/ TwoRoots

\* The row j has been printed, of those after the first s.
Shown(j, s) == \E n \in s + 1..Len(tree) : tree[n][1] = j

\* No row twice among the lines from a to b.
Once(a, b) == \A m, n \in a..b : tree[m][1] = tree[n][1] => m = n

\* The calls on the stack have come past the rows from this one on.
Turn(i) == IF i = Len(stack) THEN call ELSE stack[i + 1] - 1
Reached(j) ==
  \A i \in 1..Len(stack) : Tree!FatherRow(j) = stack[i] => j > Turn(i)

\* Each call on the stack but the first is for a child of the one before.
Descent(r) ==
  /\ stack # <<>> => stack[1] = r
  /\ \A i \in 1..Len(stack) : \A k \in 1..i - 1 : stack[k] < stack[i]
  /\ \A i \in 2..Len(stack) : Tree!FatherRow(stack[i]) = stack[i - 1]
  /\ call # 0 => IF stack = <<>> THEN call = r
                 ELSE Tree!FatherRow(call) = stack[Len(stack)]

\* The root r was come to after s lines.
Progress(r, s) ==
  /\ r \in {1, 2} /\ s \in 0..Len(tree)
  /\ Once(s + 1, Len(tree))
  /\ \A i \in 1..Len(stack) : Shown(stack[i], s)
  /\ IF call # 0 /\ stack = <<>> THEN s = Len(tree) ELSE Shown(r, s)
  /\ call = 0 /\ stack = <<>> => r = 2
  /\ \A j \in 1..Len(rows) \ {r} :
       Shown(j, s) <=> /\ Tree!FatherRow(j) # 0
                       /\ Shown(Tree!FatherRow(j), s) /\ Reached(j)

\* What came before the root r: nothing, or all that is under the first.
Earlier(r, s) ==
  IF r = 1 THEN s = 0
  ELSE /\ Once(1, s)
       /\ \A j \in 1..Len(rows) :
            j \in Tree!Under({1}) <=> \E n \in 1..s : tree[n][1] = j

Twice == rows[2].ppid = 1

\* Fathers stand before their children, and less far to the right.
AfterFather(n) ==
  \E m \in 1..n - 1 : /\ tree[m][1] = Tree!FatherRow(tree[n][1])
                      /\ ~Twice => tree[m][2] < tree[n][2]

\* The line of a call on the stack, from which its children are indented.
Inset(i) ==
  \E m \in 1..Len(tree) :
    /\ tree[m][1] = stack[i]
    /\ ~Twice => /\ tree[m][2] <= count
                 /\ i < Len(stack) \/ call # 0 => tree[m][2] < count

Indented ==
  /\ \A n \in 1..Len(tree) : tree[n][1] \notin {1, 2} => AfterFather(n)
  /\ \A i \in 1..Len(stack) : Inset(i)

WalkType ==
  /\ call \in 0..Len(rows) /\ stack \in Seq(1..Len(rows))
  /\ count \in Nat /\ tree \in Seq((1..Len(rows)) \X Nat)

WalkAt(r, s) ==
  /\ TwoRoots /\ WalkType /\ Indented
  /\ Progress(r, s) /\ Descent(r) /\ Earlier(r, s)

Walk == \E r, s \in Nat : WalkAt(r, s)

Unwalked == call = 0 /\ stack = <<>> /\ count = 1 /\ tree = <<>>

TreeInv ==
  /\ RowsInv
  /\ \/ step = "start" /\ rows = <<>> /\ Unwalked
     \/ step = "scan" /\ FathersInv /\ NamesInv /\ Unwalked
     \/ step = "print" /\ Walk
     \/ step = "ended" /\ tree = <<>>
     \/ step = "ended" /\ call = 0 /\ stack = <<>> /\ Walk

\* The largest of some of the numbers up to n.
LEMMA LargestOf ==
  ASSUME NEW n \in Nat, NEW S, S \subseteq 1..n
  PROVE  /\ Tree!Largest(S) = 0 => S = {}
         /\ Tree!Largest(S) \in 0..n
         /\ Tree!Largest(S) # 0 => Tree!Largest(S) \in S
         /\ \A x \in S : x <= Tree!Largest(S)
<1>1. CASE S = {}
  BY <1>1 DEF Tree!Largest
<1>2. CASE S # {}
  <2> DEFINE T == {m \in Nat : \E x \in S : m = n - x}
  <2>1. T \subseteq Nat /\ T # {}
    <3>1. PICK x \in S : TRUE
      BY <1>2
    <3>2. n - x \in T
      BY <3>1
    <3> QED
      BY <3>2
  <2>2. PICK m \in T : \A k \in T : ~(k < m)
    <3> HIDE DEF T
    <3> QED
      BY <2>1, LeastNumber
  <2>3. PICK x \in S : m = n - x
    BY <2>2
  <2>4. \A y \in S : x >= y
    <3>1. SUFFICES ASSUME NEW y \in S, y > x PROVE FALSE
      BY <2>3
    <3>2. n - y \in T
      BY <3>1
    <3> QED
      BY <2>2, <2>3, <3>1, <3>2
  <2>5. Tree!Max(S) \in S /\ \A y \in S : Tree!Max(S) >= y
    BY <2>4 DEF Tree!Max
  <2>6. Tree!Largest(S) = Tree!Max(S)
    BY <1>2, Zenon DEF Tree!Largest
  <2>7. PICK l \in 1..n : l = Tree!Largest(S)
    BY <2>5, <2>6
  <2>8. l # 0 /\ l \in 0..n
    BY <2>7
  <2> QED
    BY <2>5, <2>6, <2>7, <2>8
<1> QED
  BY <1>1, <1>2

LEMMA RowNumbers ==
  ASSUME RowsInv
  PROVE  /\ Len(rows) \in Nat /\ DOMAIN rows = 1..Len(rows)
         /\ \A i \in 1..Len(rows) : rows[i].pid \in Int /\ rows[i].ppid \in Int
<1>1. \A i \in 1..Len(rows) : rows[i] \in Row
  BY DEF RowsInv
<1>2. \A i \in 1..Len(rows) : rows[i].pid \in 1..MaxPid /\ rows[i].ppid \in 0..MaxPid
  BY <1>1 DEF Row
<1>3. MaxPid \in Nat
  BY TreeAssumption
<1>4. Len(rows) \in Nat /\ DOMAIN rows = 1..Len(rows)
  BY DEF RowsInv
<1> QED
  BY <1>2, <1>3, <1>4

\* The father's row is the row before that has his number.
LEMMA FatherBefore ==
  ASSUME RowsInv, NEW j \in 1..Len(rows)
  PROVE  /\ Tree!FatherRow(j) \in 0..j - 1
         /\ Tree!FatherRow(j) # 0 => rows[Tree!FatherRow(j)].pid = rows[j].ppid
         /\ \A k \in 1..j - 1 :
              rows[k].pid = rows[j].ppid => Tree!FatherRow(j) = k
<1> DEFINE S == {k \in 1..j - 1 : rows[k].pid = rows[j].ppid}
<1>1. Len(rows) \in Nat
  BY DEF RowsInv
<1>2. Tree!FatherRow(j) = Tree!Largest(S)
  BY DEF Tree!FatherRow
<1>3. j - 1 \in Nat /\ S \subseteq 1..j - 1
  BY <1>1
<1>4. /\ Tree!FatherRow(j) \in 0..j - 1
      /\ Tree!FatherRow(j) # 0 => Tree!FatherRow(j) \in S
      /\ \A x \in S : x <= Tree!FatherRow(j)
  <2> HIDE DEF S
  <2>1. PICK n \in Nat : n = j - 1
    BY <1>3
  <2> QED
    BY <1>2, <1>3, <2>1, LargestOf
<1>5. \A i \in 1..Len(rows) : rows[i].pid \in Int
  BY RowNumbers
<1>6. ASSUME NEW k \in 1..j - 1, rows[k].pid = rows[j].ppid
      PROVE  Tree!FatherRow(j) = k
  <2>1. k \in S
    BY <1>6
  <2>2. Tree!FatherRow(j) \in S /\ k <= Tree!FatherRow(j)
    BY <1>3, <1>4, <2>1
  <2>3. rows[Tree!FatherRow(j)].pid = rows[k].pid
    BY <1>6, <2>2
  <2> QED
    BY <1>1, <1>5, <2>2, <2>3 DEF RowsInv
<1> QED
  BY <1>4, <1>6

\* The first row has no father, the second none but the first.
LEMMA RootsFathers ==
  ASSUME RowsInv, TwoRoots
  PROVE  /\ Tree!FatherRow(1) = 0
         /\ Tree!FatherRow(2) = IF Twice THEN 1 ELSE 0
<1>1. Len(rows) \in Nat
  BY DEF RowsInv
<1>2. Tree!FatherRow(1) = 0
  BY <1>1, FatherBefore DEF TwoRoots
<1>3. Tree!FatherRow(2) \in {0, 1}
  BY <1>1, FatherBefore DEF TwoRoots
<1>4. 2 \in 1..Len(rows) /\ 1 \in 1..2 - 1
  BY <1>1 DEF TwoRoots
<1>5. Tree!FatherRow(2) # 0 => rows[1].pid = rows[2].ppid
  BY <1>3, <1>4, FatherBefore
<1>6. rows[1].pid = rows[2].ppid => Tree!FatherRow(2) = 1
  BY <1>4, FatherBefore
<1> QED
  BY <1>2, <1>3, <1>5, <1>6 DEF TwoRoots, Twice

\* A row's child is the last of the rows whose father it is, and its sibling
\* the last before it that has the same father.
LEMMA LastChild ==
  ASSUME RowsInv, NEW k \in 1..Len(rows)
  PROVE  /\ Tree!Child(k) \in 0..Len(rows)
         /\ Tree!Child(k) # 0 => Tree!FatherRow(Tree!Child(k)) = k
         /\ \A j \in 1..Len(rows) : Tree!FatherRow(j) = k => j <= Tree!Child(k)
<1> DEFINE S == {j \in DOMAIN rows : Tree!FatherRow(j) = k}
<1>1. Len(rows) \in Nat /\ DOMAIN rows = 1..Len(rows)
  BY DEF RowsInv
<1>2. Tree!Child(k) = Tree!Largest(S) /\ S \subseteq 1..Len(rows)
  BY <1>1 DEF Tree!Child
<1>3. /\ Tree!Child(k) \in 0..Len(rows)
      /\ Tree!Child(k) # 0 => Tree!Child(k) \in S
      /\ \A x \in S : x <= Tree!Child(k)
  <2> HIDE DEF S
  <2> QED
    BY <1>1, <1>2, LargestOf
<1> QED
  BY <1>1, <1>3

LEMMA NextSibling ==
  ASSUME RowsInv, NEW j \in 1..Len(rows), j # 1
  PROVE  /\ Tree!Sibling(j) \in 0..j - 1
         /\ Tree!Sibling(j) # 0 => /\ Tree!FatherRow(j) # 0
                                   /\ Tree!FatherRow(Tree!Sibling(j)) = Tree!FatherRow(j)
         /\ \A i \in 1..j - 1 :
              Tree!FatherRow(j) # 0 /\ Tree!FatherRow(i) = Tree!FatherRow(j)
                => i <= Tree!Sibling(j)
<1> DEFINE S == {i \in 1..j - 1 : /\ Tree!FatherRow(j) # 0
                                  /\ Tree!FatherRow(i) = Tree!FatherRow(j)}
<1>1. j - 1 \in Nat /\ S \subseteq 1..j - 1
  BY DEF RowsInv
<1>2. Tree!Sibling(j) = Tree!Largest(S)
  BY DEF Tree!Sibling
<1>3. /\ Tree!Sibling(j) \in 0..j - 1
      /\ Tree!Sibling(j) # 0 => Tree!Sibling(j) \in S
      /\ \A x \in S : x <= Tree!Sibling(j)
  <2> HIDE DEF S
  <2> QED
    BY <1>1, <1>2, LargestOf
<1> QED
  BY <1>3

\* Two sets of rows are the same if a row that tells them apart has one
\* before it that does.
LEMMA RowByRow ==
  ASSUME NEW n \in Nat, NEW A, NEW B,
         \A j \in 1..n : (\A k \in 1..j - 1 : k \in A <=> k \in B)
                           => (j \in A <=> j \in B)
  PROVE  \A j \in 1..n : j \in A <=> j \in B
<1> DEFINE T == {j \in 1..n : ~(j \in A <=> j \in B)}
<1>1. T \subseteq Nat
  OBVIOUS
<1>2. SUFFICES T # {} => FALSE
  OBVIOUS
<1>3. SUFFICES ASSUME T # {} PROVE FALSE
  OBVIOUS
<1>4. PICK j \in T : \A k \in T : ~(k < j)
  <2> HIDE DEF T
  <2> QED
    BY <1>1, <1>3, LeastNumber
<1>5. \A k \in 1..j - 1 : k \in A <=> k \in B
  BY <1>4
<1> QED
  BY <1>4, <1>5

\* A row is under some roots if it is one of them or its father's row is
\* under them.
LEMMA UnderFather ==
  ASSUME RowsInv, NEW R, NEW j \in 1..Len(rows)
  PROVE  j \in Tree!Under(R) <=>
           \/ j \in R
           \/ Tree!FatherRow(j) # 0 /\ Tree!FatherRow(j) \in Tree!Under(R)
<1> DEFINE Way(path, i) ==
      /\ i \in path
      /\ \A x \in path \ R : \E k \in path : k < x /\ rows[k].pid = rows[x].ppid
<1>1. Len(rows) \in Nat
  BY RowNumbers
<1>2. \A i : i \in Tree!Under(R) <=>
               i \in 1..Len(rows) /\ \E path \in SUBSET (1..i) : Way(path, i)
  BY RowNumbers DEF Tree!Under
<1>3. ASSUME j \in Tree!Under(R), j \notin R
      PROVE  Tree!FatherRow(j) # 0 /\ Tree!FatherRow(j) \in Tree!Under(R)
  <2>1. PICK path \in SUBSET (1..j) : Way(path, j)
    BY <1>2, <1>3
  <2>2. PICK k \in path : k < j /\ rows[k].pid = rows[j].ppid
    BY <1>3, <2>1
  <2>3. k \in 1..j - 1 /\ k \in 1..Len(rows)
    BY <1>1, <2>2
  <2>4. Tree!FatherRow(j) = k
    BY <2>2, <2>3, FatherBefore
  <2> DEFINE short == {i \in path : i <= k}
  <2>5. short \in SUBSET (1..k) /\ k \in short
    <3>1. k \in Int /\ \A i \in path : i \in Int /\ i >= 1
      <4>1. \A i \in path : i \in 1..j
        BY <2>1
      <4> QED
        BY <2>2, <4>1
    <3>2. k \in short
      BY <2>2, <3>1
    <3>3. \A i \in short : i \in 1..k
      BY <3>1
    <3> QED
      BY <3>2, <3>3
  <2>6. ASSUME NEW x \in short \ R
        PROVE  \E i \in short : i < x /\ rows[i].pid = rows[x].ppid
    <3>1. PICK i \in path : i < x /\ rows[i].pid = rows[x].ppid
      BY <2>1, <2>6
    <3>2. i <= k
      BY <2>3, <2>5, <2>6, <3>1
    <3> QED
      BY <3>1, <3>2
  <2>7. Way(short, k)
    BY <2>5, <2>6
  <2> HIDE DEF Way, short
  <2>8. k \in Tree!Under(R)
    BY <1>2, <2>3, <2>5, <2>7
  <2> QED
    BY <2>3, <2>4, <2>8
<1>4. ASSUME j \in R PROVE j \in Tree!Under(R)
  <2>1. Way({j}, j) /\ {j} \in SUBSET (1..j)
    BY <1>1, <1>4
  <2> HIDE DEF Way
  <2> QED
    BY <1>2, <2>1
<1>5. ASSUME Tree!FatherRow(j) # 0, Tree!FatherRow(j) \in Tree!Under(R)
      PROVE  j \in Tree!Under(R)
  <2>1. PICK k : k = Tree!FatherRow(j)
    OBVIOUS
  <2>2. k \in 1..j - 1 /\ rows[k].pid = rows[j].ppid
    BY <1>5, <2>1, FatherBefore
  <2>3. PICK path \in SUBSET (1..k) : Way(path, k)
    BY <1>2, <1>5, <2>1
  <2>4. path \cup {j} \in SUBSET (1..j)
    BY <1>1, <2>2, <2>3
  <2>5. k \in path /\ k < j
    BY <2>2, <2>3
  <2>6. Way(path \cup {j}, j)
    BY <2>2, <2>3, <2>5
  <2> HIDE DEF Way
  <2> QED
    BY <1>2, <2>4, <2>6
<1> QED
  BY <1>3, <1>4, <1>5

\* What is under the two roots, and that what is under the second is under
\* the first or has nothing to do with it.
LEMMA UnderRoots ==
  ASSUME RowsInv, TwoRoots
  PROVE  \A j \in 1..Len(rows) :
           /\ j \in Tree!Under({1, 2}) <=>
                j \in Tree!Under({1}) \/ j \in Tree!Under({2})
           /\ Twice /\ j \in Tree!Under({2}) => j \in Tree!Under({1})
           /\ ~Twice => ~(j \in Tree!Under({1}) /\ j \in Tree!Under({2}))
<1> DEFINE U1 == Tree!Under({1})
           U2 == Tree!Under({2})
           U  == Tree!Under({1, 2})
<1>1. Len(rows) \in Nat
  BY RowNumbers
<1>2. \A j \in 1..Len(rows) :
        /\ Tree!FatherRow(j) # 0 => Tree!FatherRow(j) \in 1..j - 1
        /\ j \in U1 <=> j = 1 \/ (Tree!FatherRow(j) # 0 /\ Tree!FatherRow(j) \in U1)
        /\ j \in U2 <=> j = 2 \/ (Tree!FatherRow(j) # 0 /\ Tree!FatherRow(j) \in U2)
        /\ j \in U <=> \/ j = 1 \/ j = 2
                       \/ Tree!FatherRow(j) # 0 /\ Tree!FatherRow(j) \in U
  <2> SUFFICES ASSUME NEW j \in 1..Len(rows)
               PROVE  /\ Tree!FatherRow(j) # 0 => Tree!FatherRow(j) \in 1..j - 1
                      /\ j \in U1 <=> j = 1 \/ (Tree!FatherRow(j) # 0 /\ Tree!FatherRow(j) \in U1)
                      /\ j \in U2 <=> j = 2 \/ (Tree!FatherRow(j) # 0 /\ Tree!FatherRow(j) \in U2)
                      /\ j \in U <=> \/ j = 1 \/ j = 2
                                     \/ Tree!FatherRow(j) # 0 /\ Tree!FatherRow(j) \in U
    OBVIOUS
  <2>1. Tree!FatherRow(j) # 0 => Tree!FatherRow(j) \in 1..j - 1
    BY <1>1, FatherBefore
  <2>2. j \in U1 <=> j \in {1} \/ (Tree!FatherRow(j) # 0 /\ Tree!FatherRow(j) \in U1)
    BY UnderFather
  <2>3. j \in U2 <=> j \in {2} \/ (Tree!FatherRow(j) # 0 /\ Tree!FatherRow(j) \in U2)
    BY UnderFather
  <2>4. j \in U <=> j \in {1, 2} \/ (Tree!FatherRow(j) # 0 /\ Tree!FatherRow(j) \in U)
    BY UnderFather
  <2> QED
    BY <2>1, <2>2, <2>3, <2>4
<1>3. Tree!FatherRow(1) = 0 /\ Tree!FatherRow(2) = IF Twice THEN 1 ELSE 0
  BY RootsFathers
<1> HIDE DEF U1, U2, U
<1>4. \A j \in 1..Len(rows) : j \in U <=> j \in U1 \cup U2
  <2> DEFINE B == U1 \cup U2
  <2>1. \A j \in 1..Len(rows) : (\A k \in 1..j - 1 : k \in U <=> k \in B)
                                  => (j \in U <=> j \in B)
    BY <1>2
  <2> HIDE DEF B
  <2>2. \A j \in 1..Len(rows) : j \in U <=> j \in B
    BY <1>1, <2>1, RowByRow
  <2> QED
    BY <2>2 DEF B
<1>5. 1 \in U1 /\ 1 \in 1..Len(rows)
  BY <1>1, <1>2 DEF TwoRoots
<1>6. ASSUME Twice PROVE \A j \in 1..Len(rows) : j \in U2 => j \in U1
  <2> DEFINE B == U1 \cap U2
  <2>1. \A j \in 1..Len(rows) : (\A k \in 1..j - 1 : k \in U2 <=> k \in B)
                                  => (j \in U2 <=> j \in B)
    BY <1>2, <1>3, <1>5, <1>6
  <2> HIDE DEF B
  <2>2. \A j \in 1..Len(rows) : j \in U2 <=> j \in B
    BY <1>1, <2>1, RowByRow
  <2> QED
    BY <2>2 DEF B
<1>7. ASSUME ~Twice PROVE \A j \in 1..Len(rows) : ~(j \in U1 /\ j \in U2)
  <2> DEFINE A == U1 \cap U2
             B == {}
  <2>1. \A j \in 1..Len(rows) : (\A k \in 1..j - 1 : k \in A <=> k \in B)
                                  => (j \in A <=> j \in B)
    BY <1>2, <1>3, <1>7
  <2> HIDE DEF A, B
  <2>2. \A j \in 1..Len(rows) : j \in A <=> j \in B
    BY <1>1, <2>1, RowByRow
  <2> QED
    BY <2>2 DEF A, B
<1> QED
  BY <1>4, <1>6, <1>7 DEF U1, U2, U

LEMMA TreeStart == Tree!Init => TreeInv
BY DEF Tree!Init, TreeInv, RowsInv, Unwalked

\* readdir() gives the lowest name that is left.
LEMMA EntryLowest ==
  ASSUME NamesInv, names # {}
  PROVE  Tree!Entry \in names /\ \A n \in names : Tree!Entry <= n
<1>1. names \subseteq Nat
  BY TreeAssumption DEF NamesInv
<1>2. PICK m \in names : \A n \in names : ~(n < m)
  BY <1>1, LeastNumber
<1>3. \A n \in names : m <= n
  BY <1>1, <1>2
<1> QED
  BY <1>3 DEF Tree!Entry, Tree!Min

LEMMA RowRead ==
  ASSUME RowsInv, NamesInv, names # {}, NEW ppid \in 0..MaxPid,
         Tree!Entry = 1 => ppid = 0, Tree!Entry = 2 => ppid \in {0, 1},
         Tree!ReadRow(ppid)
  PROVE  RowsInv' /\ NamesInv'
<1>1. PICK e : e = Tree!Entry
  OBVIOUS
<1>2. e \in names /\ \A n \in names : e <= n
  BY <1>1, EntryLowest
<1>3. MaxPid \in Nat /\ names \subseteq 1..MaxPid
  BY TreeAssumption DEF NamesInv
<1>4. e \in 1..MaxPid /\ \A n \in names : n \in Int
  BY <1>2, <1>3
<1> DEFINE row == [pid |-> e, ppid |-> ppid]
<1>5. row \in Row /\ row.pid = e /\ row.ppid = ppid
  BY <1>4 DEF Row
<1>6. names' = names \ {e} /\ rows' = Append(rows, row)
  BY <1>1 DEF Tree!ReadRow
<1>7. e = 1 => ppid = 0
  BY <1>1
<1>8. e = 2 => ppid \in {0, 1}
  BY <1>1
<1> HIDE DEF row
<1>9. rows \in Seq(Row) /\ Len(rows) \in Nat
  BY DEF RowsInv
<1>10. /\ rows' \in Seq(Row) /\ Len(rows') = Len(rows) + 1
       /\ \A i \in 1..Len(rows) : rows'[i] = rows[i]
       /\ rows'[Len(rows) + 1] = row
  BY <1>5, <1>6, <1>9
<1>11. \A i \in 1..Len(rows) : rows[i].pid \in Int /\ rows[i].pid < e
  BY <1>2, RowNumbers DEF NamesInv
<1>12. RowsInv'
  <2>1. ASSUME NEW i \in 1..Len(rows'), NEW k \in 1..Len(rows'), i < k
        PROVE  rows'[i].pid < rows'[k].pid
    <3>1. i \in 1..Len(rows) /\ rows'[i] = rows[i]
      BY <1>9, <1>10, <2>1
    <3>2. CASE k = Len(rows) + 1
      BY <1>5, <1>10, <1>11, <3>1, <3>2
    <3>3. CASE k # Len(rows) + 1
      <4>1. k \in 1..Len(rows) /\ rows'[k] = rows[k]
        BY <1>9, <1>10, <3>3
      <4> QED
        BY <2>1, <3>1, <4>1 DEF RowsInv
    <3> QED
      BY <3>2, <3>3
  <2> QED
    BY <1>10, <2>1 DEF RowsInv
<1>13. ASSUME NEW i \in 1..Len(rows'), NEW n \in names' PROVE rows'[i].pid < n
  <2>1. n \in Int /\ e < n /\ e \in Int
    BY <1>2, <1>4, <1>6, <1>13
  <2>2. CASE i = Len(rows) + 1
    BY <1>5, <1>10, <2>1, <2>2
  <2>3. CASE i # Len(rows) + 1
    <3>1. i \in 1..Len(rows) /\ rows'[i] = rows[i]
      BY <1>9, <1>10, <2>3
    <3> QED
      BY <1>11, <2>1, <3>1
  <2> QED
    BY <2>2, <2>3
<1>14. CASE rows = <<>> /\ {1, 2} \subseteq names
  <2>1. e = 1
    BY <1>2, <1>4, <1>14
  <2>2. Len(rows) = 0
    BY <1>14
  <2> QED
    BY <1>3, <1>5, <1>6, <1>7, <1>10, <1>12, <1>13, <1>14, <2>1, <2>2 DEF NamesInv
<1>15. CASE Len(rows) = 1 /\ rows[1].pid = 1 /\ rows[1].ppid = 0 /\ 2 \in names
  <2>1. e = 2
    <3>1. 1 < e /\ e <= 2
      BY <1>2, <1>11, <1>15
    <3> QED
      BY <1>4, <3>1
  <2>2. TwoRoots'
    BY <1>5, <1>8, <1>10, <1>15, <2>1 DEF TwoRoots
  <2> QED
    BY <1>3, <1>6, <1>12, <1>13, <2>2 DEF NamesInv
<1>16. CASE TwoRoots
  <2>1. TwoRoots'
    BY <1>9, <1>10, <1>16 DEF TwoRoots
  <2> QED
    BY <1>3, <1>6, <1>12, <1>13, <2>1 DEF NamesInv
<1> QED
  BY <1>14, <1>15, <1>16 DEF NamesInv

\* A process that ends leaves its children to the first.
LEMMA FathersLive ==
  ASSUME FathersInv, NEW p, Tree!Ends(p)
  PROVE  FathersInv' /\ p \notin {1, 2}
<1> DEFINE D == DOMAIN father \ {p}
<1>1. p \in DOMAIN father \ {1, 2}
  BY DEF Tree!Ends
<1>2. father' = [q \in D |-> IF father[q] = p THEN 1 ELSE father[q]]
  BY DEF Tree!Ends
<1>3. DOMAIN father' = D /\ \A q \in D : father'[q] = IF father[q] = p THEN 1 ELSE father[q]
  BY <1>2
<1>4. 1 \in D /\ 2 \in D
  BY <1>1 DEF FathersInv
<1>5. 1 \in 0..MaxPid
  BY TreeAssumption
<1>6. \A q \in D : father'[q] \in 0..MaxPid
  BY <1>3, <1>5 DEF FathersInv
<1>7. p # 0 /\ p # 1
  BY <1>1, TreeAssumption DEF FathersInv
<1>8. father'[1] = 0
  BY <1>3, <1>4, <1>7 DEF FathersInv
<1>9. father'[2] \in {0, 1}
  BY <1>3, <1>4, <1>7 DEF FathersInv
<1> QED
  BY <1>1, <1>3, <1>4, <1>6, <1>8, <1>9 DEF FathersInv

LEMMA FathersStart ==
  ASSUME NEW f \in Tree!Families
  PROVE  /\ DOMAIN f \subseteq 1..MaxPid /\ {1, 2} \subseteq DOMAIN f
         /\ \A p \in DOMAIN f : f[p] \in 0..MaxPid
         /\ f[1] = 0 /\ f[2] \in {0, 1}
<1>1. PICK S \in SUBSET (3..MaxPid) :
        f \in [{1, 2} \cup S -> 0..MaxPid] /\ f[1] = 0 /\ f[2] \in {0, 1}
  BY DEF Tree!Families
<1>2. MaxPid \in Nat /\ MaxPid >= 2
  BY TreeAssumption
<1> QED
  BY <1>1, <1>2

LEMMA SameRows ==
  ASSUME rows' = rows
  PROVE  /\ \A j : Tree!FatherRow(j)' = Tree!FatherRow(j)
         /\ \A R : Tree!Under(R)' = Tree!Under(R)
         /\ Twice' = Twice /\ TwoRoots' = TwoRoots /\ RowsInv' = RowsInv
<1>1. \A j : Tree!FatherRow(j)' = Tree!FatherRow(j)
  BY DEF Tree!FatherRow
<1>2. \A R : Tree!Under(R)' = Tree!Under(R)
  BY DEF Tree!Under
<1> QED
  BY <1>1, <1>2 DEF Twice, TwoRoots, RowsInv

\* When no call is left, or only that for the root, all that is under the
\* root has been printed.
LEMMA AllShown ==
  ASSUME RowsInv, TwoRoots, NEW r, NEW s, Progress(r, s), call = 0,
         Len(stack) \in {0, 1}
  PROVE  \A j \in 1..Len(rows) : j \in Tree!Under({r}) <=> Shown(j, s)
<1> DEFINE U == Tree!Under({r})
           B == {j \in 1..Len(rows) : Shown(j, s)}
<1>1. Len(rows) \in Nat
  BY RowNumbers
<1>2. \A j \in 1..Len(rows) : Reached(j)
  <2>1. \A i \in 1..Len(stack) : Turn(i) = 0
    BY DEF Turn
  <2> QED
    BY <2>1 DEF Reached
<1>3. Shown(r, s) /\ r \in 1..Len(rows)
  BY <1>1 DEF Progress, TwoRoots
<1>4. ASSUME NEW j \in 1..Len(rows), \A k \in 1..j - 1 : k \in U <=> k \in B
      PROVE  j \in U <=> j \in B
  <2>1. Tree!FatherRow(j) # 0 => Tree!FatherRow(j) \in 1..j - 1
    BY <1>1, FatherBefore
  <2>2. j \in U <=> j \in {r} \/ (Tree!FatherRow(j) # 0 /\ Tree!FatherRow(j) \in U)
    BY UnderFather
  <2>3. CASE j = r
    BY <1>3, <2>2, <2>3
  <2>4. CASE j # r
    <3>1. Shown(j, s) <=> Tree!FatherRow(j) # 0 /\ Shown(Tree!FatherRow(j), s)
      BY <1>2, <2>4 DEF Progress
    <3>2. Tree!FatherRow(j) # 0 => Tree!FatherRow(j) \in 1..Len(rows)
      BY <1>1, <2>1
    <3> QED
      BY <1>4, <2>1, <2>2, <2>4, <3>1, <3>2
  <2> QED
    BY <2>3, <2>4
<1> HIDE DEF U, B
<1>5. \A j \in 1..Len(rows) : j \in U <=> j \in B
  BY <1>1, <1>4, RowByRow
<1> QED
  BY <1>5 DEF U, B

\* The calls of the chain are for rows farther and farther down.
LEMMA Descending ==
  ASSUME RowsInv, WalkType, NEW r \in {1, 2}, Descent(r)
  PROVE  /\ \A i \in 1..Len(stack) :
              stack[i] \in 1..Len(rows) /\ stack[i] >= r /\ (i > 1 => stack[i] > r)
         /\ call # 0 /\ stack # <<>> =>
              \A i \in 1..Len(stack) : stack[i] < call
<1>1. Len(rows) \in Nat /\ Len(stack) \in Nat
  BY RowNumbers DEF WalkType
<1>2. \A i \in 1..Len(stack) : stack[i] \in 1..Len(rows)
  BY DEF WalkType
<1>3. ASSUME NEW i \in 1..Len(stack)
      PROVE  stack[i] >= r /\ (i > 1 => stack[i] > r)
  <2>1. stack # <<>> /\ stack[1] = r
    BY <1>1, <1>3 DEF Descent
  <2>2. i > 1 => 1 \in 1..i - 1
    BY <1>1
  <2>3. i > 1 => stack[1] < stack[i]
    BY <2>2 DEF Descent
  <2> QED
    BY <1>1, <1>2, <2>1, <2>3
<1>4. ASSUME call # 0, stack # <<>>, NEW i \in 1..Len(stack)
      PROVE  stack[i] < call
  <2>1. Tree!FatherRow(call) = stack[Len(stack)] /\ call \in 1..Len(rows)
    BY <1>4 DEF Descent, WalkType
  <2>2. Tree!FatherRow(call) \in 0..call - 1
    BY <2>1, FatherBefore
  <2>3. stack[Len(stack)] < call
    BY <1>1, <2>1, <2>2
  <2>4. i < Len(stack) => stack[i] < stack[Len(stack)]
    <3>1. i < Len(stack) => i \in 1..Len(stack) - 1 /\ Len(stack) \in 1..Len(stack)
      BY <1>1
    <3> QED
      BY <3>1 DEF Descent
  <2> QED
    BY <1>1, <1>2, <2>1, <2>3, <2>4
<1> QED
  BY <1>2, <1>3, <1>4

\* The row of the call is printed, and its child comes next.
LEMMA PrintGoesOn ==
  ASSUME RowsInv, NEW r \in Nat, NEW s \in Nat, WalkAt(r, s), Tree!PrintRow
  PROVE  WalkAt(r, s)'
<1> DEFINE N == Len(rows)
           k == Len(stack)
           L == Len(tree)
           c == call
           cc == count
<1>0. stack \in Seq(1..N) /\ tree \in Seq((1..N) \X Nat)
  BY DEF WalkAt, WalkType
<1>1. /\ N \in Nat /\ k \in Nat /\ L \in Nat /\ c \in 1..N /\ cc \in Nat
      /\ r \in {1, 2} /\ s \in 0..L
  BY <1>0, RowNumbers DEF WalkAt, WalkType, Progress, Tree!PrintRow
<1>2. /\ tree' = Append(tree, <<c, cc>>) /\ stack' = Append(stack, c)
      /\ call' = Tree!Child(c) /\ rows' = rows
      /\ count' = IF call' # 0 THEN cc + 1 ELSE cc
  BY DEF Tree!PrintRow
<1>3. /\ \A j : Tree!FatherRow(j)' = Tree!FatherRow(j)
      /\ \A R : Tree!Under(R)' = Tree!Under(R)
      /\ Twice' = Twice /\ TwoRoots'
  BY <1>2, SameRows DEF WalkAt
<1>4. /\ Len(tree') = L + 1 /\ tree'[L + 1] = <<c, cc>>
      /\ \A n \in 1..L : tree'[n] = tree[n]
  BY <1>0, <1>1, <1>2
<1>5. /\ Len(stack') = k + 1 /\ stack'[k + 1] = c
      /\ \A i \in 1..k : stack'[i] = stack[i]
      /\ stack' \in Seq(1..N)
  BY <1>0, <1>1, <1>2
<1>6. /\ call' \in 0..N
      /\ call' # 0 => Tree!FatherRow(call') = c
      /\ \A j \in 1..N : Tree!FatherRow(j) = c => j <= call'
  BY <1>1, <1>2, LastChild
<1>7. count' \in Nat /\ cc <= count' /\ (call' # 0 => cc < count')
  BY <1>1, <1>2
<1>8. \A i \in 1..k : /\ stack[i] \in 1..N /\ stack[i] >= r
                      /\ stack[i] < c
  <2>1. \A i \in 1..k : stack[i] \in 1..N /\ stack[i] >= r
    BY <1>1, Descending DEF WalkAt
  <2>2. ASSUME NEW i \in 1..k PROVE stack[i] < c
    <3>1. stack # <<>> /\ c # 0
      BY <1>1, <2>2
    <3> QED
      BY <1>1, <2>2, <3>1, Descending DEF WalkAt
  <2> QED
    BY <2>1, <2>2
<1>9. stack = <<>> <=> k = 0
  BY <1>0
<1>10. stack # <<>> => k \in 1..k /\ Tree!FatherRow(c) = stack[k]
  BY <1>1 DEF WalkAt, Descent
<1>11. stack = <<>> => c = r /\ s = L
  BY <1>1 DEF WalkAt, Descent, Progress
<1>12. WalkType'
  <2>1. tree' \in Seq((1..N) \X Nat)
    BY <1>0, <1>1, <1>2
  <2> QED
    BY <1>2, <1>5, <1>6, <1>7, <2>1 DEF WalkType
<1> DEFINE New(j) == \E n \in s + 1..L + 1 : tree'[n][1] = j
<1>13. ASSUME NEW j PROVE New(j) <=> Shown(j, s) \/ j = c
  <2>1. tree'[L + 1][1] = c
    BY <1>4
  <2>2. L + 1 \in s + 1..L + 1
    BY <1>1
  <2>3. \A n \in s + 1..L : n \in 1..L /\ n \in s + 1..L + 1 /\ tree'[n] = tree[n]
    BY <1>1, <1>4
  <2>4. \A n \in s + 1..L + 1 : n = L + 1 \/ n \in s + 1..L
    BY <1>1
  <2> QED
    BY <2>1, <2>2, <2>3, <2>4 DEF Shown
<1>14. ~Shown(c, s)
  <2>1. CASE stack = <<>>
    BY <1>1, <1>11, <2>1 DEF Shown
  <2>2. CASE stack # <<>>
    <3>1. c # r
      BY <1>1, <1>8, <1>10, <2>2
    <3>2. Turn(k) = c
      BY DEF Turn
    <3>3. ~Reached(c)
      BY <1>1, <1>10, <2>2, <3>2 DEF Reached
    <3> QED
      BY <1>1, <3>1, <3>3 DEF WalkAt, Progress
  <2> QED
    BY <2>1, <2>2
<1>15. Once(s + 1, Len(tree))'
  <2>1. \A n \in s + 1..L : tree'[n] = tree[n] /\ tree[n][1] # c
    <3>1. \A n \in s + 1..L : n \in 1..L
      BY <1>1
    <3> QED
      BY <1>4, <1>14, <3>1 DEF Shown
  <2>2. tree'[L + 1][1] = c
    BY <1>4
  <2>3. \A m, n \in s + 1..L : tree[m][1] = tree[n][1] => m = n
    BY DEF WalkAt, Progress, Once
  <2>4. \A n \in s + 1..L + 1 : n = L + 1 \/ n \in s + 1..L
    BY <1>1
  <2>5. \A m, n \in s + 1..L + 1 : tree'[m][1] = tree'[n][1] => m = n
    BY <2>1, <2>2, <2>3, <2>4
  <2> QED
    BY <1>4, <2>5 DEF Once
<1>16. Descent(r)'
  <2>1. stack'[1] = r
    BY <1>1, <1>5, <1>9, <1>11 DEF WalkAt, Descent
  <2>2. \A i \in 1..k : \A m \in 1..i - 1 : stack[m] < stack[i]
    BY DEF WalkAt, Descent
  <2>3. \A i \in 1..k + 1 : \A m \in 1..i - 1 : stack'[m] < stack'[i]
    <3>1. ASSUME NEW i \in 1..k + 1, NEW m \in 1..i - 1
          PROVE  stack'[m] < stack'[i]
      <4>1. m \in 1..k /\ stack'[m] = stack[m]
        BY <1>1, <1>5, <3>1
      <4>2. CASE i = k + 1
        BY <1>5, <1>8, <4>1, <4>2
      <4>3. CASE i # k + 1
        <5>1. i \in 1..k
          BY <1>1, <4>3
        <5> QED
          BY <1>5, <2>2, <4>1, <5>1
      <4> QED
        BY <4>2, <4>3
    <3> QED
      BY <3>1
  <2>4. \A i \in 2..k : Tree!FatherRow(stack[i]) = stack[i - 1]
    BY DEF WalkAt, Descent
  <2>5. ASSUME NEW i \in 2..k + 1
        PROVE  Tree!FatherRow(stack'[i]) = stack'[i - 1]
    <3>1. i - 1 \in 1..k /\ stack'[i - 1] = stack[i - 1]
      <4>1. i \in Int /\ 2 <= i /\ i <= k + 1
        BY <1>1, <2>5
      <4>2. i - 1 \in 1..k
        BY <1>1, <4>1
      <4> QED
        BY <1>5, <4>2
    <3>2. CASE i = k + 1
      <4>1. stack # <<>> /\ i - 1 = k
        BY <1>1, <1>9, <2>5, <3>2
      <4> QED
        BY <1>5, <1>10, <3>1, <3>2, <4>1
    <3>3. CASE i # k + 1
      <4>1. i \in 2..k /\ i \in 1..k
        BY <1>1, <3>3
      <4> QED
        BY <1>5, <2>4, <3>1, <4>1
    <3> QED
      BY <3>2, <3>3
  <2>6. stack' # <<>>
    BY <1>1, <1>5
  <2>7. call' # 0 => Tree!FatherRow(call') = stack'[k + 1]
    BY <1>5, <1>6
  <2> QED
    BY <1>3, <1>5, <2>1, <2>3, <2>5, <2>6, <2>7 DEF Descent
<1>17. Earlier(r, s)'
  <2>1. CASE r = 1
    BY <2>1 DEF WalkAt, Earlier
  <2>2. CASE r # 1
    <3>1. \A n \in 1..s : tree'[n] = tree[n]
      BY <1>1, <1>4
    <3>2. Once(1, s) /\ \A j \in 1..N :
            j \in Tree!Under({1}) <=> \E n \in 1..s : tree[n][1] = j
      BY <2>2 DEF WalkAt, Earlier
    <3>3. Once(1, s)'
      BY <3>1, <3>2 DEF Once
    <3>4. \A j \in 1..N :
            j \in Tree!Under({1}) <=> \E n \in 1..s : tree'[n][1] = j
      BY <3>1, <3>2
    <3> QED
      BY <1>2, <1>3, <2>2, <3>3, <3>4 DEF Earlier
  <2> QED
    BY <2>1, <2>2
<1>18. \A i \in 1..k + 1 : New(stack'[i])
  <2>1. \A i \in 1..k : Shown(stack[i], s)
    BY DEF WalkAt, Progress
  <2>2. \A i \in 1..k + 1 : i = k + 1 \/ i \in 1..k
    BY <1>1
  <2> HIDE DEF New
  <2> QED
    BY <1>5, <1>13, <2>1, <2>2
<1> DEFINE NewTurn(i) == IF i = k + 1 THEN call' ELSE stack'[i + 1] - 1
           NewReached(j) ==
             \A i \in 1..k + 1 : Tree!FatherRow(j) = stack'[i] => j > NewTurn(i)
<1>19. ASSUME NEW j \in (1..N) \ {r}
       PROVE  New(j) <=> /\ Tree!FatherRow(j) # 0
                         /\ New(Tree!FatherRow(j)) /\ NewReached(j)
  <2> HIDE DEF New
  <2>1. PICK f : f = Tree!FatherRow(j)
    OBVIOUS
  <2>2. f \in 0..j - 1 /\ j \in Int
    BY <1>1, <2>1, FatherBefore
  <2>3. NewReached(j) <=> \A i \in 1..k + 1 : f = stack'[i] => j > NewTurn(i)
    BY <2>1
  <2>4. Reached(j) <=> \A i \in 1..k : f = stack[i] => j > Turn(i)
    BY <2>1 DEF Reached
  <2>5. NewTurn(k + 1) = call'
    OBVIOUS
  <2>6. \A i \in 1..k : i # k + 1
    BY <1>1
  <2>7. \A i \in 1..k : NewTurn(i) = stack'[i + 1] - 1
    BY <2>6
  <2> HIDE DEF NewTurn, NewReached
  <2>8. \A i \in 1..k : Turn(i) = IF i = k THEN c ELSE stack[i + 1] - 1
    BY DEF Turn
  <2>9. \A i \in 1..k : i # k => i + 1 \in 1..k
    BY <1>1
  <2>10. \A i \in 1..k : NewTurn(i) = IF i = k THEN c - 1 ELSE stack[i + 1] - 1
    BY <1>5, <2>7, <2>9
  <2>11. Shown(j, s) <=> f # 0 /\ Shown(f, s) /\ Reached(j)
    BY <2>1 DEF WalkAt, Progress
  <2>12. CASE f = c
    <3>1. ~Shown(j, s)
      BY <1>14, <2>11, <2>12
    <3>2. j # c
      BY <2>2, <2>12
    <3>3. j <= call'
      BY <1>6, <2>1, <2>12
    <3>4. ~NewReached(j)
      <4>1. k + 1 \in 1..k + 1 /\ f = stack'[k + 1]
        BY <1>1, <1>5, <2>12
      <4>2. call' \in Int /\ ~(j > call')
        BY <1>6, <2>2, <3>3
      <4> QED
        BY <2>3, <2>5, <4>1, <4>2
    <3> QED
      BY <1>13, <2>1, <3>1, <3>2, <3>4
  <2>13. CASE f # c /\ j = c
    <3>1. stack # <<>>
      BY <1>11, <1>19, <2>13
    <3>2. f = stack[k] /\ k \in 1..k
      BY <1>10, <2>1, <2>13, <3>1
    <3>3. f \in 1..N /\ Shown(f, s)
      BY <1>8, <3>2 DEF WalkAt, Progress
    <3>4. ASSUME NEW i \in 1..k + 1, f = stack'[i] PROVE j > NewTurn(i)
      <4>1. i \in 1..k /\ stack'[i] = stack[i]
        <5>1. i # k + 1
          BY <1>5, <2>13, <3>4
        <5> QED
          BY <1>1, <1>5, <5>1
      <4>2. i = k
        <5>1. i # k => i \in 1..k - 1
          BY <1>1, <4>1
        <5>2. i # k => stack[i] < stack[k]
          BY <3>2, <5>1 DEF WalkAt, Descent
        <5> QED
          BY <1>8, <3>2, <3>4, <4>1, <5>2
      <4> QED
        BY <1>1, <2>10, <2>13, <4>1, <4>2
    <3>5. NewReached(j)
      BY <2>3, <3>4
    <3>6. New(f) /\ New(j) /\ f # 0
      BY <1>13, <2>13, <3>3
    <3> QED
      BY <2>1, <3>5, <3>6
  <2>14. CASE f # c /\ j # c
    <3>1. New(j) <=> Shown(j, s)
      BY <1>13, <2>14
    <3>2. New(f) <=> Shown(f, s)
      BY <1>13, <2>14
    <3>3. \A i \in 1..k : j > NewTurn(i) <=> j > Turn(i)
      <4>1. ASSUME NEW i \in 1..k PROVE j > NewTurn(i) <=> j > Turn(i)
        <5>1. CASE i = k
          <6>1. NewTurn(i) = c - 1 /\ Turn(i) = c
            BY <2>8, <2>10, <5>1
          <6> QED
            BY <1>1, <2>2, <2>14, <6>1
        <5>2. CASE i # k
          BY <2>8, <2>10, <5>2
        <5> QED
          BY <5>1, <5>2
      <4> QED
        BY <4>1
    <3>4. \A i \in 1..k + 1 : i = k + 1 \/ i \in 1..k
      BY <1>1
    <3>5. \A i \in 1..k : i \in 1..k + 1
      BY <1>1
    <3>6. NewReached(j) <=> Reached(j)
      BY <1>5, <2>3, <2>4, <2>14, <3>3, <3>4, <3>5
    <3> QED
      BY <2>1, <2>11, <3>1, <3>2, <3>6
  <2> QED
    BY <2>12, <2>13, <2>14
<1>20. Progress(r, s)'
  <2>1. s \in 0..L + 1 /\ stack' # <<>>
    BY <1>1, <1>5
  <2>2. New(r)
    <3>1. 1 \in 1..k + 1 /\ stack'[1] = r
      <4>1. 1 \in 1..k + 1
        BY <1>1
      <4>2. CASE stack = <<>>
        BY <1>5, <1>9, <1>11, <4>2
      <4>3. CASE stack # <<>>
        <5>1. 1 \in 1..k /\ stack[1] = r
          BY <1>1, <1>9, <4>3 DEF WalkAt, Descent
        <5> QED
          BY <1>5, <4>1, <5>1
      <4> QED
        BY <4>1, <4>2, <4>3
    <3> HIDE DEF New
    <3> QED
      BY <1>18, <3>1
  <2>3. \A j : Shown(j, s)' <=> New(j)
    BY <1>4 DEF Shown
  <2>4. \A i \in 1..k + 1 : Turn(i)' = NewTurn(i)
    BY <1>5 DEF Turn
  <2>5. \A j : Reached(j)' <=> NewReached(j)
    <3> HIDE DEF NewTurn
    <3> QED
      BY <1>3, <1>5, <2>4 DEF Reached
  <2>6. \A i \in 1..Len(stack') : \E n \in s + 1..Len(tree') : tree'[n][1] = stack'[i]
    BY <1>4, <1>5, <1>18
  <2>7. ASSUME NEW j \in (1..N) \ {r}
        PROVE  Shown(j, s)' <=>
                 /\ Tree!FatherRow(j)' # 0
                 /\ \E n \in s + 1..Len(tree') : tree'[n][1] = Tree!FatherRow(j)'
                 /\ Reached(j)'
    <3> HIDE DEF NewReached
    <3> QED
      BY <1>3, <1>4, <1>19, <2>3, <2>5
  <2> HIDE DEF New, NewTurn, NewReached
  <2>8. Shown(r, s)'
    BY <2>2, <2>3
  <2>9. \A i \in 1..Len(stack)' : Shown(stack[i], s)'
    BY <2>6 DEF Shown
  <2>10. \A j \in 1..Len(rows)' \ {r} :
           Shown(j, s)' <=> /\ Tree!FatherRow(j)' # 0
                            /\ Shown(Tree!FatherRow(j), s)' /\ Reached(j)'
    BY <1>2, <2>7 DEF Shown
  <2> QED
    BY <1>1, <1>4, <1>15, <2>1, <2>8, <2>9, <2>10 DEF Progress
<1>21. Indented'
  <2>1. ASSUME NEW n \in 1..L + 1, tree'[n][1] \notin {1, 2}
        PROVE  \E m \in 1..n - 1 : /\ tree'[m][1] = Tree!FatherRow(tree'[n][1])
                                   /\ ~Twice => tree'[m][2] < tree'[n][2]
    <3>1. CASE n = L + 1
      <4>1. tree'[n][1] = c /\ tree'[n][2] = cc
        BY <1>4, <3>1
      <4>2. stack # <<>>
        BY <1>1, <1>11, <2>1, <4>1
      <4>3. k \in 1..k /\ Tree!FatherRow(c) = stack[k]
        BY <1>10, <4>2
      <4>4. PICK m \in 1..L : tree[m][1] = stack[k] /\ (~Twice => tree[m][2] < cc)
        BY <1>1, <4>3 DEF WalkAt, Indented, Inset, AfterFather
      <4>5. m \in 1..n - 1 /\ tree'[m] = tree[m]
        BY <1>1, <1>4, <3>1
      <4> QED
        BY <4>1, <4>3, <4>4, <4>5
    <3>2. CASE n # L + 1
      <4>1. n \in 1..L /\ tree'[n] = tree[n]
        BY <1>1, <1>4, <3>2
      <4>2. PICK m \in 1..n - 1 : /\ tree[m][1] = Tree!FatherRow(tree[n][1])
                                  /\ ~Twice => tree[m][2] < tree[n][2]
        BY <2>1, <4>1 DEF WalkAt, Indented, Inset, AfterFather
      <4>3. m \in 1..L
        BY <1>1, <4>1
      <4> QED
        BY <1>4, <4>1, <4>2, <4>3
    <3> QED
      BY <3>1, <3>2
  <2>2. ASSUME NEW i \in 1..k + 1
        PROVE  \E m \in 1..L + 1 :
                 /\ tree'[m][1] = stack'[i]
                 /\ ~Twice => /\ tree'[m][2] <= count'
                              /\ i < k + 1 \/ call' # 0 => tree'[m][2] < count'
    <3>1. CASE i = k + 1
      <4>1. L + 1 \in 1..L + 1 /\ tree'[L + 1][1] = stack'[i] /\ tree'[L + 1][2] = cc
        BY <1>1, <1>4, <1>5, <3>1
      <4>2. ~(i < k + 1)
        BY <1>1, <3>1
      <4> QED
        BY <1>7, <4>1, <4>2
    <3>2. CASE i # k + 1
      <4>1. i \in 1..k /\ stack'[i] = stack[i]
        BY <1>1, <1>5, <3>2
      <4>2. PICK m \in 1..L : tree[m][1] = stack[i] /\ (~Twice => tree[m][2] < cc)
        BY <1>1, <4>1 DEF WalkAt, Indented, Inset, AfterFather
      <4>3. m \in 1..L + 1 /\ tree'[m] = tree[m]
        BY <1>1, <1>4
      <4>4. tree[m][2] \in Nat
        <5>1. tree[m] \in (1..N) \X Nat
          BY <1>0, <4>2
        <5> QED
          BY <5>1
      <4>5. ~Twice => tree'[m][2] < count' /\ tree'[m][2] <= count'
        <5>1. cc \in Nat /\ count' \in Nat /\ cc <= count'
          BY <1>1, <1>7
        <5>2. ~Twice => tree[m][2] < count' /\ tree[m][2] <= count'
          BY <4>2, <4>4, <5>1
        <5> QED
          BY <4>3, <5>2
      <4> QED
        BY <4>1, <4>2, <4>3, <4>5
    <3> QED
      BY <3>1, <3>2
  <2>3. \A n : Tree!FatherRow(tree[n][1])' = Tree!FatherRow(tree'[n][1])
    BY <1>2 DEF Tree!FatherRow
  <2>4. \A n \in 1..L + 1 : tree'[n][1] \notin {1, 2} => AfterFather(n)'
    BY <1>3, <2>1, <2>3 DEF AfterFather
  <2>5. \A i \in 1..k + 1 : Inset(i)'
    BY <1>3, <1>4, <1>5, <2>2 DEF Inset
  <2> QED
    BY <1>4, <1>5, <2>4, <2>5 DEF Indented
<1> QED
  BY <1>3, <1>12, <1>16, <1>17, <1>20, <1>21 DEF WalkAt

\* Of the call on top of the stack there is nothing left but its sibling.
LEMMA OverGoesOn ==
  ASSUME RowsInv, NEW r \in Nat, NEW s \in Nat, WalkAt(r, s), Tree!GoOver
  PROVE  Walk'
<1>sizes. PICK k \in Nat, L \in Nat, N \in Nat :
        k = Len(stack) /\ L = Len(tree) /\ N = Len(rows)
  <2>1. stack \in Seq(1..Len(rows)) /\ tree \in Seq((1..Len(rows)) \X Nat)
    BY DEF WalkAt, WalkType
  <2>2. Len(stack) \in Nat
    BY <2>1
  <2>3. Len(tree) \in Nat
    BY <2>1
  <2>4. Len(rows) \in Nat
    BY RowNumbers
  <2> QED
    BY <2>2, <2>3, <2>4
<1>0. stack \in Seq(1..N) /\ tree \in Seq((1..N) \X Nat) /\ stack # <<>>
  BY <1>sizes DEF WalkAt, WalkType, Tree!GoOver
<1>1. /\ k >= 1 /\ count \in Nat
      /\ r \in {1, 2} /\ s \in 0..L /\ call = 0 /\ 2 <= N
  <2>1. k >= 1
    BY <1>sizes, <1>0
  <2>2. /\ count \in Nat /\ r \in {1, 2} /\ s \in 0..L /\ call = 0
    BY <1>sizes DEF WalkAt, WalkType, Progress, Tree!GoOver
  <2>3. 2 <= N
    BY <1>sizes DEF WalkAt, TwoRoots
  <2> QED
    BY <2>1, <2>2, <2>3
<1> DEFINE q == stack[k]
<1>2. /\ stack' = SubSeq(stack, 1, k - 1)
      /\ call' = Tree!Sibling(q)
      /\ count' = IF call' # 0 /\ rows[call'].pid = 2 THEN 1 ELSE count
      /\ rows' = rows /\ tree' = tree
  BY <1>sizes DEF Tree!GoOver, Tree!Front, Tree!Last
<1>3. /\ \A j : Tree!FatherRow(j)' = Tree!FatherRow(j)
      /\ \A R : Tree!Under(R)' = Tree!Under(R)
      /\ Twice' = Twice /\ TwoRoots' /\ TwoRoots
  BY <1>sizes, <1>2, SameRows DEF WalkAt
<1>4. /\ Len(stack') = k - 1 /\ stack' \in Seq(1..N)
      /\ \A i \in 1..k - 1 : stack'[i] = stack[i] /\ i \in 1..k
  <2>1. k - 1 \in Nat /\ k - 1 <= Len(stack)
    BY <1>sizes, <1>1
  <2>2. /\ Len(SubSeq(stack, 1, k - 1)) = k - 1
        /\ SubSeq(stack, 1, k - 1) \in Seq(1..N)
        /\ \A i \in 1..k - 1 : SubSeq(stack, 1, k - 1)[i] = stack[i]
    BY <1>0, <2>1, SMTT(30)
  <2>3. \A i \in 1..k - 1 : i \in 1..k
    OBVIOUS
  <2> QED
    BY <1>2, <2>2, <2>3
<1>5. /\ \A i \in 1..k : stack[i] \in 1..N /\ stack[i] >= r /\ (i > 1 => stack[i] > r)
      /\ stack[1] = r /\ q \in 1..N /\ k \in 1..k
  <2>1. \A i \in 1..k : stack[i] \in 1..N /\ stack[i] >= r /\ (i > 1 => stack[i] > r)
    BY <1>sizes, <1>1, Descending DEF WalkAt
  <2>2. stack[1] = r
    BY <1>sizes, <1>0 DEF WalkAt, Descent
  <2> QED
    BY <1>sizes, <1>1, <2>1, <2>2
<1>6. k > 1 => q # 1
  BY <1>sizes, <1>1, <1>5
<1>7. q # 1 => /\ call' \in 0..q - 1
               /\ call' # 0 => /\ Tree!FatherRow(q) # 0
                               /\ Tree!FatherRow(call') = Tree!FatherRow(q)
               /\ \A i \in 1..q - 1 :
                    Tree!FatherRow(q) # 0 /\ Tree!FatherRow(i) = Tree!FatherRow(q)
                      => i <= call'
  BY <1>sizes, <1>2, <1>5, NextSibling
<1>8. q = 1 => call' = 2
  BY <1>sizes, <1>2 DEF Tree!Sibling
<1>9. Tree!FatherRow(1) = 0 /\ Tree!FatherRow(2) = IF Twice THEN 1 ELSE 0
  BY <1>sizes, <1>3, RootsFathers
<1>10. call' \in 0..N
  BY <1>sizes, <1>1, <1>5, <1>7, <1>8
<1>11. count' = count \/ k = 1 \/ Twice
  <2>1. SUFFICES ASSUME call' # 0, rows[call'].pid = 2, k > 1 PROVE Twice
    BY <1>sizes, <1>1, <1>2
  <2>2. call' \in 1..N /\ 2 \in 1..N
    BY <1>sizes, <1>1, <1>10, <2>1
  <2>3. rows[2].pid = 2
    BY <1>sizes, <1>3 DEF TwoRoots
  <2>4. call' = 2
    <3>1. PICK j \in 1..N : j = call'
      BY <2>2
    <3>2. j < 2 => rows[j].pid < rows[2].pid
      BY <1>sizes, <2>2, <3>1 DEF RowsInv
    <3>3. 2 < j => rows[2].pid < rows[j].pid
      BY <1>sizes, <2>2, <3>1 DEF RowsInv
    <3> QED
      BY <1>sizes, <1>1, <2>1, <2>3, <3>1, <3>2, <3>3
  <2> QED
    BY <1>sizes, <1>6, <1>7, <1>9, <2>1, <2>4
<1>12. WalkType'
  <2>1. count' \in Nat
    BY <1>sizes, <1>1, <1>2
  <2> QED
    BY <1>sizes, <1>0, <1>2, <1>4, <1>10, <2>1 DEF WalkType
<1>13. Indented'
  <2>1. \A n \in 1..L : tree[n][1] \notin {1, 2} => AfterFather(n)
    BY <1>sizes DEF WalkAt, Indented
  <2>2. \A n : Tree!FatherRow(tree[n][1])' = Tree!FatherRow(tree[n][1])
    BY <1>sizes, <1>2 DEF Tree!FatherRow
  <2>3. \A n \in 1..L : AfterFather(n) => AfterFather(n)'
    BY <1>sizes, <1>2, <1>3, <2>2 DEF AfterFather
  <2>4. ASSUME NEW i \in 1..k - 1 PROVE Inset(i)'
    <3>1. i \in 1..k /\ i < k /\ stack'[i] = stack[i] /\ k # 1
      <4>1. i \in Int /\ 1 <= i /\ i <= k - 1
        BY <2>4
      <4> QED
        BY <1>4, <2>4, <4>1
    <3>2. PICK m \in 1..L : tree[m][1] = stack[i] /\ (~Twice => tree[m][2] < count)
      BY <1>sizes, <3>1 DEF WalkAt, Indented, Inset
    <3>3. tree[m][2] \in Nat
      BY <1>sizes, <1>0
    <3>4. ~Twice => tree[m][2] < count' /\ tree[m][2] <= count'
      BY <1>sizes, <1>1, <1>11, <3>1, <3>2, <3>3
    <3> QED
      BY <1>sizes, <1>2, <1>3, <3>1, <3>2, <3>4 DEF Inset
  <2> QED
    BY <1>sizes, <1>2, <1>4, <2>1, <2>3, <2>4 DEF Indented
<1>14. CASE k = 1 /\ r = 1
  <2>0. PICK l \in Nat : l = L
    BY <1>sizes, <1>1
  <2>1. call' = 2 /\ stack' = <<>>
    BY <1>sizes, <1>4, <1>5, <1>8, <1>14
  <2>2. Progress(1, 0) /\ s = 0
    BY <1>sizes, <1>14 DEF WalkAt, Earlier
  <2>3. \A j \in 1..N : j \in Tree!Under({1}) <=> Shown(j, 0)
    BY <1>sizes, <1>1, <1>3, <1>14, <2>2, AllShown
  <2>4. \A j \in 1..N : j \in Tree!Under({1}) <=> \E n \in 1..L : tree[n][1] = j
    <3>1. 0 + 1 = 1
      OBVIOUS
    <3> QED
      BY <1>sizes, <2>3, <3>1 DEF Shown
  <2>5. Once(1, L)
    <3>1. 0 + 1 = 1
      OBVIOUS
    <3> QED
      BY <1>sizes, <2>2, <3>1 DEF Progress
  <2>6. Earlier(2, l)'
    <3>1. Once(1, l)'
      BY <1>sizes, <1>2, <2>0, <2>5 DEF Once
    <3>2. \A j \in 1..Len(rows)' :
            j \in Tree!Under({1})' <=> \E n \in 1..l : tree'[n][1] = j
      BY <1>sizes, <1>2, <1>3, <2>0, <2>4
    <3> QED
      BY <3>1, <3>2 DEF Earlier
  <2>7. Descent(2)'
    <3>1. Len(stack') = 0
      BY <1>sizes, <1>4, <1>14
    <3> QED
      BY <2>1, <3>1 DEF Descent
  <2>8. Progress(2, l)'
    <3>1. l + 1..l = {}
      BY <2>0
    <3>2. \A j : ~Shown(j, l)'
      BY <1>sizes, <1>2, <2>0, <3>1 DEF Shown
    <3>3. \A j : ~Shown(Tree!FatherRow(j), l)'
      BY <1>sizes, <1>2, <2>0, <3>1 DEF Shown
    <3>4. Once(l + 1, Len(tree))'
      BY <1>sizes, <1>2, <2>0, <3>1 DEF Once
    <3>5. 1..Len(stack)' = {} /\ L \in 0..l
      BY <1>sizes, <1>1, <1>4, <1>14, <2>0
    <3> QED
      BY <1>sizes, <1>2, <2>0, <2>1, <3>2, <3>3, <3>4, <3>5 DEF Progress
  <2>9. WalkAt(2, l)'
    BY <1>sizes, <1>3, <1>12, <1>13, <2>6, <2>7, <2>8 DEF WalkAt
  <2> QED
    BY <2>0, <2>9 DEF Walk
<1>15. ASSUME k > 1 \/ r = 2 PROVE WalkAt(r, s)'
  <2>1. q # 1
    BY <1>sizes, <1>1, <1>5, <1>15
  <2>2. k = 1 => call' = 0
    <3>1. SUFFICES ASSUME k = 1, call' # 0 PROVE FALSE
      OBVIOUS
    <3>2. q = 2
      BY <1>sizes, <1>5, <1>15, <3>1
    <3>3. call' = 1
      BY <1>sizes, <1>7, <3>1, <3>2
    <3> QED
      BY <1>sizes, <1>7, <1>9, <2>1, <3>1, <3>3
  <2>3. k = 1 => stack' = <<>>
    BY <1>sizes, <1>4
  <2>4. k > 1 => /\ stack' # <<>> /\ stack'[1] = r /\ k - 1 \in 1..k - 1
                 /\ stack'[k - 1] = stack[k - 1] /\ Tree!FatherRow(q) = stack[k - 1]
    <3>1. ASSUME k > 1
          PROVE  /\ stack' # <<>> /\ stack'[1] = r /\ k - 1 \in 1..k - 1
                 /\ stack'[k - 1] = stack[k - 1] /\ Tree!FatherRow(q) = stack[k - 1]
      <4>1. k \in 2..k /\ 1 \in 1..k - 1 /\ k - 1 \in 1..k - 1
        BY <1>sizes, <1>1, <3>1
      <4>2. Tree!FatherRow(q) = stack[k - 1]
        BY <1>sizes, <4>1 DEF WalkAt, Descent
      <4>3. stack' # <<>>
        BY <1>sizes, <1>1, <1>4, <3>1
      <4> QED
        BY <1>sizes, <1>4, <1>5, <4>1, <4>2, <4>3
    <3> QED
      BY <3>1
  <2>5. k = 1 \/ k > 1
    BY <1>sizes, <1>1
  <2>6. Descent(r)'
    <3>1. \A i \in 1..k : \A m \in 1..i - 1 : stack[m] < stack[i]
      BY <1>sizes DEF WalkAt, Descent
    <3>2. ASSUME NEW i \in 1..k - 1, NEW m \in 1..i - 1
          PROVE  stack'[m] < stack'[i]
      <4>1. i \in 1..k /\ m \in 1..k - 1
        BY <1>sizes, <1>1, <3>2
      <4> QED
        BY <1>sizes, <1>4, <3>1, <3>2, <4>1
    <3>3. \A i \in 2..k : Tree!FatherRow(stack[i]) = stack[i - 1]
      BY <1>sizes DEF WalkAt, Descent
    <3>4. ASSUME NEW i \in 2..k - 1
          PROVE  Tree!FatherRow(stack'[i]) = stack'[i - 1]
      <4>1. i \in 2..k /\ i \in 1..k - 1 /\ i - 1 \in 1..k - 1
        BY <1>sizes, <1>1, <3>4
      <4> QED
        BY <1>sizes, <1>4, <3>3, <4>1
    <3>5. \A i : Tree!FatherRow(stack[i])' = Tree!FatherRow(stack'[i])
      BY <1>sizes, <1>2 DEF Tree!FatherRow
    <3>6. Tree!FatherRow(call)' = Tree!FatherRow(call')
      BY <1>sizes, <1>2 DEF Tree!FatherRow
    <3>7. \A i \in 2..k - 1 : Tree!FatherRow(stack[i])' = stack'[i - 1]
      BY <3>4, <3>5
    <3>8. call' # 0 => stack' # <<>> /\ Tree!FatherRow(call)' = stack'[k - 1]
      BY <1>sizes, <1>7, <2>1, <2>2, <2>4, <2>5, <3>6
    <3>9. stack' # <<>> => stack'[1] = r
      BY <2>3, <2>4, <2>5
    <3> QED
      BY <1>sizes, <1>4, <3>2, <3>7, <3>8, <3>9 DEF Descent
  <2>7. Earlier(r, s)'
    <3>1. CASE r = 1
      BY <1>sizes, <3>1 DEF WalkAt, Earlier
    <3>2. CASE r # 1
      <4>1. Once(1, s) /\ \A j \in 1..N :
              j \in Tree!Under({1}) <=> \E n \in 1..s : tree[n][1] = j
        BY <1>sizes, <3>2 DEF WalkAt, Earlier
      <4>2. Once(1, s)'
        BY <1>sizes, <1>2, <4>1 DEF Once
      <4> QED
        BY <1>sizes, <1>2, <1>3, <3>2, <4>1, <4>2 DEF Earlier
    <3> QED
      BY <3>1, <3>2
  <2>8. ASSUME NEW j \in (1..N) \ {r} PROVE Reached(j)' <=> Reached(j)
    <3>1. PICK f : f = Tree!FatherRow(j)
      OBVIOUS
    <3>2. f \in 0..j - 1 /\ j \in Int
      BY <1>sizes, <1>1, <3>1, FatherBefore
    <3>3. Reached(j)' <=> \A i \in 1..k - 1 : f = stack'[i] => j > Turn(i)'
      BY <1>sizes, <1>3, <1>4, <3>1 DEF Reached
    <3>4. Reached(j) <=> \A i \in 1..k : f = stack[i] => j > Turn(i)
      BY <1>sizes, <3>1 DEF Reached
    <3>5. \A i \in 1..k : Turn(i) = IF i = k THEN 0 ELSE stack[i + 1] - 1
      BY <1>sizes, <1>1 DEF Turn
    <3>6. \A i \in 1..k - 1 : Turn(i)' = IF i = k - 1 THEN call' ELSE stack[i + 1] - 1
      <4>1. \A i \in 1..k - 1 : i # k - 1 => i + 1 \in 1..k - 1
        BY <1>sizes, <1>1
      <4>2. \A i \in 1..k - 1 : Turn(i)' = IF i = k - 1 THEN call' ELSE stack'[i + 1] - 1
        BY <1>sizes, <1>4 DEF Turn
      <4> QED
        BY <1>sizes, <1>4, <4>1, <4>2
    <3>7. j > 0
      BY <2>8
    <3>8. \A i \in 1..k : i = k \/ i \in 1..k - 1
      BY <1>sizes, <1>1
    <3>9. ASSUME NEW i \in 1..k - 1, f = stack[i] PROVE j > Turn(i)' <=> j > Turn(i)
      <4>1. i \in 1..k /\ i # k
        BY <1>sizes, <1>1, <3>9
      <4>2. Turn(i) = stack[i + 1] - 1
        BY <3>5, <4>1
      <4>3. CASE i = k - 1
        <5>1. Turn(i)' = call' /\ stack[i + 1] = q /\ k > 1
          BY <1>sizes, <1>1, <3>6, <4>3
        <5>2. Tree!FatherRow(q) = f /\ f # 0
          BY <1>sizes, <1>5, <2>4, <3>9, <4>1, <4>3, <5>1
        <5>3. call' \in 0..q - 1 /\ q \in Int
          BY <1>sizes, <1>5, <1>7, <2>1
        <5>4. j < q => j <= call'
          BY <1>sizes, <1>7, <2>1, <2>8, <3>1, <5>2, <5>3
        <5> QED
          BY <3>2, <4>2, <5>1, <5>3, <5>4
      <4>4. CASE i # k - 1
        BY <3>6, <4>2, <4>4
      <4> QED
        BY <4>3, <4>4
    <3>10. Turn(k) = 0
      BY <1>sizes, <1>5, <3>5
    <3>11. Reached(j) <=> \A i \in 1..k - 1 : f = stack[i] => j > Turn(i)
      BY <1>sizes, <1>4, <1>5, <3>4, <3>7, <3>8, <3>10
    <3> QED
      BY <1>sizes, <1>4, <3>3, <3>9, <3>11
  <2>9. Progress(r, s)'
    <3>1. \A j : Shown(j, s)' <=> Shown(j, s)
      BY <1>sizes, <1>2 DEF Shown
    <3>2. \A j : Shown(Tree!FatherRow(j), s)' <=> Shown(Tree!FatherRow(j), s)
      BY <1>sizes, <1>2, <1>3 DEF Shown
    <3>3. \A i \in 1..k - 1 : Shown(stack[i], s)'
      BY <1>sizes, <1>2, <1>4 DEF WalkAt, Progress, Shown
    <3>4. Once(s + 1, Len(tree))'
      BY <1>sizes, <1>2 DEF WalkAt, Progress, Once
    <3>5. Shown(r, s)
      BY <1>sizes, <1>0, <1>1 DEF WalkAt, Progress
    <3>6. \A j \in (1..N) \ {r} :
            Shown(j, s) <=> /\ Tree!FatherRow(j) # 0
                            /\ Shown(Tree!FatherRow(j), s) /\ Reached(j)
      BY <1>sizes DEF WalkAt, Progress
    <3>7. \A j \in (1..N) \ {r} :
            Shown(j, s)' <=> /\ Tree!FatherRow(j)' # 0
                             /\ Shown(Tree!FatherRow(j), s)' /\ Reached(j)'
      BY <1>sizes, <1>3, <2>8, <3>1, <3>2, <3>6
    <3>8. call' = 0 /\ stack' = <<>> => r = 2
      BY <1>sizes, <1>15, <2>4, <2>5
    <3>9. ~(call' # 0 /\ stack' = <<>>)
      BY <2>2, <2>4, <2>5
    <3>10. Len(stack)' = k - 1 /\ Len(tree)' = L /\ Len(rows)' = N
      BY <1>sizes, <1>2, <1>4
    <3>11. Shown(r, s)'
      BY <3>1, <3>5
    <3> QED
      BY <1>sizes, <1>1, <3>3, <3>4, <3>7, <3>8, <3>9, <3>10, <3>11 DEF Progress
  <2> QED
    BY <1>sizes, <1>3, <1>12, <1>13, <2>6, <2>7, <2>9 DEF WalkAt
<1> QED
  <2>1. k > 1 \/ r = 2 \/ (k = 1 /\ r = 1)
    BY <1>sizes, <1>1
  <2>2. WalkAt(r, s)' => Walk'
    BY DEF Walk
  <2> QED
    BY <1>sizes, <1>14, <1>15, <2>1, <2>2

\* traversal() is called with the first row.
LEMMA RowsHung ==
  ASSUME RowsInv, NamesInv, Unwalked, Tree!HangRows
  PROVE  Walk'
<1>1. names = {} /\ call' = 1 /\ rows' = rows /\ stack' = <<>> /\ tree' = <<>> /\ count' = 1
  BY DEF Tree!HangRows, Unwalked
<1>2. TwoRoots /\ TwoRoots'
  BY <1>1 DEF NamesInv, TwoRoots
<1>3. Len(rows) \in Nat /\ 1 \in 1..Len(rows)
  BY <1>2, RowNumbers DEF TwoRoots
<1>4. Len(stack') = 0 /\ Len(tree') = 0
  BY <1>1
<1>5. WalkType'
  BY <1>1, <1>3 DEF WalkType
<1>6. Indented'
  BY <1>4 DEF Indented
<1>7. Descent(1)'
  BY <1>1, <1>4 DEF Descent
<1>8. Earlier(1, 0)'
  BY DEF Earlier
<1>9. Progress(1, 0)'
  <2>1. \A j : ~Shown(j, 0)' /\ ~Shown(Tree!FatherRow(j), 0)'
    BY <1>4 DEF Shown
  <2>2. Once(0 + 1, Len(tree))'
    BY <1>4 DEF Once
  <2>3. 1..Len(stack)' = {} /\ 0 \in 0..Len(tree)' /\ 0 = Len(tree)'
    BY <1>4
  <2> QED
    BY <1>1, <2>1, <2>2, <2>3 DEF Progress
<1> QED
  BY <1>2, <1>5, <1>6, <1>7, <1>8, <1>9 DEF Walk, WalkAt

\* Nothing that the walk is about changes.
LEMMA WalkStays ==
  ASSUME Walk, rows' = rows, UNCHANGED Tree!traversal
  PROVE  Walk'
<1>1. call' = call /\ stack' = stack /\ count' = count /\ tree' = tree
  BY DEF Tree!traversal
<1>2. /\ \A j : Tree!FatherRow(j)' = Tree!FatherRow(j)
      /\ Tree!Under({1})' = Tree!Under({1})
      /\ Twice' = Twice /\ TwoRoots' = TwoRoots
  BY SameRows
<1>3. PICK r \in Nat, s \in Nat : WalkAt(r, s)
  BY DEF Walk
<1>4. WalkType' /\ Earlier(r, s)'
  <2>1. WalkType'
    BY <1>1, <1>3 DEF WalkAt, WalkType
  <2>2. Earlier(r, s) /\ (Once(1, s)' <=> Once(1, s))
    BY <1>1, <1>3 DEF WalkAt, Once
  <2>3. Earlier(r, s)'
    BY <1>1, <1>2, <2>2 DEF Earlier
  <2> QED
    BY <2>1, <2>3
<1>5. Indented'
  <2>1. \A n : Tree!FatherRow(tree[n][1])' = Tree!FatherRow(tree[n][1])
    BY <1>1 DEF Tree!FatherRow
  <2>2. \A n : AfterFather(n)' <=> AfterFather(n)
    BY <1>1, <1>2, <2>1 DEF AfterFather
  <2>3. \A i : Inset(i)' <=> Inset(i)
    BY <1>1, <1>2 DEF Inset
  <2> QED
    BY <1>1, <1>3, <2>2, <2>3 DEF WalkAt, Indented
<1>6. Descent(r)'
  <2>1. \A i : Tree!FatherRow(stack[i])' = Tree!FatherRow(stack[i])
    BY <1>1 DEF Tree!FatherRow
  <2>2. Tree!FatherRow(call)' = Tree!FatherRow(call)
    BY <1>1 DEF Tree!FatherRow
  <2> QED
    BY <1>1, <1>3, <2>1, <2>2 DEF WalkAt, Descent
<1>7. Progress(r, s)'
  <2>1. \A j : Shown(j, s)' <=> Shown(j, s)
    BY <1>1 DEF Shown
  <2>2. \A j : Shown(Tree!FatherRow(j), s)' <=> Shown(Tree!FatherRow(j), s)
    BY <1>1, <1>2 DEF Shown
  <2>3. \A i : Shown(stack[i], s)' <=> Shown(stack[i], s)
    BY <1>1 DEF Shown
  <2>4. Once(s + 1, Len(tree))' <=> Once(s + 1, Len(tree))
    BY <1>1 DEF Once
  <2>5. \A i : Turn(i)' = Turn(i)
    BY <1>1 DEF Turn
  <2>6. \A j : Reached(j)' <=> Reached(j)
    BY <1>1, <1>2, <2>5 DEF Reached
  <2> QED
    BY <1>1, <1>2, <1>3, <2>1, <2>2, <2>3, <2>4, <2>6 DEF WalkAt, Progress
<1> QED
  BY <1>2, <1>3, <1>4, <1>5, <1>6, <1>7 DEF Walk, WalkAt

LEMMA TreeStep == TreeInv /\ [Tree!Next]_(Tree!vars) => TreeInv'
<1> SUFFICES ASSUME TreeInv, [Tree!Next]_(Tree!vars) PROVE TreeInv'
  OBVIOUS
<1>1. ASSUME rows' = rows PROVE RowsInv'
  BY <1>1, SameRows DEF TreeInv
<1>2. ASSUME UNCHANGED Tree!traversal, Unwalked PROVE Unwalked'
  BY <1>2 DEF Tree!traversal, Unwalked
<1>3. ASSUME step = "scan" PROVE RowsInv /\ FathersInv /\ NamesInv /\ Unwalked
  BY <1>3 DEF TreeInv
<1>4. CASE Tree!Start
  <2>1. step = "start" /\ step' = "scan" /\ father' \in Tree!Families
        /\ names' = DOMAIN father' /\ rows' = rows /\ UNCHANGED Tree!traversal
    BY <1>4 DEF Tree!Start
  <2>2. rows = <<>> /\ Unwalked
    BY <2>1 DEF TreeInv
  <2>3. FathersInv'
    <3>1. PICK f \in Tree!Families : f = father'
      BY <2>1
    <3> QED
      BY <3>1, FathersStart DEF FathersInv
  <2>4. NamesInv'
    <3>1. 1..Len(rows') = {}
      BY <2>1, <2>2
    <3> QED
      BY <2>1, <2>2, <2>3, <3>1 DEF NamesInv, FathersInv
  <2> QED
    BY <1>1, <1>2, <2>1, <2>2, <2>3, <2>4 DEF TreeInv
<1>5. CASE Tree!ReadProcess
  <2>1. step = "scan" /\ step' = "scan" /\ names # {} /\ Tree!Entry \in DOMAIN father
        /\ Tree!ReadRow(father[Tree!Entry]) /\ father' = father
        /\ UNCHANGED Tree!traversal
    BY <1>5 DEF Tree!ReadProcess
  <2>2. PICK ppid : ppid = father[Tree!Entry]
    OBVIOUS
  <2>3. ppid \in 0..MaxPid
    BY <1>3, <2>1, <2>2 DEF FathersInv
  <2>4. (Tree!Entry = 1 => ppid = 0) /\ (Tree!Entry = 2 => ppid \in {0, 1})
    BY <1>3, <2>1, <2>2 DEF FathersInv
  <2>5. RowsInv' /\ NamesInv'
    BY <1>3, <2>1, <2>2, <2>3, <2>4, RowRead
  <2>6. FathersInv'
    BY <1>3, <2>1 DEF FathersInv
  <2> QED
    BY <1>2, <1>3, <2>1, <2>5, <2>6 DEF TreeInv
<1>6. CASE Tree!ReadFails
  <2>1. step = "scan" /\ step' = "ended" /\ rows' = rows /\ UNCHANGED Tree!traversal
    BY <1>6 DEF Tree!ReadFails
  <2>2. Unwalked'
    BY <1>2, <1>3, <2>1
  <2> QED
    BY <1>1, <2>1, <2>2 DEF TreeInv, Unwalked
<1>7. CASE Tree!ReadDying
  <2>1. step = "scan" /\ step' = "scan" /\ names # {} /\ Tree!Ends(Tree!Entry)
        /\ UNCHANGED Tree!traversal
    BY <1>7 DEF Tree!ReadDying
  <2>2. PICK odd \in 0..MaxPid : Tree!ReadRow(odd)
    BY <1>7 DEF Tree!ReadDying
  <2>3. FathersInv' /\ Tree!Entry \notin {1, 2}
    BY <1>3, <2>1, FathersLive
  <2>4. RowsInv' /\ NamesInv'
    BY <1>3, <2>1, <2>2, <2>3, RowRead
  <2> QED
    BY <1>2, <1>3, <2>1, <2>3, <2>4 DEF TreeInv
<1>8. CASE Tree!HangRows
  <2>1. step = "scan" /\ step' = "print" /\ rows' = rows
    BY <1>8 DEF Tree!HangRows
  <2>2. Walk'
    BY <1>3, <1>8, <2>1, RowsHung
  <2> QED
    BY <1>1, <2>1, <2>2 DEF TreeInv
<1>9. ASSUME step = "print", Tree!PrintRow \/ Tree!GoOver PROVE TreeInv'
  <2>1. step' = "print" /\ rows' = rows
    BY <1>9 DEF Tree!PrintRow, Tree!GoOver
  <2>2. RowsInv /\ Walk
    BY <1>9 DEF TreeInv
  <2>3. PICK r \in Nat, s \in Nat : WalkAt(r, s)
    BY <2>2 DEF Walk
  <2>4. CASE Tree!PrintRow
    <3>1. WalkAt(r, s)'
      BY <2>2, <2>3, <2>4, PrintGoesOn
    <3> QED
      BY <1>1, <2>1, <3>1 DEF TreeInv, Walk
  <2>5. CASE Tree!GoOver
    <3>1. Walk'
      BY <2>2, <2>3, <2>5, OverGoesOn
    <3> QED
      BY <1>1, <2>1, <3>1 DEF TreeInv
  <2> QED
    BY <1>9, <2>4, <2>5
<1>10. CASE Tree!Return
  <2>1. step = "print" /\ step' = "ended" /\ call = 0 /\ stack = <<>> /\ rows' = rows
        /\ UNCHANGED Tree!traversal
    BY <1>10 DEF Tree!Return
  <2>2. Walk'
    BY <2>1, WalkStays DEF TreeInv
  <2> QED
    BY <1>1, <2>1, <2>2 DEF TreeInv, Tree!traversal
<1>11. ASSUME NEW p \in 3..MaxPid, Tree!ProcessEnds(p) PROVE TreeInv'
  <2>1. step = "scan" /\ step' = "scan" /\ Tree!Ends(p) /\ rows' = rows
        /\ names' = names /\ UNCHANGED Tree!traversal
    BY <1>11 DEF Tree!ProcessEnds
  <2>2. FathersInv'
    BY <1>3, <2>1, FathersLive
  <2>3. NamesInv'
    BY <1>3, <2>1 DEF NamesInv, TwoRoots
  <2> QED
    BY <1>1, <1>2, <1>3, <2>1, <2>2, <2>3 DEF TreeInv
<1>12. CASE UNCHANGED Tree!vars
  <2>1. step' = step /\ father' = father /\ names' = names /\ rows' = rows
        /\ UNCHANGED Tree!traversal
    BY <1>12 DEF Tree!vars
  <2>2. call' = call /\ stack' = stack /\ tree' = tree
    BY <2>1 DEF Tree!traversal
  <2>3. Walk => Walk'
    BY <2>1, WalkStays
  <2>4. FathersInv => FathersInv'
    BY <2>1 DEF FathersInv
  <2>5. NamesInv => NamesInv'
    BY <2>1 DEF NamesInv, TwoRoots
  <2> QED
    BY <1>1, <1>2, <2>1, <2>2, <2>3, <2>4, <2>5 DEF TreeInv
<1> QED
  <2>1. Tree!PrintRow \/ Tree!GoOver => step = "print"
    BY DEF Tree!PrintRow, Tree!GoOver
  <2> QED
    BY <1>4, <1>5, <1>6, <1>7, <1>8, <1>9, <1>10, <1>11, <1>12, <2>1 DEF Tree!Next

\* The lines from a to b that show a row: one, or none.
LEMMA LinesOf ==
  ASSUME NEW a \in Nat, NEW b \in Nat, Once(a, b), NEW j,
         NEW S, S = {n \in a..b : tree[n][1] = j}
  PROVE  IF \E n \in a..b : tree[n][1] = j THEN \E n \in a..b : S = {n}
         ELSE S = {}
BY DEF Once

\* Times counts as FiniteSets does.
LEMMA SameCardinality ==
  ASSUME NEW S
  PROVE  Tree!Cardinality(S) = Cardinality(S)
BY DEF Tree!Cardinality, Cardinality

LEMMA TwoElements ==
  ASSUME NEW m, NEW n, m # n
  PROVE  Cardinality({n} \cup {m}) = 2
<1>1. IsFiniteSet({n}) /\ Cardinality({n}) = 1
  BY FS_Singleton
<1>2. Cardinality({n} \cup {m}) =
        IF m \in {n} THEN Cardinality({n}) ELSE Cardinality({n}) + 1
  BY <1>1, FS_AddElement
<1>3. m \notin {n}
  OBVIOUS
<1> QED
  BY <1>1, <1>2, <1>3

\* TreeShown, when traversal() has returned.
LEMMA TreeWhole ==
  ASSUME RowsInv, Walk, call = 0, stack = <<>>
  PROVE  LET twice == IF rows[2].ppid = 1 THEN Tree!Under({2}) ELSE {} IN
         \A j \in DOMAIN rows :
           /\ Tree!Times(j) = IF j \in twice THEN 2
                              ELSE IF j \in Tree!Under({1, 2}) THEN 1 ELSE 0
           /\ j \notin {1, 2} /\ j \in Tree!Under({1, 2}) \ twice =>
                \E m, n \in DOMAIN tree :
                  /\ m < n /\ tree[n][1] = j
                  /\ rows[tree[m][1]].pid = rows[j].ppid
                  /\ twice = {} => tree[m][2] < tree[n][2]
<1> DEFINE twice == IF rows[2].ppid = 1 THEN Tree!Under({2}) ELSE {}
<1>1. PICK r \in Nat, s \in Nat : WalkAt(r, s)
  BY DEF Walk
<1>2. PICK L \in Nat : L = Len(tree)
  <2>1. tree \in Seq((1..Len(rows)) \X Nat)
    BY <1>1 DEF WalkAt, WalkType
  <2>2. Len(tree) \in Nat
    BY <2>1
  <2> QED
    BY <2>2
<1>3. /\ DOMAIN tree = 1..L
      /\ \A n \in 1..L : tree[n][1] \in 1..Len(rows)
  <2>1. tree \in Seq((1..Len(rows)) \X Nat)
    BY <1>1 DEF WalkAt, WalkType
  <2> QED
    BY <1>2, <2>1
<1>4. Len(rows) \in Nat /\ DOMAIN rows = 1..Len(rows)
  BY RowNumbers
<1>5. r = 2 /\ Progress(2, s) /\ Earlier(2, s) /\ TwoRoots /\ s \in 0..L
  BY <1>1, <1>2 DEF WalkAt, Progress
<1>6. \A j \in 1..Len(rows) :
        /\ j \in Tree!Under({2}) <=> \E n \in s + 1..L : tree[n][1] = j
        /\ j \in Tree!Under({1}) <=> \E n \in 1..s : tree[n][1] = j
  <2>1. Len(stack) \in {0, 1}
    OBVIOUS
  <2>2. \A j \in 1..Len(rows) : j \in Tree!Under({2}) <=> Shown(j, s)
    BY <1>5, <2>1, AllShown
  <2> QED
    BY <1>2, <1>5, <2>2 DEF Shown, Earlier
<1>7. Once(1, s) /\ Once(s + 1, L)
  BY <1>2, <1>5 DEF Earlier, Progress
<1>8. twice = IF Twice THEN Tree!Under({2}) ELSE {}
  BY DEF Twice
<1>9. Twice => 2 \in twice
  BY <1>4, <1>5, <1>8, UnderFather DEF TwoRoots
<1> HIDE DEF twice
<1>10. ASSUME NEW j \in 1..Len(rows)
       PROVE  Tree!Times(j) = IF j \in twice THEN 2
                              ELSE IF j \in Tree!Under({1, 2}) THEN 1 ELSE 0
  <2> DEFINE A == {n \in 1..s : tree[n][1] = j}
             B == {n \in s + 1..L : tree[n][1] = j}
  <2>1. Tree!Times(j) = Cardinality(A \cup B)
    <3>1. {n \in DOMAIN tree : tree[n][1] = j} = A \cup B
      <4>1. \A n : n \in 1..L <=> n \in 1..s \/ n \in s + 1..L
        BY <1>5
      <4> QED
        BY <1>3, <4>1
    <3> QED
      BY <3>1, SameCardinality DEF Tree!Times
  <2>lines1. A = {n \in 1..s : tree[n][1] = j}
    OBVIOUS
  <2>lines2. B = {n \in s + 1..L : tree[n][1] = j}
    OBVIOUS
  <2> HIDE DEF A, B
  <2>2. IF j \in Tree!Under({1}) THEN \E n \in 1..s : A = {n} ELSE A = {}
    <3>1. IF \E n \in 1..s : tree[n][1] = j THEN \E n \in 1..s : A = {n} ELSE A = {}
      BY <1>7, <2>lines1, LinesOf
    <3> QED
      BY <1>6, <3>1
  <2>3. IF j \in Tree!Under({2}) THEN \E n \in s + 1..L : B = {n} ELSE B = {}
    <3>1. IF \E n \in s + 1..L : tree[n][1] = j
          THEN \E n \in s + 1..L : B = {n} ELSE B = {}
      <4>1. PICK a \in Nat : a = s + 1
        OBVIOUS
      <4>2. Once(a, L) /\ B = {n \in a..L : tree[n][1] = j}
        BY <1>7, <2>lines2, <4>1
      <4>3. IF \E n \in a..L : tree[n][1] = j THEN \E n \in a..L : B = {n} ELSE B = {}
        BY <4>2, LinesOf
      <4> QED
        BY <4>1, <4>3
    <3> QED
      BY <1>6, <3>1
  <2>4. /\ j \in Tree!Under({1, 2}) <=>
             j \in Tree!Under({1}) \/ j \in Tree!Under({2})
        /\ Twice /\ j \in Tree!Under({2}) => j \in Tree!Under({1})
        /\ ~Twice => ~(j \in Tree!Under({1}) /\ j \in Tree!Under({2}))
    BY <1>5, UnderRoots
  <2>5. CASE j \in Tree!Under({1}) /\ j \in Tree!Under({2})
    <3>1. PICK m \in 1..s, n \in s + 1..L : A = {m} /\ B = {n}
      BY <2>2, <2>3, <2>5
    <3>2. m # n
      BY <1>5, <3>1
    <3>3. Cardinality({n} \cup {m}) = 2
      BY <3>2, TwoElements
    <3>4. A \cup B = {n} \cup {m}
      BY <3>1
    <3>5. j \in twice
      BY <1>8, <2>4, <2>5
    <3> QED
      BY <2>1, <3>3, <3>4, <3>5
  <2>6. CASE j \in Tree!Under({1}) /\ j \notin Tree!Under({2})
    <3>1. PICK m \in 1..s : A \cup B = {m}
      BY <2>2, <2>3, <2>6
    <3>2. Cardinality({m}) = 1
      BY FS_Singleton
    <3>3. j \notin twice
      BY <1>8, <2>6
    <3> QED
      BY <2>1, <2>4, <2>6, <3>1, <3>2, <3>3
  <2>7. CASE j \notin Tree!Under({1}) /\ j \in Tree!Under({2})
    <3>1. PICK n \in s + 1..L : A \cup B = {n}
      BY <2>2, <2>3, <2>7
    <3>2. Cardinality({n}) = 1
      BY FS_Singleton
    <3>3. j \notin twice
      BY <1>8, <2>4, <2>7
    <3> QED
      BY <2>1, <2>4, <2>7, <3>1, <3>2, <3>3
  <2>8. CASE j \notin Tree!Under({1}) /\ j \notin Tree!Under({2})
    <3>1. A \cup B = {}
      BY <2>2, <2>3, <2>8
    <3>2. Cardinality({}) = 0
      BY FS_EmptySet
    <3>3. j \notin twice
      BY <1>8, <2>8
    <3> QED
      BY <2>1, <2>4, <2>8, <3>1, <3>2, <3>3
  <2> QED
    BY <2>5, <2>6, <2>7, <2>8
<1>11. ASSUME NEW j \in 1..Len(rows), j \notin {1, 2},
              j \in Tree!Under({1, 2}) \ twice
       PROVE  \E m, n \in DOMAIN tree :
                /\ m < n /\ tree[n][1] = j
                /\ rows[tree[m][1]].pid = rows[j].ppid
                /\ twice = {} => tree[m][2] < tree[n][2]
  <2>1. j \in Tree!Under({1}) \/ j \in Tree!Under({2})
    BY <1>5, <1>11, UnderRoots
  <2>2. PICK n \in 1..L : tree[n][1] = j
    <3>1. \A n \in s + 1..L : n \in 1..L
      BY <1>5
    <3>2. \A n \in 1..s : n \in 1..L
      BY <1>5
    <3> QED
      BY <1>6, <2>1, <3>1, <3>2
  <2>3. AfterFather(n)
    BY <1>1, <1>2, <1>11, <2>2 DEF WalkAt, Indented
  <2>4. PICK m \in 1..n - 1 : /\ tree[m][1] = Tree!FatherRow(j)
                              /\ ~Twice => tree[m][2] < tree[n][2]
    BY <2>2, <2>3 DEF AfterFather
  <2>5. m \in 1..L /\ m < n
    BY <2>2, <2>4
  <2>6. rows[tree[m][1]].pid = rows[j].ppid
    <3>1. Tree!FatherRow(j) # 0
      BY <1>3, <2>4, <2>5
    <3> QED
      BY <2>4, <3>1, FatherBefore
  <2> QED
    BY <1>3, <1>9, <2>2, <2>4, <2>5, <2>6
<1> QED
  BY <1>4, <1>10, <1>11 DEF twice

\* For any processes, whatever their numbers and their fathers are, and
\* however many of them end while /proc is read: what traversal() prints is
\* the rows that come under the first two, each once and after its father's,
\* farther to the right; where the second is a child of the first, what comes
\* under it twice.
THEOREM TreeIsShown == Tree!Spec => []TreeShown
<1>1. TreeInv => TreeShown
  <2> SUFFICES ASSUME TreeInv, step = "ended", tree # <<>>
               PROVE  TreeShown
    BY DEF TreeShown, Tree!TreeShown
  <2>1. RowsInv /\ Walk /\ call = 0 /\ stack = <<>>
    BY DEF TreeInv
  <2> QED
    BY <2>1, TreeWhole DEF TreeShown, Tree!TreeShown
<1> QED
  BY <1>1, TreeStart, TreeStep, PTL DEF Tree!Spec
=============================================================================
