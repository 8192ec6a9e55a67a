---------------------------- MODULE MsgFileProofs ----------------------------
(***************************************************************************)
(* Proofs about MsgFile, for any clients, files, queue sizes and faults.   *)
(***************************************************************************)
EXTENDS MsgFile, TLAPS

ChildPC == {"none", "openQueue", "openFile", "failure", "data", "end",
            "exit", "exitFailure", "zombie", "gone"}

KidsInv == kpc \in [Clients -> ChildPC] /\ ZombieNoticed

LEMMA KidsInit == Init => KidsInv
BY DEF Init, KidsInv, ChildPC, ZombieNoticed

LEMMA KidsStep ==
  ASSUME KidsInv, [Next]_vars
  PROVE  KidsInv'
<1> USE DEF KidsInv, ChildPC, ZombieNoticed
<1>1. CASE SReceive \/ SForkFails
  BY <1>1 DEF SReceive, SForkFails, children
<1>2. CASE SFork
  BY <1>2 DEF SFork
<1>3. CASE SUnlink
  BY <1>3 DEF SUnlink
<1>4. CASE SCatch
  BY <1>4 DEF SCatch, children
<1>5. ASSUME NEW c \in Clients, SReap(c) PROVE KidsInv'
  BY <1>5 DEF SReap, KStep, server
<1>6. CASE SReturn
  BY <1>6 DEF SReturn, children
<1>7. ASSUME NEW c \in Clients, KExit(c) \/ KExitFailure(c) PROVE KidsInv'
  <2>1. CASE spc = "exited"
    BY <1>7, <2>1 DEF KExit, KExitFailure, KEnds, KStep
  <2>2. CASE spc # "exited"
    BY <1>7, <2>2 DEF KExit, KExitFailure, KEnds, KStep
  <2> QED
    BY <2>1, <2>2
<1>8. ASSUME NEW c \in Clients,
             ChildStep(c) /\ ~KExit(c) /\ ~KExitFailure(c)
      PROVE  KidsInv'
  <2>1. UNCHANGED server
    BY <1>8 DEF ChildStep, KOpenQueue, KOpenFile, KSendFailure, KSendData,
       KDataDone, KSendEnd
  <2>2. \E pc \in ChildPC \ {"zombie"} : kpc' = [kpc EXCEPT ![c] = pc]
    BY <1>8 DEF ChildStep, KOpenQueue, KOpenFile, KSendFailure, KSendData,
       KDataDone, KSendEnd, KStep
  <2> QED
    BY <2>1, <2>2 DEF server
<1>9. ASSUME NEW c \in Clients, ClientStep(c) \/ CKilled(c) PROVE KidsInv'
  BY <1>9 DEF ClientStep, COpenServer, COpenQueue, CSend, CReceive, CExit,
     CKilled, server, children
<1>10. CASE UNCHANGED vars
  BY <1>10 DEF vars, server, children
<1> QED
  BY <1>1, <1>2, <1>3, <1>4, <1>5, <1>6, <1>7, <1>8, <1>9, <1>10
  DEF Next, ServerStep

\* No child that has died is forgotten, however many SIGCHLDs are merged
\* and whenever children die while grimReaper() is running.
THEOREM Reaping == Spec => []ZombieNoticed
<1>1. KidsInv => ZombieNoticed
  BY DEF KidsInv
<1> QED
  BY <1>1, KidsInit, KidsStep, PTL DEF Spec

-----------------------------------------------------------------------------
(* Clients that are run one after the other.  One client at a time has     *)
(* anything to do with the server, and the name "/MSG12" stands for its    *)
(* queue; what a child has sent and what its client has received are a     *)
(* first part of the messages that the file makes, in order.               *)

Using == {"send", "first", "next", "print", "fail"}
ClientPC == Using \cup {"new", "openQueue", "done", "failed", "refused"}
Active(c) == \/ cpc[c] \in Using \cup {"openQueue"}
             \/ kpc[c] \notin {"none", "zombie", "gone"}

Reply == [of : Clients, mtype : {"DATA", "END", "FAILURE"}, len : Nat]
AloneType ==
  /\ file \in [Clients -> Nat \cup {NOFILE}]
  /\ replies \in [Clients -> Seq(Reply)]
  /\ cpc \in [Clients -> ClientPC] /\ kpc \in [Clients -> ChildPC]
  /\ cq \in [Clients -> Clients \cup {None}]
  /\ kq \in [Clients -> Clients \cup {None}]
  /\ mtype \in [Clients -> {"UNSET", "DATA", "END", "FAILURE", "OTHER"}]
  /\ tot \in [Clients -> Nat] /\ msgs \in [Clients -> Nat]
  /\ served \in [Clients -> SUBSET Clients]
  /\ off \in [Clients -> Nat]

\* Who owns what.
OwnInv ==
  /\ spc \in {"receive", "fork"}
  /\ \A c, d \in Clients : Active(c) /\ Active(d) => c = d
  /\ named12 = None \/ (named12 \in Clients /\ cpc[named12] \in Using)
  /\ requests = <<>> \/ \E c \in Clients : /\ requests = <<c>>
                                           /\ cpc[c] = "first" /\ kpc[c] = "none"
  /\ spc = "fork" => /\ requests = <<>> /\ req \in Clients
                     /\ cpc[req] = "first" /\ kpc[req] = "none"
  /\ \A c \in Clients :
       /\ cpc[c] \in Using => named12 = c /\ cq[c] = c
       /\ cpc[c] \in {"new", "openQueue", "send", "refused"} => kpc[c] = "none"
       /\ kpc[c] = "openQueue" => cpc[c] = "first"
       /\ kpc[c] \notin {"none", "openQueue", "zombie", "gone"} => kq[c] = c

\* What the first k blocks of a file of n bytes hold, and the messages due.
Offset(n, k) == Lesser(n, k * RESP_MSG_SIZE)
Nth(c, k) ==
  IF file[c] = NOFILE THEN Message(c, "FAILURE", FAIL_LEN)
  ELSE IF k <= Blocks(file[c])
       THEN Message(c, "DATA",
                    Lesser(RESP_MSG_SIZE, file[c] - (k - 1) * RESP_MSG_SIZE))
       ELSE Message(c, "END", 1)
Due(c) == IF file[c] = NOFILE THEN 1 ELSE Blocks(file[c]) + 1
SentBy(c) == msgs[c] + Len(replies[c])

\* The messages in c's queue are those that follow what c has received.
Ordered(c) ==
  \A k \in 1 .. Len(replies[c]) : replies[c][k] = Nth(c, msgs[c] + k)

ChildInv(c) ==
  /\ kpc[c] \in {"none", "openQueue", "openFile", "failure"}
       => SentBy(c) = 0 /\ off[c] = 0
  /\ kpc[c] \in {"failure", "exitFailure"} => file[c] = NOFILE
  /\ kpc[c] \in {"data", "end", "exit"} => file[c] # NOFILE
  /\ kpc[c] = "data" => /\ SentBy(c) <= Blocks(file[c])
                        /\ off[c] = Offset(file[c], SentBy(c))
  /\ kpc[c] = "end" => SentBy(c) = Blocks(file[c])
  /\ kpc[c] \in {"exit", "exitFailure", "zombie", "gone"} => SentBy(c) = Due(c)
  /\ Ordered(c)

ClientInv(c) ==
  /\ served[c] \subseteq {c}
  /\ cpc[c] \in {"new", "openQueue", "send", "first"} => msgs[c] = 0 /\ tot[c] = 0
  /\ cpc[c] = "next" =>
       /\ file[c] # NOFILE /\ mtype[c] # "UNSET"
       /\ msgs[c] <= Blocks(file[c]) /\ tot[c] = Offset(file[c], msgs[c])
  /\ cpc[c] \in {"print", "done"} /\ file[c] \notin 1 .. LONG - 1 =>
       /\ file[c] # NOFILE
       /\ msgs[c] = Blocks(file[c]) + 1 /\ tot[c] = file[c] + 1
  /\ cpc[c] \in {"fail", "failed"} => file[c] = NOFILE

AloneInv ==
  alone => AloneType /\ OwnInv /\ \A c \in Clients : ChildInv(c) /\ ClientInv(c)

-----------------------------------------------------------------------------
(* Blocks: the k-th begins before the end of the file, and no later one.   *)

LEMMA BlocksMeasure ==
  ASSUME NEW n \in Nat, NEW k \in Nat
  PROVE  Blocks(n) \in Nat /\ (k < Blocks(n) <=> k * RESP_MSG_SIZE < n)
<1> DEFINE R == RESP_MSG_SIZE
           m == n + R - 1
           q == m \div R
<1>1. R \in Int /\ R > 0 /\ m \in Int /\ m >= 0 /\ n \in Int /\ k \in Int
  BY MsgFileAssumption
<1> HIDE DEF R, m
<1>2. m = R * q + (m % R)
  BY <1>1, SMTT(20)
<1>3. q \in Int /\ m % R \in Int
  BY <1>1
<1>4. 0 <= m % R /\ m % R < R
  BY <1>1, SMTT(20)
<1> HIDE DEF q
<1>5. ASSUME NEW a \in Int, NEW b \in Int, a < b PROVE a * R + R <= b * R
  <2>1. (b - a) * R >= R
    BY <1>1, <1>5
  <2> QED
    BY <1>1, <2>1
<1>6. q >= 0
  <2> SUFFICES ASSUME q < 0 PROVE FALSE
    BY <1>3
  <2>1. q * R + R <= 0 * R
    BY <1>3, <1>5
  <2> QED
    BY <1>1, <1>2, <1>3, <1>4, <2>1
<1>7. k < q => k * R + R <= q * R
  BY <1>1, <1>3, <1>5
<1>8. ~(k < q) => q * R <= k * R
  <2>1. CASE q < k
    BY <1>1, <1>3, <1>5, <2>1
  <2>2. CASE q = k
    BY <1>1, <2>2
  <2> QED
    BY <1>1, <1>3, <2>1, <2>2
<1>9. k < q <=> k * R < n
  <2>1. /\ R * q = q * R /\ q * R \in Int /\ k * R \in Int
        /\ m = n + R - 1
    BY <1>1, <1>3 DEF m, R
  <2> QED
    BY <1>1, <1>2, <1>3, <1>4, <1>7, <1>8, <2>1
<1> QED
  BY <1>3, <1>6, <1>9 DEF Blocks, q, m, R

LEMMA OffsetMeasure ==
  ASSUME NEW n \in Nat, NEW k \in Nat
  PROVE  /\ Offset(n, k) \in Nat /\ Offset(n, k) <= n /\ Offset(n, 0) = 0
         /\ k < Blocks(n) =>
              /\ Offset(n, k) = k * RESP_MSG_SIZE /\ Offset(n, k) < n
              /\ Offset(n, k + 1) =
                   Offset(n, k) + Lesser(RESP_MSG_SIZE, n - Offset(n, k))
         /\ ~(k < Blocks(n)) => Offset(n, k) = n
<1>1. /\ k * RESP_MSG_SIZE \in Nat /\ RESP_MSG_SIZE \in Nat
      /\ (k + 1) * RESP_MSG_SIZE = k * RESP_MSG_SIZE + RESP_MSG_SIZE
      /\ 0 * RESP_MSG_SIZE = 0
  BY MsgFileAssumption
<1>2. k < Blocks(n) <=> k * RESP_MSG_SIZE < n
  BY BlocksMeasure
<1> QED
  BY <1>1, <1>2 DEF Offset, Lesser

\* What a read finds after k blocks: the next one, or that there is none.
LEMMA ReadMeasure ==
  ASSUME NEW n \in Nat, NEW k \in Nat, k <= Blocks(n), NEW r,
         r = Lesser(RESP_MSG_SIZE, n - Offset(n, k))
  PROVE  /\ r \in Nat
         /\ r > 0 => /\ k < Blocks(n) /\ k + 1 <= Blocks(n)
                     /\ r = Lesser(RESP_MSG_SIZE, n - k * RESP_MSG_SIZE)
                     /\ Offset(n, k + 1) = Offset(n, k) + r
         /\ r = 0 => k = Blocks(n)
<1>1. Blocks(n) \in Nat /\ RESP_MSG_SIZE \in Nat /\ RESP_MSG_SIZE > 0
  BY BlocksMeasure, MsgFileAssumption
<1>2. CASE k < Blocks(n)
  <2>1. /\ Offset(n, k) = k * RESP_MSG_SIZE /\ Offset(n, k) < n
        /\ Offset(n, k) \in Nat /\ Offset(n, k + 1) = Offset(n, k) + r
    BY <1>2, OffsetMeasure
  <2>2. r \in Nat /\ r > 0
    BY <1>1, <2>1 DEF Lesser
  <2> QED
    BY <1>1, <1>2, <2>1, <2>2
<1>3. CASE ~(k < Blocks(n))
  <2>1. Offset(n, k) = n
    BY <1>3, OffsetMeasure
  <2>2. r = 0
    BY <1>1, <2>1 DEF Lesser
  <2> QED
    BY <1>1, <1>3, <2>2
<1> QED
  BY <1>2, <1>3

-----------------------------------------------------------------------------
(* The invariant holds at the start and after every step.                  *)

Flow(c) == ChildInv(c) /\ ClientInv(c)

LEMMA AloneInit == Init => AloneInv
<1> SUFFICES ASSUME Init PROVE AloneInv
  OBVIOUS
<1>1. AloneType
  <2>1. \A b \in BOOLEAN : Sizes[b] \subseteq Nat \cup {NOFILE}
    BY MsgFileAssumption
  <2>2. alone \in BOOLEAN /\ file \in [Clients -> Sizes[alone]]
    BY DEF Init
  <2>3. file \in [Clients -> Nat \cup {NOFILE}]
    BY <2>1, <2>2
  <2>4. cpc \in [Clients -> ClientPC] /\ kpc \in [Clients -> ChildPC]
    BY DEF Init, ClientPC, ChildPC
  <2> QED
    BY <2>3, <2>4 DEF Init, AloneType
<1>2. OwnInv
  BY DEF Init, OwnInv, Active, Using
<1>3. ASSUME NEW c \in Clients PROVE ChildInv(c) /\ ClientInv(c)
  BY DEF Init, ChildInv, ClientInv, Ordered, SentBy
<1> QED
  BY <1>1, <1>2, <1>3 DEF AloneInv

\* What does not change for c leaves its messages and its client as they were.
LEMMA FlowStays ==
  ASSUME NEW c \in Clients, Flow(c), file' = file, cpc'[c] = cpc[c],
         kpc'[c] = kpc[c], mtype'[c] = mtype[c], tot'[c] = tot[c],
         msgs'[c] = msgs[c], served'[c] = served[c], off'[c] = off[c],
         replies'[c] = replies[c]
  PROVE  Flow(c)'
BY DEF Flow, ChildInv, ClientInv, Ordered, SentBy, Nth, Offset, Blocks, Due

\* The server's steps, and those of the clients that open queues and send.
LEMMA ServerAlone ==
  ASSUME alone, AloneType, OwnInv, \A c \in Clients : Flow(c),
         \/ ServerStep \/ SForkFails \/ SUnlink
         \/ \E c \in Clients : CKilled(c)
  PROVE  AloneType' /\ OwnInv' /\ \A c \in Clients : Flow(c)'
<1> USE DEF SStep, names, server, client, children, user
<1>1. CASE SReceive
  <2>1. /\ UNCHANGED <<file, cpc, kpc, mtype, tot, msgs, served, off, replies,
                       cq, kq, named12>>
        /\ spc = "receive" /\ spc' = "fork" /\ requests # <<>>
        /\ req' = Head(requests) /\ requests' = Tail(requests)
    BY <1>1 DEF SReceive
  <2>2. PICK c \in Clients : requests = <<c>> /\ cpc[c] = "first" /\ kpc[c] = "none"
    BY <2>1 DEF OwnInv
  <2>3. req' = c /\ requests' = <<>>
    BY <2>1, <2>2
  <2>4. OwnInv'
    BY <2>1, <2>2, <2>3 DEF OwnInv, Active
  <2> QED
    BY <2>1, <2>4, FlowStays DEF AloneType
<1>2. CASE SFork
  <2>1. /\ UNCHANGED <<file, cpc, mtype, tot, msgs, served, off, replies,
                       cq, kq, named12, req, requests>>
        /\ spc = "fork" /\ spc' = "receive"
        /\ kpc' = [kpc EXCEPT ![req] = "openQueue"]
    BY <1>2 DEF SFork
  <2>2. /\ requests = <<>> /\ req \in Clients /\ cpc[req] = "first"
        /\ kpc[req] = "none"
    BY <2>1 DEF OwnInv
  <2>3. /\ kpc'[req] = "openQueue"
        /\ \A c \in Clients : c # req => kpc'[c] = kpc[c]
        /\ kpc' \in [Clients -> ChildPC]
    BY <2>1, <2>2 DEF AloneType, ChildPC
  <2>4. OwnInv'
    BY <2>1, <2>2, <2>3 DEF OwnInv, Active, Using
  <2>5. ASSUME NEW c \in Clients, c = req PROVE Flow(c)'
    BY <2>1, <2>2, <2>3, <2>5
    DEF Flow, ChildInv, ClientInv, Ordered, SentBy, Nth, Offset, Blocks, Due
  <2>6. ASSUME NEW c \in Clients, c # req PROVE Flow(c)'
    BY <2>1, <2>3, <2>6, FlowStays
  <2> QED
    BY <2>1, <2>3, <2>4, <2>5, <2>6 DEF AloneType
<1>3. CASE SCatch \/ SReturn
  <2>1. UNCHANGED <<file, cpc, kpc, mtype, tot, msgs, served, off, replies,
                    cq, kq, named12, spc, req, requests>>
    BY <1>3 DEF SCatch, SReturn
  <2>2. OwnInv'
    BY <2>1 DEF OwnInv, Active
  <2> QED
    BY <2>1, <2>2, FlowStays DEF AloneType
<1>4. ASSUME NEW d \in Clients, SReap(d)
      PROVE  AloneType' /\ OwnInv' /\ \A c \in Clients : Flow(c)'
  <2>1. /\ UNCHANGED <<file, cpc, mtype, tot, msgs, served, off, replies,
                       cq, kq, named12, spc, req, requests>>
        /\ kpc[d] = "zombie" /\ kpc' = [kpc EXCEPT ![d] = "gone"]
    BY <1>4 DEF SReap, KStep
  <2>2. /\ kpc'[d] = "gone" /\ \A c \in Clients : c # d => kpc'[c] = kpc[c]
        /\ kpc' \in [Clients -> ChildPC]
    BY <2>1 DEF AloneType, ChildPC
  <2>3. OwnInv'
    BY <2>1, <2>2 DEF OwnInv, Active
  <2>4. Flow(d)'
    BY <2>1, <2>2
    DEF Flow, ChildInv, ClientInv, Ordered, SentBy, Nth, Offset, Blocks, Due
  <2> QED
    BY <2>1, <2>2, <2>3, <2>4, FlowStays DEF AloneType
<1>5. ~SForkFails /\ ~SUnlink /\ \A c \in Clients : ~CKilled(c)
  BY DEF SForkFails, SUnlink, CKilled, OwnInv
<1> QED
  BY <1>1, <1>2, <1>3, <1>4, <1>5 DEF ServerStep

\* A client that may start is the only one, and so it stays until it has
\* ended and its child too.
LEMMA ClientAlone ==
  ASSUME alone, AloneType, OwnInv, \A c \in Clients : Flow(c),
         NEW c \in Clients, ClientStep(c)
  PROVE  AloneType' /\ OwnInv' /\ \A d \in Clients : Flow(d)'
<1> USE DEF CStep, names, server, client, children, user
<1>0. /\ Flow(c) /\ None \notin Clients
      /\ \A d \in Clients : d # c /\ Active(c) => ~Active(d)
  BY MsgFileAssumption DEF OwnInv
<1>1. CASE COpenServer(c)
  <2>1. /\ UNCHANGED <<file, kpc, mtype, tot, msgs, served, off, replies,
                       cq, kq, named12, spc, req, requests>>
        /\ cpc[c] = "new" /\ cpc' = [cpc EXCEPT ![c] = cpc'[c]]
        /\ cpc'[c] \in {"openQueue", "refused"}
    BY <1>1 DEF COpenServer, AloneType
  <2>2. /\ \A d \in Clients : d # c => cpc'[d] = cpc[d]
        /\ cpc' \in [Clients -> ClientPC]
    BY <2>1 DEF AloneType, ClientPC
  <2>3. \A d \in Clients : ~Active(d)
    BY <1>1 DEF COpenServer, MayStart, Active, Ended, Using
  <2>4. OwnInv'
    BY <2>1, <2>2, <2>3 DEF OwnInv, Active, Using
  <2>5. Flow(c)'
    BY <1>0, <2>1 DEF Flow, ChildInv, ClientInv, Ordered, SentBy, Nth, Offset, Blocks, Due
  <2> QED
    BY <2>1, <2>2, <2>4, <2>5, FlowStays DEF AloneType
<1>2. CASE COpenQueue(c)
  <2>1. /\ UNCHANGED <<file, kpc, mtype, tot, msgs, served, off, replies,
                       kq, spc, req, requests>>
        /\ cpc[c] = "openQueue" /\ cpc' = [cpc EXCEPT ![c] = "send"]
        /\ named12' = IF named12 = None THEN c ELSE named12
        /\ cq' = [cq EXCEPT ![c] = named12']
    BY <1>2 DEF COpenQueue
  <2>2. /\ cpc'[c] = "send" /\ \A d \in Clients : d # c => cpc'[d] = cpc[d]
        /\ cpc' \in [Clients -> ClientPC]
    BY <2>1 DEF AloneType, ClientPC, Using
  <2>3. named12 = None
    BY <1>0, <2>1 DEF OwnInv, Active, Using
  <2>4. /\ named12' = c /\ cq'[c] = c /\ cq' \in [Clients -> Clients \cup {None}]
        /\ \A d \in Clients : d # c => cq'[d] = cq[d]
    BY <2>1, <2>3 DEF AloneType
  <2>5. OwnInv'
    BY <1>0, <2>1, <2>2, <2>4 DEF OwnInv, Active, Using
  <2>6. Flow(c)'
    BY <1>0, <2>1, <2>2 DEF Flow, ChildInv, ClientInv, Ordered, SentBy, Nth, Offset, Blocks, Due
  <2> QED
    BY <2>1, <2>2, <2>4, <2>5, <2>6, FlowStays DEF AloneType
<1>3. CASE CSend(c)
  <2>1. /\ UNCHANGED <<file, kpc, mtype, tot, msgs, served, off, replies,
                       cq, kq, named12, spc, req>>
        /\ cpc[c] = "send" /\ cpc' = [cpc EXCEPT ![c] = "first"]
        /\ requests' = Append(requests, c)
    BY <1>3 DEF CSend
  <2>2. /\ cpc'[c] = "first" /\ \A d \in Clients : d # c => cpc'[d] = cpc[d]
        /\ cpc' \in [Clients -> ClientPC]
    BY <2>1 DEF AloneType, ClientPC, Using
  <2>3. requests = <<>> /\ spc # "fork" /\ kpc[c] = "none"
    BY <1>0, <2>1 DEF OwnInv, Active, Using
  <2>4. requests' = <<c>>
    BY <2>1, <2>3
  <2>5. OwnInv'
    BY <1>0, <2>1, <2>2, <2>3, <2>4 DEF OwnInv, Active, Using
  <2>6. Flow(c)'
    BY <1>0, <2>1, <2>2
    DEF Flow, ChildInv, ClientInv, Ordered, SentBy, Nth, Offset, Blocks, Due
  <2> QED
    BY <2>1, <2>2, <2>5, <2>6, FlowStays DEF AloneType
<1>4. CASE CExit(c)
  <2>1. /\ UNCHANGED <<file, kpc, mtype, tot, msgs, served, off, replies,
                       cq, kq, spc, req, requests>>
        /\ named12' = None
        /\ \/ cpc[c] = "print" /\ cpc' = [cpc EXCEPT ![c] = "done"]
           \/ cpc[c] = "fail" /\ cpc' = [cpc EXCEPT ![c] = "failed"]
    BY <1>4 DEF CExit
  <2>2. /\ \A d \in Clients : d # c => cpc'[d] = cpc[d]
        /\ \/ cpc[c] = "print" /\ cpc'[c] = "done"
           \/ cpc[c] = "fail" /\ cpc'[c] = "failed"
        /\ cpc' \in [Clients -> ClientPC]
    BY <2>1 DEF AloneType, ClientPC
  <2>3. OwnInv'
    BY <1>0, <2>1, <2>2 DEF OwnInv, Active, Using
  <2>4. Flow(c)'
    BY <1>0, <2>1, <2>2 DEF Flow, ChildInv, ClientInv, Ordered, SentBy, Nth, Offset, Blocks, Due
  <2>5. ASSUME NEW d \in Clients, d # c PROVE Flow(d)'
    BY <2>1, <2>2, <2>5, FlowStays
  <2>6. AloneType'
    BY <2>1, <2>2 DEF AloneType
  <2> QED
    BY <2>3, <2>4, <2>5, <2>6
<1>5. CASE CReceive(c)
  <2>1. /\ UNCHANGED <<file, kpc, off, cq, kq, named12, spc, req, requests>>
        /\ cpc[c] \in {"first", "next"}
    BY <1>5 DEF CReceive
  <2>2. cq[c] = c
    BY <2>1 DEF OwnInv, Using
  <2> DEFINE m == Head(replies[c])
  <2>3. PICK type \in Received(c, m) :
          /\ \/ CStep(c, "first", IF type = "FAILURE" THEN "fail"
                                  ELSE IF type = "DATA" THEN "next" ELSE "print")
             \/ CStep(c, "next", IF type = "DATA" THEN "next" ELSE "print")
          /\ mtype' = [mtype EXCEPT ![c] = type]
          /\ tot' = [tot EXCEPT ![c] = @ + m.len]
          /\ msgs' = [msgs EXCEPT ![c] = @ + 1]
          /\ served' = [served EXCEPT ![c] = @ \cup {m.of}]
          /\ replies' = [replies EXCEPT ![c] = Tail(@)]
    BY <1>5, <2>2 DEF CReceive
  <2>4. /\ replies[c] \in Seq(Reply) /\ replies[c] # <<>>
        /\ m \in Reply /\ m = replies[c][1]
    <3>1. replies[c] \in Seq(Reply) /\ replies[c] # <<>>
      BY <1>5, <2>2 DEF CReceive, AloneType
    <3> QED
      BY <3>1
  <2>5. m = Nth(c, msgs[c] + 1)
    BY <1>0, <2>4 DEF Flow, ChildInv, Ordered, AloneType
  <2> HIDE DEF m
  <2>6. /\ type \in {m.mtype, "OTHER"}
        /\ mtype[c] # "UNSET" \/ m.len >= LONG => type = m.mtype
    BY DEF Received
  <2>7. /\ \A d \in Clients : d # c =>
             /\ cpc'[d] = cpc[d] /\ mtype'[d] = mtype[d] /\ tot'[d] = tot[d]
             /\ msgs'[d] = msgs[d] /\ served'[d] = served[d]
             /\ replies'[d] = replies[d]
        /\ mtype'[c] = type /\ tot'[c] = tot[c] + m.len
        /\ msgs'[c] = msgs[c] + 1 /\ served'[c] = served[c] \cup {m.of}
        /\ replies'[c] = Tail(replies[c])
    BY <2>3 DEF AloneType
  <2>8. /\ cpc'[c] \in {"next", "print", "fail"}
        /\ cpc'[c] = "fail" => cpc[c] = "first" /\ type = "FAILURE"
        /\ cpc'[c] = "next" => type = "DATA"
        /\ cpc'[c] = "print" => type # "DATA"
        /\ cpc'[c] = "print" => type # "FAILURE" \/ cpc[c] = "next"
    BY <2>3 DEF AloneType
  <2>9. AloneType'
    <3>1. /\ type \in {"DATA", "END", "FAILURE", "OTHER"}
          /\ m.len \in Nat /\ m.of \in Clients /\ Tail(replies[c]) \in Seq(Reply)
      BY <2>4, <2>6 DEF Reply
    <3>2. /\ cpc' \in [Clients -> ClientPC]
      BY <2>3 DEF AloneType, ClientPC, Using
    <3>3. /\ tot[c] + m.len \in Nat /\ msgs[c] + 1 \in Nat
          /\ served[c] \cup {m.of} \in SUBSET Clients
      BY <3>1 DEF AloneType
    <3>4. /\ tot' \in [Clients -> Nat] /\ msgs' \in [Clients -> Nat]
          /\ served' \in [Clients -> SUBSET Clients]
      BY <2>3, <3>3 DEF AloneType
    <3>5. replies' \in [Clients -> Seq(Reply)]
      BY <2>3, <3>1 DEF AloneType
    <3>6. mtype' \in [Clients -> {"UNSET", "DATA", "END", "FAILURE", "OTHER"}]
      BY <2>3, <3>1 DEF AloneType
    <3> QED
      BY <2>1, <3>2, <3>4, <3>5, <3>6 DEF AloneType
  <2>10. OwnInv'
    <3>1. kpc[c] # "none" /\ kpc[c] # "openQueue"
      BY <1>0, <2>4 DEF AloneType, Flow, ChildInv, SentBy
    <3>2. requests = <<>> \/ \E d \in Clients : d # c /\ requests = <<d>>
      BY <3>1 DEF OwnInv
    <3>3. ~\E d \in Clients : d # c /\ requests = <<d>>
      BY <1>0, <2>1 DEF OwnInv, Active, Using
    <3>4. spc # "fork"
      BY <1>0, <2>1, <3>1 DEF OwnInv, Active, Using
    <3>5. \A d \in Clients : /\ Active(d)' <=> Active(d)
                             /\ cpc'[d] \in Using <=> cpc[d] \in Using
      BY <2>1, <2>7, <2>8 DEF Active, Using
    <3>6. requests = <<>> /\ cpc[c] \in Using /\ cpc'[c] \in Using
      BY <2>1, <2>8, <3>2, <3>3 DEF Using
    <3>7. \A d \in Clients :
            /\ cpc'[d] \in {"new", "openQueue", "send", "refused"} =>
                 cpc'[d] = cpc[d]
            /\ kpc'[d] = "openQueue" => cpc'[d] = cpc[d]
      BY <2>1, <2>7, <2>8, <3>1
    <3>8. /\ \A d, e \in Clients : Active(d)' /\ Active(e)' => d = e
          /\ named12' = None \/ (named12' \in Clients /\ cpc'[named12'] \in Using)
          /\ spc' = "receive" /\ requests' = <<>>
      BY <2>1, <3>4, <3>5, <3>6 DEF OwnInv
    <3>9. \A d \in Clients :
            /\ cpc'[d] \in Using => named12' = d /\ cq'[d] = d
            /\ cpc'[d] \in {"new", "openQueue", "send", "refused"} =>
                 kpc'[d] = "none"
            /\ kpc'[d] = "openQueue" => cpc'[d] = "first"
            /\ kpc'[d] \notin {"none", "openQueue", "zombie", "gone"} =>
                 kq'[d] = d
      BY <2>1, <3>5, <3>7 DEF OwnInv
    <3>10. Using' = Using
      BY DEF Using
    <3> QED
      BY <3>8, <3>9, <3>10 DEF OwnInv
  <2>11. ChildInv(c)'
    <3>1. Len(replies'[c]) = Len(replies[c]) - 1 /\ SentBy(c)' = SentBy(c)
      <4>1. Len(Tail(replies[c])) = Len(replies[c]) - 1 /\ Len(replies[c]) \in Nat
        BY <2>4
      <4>2. msgs[c] \in Nat
        BY DEF AloneType
      <4> QED
        BY <2>7, <4>1, <4>2 DEF SentBy
    <3>2. \A k \in 1 .. Len(replies'[c]) : replies'[c][k] = replies[c][1 + k]
      BY <2>4, <2>7
    <3>3. \A k \in 1 .. Len(replies'[c]) : replies'[c][k] = Nth(c, msgs'[c] + k)
      BY <1>0, <2>4, <2>7, <3>1, <3>2 DEF Flow, ChildInv, Ordered, AloneType
    <3>4. SentBy(c) # 0
      BY <2>4 DEF SentBy, AloneType
    <3>5. Ordered(c)'
      BY <2>1, <3>3 DEF Ordered, Nth, Blocks
    <3> QED
      BY <1>0, <2>1, <3>1, <3>4, <3>5
      DEF Flow, ChildInv, Offset, Blocks, Due
  <2>12. ClientInv(c)'
    <3>1. m.of = c /\ served'[c] \subseteq {c}
      BY <1>0, <2>5, <2>7 DEF Nth, Message, Flow, ClientInv
    <3>2. CASE file[c] = NOFILE
      <4>1. cpc[c] = "first" /\ m.mtype = "FAILURE" /\ m.len = FAIL_LEN
        BY <1>0, <2>1, <2>5, <3>2 DEF Nth, Message, Flow, ClientInv
      <4>2. type = "FAILURE" /\ cpc'[c] = "fail"
        BY <2>3, <2>6, <4>1, MsgFileAssumption DEF AloneType
      <4> QED
        BY <2>1, <3>1, <3>2, <4>2 DEF ClientInv
    <3>3. CASE file[c] # NOFILE
      <4> DEFINE n == file[c]
                 k == msgs[c]
      <4>1. /\ n \in Nat /\ k \in Nat /\ Blocks(n) \in Nat /\ tot[c] \in Nat
        BY <3>3, BlocksMeasure DEF AloneType
      <4>2. k <= Blocks(n) /\ tot[c] = Offset(n, k)
        <5>1. CASE cpc[c] = "first"
          <6>1. k = 0 /\ tot[c] = 0
            BY <1>0, <5>1 DEF Flow, ClientInv
          <6>2. Offset(n, 0) = 0
            BY <4>1, OffsetMeasure
          <6> QED
            BY <4>1, <6>1, <6>2
        <5>2. CASE cpc[c] = "next"
          BY <1>0, <5>2 DEF Flow, ClientInv
        <5> QED
          BY <2>1, <5>1, <5>2
      <4>3. CASE k < Blocks(n)
        <5>1. /\ m.mtype = "DATA" /\ m.len = Lesser(RESP_MSG_SIZE, n - Offset(n, k))
              /\ Offset(n, k) = k * RESP_MSG_SIZE
              /\ tot'[c] = Offset(n, k + 1) /\ msgs'[c] = k + 1
          <6>1. k + 1 <= Blocks(n) /\ (k + 1) - 1 = k
            BY <4>1, <4>3
          <6>2. /\ m.mtype = "DATA"
                /\ m.len = Lesser(RESP_MSG_SIZE, n - k * RESP_MSG_SIZE)
            BY <2>5, <3>3, <6>1 DEF Nth, Message
          <6> QED
            BY <2>7, <4>1, <4>2, <4>3, <6>2, OffsetMeasure
        <5>2. /\ type # "UNSET" /\ type \in {"DATA", "OTHER"}
          BY <2>6, <5>1
        <5>3. n \notin 1 .. LONG - 1 => type = "DATA"
          <6>1. CASE cpc[c] = "next"
            BY <1>0, <2>6, <3>3, <5>1, <6>1 DEF Flow, ClientInv
          <6>2. CASE cpc[c] = "first"
            <7>1. k = 0 /\ Offset(n, k) = 0
              BY <1>0, <4>1, <6>2, OffsetMeasure DEF Flow, ClientInv
            <7>2. m.len = Lesser(RESP_MSG_SIZE, n) /\ n > 0
              BY <4>1, <4>3, <5>1, <7>1, OffsetMeasure
            <7>3. n \notin 1 .. LONG - 1 => m.len >= LONG
              BY <4>1, <7>2, MsgFileAssumption DEF Lesser
            <7> QED
              BY <2>6, <5>1, <7>3
          <6> QED
            BY <2>1, <6>1, <6>2
        <5> QED
          BY <2>1, <2>7, <2>8, <3>1, <3>3, <4>1, <4>3, <5>1, <5>2, <5>3
          DEF ClientInv, Offset, Blocks
      <4>4. CASE ~(k < Blocks(n))
        <5>1. k = Blocks(n) /\ tot[c] = n
          BY <4>1, <4>2, <4>4, OffsetMeasure
        <5>2. m.mtype = "END" /\ m.len = 1
          BY <2>5, <3>3, <4>1, <5>1 DEF Nth, Message
        <5>3. type \in {"END", "OTHER"} /\ cpc'[c] = "print"
          BY <2>6, <2>8, <5>2
        <5> QED
          BY <2>1, <2>7, <3>1, <3>3, <4>1, <5>1, <5>2, <5>3
          DEF ClientInv, Offset, Blocks
      <4> QED
        BY <4>3, <4>4
    <3> QED
      BY <3>2, <3>3
  <2>13. ASSUME NEW d \in Clients, d # c PROVE Flow(d)'
    BY <2>1, <2>7, <2>13, FlowStays
  <2> QED
    BY <2>9, <2>10, <2>11, <2>12, <2>13 DEF Flow
<1> QED
  BY <1>1, <1>2, <1>3, <1>4, <1>5 DEF ClientStep

\* The steps of the one child that is running.
LEMMA ChildAlone ==
  ASSUME alone, AloneType, OwnInv, \A c \in Clients : Flow(c),
         NEW c \in Clients, ChildStep(c)
  PROVE  AloneType' /\ OwnInv' /\ \A d \in Clients : Flow(d)'
<1> USE DEF names, server, client, children, user
<1>0. /\ Flow(c) /\ c # None /\ Active(c)
      /\ \A d \in Clients : d # c => ~Active(d)
  <2>1. kpc[c] \notin {"none", "zombie", "gone"}
    BY DEF ChildStep, KOpenQueue, KOpenFile, KSendFailure, KSendData, KDataDone,
       KSendEnd, KExit, KExitFailure, KEnds, KStep
  <2> QED
    BY <2>1, MsgFileAssumption DEF OwnInv, Active
<1>1. /\ UNCHANGED <<file, cpc, cq, mtype, tot, msgs, served, named12, req,
                     requests>>
      /\ spc' = spc
      /\ kpc' = [kpc EXCEPT ![c] = kpc'[c]]
      /\ kpc'[c] \in ChildPC \ {"none", "openQueue"}
      /\ kpc[c] \notin {"none", "zombie", "gone"}
  <2> USE DEF KStep, AloneType, ChildPC
  <2>1. CASE KOpenQueue(c) \/ KOpenFile(c)
    BY <2>1 DEF KOpenQueue, KOpenFile
  <2>2. CASE KSendFailure(c) \/ KSendEnd(c)
    BY <2>2 DEF KSendFailure, KSendEnd
  <2>3. CASE KSendData(c) \/ KDataDone(c)
    BY <2>3 DEF KSendData, KDataDone
  <2>4. CASE KExit(c)
    BY <2>4 DEF KExit, KEnds, OwnInv
  <2>5. CASE KExitFailure(c)
    BY <2>5 DEF KExitFailure, KEnds
  <2> QED
    BY <2>1, <2>2, <2>3, <2>4, <2>5 DEF ChildStep
<1>2. /\ \A d \in Clients : d # c => kpc'[d] = kpc[d]
      /\ kpc' \in [Clients -> ChildPC]
  BY <1>1 DEF AloneType
<1>3. kpc[c] # "openQueue" => kq[c] = c
  BY <1>1 DEF OwnInv, AloneType, ChildPC
<1>4. kq' \in [Clients -> Clients \cup {None}] /\ kq'[c] = c
      /\ \A d \in Clients : d # c => kq'[d] = kq[d]
  <2>1. CASE KOpenQueue(c)
    <3>1. named12 = c
      BY <2>1 DEF KOpenQueue, KStep, OwnInv, Using
    <3> QED
      BY <2>1, <3>1 DEF KOpenQueue, AloneType
  <2>2. CASE ~KOpenQueue(c)
    <3>1. kq' = kq /\ kpc[c] # "openQueue"
      BY <2>2 DEF ChildStep, KOpenFile, KSendFailure, KSendData, KDataDone,
         KSendEnd, KExit, KExitFailure, KEnds, KStep
    <3> QED
      BY <1>3, <3>1 DEF AloneType
  <2> QED
    BY <2>1, <2>2
<1>5. OwnInv'
  <2>1. \A d \in Clients : Active(d)' => Active(d)
    BY <1>0, <1>1, <1>2 DEF Active, Using
  <2>2. ~\E d \in Clients : cpc[d] = "first" /\ kpc[d] = "none"
    BY <1>0, <1>1 DEF Active, Using
  <2>3. requests = <<>> /\ spc # "fork"
    BY <2>2 DEF OwnInv
  <2>4. cpc[c] \notin {"new", "openQueue", "send", "refused"}
    BY <1>1 DEF OwnInv
  <2> QED
    BY <1>1, <1>2, <1>4, <2>1, <2>3, <2>4 DEF OwnInv, Using
<1>6. \A k : Nth(c, k)' = Nth(c, k)
  BY <1>1 DEF Nth, Blocks, Message, Lesser
<1>7. ASSUME NEW m \in Reply, KSend(c, m), kq[c] = c
      PROVE  /\ replies' \in [Clients -> Seq(Reply)]
             /\ replies'[c] = Append(replies[c], m)
             /\ \A d \in Clients : d # c => replies'[d] = replies[d]
             /\ SentBy(c)' = SentBy(c) + 1 /\ SentBy(c) \in Nat
             /\ m = Nth(c, SentBy(c) + 1) => Ordered(c)'
  <2>1. replies[c] \in Seq(Reply) /\ msgs[c] \in Nat
    BY DEF AloneType
  <2>2. /\ replies'[c] = Append(replies[c], m)
        /\ \A d \in Clients : d # c => replies'[d] = replies[d]
        /\ replies' \in [Clients -> Seq(Reply)]
    BY <1>7, <2>1 DEF KSend, AloneType
  <2>3. SentBy(c)' = SentBy(c) + 1 /\ SentBy(c) \in Nat
    BY <1>1, <2>1, <2>2 DEF SentBy
  <2>4. ASSUME m = Nth(c, SentBy(c) + 1), NEW k \in 1 .. Len(replies'[c])
        PROVE  replies'[c][k] = Nth(c, msgs[c] + k)
    <3>1. CASE k = Len(replies[c]) + 1
      <4>1. Len(replies[c]) \in Nat
            /\ Append(replies[c], m)[Len(replies[c]) + 1] = m
        BY <2>1, <1>7
      <4>2. msgs[c] + k = SentBy(c) + 1
        BY <2>1, <3>1, <4>1 DEF SentBy
      <4> QED
        BY <2>2, <2>4, <3>1, <4>1, <4>2
    <3>2. CASE k # Len(replies[c]) + 1
      <4>1. k \in 1 .. Len(replies[c]) /\ replies'[c][k] = replies[c][k]
        BY <2>1, <2>2, <3>2
      <4> QED
        BY <1>0, <4>1 DEF Flow, ChildInv, Ordered
    <3> QED
      BY <3>1, <3>2
  <2>5. m = Nth(c, SentBy(c) + 1) => Ordered(c)'
    <3> SUFFICES ASSUME m = Nth(c, SentBy(c) + 1) PROVE Ordered(c)'
      OBVIOUS
    <3>1. \A k \in 1 .. Len(replies'[c]) : replies'[c][k] = Nth(c, msgs[c] + k)
      BY <2>4
    <3>2. msgs' = msgs /\ file' = file
      BY <1>1
    <3> QED
      BY <3>1, <3>2 DEF Ordered, Nth, Blocks
  <2> QED
    BY <2>2, <2>3, <2>5
<1>8. /\ file[c] # NOFILE => file[c] \in Nat /\ Blocks(file[c]) \in Nat
      /\ off \in [Clients -> Nat] /\ replies \in [Clients -> Seq(Reply)]
  BY BlocksMeasure DEF AloneType
<1> DEFINE Done == /\ replies' \in [Clients -> Seq(Reply)]
                   /\ off' \in [Clients -> Nat]
                   /\ \A d \in Clients : d # c => /\ replies'[d] = replies[d]
                                                  /\ off'[d] = off[d]
                   /\ ChildInv(c)'
<1>9. ASSUME KOpenQueue(c) \/ KOpenFile(c) PROVE Done
  <2>1. /\ UNCHANGED <<replies, off>>
        /\ kpc[c] \in {"openQueue", "openFile"}
        /\ kpc'[c] = "openFile" \/ (kpc'[c] = "failure" /\ file[c] = NOFILE)
           \/ (kpc'[c] = "data" /\ file[c] # NOFILE)
    BY <1>9 DEF KOpenQueue, KOpenFile, KStep, AloneType
  <2>2. SentBy(c)' = 0 /\ off'[c] = 0 /\ SentBy(c) = 0
    BY <1>0, <1>1, <2>1 DEF Flow, ChildInv, SentBy
  <2>3. Ordered(c)'
    BY <1>0, <1>1, <1>6, <2>1 DEF Flow, ChildInv, Ordered
  <2>4. file[c] # NOFILE => 0 <= Blocks(file[c]) /\ Offset(file[c], 0) = 0
    <3> SUFFICES ASSUME file[c] # NOFILE PROVE 0 <= Blocks(file[c]) /\ Offset(file[c], 0) = 0
      OBVIOUS
    <3>1. file[c] \in Nat /\ Blocks(file[c]) \in Nat /\ 0 \in Nat
      BY <1>8
    <3> QED
      BY <3>1, OffsetMeasure
  <2>5. ChildInv(c)'
    BY <1>1, <2>1, <2>2, <2>3, <2>4 DEF ChildInv, Offset, Blocks
  <2> QED
    BY <1>8, <2>1, <2>5
<1>10. ASSUME KSendFailure(c) PROVE Done
  <2>1. /\ kpc[c] = "failure" /\ kpc'[c] = "exitFailure" /\ UNCHANGED off
        /\ KSend(c, Message(c, "FAILURE", FAIL_LEN)) /\ kq[c] = c
    BY <1>0, <1>3, <1>10 DEF KSendFailure, KSendError, KStep, AloneType
  <2>2. file[c] = NOFILE /\ SentBy(c) = 0
    BY <1>0, <2>1 DEF Flow, ChildInv
  <2>3. Message(c, "FAILURE", FAIL_LEN) \in Reply
    BY MsgFileAssumption DEF Message, Reply
  <2>4. Message(c, "FAILURE", FAIL_LEN) = Nth(c, SentBy(c) + 1)
    BY <2>2 DEF Nth
  <2>5. ChildInv(c)'
    BY <1>1, <1>7, <2>1, <2>2, <2>3, <2>4 DEF ChildInv, Due
  <2> QED
    BY <1>7, <1>8, <2>1, <2>3, <2>5
<1>11. ASSUME KSendData(c) PROVE Done
  <2> DEFINE n == file[c]
             k == SentBy(c)
             m == Message(c, "DATA", NumRead(c))
  <2>1. /\ kpc[c] = "data" /\ kpc'[c] = "data" /\ NumRead(c) > 0
        /\ KSend(c, m) /\ kq[c] = c
        /\ off' = [off EXCEPT ![c] = @ + NumRead(c)]
    BY <1>0, <1>3, <1>11 DEF KSendData, KStep, AloneType
  <2>2. /\ n \in Nat /\ Blocks(n) \in Nat /\ n # NOFILE
        /\ k \in Nat /\ k <= Blocks(n) /\ off[c] = Offset(n, k)
    BY <1>0, <1>8, <2>1 DEF Flow, ChildInv, SentBy, AloneType
  <2>3. NumRead(c) = Lesser(RESP_MSG_SIZE, n - Offset(n, k))
    BY <2>2 DEF NumRead
  <2> HIDE DEF n, k
  <2>4. /\ NumRead(c) \in Nat /\ k + 1 <= Blocks(n)
        /\ NumRead(c) = Lesser(RESP_MSG_SIZE, n - k * RESP_MSG_SIZE)
        /\ Offset(n, k + 1) = Offset(n, k) + NumRead(c)
    BY <2>1, <2>2, <2>3, ReadMeasure
  <2>5. m \in Reply
    BY <2>4 DEF Message, Reply
  <2>6. m = Nth(c, k + 1)
    <3>1. (k + 1) - 1 = k /\ file[c] = n
      BY <2>2 DEF n
    <3> QED
      BY <2>2, <2>4, <3>1 DEF Nth
  <2>7. /\ off'[c] = Offset(n, k + 1)
        /\ off' \in [Clients -> Nat]
        /\ \A d \in Clients : d # c => off'[d] = off[d]
    <3>1. off[c] + NumRead(c) = Offset(n, k + 1) /\ off[c] + NumRead(c) \in Nat
      BY <1>8, <2>2, <2>4
    <3> QED
      BY <1>8, <2>1, <3>1
  <2> HIDE DEF m
  <2>8. ChildInv(c)'
    <3>1. SentBy(c)' = k + 1 /\ Ordered(c)'
      BY <1>7, <2>1, <2>5, <2>6 DEF k
    <3>2. file'[c] = n
      BY <1>1 DEF n
    <3> QED
      BY <2>1, <2>2, <2>4, <2>7, <3>1, <3>2 DEF ChildInv, Offset, Blocks
  <2> QED
    BY <1>7, <2>1, <2>5, <2>7, <2>8
<1>12. ASSUME KDataDone(c) PROVE Done
  <2>1. /\ kpc[c] = "data" /\ kpc'[c] = "end" /\ UNCHANGED <<off, replies>>
        /\ NumRead(c) = 0
    BY <1>0, <1>3, <1>12 DEF KDataDone, KStep, AloneType
  <2>2. /\ file[c] \in Nat /\ Blocks(file[c]) \in Nat /\ file[c] # NOFILE
        /\ SentBy(c) \in Nat /\ SentBy(c) <= Blocks(file[c])
        /\ off[c] = Offset(file[c], SentBy(c))
    BY <1>0, <1>8, <2>1 DEF Flow, ChildInv, SentBy, AloneType
  <2>3. NumRead(c) = Lesser(RESP_MSG_SIZE, file[c] - Offset(file[c], SentBy(c)))
    BY <2>2 DEF NumRead
  <2>4. SentBy(c) = Blocks(file[c])
    BY <2>1, <2>2, <2>3, ReadMeasure
  <2>5. SentBy(c)' = SentBy(c)
    BY <1>1, <2>1 DEF SentBy
  <2>6. Ordered(c)'
    BY <1>0, <1>1, <1>6, <2>1 DEF Flow, ChildInv, Ordered
  <2>7. ChildInv(c)'
    BY <1>1, <2>1, <2>2, <2>4, <2>5, <2>6 DEF ChildInv, Blocks
  <2> QED
    BY <1>8, <2>1, <2>7
<1>13. ASSUME KSendEnd(c) PROVE Done
  <2>1. /\ kpc[c] = "end" /\ kpc'[c] = "exit" /\ UNCHANGED off
        /\ KSend(c, Message(c, "END", 1)) /\ kq[c] = c
    BY <1>0, <1>3, <1>13 DEF KSendEnd, KSendError, KStep, AloneType
  <2>2. /\ file[c] # NOFILE /\ SentBy(c) = Blocks(file[c])
        /\ Blocks(file[c]) \in Nat
    BY <1>0, <1>8, <2>1 DEF Flow, ChildInv
  <2>3. Message(c, "END", 1) \in Reply
    BY DEF Message, Reply
  <2>4. Message(c, "END", 1) = Nth(c, SentBy(c) + 1)
    BY <2>2 DEF Nth
  <2>5. ChildInv(c)'
    BY <1>1, <1>7, <2>1, <2>2, <2>3, <2>4 DEF ChildInv, Due, Blocks
  <2> QED
    BY <1>7, <1>8, <2>1, <2>3, <2>5
<1>14. ASSUME KExit(c) \/ KExitFailure(c) PROVE Done
  <2>1. /\ kpc[c] \in {"exit", "exitFailure"} /\ kpc'[c] \in {"zombie", "gone"}
        /\ UNCHANGED <<off, replies>>
    BY <1>14 DEF KExit, KExitFailure, KEnds, KStep, AloneType
  <2>2. SentBy(c) = Due(c) /\ SentBy(c)' = SentBy(c) /\ Due(c)' = Due(c)
    BY <1>0, <1>1, <2>1 DEF Flow, ChildInv, SentBy, Due, Blocks
  <2>3. Ordered(c)'
    BY <1>0, <1>1, <1>6, <2>1 DEF Flow, ChildInv, Ordered
  <2>4. ChildInv(c)'
    BY <2>1, <2>2, <2>3 DEF ChildInv
  <2> QED
    BY <1>8, <2>1, <2>4
<1>15. Done
  BY <1>9, <1>10, <1>11, <1>12, <1>13, <1>14 DEF ChildStep
<1>16. AloneType'
  BY <1>1, <1>2, <1>4, <1>15 DEF AloneType
<1>17. ClientInv(c)'
  BY <1>0, <1>1 DEF Flow, ClientInv, Offset, Blocks
<1>18. ASSUME NEW d \in Clients, d # c PROVE Flow(d)'
  BY <1>1, <1>2, <1>15, <1>18, FlowStays
<1> QED
  BY <1>5, <1>15, <1>16, <1>17, <1>18 DEF Flow

LEMMA AloneStep ==
  ASSUME AloneInv, [Next]_vars
  PROVE  AloneInv'
<1>1. alone' = alone
  BY DEF Next, ServerStep, SReceive, SFork, SCatch, SReturn, SReap, SForkFails,
     SUnlink, ClientStep, COpenServer, COpenQueue, CSend, CReceive, CExit,
     CKilled, ChildStep, KOpenQueue, KOpenFile, KSendFailure, KSendData,
     KDataDone, KSendEnd, KExit, KExitFailure, vars, user
<1> SUFFICES ASSUME alone PROVE AloneType' /\ OwnInv' /\ \A c \in Clients : Flow(c)'
  BY <1>1 DEF AloneInv, Flow
<1>2. AloneType /\ OwnInv /\ \A c \in Clients : Flow(c)
  BY DEF AloneInv, Flow
<1>3. CASE ServerStep \/ SForkFails \/ SUnlink \/ \E c \in Clients : CKilled(c)
  BY <1>2, <1>3, ServerAlone
<1>4. ASSUME NEW c \in Clients, ClientStep(c)
      PROVE  AloneType' /\ OwnInv' /\ \A d \in Clients : Flow(d)'
  BY <1>2, <1>4, ClientAlone
<1>5. ASSUME NEW c \in Clients, ChildStep(c)
      PROVE  AloneType' /\ OwnInv' /\ \A d \in Clients : Flow(d)'
  BY <1>2, <1>5, ChildAlone
<1>6. CASE UNCHANGED vars
  <2>1. UNCHANGED <<file, cpc, kpc, mtype, tot, msgs, served, off, replies,
                    cq, kq, named12, spc, req, requests>>
    BY <1>6 DEF vars, names, server, client, children, user
  <2>2. AloneType' /\ OwnInv'
    BY <1>2, <2>1 DEF AloneType, OwnInv, Active
  <2> QED
    BY <1>2, <2>1, <2>2, FlowStays
<1> QED
  BY <1>3, <1>4, <1>5, <1>6 DEF Next

\* Clients that are run one after the other get the whole file, counted with
\* one byte too many, in as many messages as it has blocks and one, or are
\* told that it cannot be opened, whatever its size, the size of a message
\* and the room in the queues.
THEOREM Reporting == Spec => []ReportIsFileSize
<1>1. AloneInv => ReportIsFileSize
  <2> SUFFICES ASSUME AloneInv, alone, NEW c \in Clients
               PROVE  /\ cpc[c] = "done" /\ file[c] \notin 1 .. LONG - 1 =>
                           /\ file[c] # NOFILE /\ tot[c] - 1 = file[c]
                           /\ msgs[c] = Blocks(file[c]) + 1
                      /\ cpc[c] = "failed" => file[c] = NOFILE
    BY DEF ReportIsFileSize
  <2>1. ClientInv(c) /\ AloneType
    BY DEF AloneInv
  <2> QED
    BY <2>1 DEF ClientInv, AloneType
<1> QED
  BY <1>1, AloneInit, AloneStep, PTL DEF Spec

\* And nothing that was sent to another reaches them.
THEOREM Separation == Spec => []NoCrossTalk
<1>1. AloneInv => NoCrossTalk
  BY DEF AloneInv, ClientInv, NoCrossTalk
<1> QED
  BY <1>1, AloneInit, AloneStep, PTL DEF Spec
=============================================================================
