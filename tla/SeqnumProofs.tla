---------------------------- MODULE SeqnumProofs ----------------------------
(***************************************************************************)
(* Proofs about SeqnumFifo, for any clients, lengths, size of int and      *)
(* kills.                                                                  *)
(*                                                                         *)
(* What keeps the ranges apart is that the next number is past every       *)
(* number given out, but for those of the client answered a moment ago,    *)
(* which the server is about to count.                                     *)
(***************************************************************************)
EXTENDS SeqnumFifo, TLAPS

\* What the next number needs to stay an int: the request it is about to
\* count is a client's.
Held == spc \in {"openClient", "write", "close"} => req \in Clients
TypeInv == TypeOK /\ Held

LEMMA WrapType ==
  ASSUME NEW m \in Numbers, NEW n \in Lengths
  PROVE  Wrap(m + n) \in Numbers
BY SeqnumAssumption DEF Wrap, Numbers

LEMMA TypeInit == Init => TypeInv
<1> SUFFICES ASSUME Init PROVE TypeInv
  OBVIOUS
<1>1. seqNum \in Numbers
  BY SeqnumAssumption DEF Init, Numbers
<1>2. requests \in Seq(Clients)
  BY DEF Init
<1> QED
  BY <1>1, <1>2 DEF Init, TypeInv, TypeOK, Held, Ended

LEMMA TypeStep ==
  ASSUME TypeInv, [Next]_vars
  PROVE  TypeInv'
<1> USE SeqnumAssumption DEF TypeInv, TypeOK, Held, Ended
<1>1. CASE SMkfifo
  BY <1>1 DEF SMkfifo, SStep, service, clients, server
<1>2. CASE SOpen
  BY <1>2 DEF SOpen, SStep, service, clients, server
<1>3. CASE SRead
  BY <1>3 DEF SRead, SStep, service, clients, server
<1>4. CASE SOpenClient
  BY <1>4 DEF SOpenClient, SStep, service, clients, server
<1>5. CASE SGiveUp
  BY <1>5 DEF SGiveUp, SStep, service, clients, server
<1>6. CASE SWrite
  BY <1>6 DEF SWrite, SStep, service, clients, server
<1>7. CASE SClose
  <2>1. seqNum' \in Numbers
    BY <1>7, WrapType DEF SClose, SStep
  <2> QED
    BY <1>7, <2>1 DEF SClose, SStep, service, clients, server
<1>8. CASE SKilled
  BY <1>8 DEF SKilled, vars, service, clients, server
<1>9. ASSUME NEW c \in Clients, CMkfifo(c) PROVE TypeInv'
  BY <1>9 DEF CMkfifo, CStep, service, clients, server
<1>10. ASSUME NEW c \in Clients, COpenServer(c) PROVE TypeInv'
  BY <1>10 DEF COpenServer, CStep, service, clients, server
<1>11. ASSUME NEW c \in Clients, CSend(c) PROVE TypeInv'
  BY <1>11 DEF CSend, CStep, service, clients, server
<1>12. ASSUME NEW c \in Clients, CPipe(c) PROVE TypeInv'
  BY <1>12 DEF CPipe, CStep, service, clients, server
<1>13. ASSUME NEW c \in Clients, COpen(c) PROVE TypeInv'
  BY <1>13 DEF COpen, CStep, service, clients, server
<1>14. ASSUME NEW c \in Clients, CAbnormal(c) PROVE TypeInv'
  BY <1>14 DEF CAbnormal, CStep, service, clients, server
<1>15. ASSUME NEW c \in Clients, COpened(c) PROVE TypeInv'
  BY <1>15 DEF COpened, CStep, service, clients, server
<1>16. ASSUME NEW c \in Clients, CRead(c) PROVE TypeInv'
  BY <1>16 DEF CRead, CStep, service, clients, server
<1>17. ASSUME NEW c \in Clients, CEof(c) PROVE TypeInv'
  BY <1>17 DEF CEof, CStep, service, clients, server
<1>18. ASSUME NEW c \in Clients, CKilled(c) PROVE TypeInv'
  BY <1>18 DEF CKilled, CStep, service, clients, server
<1>19. CASE UNCHANGED vars
  BY <1>19 DEF vars, service, clients, server
<1> QED
  BY <1>1, <1>2, <1>3, <1>4, <1>5, <1>6, <1>7, <1>8, <1>9, <1>10,
     <1>11, <1>12, <1>13, <1>14, <1>15, <1>16, <1>17, <1>18, <1>19
  DEF Next, ServerStep, ClientStep

\* Every variable keeps its type: seqNum stays an int when it overflows.
THEOREM TypeCorrect == Spec => []TypeOK
<1>1. TypeInv => TypeOK
  BY DEF TypeInv
<1> QED
  BY <1>1, TypeInit, TypeStep, PTL DEF Spec

-----------------------------------------------------------------------------
(* The ranges given out.                                                   *)

\* The client answered by the server, but not counted yet.
Uncounted(c) == spc = "close" /\ req = c /\ fifo[c] = seqNum

RangeInv ==
  ~wrapped =>
    /\ seqNum >= 0
    /\ \A c \in Clients :
         fifo[c] # None => fifo[c] + seqLen[c] <= seqNum \/ Uncounted(c)
    /\ \A c, d \in Clients :
         c # d /\ fifo[c] # None /\ fifo[d] # None =>
           \/ fifo[c] + seqLen[c] <= fifo[d]
           \/ fifo[d] + seqLen[d] <= fifo[c]

LEMMA RangeInit == Init => RangeInv
BY DEF Init, RangeInv

LEMMA Ints ==
  ASSUME TypeInv
  PROVE  /\ seqNum \in Int
         /\ \A c \in Clients : /\ seqLen[c] \in Int /\ seqLen[c] > 0
                               /\ fifo[c] # None => fifo[c] \in Int
<1>1. \A n \in Numbers : n \in Int
  BY SeqnumAssumption DEF Numbers
<1>2. \A n \in Lengths : n \in Int /\ n > 0
  BY SeqnumAssumption
<1> QED
  BY <1>1, <1>2 DEF TypeInv, TypeOK

LEMMA RangeStep ==
  ASSUME TypeInv, RangeInv, [Next]_vars
  PROVE  RangeInv'
<1> USE DEF RangeInv, Uncounted
<1>1. CASE SMkfifo \/ SOpen \/ SOpenClient \/ SGiveUp
  BY <1>1 DEF SMkfifo, SOpen, SOpenClient, SGiveUp, SStep, clients
<1>2. CASE SRead
  BY <1>2 DEF SRead, SStep, clients
<1>3. CASE SWrite
  <2> SUFFICES ASSUME ~wrapped PROVE RangeInv'
    BY <1>3 DEF SWrite
  <2>1. req \in Clients /\ spc = "write" /\ spc' = "close" /\ req' = req
    BY <1>3 DEF SWrite, SStep, TypeInv, Held
  <2>2. seqNum' = seqNum /\ seqLen' = seqLen
    BY <1>3 DEF SWrite
  <2>3. \A c \in Clients : fifo'[c] = fifo[c] \/ (c = req /\ fifo'[c] = seqNum)
    BY <1>3 DEF SWrite, TypeInv, TypeOK
  <2>4. \A c \in Clients : fifo[c] # None => fifo[c] + seqLen[c] <= seqNum
    BY <2>1
  <2>5. \A c \in Clients :
          fifo'[c] # None => fifo'[c] + seqLen[c] <= seqNum
                             \/ (c = req /\ fifo'[c] = seqNum)
    BY <2>3, <2>4
  <2>6. \A c, d \in Clients :
          c # d /\ fifo'[c] # None /\ fifo'[d] # None =>
            fifo'[c] + seqLen[c] <= fifo'[d] \/ fifo'[d] + seqLen[d] <= fifo'[c]
    BY <2>3, <2>4
  <2> QED
    BY <2>1, <2>2, <2>5, <2>6
<1>4. CASE SClose
  <2> SUFFICES ASSUME ~wrapped' PROVE RangeInv'
    OBVIOUS
  <2>1. req \in Clients /\ spc = "close"
    BY <1>4 DEF SClose, SStep, TypeInv, Held
  <2>2. ~wrapped /\ seqNum' = seqNum + seqLen[req]
    BY <1>4, <2>1, Ints, SeqnumAssumption DEF SClose, Wrap
  <2>3. fifo' = fifo /\ seqLen' = seqLen
    BY <1>4 DEF SClose, clients
  <2>4. \A c \in Clients :
          fifo[c] # None => fifo[c] + seqLen[c] <= seqNum + seqLen[req]
    BY <2>1, <2>2, Ints
  <2>5. seqNum + seqLen[req] >= 0
    BY <2>1, <2>2, Ints
  <2> QED
    BY <2>2, <2>3, <2>4, <2>5
<1>5. CASE SKilled
  BY <1>5 DEF SKilled, clients
<1>6. ASSUME NEW c \in Clients, ClientStep(c) \/ CKilled(c)
      PROVE  UNCHANGED <<seqNum, seqLen, wrapped, spc, req, fifo>>
  BY <1>6 DEF ClientStep, CMkfifo, COpenServer, CSend, CPipe, COpen,
     CAbnormal, COpened, CRead, CEof, CKilled, server
<1>7. CASE UNCHANGED vars
  BY <1>7 DEF vars, server, clients
<1> QED
  BY <1>1, <1>2, <1>3, <1>4, <1>5, <1>6, <1>7 DEF Next, ServerStep

\* No number is given to two clients, until the int overflows.
THEOREM Disjoint == Spec => []DisjointRanges
<1>1. TypeInv /\ RangeInv => DisjointRanges
  <2> SUFFICES ASSUME TypeInv, RangeInv, ~wrapped,
                      NEW c \in Clients, NEW d \in Clients,
                      c # d, fifo[c] # None, fifo[d] # None,
                      NEW n \in Given(c) \cap Given(d)
               PROVE  FALSE
    BY DEF DisjointRanges
  <2>1. n \in Int /\ fifo[c] <= n /\ fifo[d] <= n
        /\ n < fifo[c] + seqLen[c] /\ n < fifo[d] + seqLen[d]
    BY Ints DEF Given
  <2> QED
    BY <2>1, Ints DEF RangeInv
<1> QED
  BY <1>1, TypeInit, TypeStep, RangeInit, RangeStep, PTL DEF Spec
-----------------------------------------------------------------------------
(* The service.  A write is the service's step; the server can answer a    *)
(* client twice only if its request is there twice, so a request stands in *)
(* the FIFO or in the server's hands, once, until the client is answered.  *)

Handled(c) == spc \in {"openClient", "write"} /\ req = c
Unsent(c)  == cpc[c] \in {"mkfifo", "openServer", "send"}

OnceInv ==
  /\ \A i, j \in 1..Len(requests) : requests[i] = requests[j] => i = j
  /\ \A i \in 1..Len(requests) :
       /\ fifo[requests[i]] = None
       /\ ~Handled(requests[i])
       /\ ~Unsent(requests[i])
  /\ \A c \in Clients : Handled(c) \/ Unsent(c) => fifo[c] = None
  /\ \A c \in Clients : ~(Handled(c) /\ Unsent(c))

LEMMA OnceInit == Init => OnceInv
BY DEF Init, OnceInv, Handled, Unsent

\* A client's step other than its request adds nothing to the FIFO.
LEMMA OnceOther ==
  ASSUME TypeInv, OnceInv, UNCHANGED <<requests, spc, req, fifo>>,
         \A c \in Clients : Unsent(c)' => Unsent(c)
  PROVE  OnceInv'
<1>1. \A i \in 1..Len(requests) : requests[i] \in Clients
  BY DEF TypeInv, TypeOK
<1>2. \A c \in Clients : Handled(c)' <=> Handled(c)
  BY DEF Handled
<1> HIDE DEF Handled, Unsent
<1> QED
  BY <1>1, <1>2 DEF OnceInv

LEMMA OnceStep ==
  ASSUME TypeInv, OnceInv, [Next]_vars
  PROVE  OnceInv'
<1>1. CASE SMkfifo \/ SOpen \/ SGiveUp \/ SOpenClient \/ SClose \/ SKilled
  BY <1>1 DEF SMkfifo, SOpen, SGiveUp, SOpenClient, SClose, SKilled, SStep,
     service, clients, OnceInv, Handled, Unsent
<1>2. CASE SRead
  <2>1. /\ requests # <<>> /\ Len(requests') = Len(requests) - 1
        /\ \A i \in 1..Len(requests') : requests'[i] = requests[i + 1]
        /\ req' = requests[1] /\ req' \in Clients
        /\ 1 \in 1..Len(requests)
    BY <1>2 DEF SRead, TypeInv, TypeOK
  <2>2. \A i \in 1..Len(requests') :
          i + 1 \in 1..Len(requests) /\ requests'[i] # req'
    BY <2>1 DEF OnceInv
  <2>3. UNCHANGED <<fifo, cpc>> /\ \A c \in Clients : Handled(c)' => c = req'
    BY <1>2 DEF SRead, SStep, clients, Handled
  <2>4. Len(requests) \in Nat /\ Len(requests') \in Nat
    BY <1>2 DEF SRead, TypeInv, TypeOK
  <2>5. \A i, j \in 1..Len(requests') : requests'[i] = requests'[j] => i = j
    BY <2>1, <2>2, <2>4 DEF OnceInv
  <2>6. \A i \in 1..Len(requests') :
          /\ fifo'[requests'[i]] = None
          /\ ~Handled(requests[i])'
          /\ ~Unsent(requests[i])'
    BY SMTT(20), <2>1, <2>2, <2>3 DEF OnceInv, Handled, Unsent
  <2>7. \A c \in Clients : Handled(c)' \/ Unsent(c)' => fifo'[c] = None
    BY <2>1, <2>3 DEF OnceInv, Unsent
  <2>8. \A c \in Clients : ~(Handled(c)' /\ Unsent(c)')
    BY <2>1, <2>3 DEF OnceInv, Unsent
  <2> QED
    BY <2>5, <2>6, <2>7, <2>8 DEF OnceInv
<1>3. CASE SWrite
  <2>1. UNCHANGED <<requests, cpc>> /\ req \in Clients /\ Handled(req)
    BY <1>3 DEF SWrite, SStep, Handled, Held, TypeInv, service
  <2>2. \A c \in Clients : ~Handled(c)' /\ (Unsent(c)' <=> Unsent(c))
    BY <1>3, <2>1 DEF SWrite, SStep, Handled, Unsent
  <2>3. \A c \in Clients : c # req => fifo'[c] = fifo[c]
    BY <1>3 DEF SWrite, TypeInv, TypeOK
  <2>4. \A i \in 1..Len(requests) : requests[i] \in Clients \ {req}
    BY <2>1 DEF OnceInv, TypeInv, TypeOK
  <2>5. ~Unsent(req)
    BY <2>1 DEF OnceInv
  <2> QED
    BY <2>1, <2>2, <2>3, <2>4, <2>5 DEF OnceInv
<1>4. ASSUME NEW c \in Clients, CSend(c) PROVE OnceInv'
  <2>1. /\ Unsent(c) /\ ~Unsent(c)'
        /\ \A d \in Clients : Unsent(d)' => Unsent(d)
        /\ UNCHANGED <<spc, req, fifo>>
    BY <1>4 DEF CSend, CStep, server, Unsent, TypeInv, TypeOK
  <2>2. /\ Len(requests') = Len(requests) + 1
        /\ requests'[Len(requests) + 1] = c
        /\ \A i \in 1..Len(requests) : requests'[i] = requests[i]
        /\ Len(requests) \in Nat
    BY <1>4 DEF CSend, TypeInv, TypeOK
  <2>3. \A i \in 1..Len(requests) : requests[i] \in Clients \ {c}
    BY <2>1 DEF OnceInv, TypeInv, TypeOK
  <2>4. \A i \in 1..Len(requests') : i \in 1..Len(requests) \/ requests'[i] = c
    BY <2>2
  <2>5. fifo[c] = None /\ ~Handled(c)
    BY <2>1 DEF OnceInv
  <2>6. \A d \in Clients : Handled(d)' <=> Handled(d)
    BY <2>1 DEF Handled
  <2>7. \A i, j \in 1..Len(requests') : requests'[i] = requests'[j] => i = j
    BY <2>2, <2>3, <2>4 DEF OnceInv
  <2>8. \A i \in 1..Len(requests') :
          /\ fifo'[requests'[i]] = None
          /\ ~Handled(requests[i])'
          /\ ~Unsent(requests[i])'
    BY <2>1, <2>2, <2>3, <2>4, <2>5, <2>6 DEF OnceInv
  <2>9. \A d \in Clients : /\ Handled(d)' \/ Unsent(d)' => fifo'[d] = None
                           /\ ~(Handled(d)' /\ Unsent(d)')
    BY <2>1, <2>6 DEF OnceInv
  <2> QED
    BY <2>7, <2>8, <2>9 DEF OnceInv
<1>5. ASSUME NEW c \in Clients,
             \/ CMkfifo(c) \/ COpenServer(c) \/ CPipe(c) \/ COpen(c)
             \/ CAbnormal(c) \/ COpened(c) \/ CRead(c) \/ CEof(c) \/ CKilled(c)
      PROVE  OnceInv'
  <2>1. UNCHANGED <<requests, spc, req, fifo>>
    BY <1>5 DEF CMkfifo, COpenServer, CPipe, COpen, CAbnormal, COpened, CRead,
       CEof, CKilled, service, server
  <2>2. \A d \in Clients : Unsent(d)' => Unsent(d)
    BY <1>5 DEF CMkfifo, COpenServer, CPipe, COpen, CAbnormal, COpened, CRead,
       CEof, CKilled, CStep, Unsent, Ended, TypeInv, TypeOK
  <2> QED
    BY <2>1, <2>2, OnceOther
<1>6. CASE UNCHANGED vars
  BY <1>6, OnceOther DEF vars, service, server, clients, Unsent
<1> QED
  BY <1>1, <1>2, <1>3, <1>4, <1>5, <1>6 DEF Next, ServerStep, ClientStep

LEMMA ServiceInit == Init => Service!Init
BY DEF Init, Service!Init, NextNumber

LEMMA ServiceStep ==
  ASSUME TypeInv, OnceInv, [Next]_vars
  PROVE  [Service!Next]_(Service!vars)
<1> USE DEF NextNumber
<1>1. CASE SWrite
  <2>1. req \in Clients /\ spc = "write" /\ spc' = "close"
        /\ UNCHANGED <<seqLen, seqNum, req>>
    BY <1>1 DEF SWrite, SStep, TypeInv, Held
  <2>2. fifo[req] = None
    BY <2>1 DEF OnceInv, Handled
  <2>3. fifo' \in {fifo, [fifo EXCEPT ![req] = seqNum]}
    BY <1>1 DEF SWrite
  <2>4. NextNumber = seqNum /\ NextNumber' = Wrap(seqNum + seqLen[req])
    BY <2>1
  <2>5. Service!Serve(req)
    BY <2>1, <2>2, <2>3, <2>4 DEF Service!Serve
  <2> QED
    BY <2>1, <2>5 DEF Service!Next
<1>2. CASE SClose
  BY <1>2 DEF SClose, SStep, clients, Service!vars
<1>3. CASE SMkfifo \/ SOpen \/ SRead \/ SOpenClient \/ SGiveUp
  BY <1>3 DEF SMkfifo, SOpen, SRead, SOpenClient, SGiveUp, SStep, clients,
     Service!vars
<1>4. CASE SKilled
  BY <1>4 DEF SKilled, clients, Service!vars
<1>5. ASSUME NEW c \in Clients, ClientStep(c) \/ CKilled(c)
      PROVE  UNCHANGED Service!vars
  BY <1>5 DEF ClientStep, CMkfifo, COpenServer, CSend, CPipe, COpen,
     CAbnormal, COpened, CRead, CEof, CKilled, server, Service!vars
<1>6. CASE UNCHANGED vars
  BY <1>6 DEF vars, server, clients, Service!vars
<1> QED
  BY <1>1, <1>2, <1>3, <1>4, <1>5, <1>6 DEF Next, ServerStep

\* The FIFO programs implement the service: no client is answered twice,
\* and every answer is the next number.
THEOREM Implementation == Spec => ImplementsService
BY TypeInit, TypeStep, OnceInit, OnceStep, ServiceInit, ServiceStep, PTL
DEF Spec, ImplementsService, Service!Spec
=============================================================================
