--------------------------- MODULE SeqnumNonblock ---------------------------
(***************************************************************************)
(* SP_HW8/44-7: the sequence-number server and client of 44-6 with every   *)
(* open(), read() and write() made nonblocking.  The server polls for      *)
(* requests; the client fails if the server is not there, and polls for    *)
(* its answer until it comes.  The server does not give up on a client it  *)
(* cannot open: it writes to descriptor -1 and counts the numbers anyway.  *)
(***************************************************************************)
EXTENDS Integers, Sequences

CONSTANTS
  Clients,   \* the runs of fifo_seqnum_client_normal, one request each
  Lengths,   \* the seq-len arguments, at least 1 and at most INT_MAX
  INT_MAX,   \* the largest int
  CAPACITY,  \* how many requests the server's FIFO holds
  None,      \* no client, no number
  Faults     \* which faults may happen: "client", "server" (a kill)

VARIABLES
  listening, \* the server has its FIFO open for reading
  requests,  \* the contents of the server's FIFO: whose requests
  seqLen,    \* the length each client asks for
  up,        \* the server has not been killed
  spc, req,  \* its next step and the request it holds
  clientFd,  \* whose FIFO it has open: None for descriptor -1
  seqNum,    \* its next number
  cpc,       \* each client's next step
  linked,    \* its FIFO exists
  reading,   \* it has its FIFO open for reading
  fifo,      \* the number written to its FIFO
  printed    \* the number it has printed

server   == <<up, spc, req, clientFd, seqNum>>
clients  == <<cpc, linked, reading, fifo, printed>>
vars     == <<listening, requests, seqLen, server, clients>>

\* An int sum that overflows wraps around, as the compiled code does.
Wrap(n) == IF n > INT_MAX THEN n - 2 * (INT_MAX + 1) ELSE n

SStep(from, to) == up /\ spc = from /\ spc' = to
CStep(c, from, to) == cpc[c] = from /\ cpc' = [cpc EXCEPT ![c] = to]

Ended == {"done", "failed", "killed"}

-----------------------------------------------------------------------------
(* Slips a programmer could make, not what the code does: each variant of  *)
(* a definition below breaks one of the properties at the end.             *)

\* The number is counted only when the answer could be written.
SCloseCountsWrites ==
  /\ SStep("close", "read")
  /\ clientFd' = None
  /\ seqNum' = IF clientFd = None THEN seqNum ELSE Wrap(seqNum + seqLen[req])
  /\ UNCHANGED <<listening, requests, seqLen, up, req, clients>>

\* The client tries once, as in 44-6, without waiting.
CPollOnce(c) ==
  /\ fifo[c] = None
  /\ CStep(c, "read", "failed")
  /\ UNCHANGED <<listening, requests, seqLen, server, linked, reading, fifo,
                 printed>>

-----------------------------------------------------------------------------
(* The server.  A poll that finds no request changes nothing.              *)

\* mkfifo() and the two nonblocking opens: nothing waits for a client.
SOpen ==
  /\ SStep("open", "read")
  /\ listening' = TRUE
  /\ UNCHANGED <<requests, seqLen, up, req, clientFd, seqNum,
                 clients>>

SRead ==
  /\ requests # <<>>
  /\ SStep("read", "openClient")
  /\ req' = Head(requests)
  /\ requests' = Tail(requests)
  /\ UNCHANGED <<listening, seqLen, up, clientFd, seqNum, clients>>

SOpenClient ==
  /\ SStep("openClient", "write")
  /\ clientFd' = IF reading[req] THEN req ELSE None
  /\ UNCHANGED <<listening, requests, seqLen, up, req, seqNum,
                 clients>>

\* write() to descriptor -1, or to a client that has gone, fails.
SWrite ==
  /\ SStep("write", "close")
  /\ fifo' = [c \in Clients |-> IF c = clientFd /\ reading[c]
                                THEN seqNum ELSE fifo[c]]
  /\ UNCHANGED <<listening, requests, seqLen, up, req, clientFd, seqNum,
                 cpc, linked, reading, printed>>

SClose ==
  /\ SStep("close", "read")
  /\ clientFd' = None
  /\ seqNum' = Wrap(seqNum + seqLen[req])
  /\ UNCHANGED <<listening, requests, seqLen, up, req, clients>>

ServerStep == SOpen \/ SRead \/ SOpenClient \/ SWrite \/ SClose

SKilled ==
  /\ "server" \in Faults
  /\ up
  /\ up' = FALSE
  /\ listening' = FALSE
  /\ UNCHANGED <<requests, seqLen, spc, req, clientFd, seqNum,
                 clients>>

-----------------------------------------------------------------------------
(* The clients.                                                            *)

CMkfifo(c) ==
  /\ CStep(c, "mkfifo", "openServer")
  /\ linked' = [linked EXCEPT ![c] = TRUE]
  /\ UNCHANGED <<listening, requests, seqLen, server, reading, fifo, printed>>

\* exit() runs removeFifo().
CEnds(c, from, to) ==
  /\ CStep(c, from, to)
  /\ linked' = [linked EXCEPT ![c] = FALSE]
  /\ reading' = [reading EXCEPT ![c] = FALSE]

\* ENOENT or ENXIO: nobody has the server's FIFO open for reading.
COpenServer(c) ==
  /\ \/ /\ listening
        /\ CStep(c, "openServer", "send")
        /\ UNCHANGED <<linked, reading>>
     \/ /\ ~listening
        /\ CEnds(c, "openServer", "failed")
  /\ UNCHANGED <<listening, requests, seqLen, server, fifo, printed>>

CSend(c) ==
  /\ listening /\ Len(requests) < CAPACITY
  /\ CStep(c, "send", "open")
  /\ requests' = Append(requests, c)
  /\ UNCHANGED <<listening, seqLen, server, linked, reading, fifo, printed>>

\* EAGAIN: the FIFO is full.
CSendFull(c) ==
  /\ listening /\ Len(requests) = CAPACITY
  /\ CEnds(c, "send", "failed")
  /\ UNCHANGED <<listening, requests, seqLen, server, fifo, printed>>

\* The server has been killed: SIGPIPE, and no exit handler.
CPipe(c) ==
  /\ ~listening
  /\ CStep(c, "send", "killed")
  /\ UNCHANGED <<listening, requests, seqLen, server, linked, reading, fifo,
                 printed>>

COpen(c) ==
  /\ CStep(c, "open", "read")
  /\ reading' = [reading EXCEPT ![c] = TRUE]
  /\ UNCHANGED <<listening, requests, seqLen, server, linked, fifo, printed>>

\* A read() that finds nothing, or end of file, is tried again.
CPoll(c) ==
  /\ fifo[c] = None
  /\ CStep(c, "read", "read")
  /\ UNCHANGED <<listening, requests, seqLen, server, linked, reading, fifo,
                 printed>>

CRead(c) ==
  /\ fifo[c] # None
  /\ CEnds(c, "read", "done")
  /\ printed' = [printed EXCEPT ![c] = fifo[c]]
  /\ UNCHANGED <<listening, requests, seqLen, server, fifo>>

CKilled(c) ==
  /\ "client" \in Faults
  /\ cpc[c] \notin Ended
  /\ cpc' = [cpc EXCEPT ![c] = "killed"]
  /\ reading' = [reading EXCEPT ![c] = FALSE]
  /\ UNCHANGED <<listening, requests, seqLen, server, linked, fifo, printed>>

ClientStep(c) ==
  \/ CMkfifo(c) \/ COpenServer(c) \/ CSend(c) \/ CSendFull(c) \/ CPipe(c)
  \/ COpen(c) \/ CPoll(c) \/ CRead(c)

-----------------------------------------------------------------------------

Init ==
  /\ listening = FALSE
  /\ requests = <<>>
  /\ seqLen \in [Clients -> Lengths]
  /\ up = TRUE
  /\ spc = "open"
  /\ req = None
  /\ clientFd = None
  /\ seqNum = 0
  /\ cpc = [c \in Clients |-> "mkfifo"]
  /\ linked = [c \in Clients |-> FALSE]
  /\ reading = [c \in Clients |-> FALSE]
  /\ fifo = [c \in Clients |-> None]
  /\ printed = [c \in Clients |-> None]

Next ==
  \/ ServerStep \/ SKilled
  \/ \E c \in Clients : ClientStep(c) \/ CKilled(c)

Spec == Init /\ [][Next]_vars

\* Every process that can take its next step eventually takes it.
FairSpec ==
  Spec /\ WF_vars(ServerStep) /\ \A c \in Clients : WF_vars(ClientStep(c))

-----------------------------------------------------------------------------

\* A client is answered with numbers of its own, as in 44-6, whatever the
\* failed calls that the server goes on from; and the numbers of a request
\* it could not answer are lost, not given to another.
NextNumber == IF spc = "close" THEN Wrap(seqNum + seqLen[req]) ELSE seqNum
Service == INSTANCE SeqnumService
             WITH len <- seqLen, next <- NextNumber, answer <- fifo,
                  Nobody <- None
ImplementsService == Service!Spec

\* A client whose FIFO is open before the server gets to its request polls
\* until it has its answer, unless the server is killed.
Waiting(c) == \E i \in 1..Len(requests) : requests[i] = c
ReadyClientAnswered ==
  \A c \in Clients :
    cpc[c] = "read" /\ Waiting(c) ~> cpc[c] \in {"done", "killed"} \/ ~up
=============================================================================
