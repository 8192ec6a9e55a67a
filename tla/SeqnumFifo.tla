----------------------------- MODULE SeqnumFifo -----------------------------
(***************************************************************************)
(* SP_HW8/44-6: a server gives out sequence numbers over FIFOs.  A client  *)
(* makes its own FIFO, writes its pid and the length it wants to the       *)
(* server's FIFO, and opens its own FIFO to read the answer.  The server   *)
(* opens the client's FIFO with O_NONBLOCK, and gives the client up if     *)
(* nobody has it open for reading.  The abnormal client never opens its    *)
(* FIFO.  Opening a FIFO blocks until its other end is opened, but counts  *)
(* as opening its own end from the moment the call is made.                *)
(***************************************************************************)
EXTENDS Integers, Sequences

CONSTANTS
  Clients,   \* the runs of the two client programs, one request each
  Abnormal,  \* those that run fifo_seqnum_client_abnormal
  Lengths,   \* the seq-len arguments
  INT_MAX,   \* the largest int
  None,      \* no client, no number
  Faults     \* which faults may happen: "client", "server" (a kill)

ASSUME SeqnumAssumption ==
  /\ Abnormal \subseteq Clients
  /\ INT_MAX \in Nat
  /\ Lengths \subseteq 1..INT_MAX
  /\ None \notin Clients \cup Int
  /\ Faults \subseteq {"client", "server"}

VARIABLES
  exists,    \* the server's FIFO has been made
  listening, \* the server has, or is opening, its FIFO for reading
  called,    \* a client has opened the server's FIFO for writing
  requests,  \* the contents of the server's FIFO: whose requests
  seqLen,    \* the length each client asks for
  up,        \* the server has not been killed
  spc, req,  \* its next step and the request it holds
  seqNum,    \* its next number
  wrapped,   \* history: a sum has overflowed
  cpc,       \* each client's next step
  reading,   \* it has, or is opening, its FIFO for reading
  opened,    \* the server has opened its FIFO for writing
  fifo,      \* the number written to its FIFO
  printed    \* the number it has printed

service  == <<exists, listening, called, requests>>
server   == <<up, spc, req, seqNum, wrapped>>
clients  == <<cpc, reading, opened, fifo, printed>>
vars     == <<service, seqLen, server, clients>>

\* An int sum that overflows wraps around, as the compiled code does.
Wrap(n) == IF n > INT_MAX THEN n - 2 * (INT_MAX + 1) ELSE n

SStep(from, to) == up /\ spc = from /\ spc' = to
CStep(c, from, to) == cpc[c] = from /\ cpc' = [cpc EXCEPT ![c] = to]

Ended == {"done", "failed", "garbage", "killed"}

-----------------------------------------------------------------------------
(* Slips a programmer could make, not what the code does: each variant of  *)
(* a definition below breaks one of the properties at the end.             *)

\* O_WRONLY without O_NONBLOCK: the open that line 34 shows commented out.
SGiveUpNever == FALSE

SCloseForgets ==
  /\ SStep("close", "read")
  /\ UNCHANGED <<service, seqLen, up, req, seqNum, wrapped, clients>>

SWriteToAll ==
  /\ SStep("write", "close")
  /\ fifo' = [c \in Clients |-> IF reading[c] THEN seqNum ELSE fifo[c]]
  /\ UNCHANGED <<service, seqLen, up, req, seqNum, wrapped, cpc, reading,
                 opened, printed>>

-----------------------------------------------------------------------------
(* The server.                                                             *)

SMkfifo ==
  /\ SStep("mkfifo", "open")
  /\ exists' = TRUE
  /\ listening' = TRUE
  /\ UNCHANGED <<called, requests, seqLen, up, req, seqNum, wrapped, clients>>

\* open(O_RDONLY) returns when a client has opened the other end; the extra
\* write descriptor keeps read() from ever seeing end of file.
SOpen ==
  /\ called
  /\ SStep("open", "read")
  /\ UNCHANGED <<service, seqLen, up, req, seqNum, wrapped, clients>>

SRead ==
  /\ requests # <<>>
  /\ SStep("read", "openClient")
  /\ req' = Head(requests)
  /\ requests' = Tail(requests)
  /\ UNCHANGED <<exists, listening, called, seqLen, up, seqNum, wrapped,
                 clients>>

SOpenClient ==
  /\ SStep("openClient", "write")
  /\ reading[req]
  /\ opened' = [opened EXCEPT ![req] = TRUE]
  /\ UNCHANGED <<service, seqLen, up, req, seqNum, wrapped, cpc, reading,
                 fifo, printed>>

\* ENXIO: nobody has the client's FIFO open for reading.
SGiveUp ==
  /\ SStep("openClient", "read")
  /\ ~reading[req]
  /\ UNCHANGED <<service, seqLen, up, req, seqNum, wrapped, clients>>

\* SIGPIPE is ignored: a client that has gone costs an error message.
SWrite ==
  /\ SStep("write", "close")
  /\ fifo' = IF reading[req] THEN [fifo EXCEPT ![req] = seqNum] ELSE fifo
  /\ UNCHANGED <<service, seqLen, up, req, seqNum, wrapped, cpc, reading,
                 opened, printed>>

SClose ==
  /\ SStep("close", "read")
  /\ seqNum' = Wrap(seqNum + seqLen[req])
  /\ wrapped' = (wrapped \/ seqNum + seqLen[req] > INT_MAX)
  /\ UNCHANGED <<service, seqLen, up, req, clients>>

ServerStep ==
  SMkfifo \/ SOpen \/ SRead \/ SOpenClient \/ SGiveUp \/ SWrite \/ SClose

\* The descriptors of a server that is killed are closed; the FIFO stays.
SKilled ==
  /\ "server" \in Faults
  /\ up
  /\ up' = FALSE
  /\ listening' = FALSE
  /\ UNCHANGED <<exists, called, requests, seqLen, spc, req, seqNum, wrapped,
                 clients>>

-----------------------------------------------------------------------------
(* The clients.                                                            *)

CMkfifo(c) ==
  /\ CStep(c, "mkfifo", "openServer")
  /\ UNCHANGED <<service, seqLen, server, reading, opened, fifo, printed>>

COpenServer(c) ==
  /\ \/ /\ ~exists
        /\ CStep(c, "openServer", "failed")
        /\ UNCHANGED called
     \/ /\ exists /\ listening
        /\ CStep(c, "openServer", "send")
        /\ called' = TRUE
  /\ UNCHANGED <<exists, listening, requests, seqLen, server, reading, opened,
                 fifo, printed>>

CSend(c) ==
  /\ listening
  /\ CStep(c, "send", "open")
  /\ requests' = Append(requests, c)
  /\ UNCHANGED <<exists, listening, called, seqLen, server, reading, opened,
                 fifo, printed>>

\* The server has been killed: SIGPIPE.
CPipe(c) ==
  /\ ~listening
  /\ CStep(c, "send", "killed")
  /\ UNCHANGED <<service, seqLen, server, reading, opened, fifo, printed>>

\* open(O_RDONLY) on the client's own FIFO: it now counts as a reader.
COpen(c) ==
  /\ c \notin Abnormal
  /\ CStep(c, "open", "opening")
  /\ reading' = [reading EXCEPT ![c] = TRUE]
  /\ UNCHANGED <<service, seqLen, server, opened, fifo, printed>>

\* The abnormal client reads a descriptor that was never set: that read may
\* fail, never return, or return something that is not an answer.
CAbnormal(c) ==
  /\ c \in Abnormal
  /\ \E pc \in {"failed", "stuck", "garbage"} : CStep(c, "open", pc)
  /\ UNCHANGED <<service, seqLen, server, reading, opened, fifo, printed>>

COpened(c) ==
  /\ opened[c]
  /\ CStep(c, "opening", "read")
  /\ UNCHANGED <<service, seqLen, server, reading, opened, fifo, printed>>

CRead(c) ==
  /\ fifo[c] # None
  /\ CStep(c, "read", "done")
  /\ printed' = [printed EXCEPT ![c] = fifo[c]]
  /\ reading' = [reading EXCEPT ![c] = FALSE]
  /\ UNCHANGED <<service, seqLen, server, opened, fifo>>

\* End of file: the server was killed between its open() and its write().
CEof(c) ==
  /\ fifo[c] = None /\ ~up
  /\ CStep(c, "read", "failed")
  /\ reading' = [reading EXCEPT ![c] = FALSE]
  /\ UNCHANGED <<service, seqLen, server, opened, fifo, printed>>

CKilled(c) ==
  /\ "client" \in Faults
  /\ cpc[c] \notin Ended
  /\ cpc' = [cpc EXCEPT ![c] = "killed"]
  /\ reading' = [reading EXCEPT ![c] = FALSE]
  /\ UNCHANGED <<service, seqLen, server, opened, fifo, printed>>

ClientStep(c) ==
  \/ CMkfifo(c) \/ COpenServer(c) \/ CSend(c) \/ CPipe(c) \/ COpen(c)
  \/ CAbnormal(c) \/ COpened(c) \/ CRead(c) \/ CEof(c)

-----------------------------------------------------------------------------

Init ==
  /\ exists = FALSE
  /\ listening = FALSE
  /\ called = FALSE
  /\ requests = <<>>
  /\ seqLen \in [Clients -> Lengths]
  /\ up = TRUE
  /\ spc = "mkfifo"
  /\ req = None
  /\ seqNum = 0
  /\ wrapped = FALSE
  /\ cpc = [c \in Clients |-> "mkfifo"]
  /\ reading = [c \in Clients |-> FALSE]
  /\ opened = [c \in Clients |-> FALSE]
  /\ fifo = [c \in Clients |-> None]
  /\ printed = [c \in Clients |-> None]

Next ==
  \/ ServerStep \/ SKilled
  \/ \E c \in Clients : ClientStep(c) \/ CKilled(c)

Spec == Init /\ [][Next]_vars

\* Every process that can take its next step eventually takes it.
FairSpec ==
  Spec /\ WF_vars(ServerStep) /\ \A c \in Clients : WF_vars(ClientStep(c))

-----------------------------------------------------------------------------

Numbers == -INT_MAX - 1 .. INT_MAX

\* The shape of the state.
TypeOK ==
  /\ exists \in BOOLEAN /\ listening \in BOOLEAN /\ called \in BOOLEAN
  /\ requests \in Seq(Clients)
  /\ seqLen \in [Clients -> Lengths]
  /\ up \in BOOLEAN
  /\ spc \in {"mkfifo", "open", "read", "openClient", "write", "close"}
  /\ req \in Clients \cup {None}
  /\ seqNum \in Numbers
  /\ wrapped \in BOOLEAN
  /\ cpc \in [Clients -> Ended \cup {"mkfifo", "openServer", "send", "open",
                                     "opening", "read", "stuck"}]
  /\ reading \in [Clients -> BOOLEAN] /\ opened \in [Clients -> BOOLEAN]
  /\ fifo \in [Clients -> Numbers \cup {None}]
  /\ printed \in [Clients -> Numbers \cup {None}]

\* "This is our service" (fifo_seqnum_server.c:10): until the int overflows,
\* the numbers two clients have been given do not overlap, however their
\* requests, their deaths and the server's steps are interleaved.
Given(c) == fifo[c] .. fifo[c] + seqLen[c] - 1
DisjointRanges ==
  ~wrapped =>
    \A c, d \in Clients :
      c # d /\ fifo[c] # None /\ fifo[d] # None => Given(c) \cap Given(d) = {}

\* A client that prints a number prints one that the server gave to it: the
\* programs implement SeqnumService.  Between write() and the addition the
\* next number is the sum that is about to be stored.
NextNumber == IF spc = "close" THEN Wrap(seqNum + seqLen[req]) ELSE seqNum
Service == INSTANCE SeqnumService
             WITH len <- seqLen, next <- NextNumber, answer <- fifo,
                  Nobody <- None
ImplementsService == Service!Spec

\* "Open failed, give up on client" (fifo_seqnum_server.c:35): a client
\* whose FIFO is open before the server gets to its request is answered,
\* even if abnormal clients come before it or clients are killed, unless
\* the server is killed.
Waiting(c) == \E i \in 1..Len(requests) : requests[i] = c
ReadyClientAnswered ==
  \A c \in Clients :
    cpc[c] = "opening" /\ Waiting(c) ~> cpc[c] \in {"done", "killed"} \/ ~up

\* "Create our FIFO (before sending request, to avoid a race)"
\* (fifo_seqnum_client_normal.c:14): the client that has sent its request
\* gets its answer.
NormalClientAnswered ==
  \A c \in Clients \ Abnormal : cpc[c] = "open" ~> cpc[c] = "done"
=============================================================================
