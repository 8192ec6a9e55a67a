------------------------------ MODULE MsgFile ------------------------------
(***************************************************************************)
(* SP_HW9/52: a file server over POSIX message queues.  A client opens the *)
(* server's queue "/MSG11", opens or creates the response queue "/MSG12",  *)
(* sends the name of a file and counts the bytes of the answer.  The       *)
(* server forks a child for each request, and a SIGCHLD handler reaps the  *)
(* children.  A queue outlives its name: mq_unlink() takes the name away   *)
(* and those who have the queue open go on using it.                       *)
(*                                                                         *)
(* The child that serves client c is identified by c, and a queue named    *)
(* "/MSG12" by the client that created it.                                 *)
(***************************************************************************)
EXTENDS Integers, Sequences, FiniteSets

CONSTANTS
  Clients,        \* the runs of svmsg_file_client
  None,           \* no queue, no client
  Sizes,          \* the sizes of the files asked for (NOFILE: open() fails),
                  \* Sizes[TRUE] by clients that are run one after the other
  LONG,           \* sizeof(long), the size of mtype
  RESP_MSG_SIZE,  \* the size of responseMsg.data, and mq_msgsize
  FAIL_LEN,       \* strlen("Couldn't open") + 1
  MAXMSG,         \* mq_maxmsg of both queues
  Faults          \* which faults may happen: "kill" (a client), "fork"

NOFILE == -1

ASSUME MsgFileAssumption ==
  /\ None \notin Clients
  /\ Sizes \in [BOOLEAN -> SUBSET (Nat \cup {NOFILE})]
  /\ LONG \in Nat /\ LONG > 1
  /\ RESP_MSG_SIZE \in Nat /\ LONG <= FAIL_LEN /\ FAIL_LEN <= RESP_MSG_SIZE
  /\ FAIL_LEN \in Nat
  /\ MAXMSG \in Nat \ {0}
  /\ Faults \subseteq {"kill", "fork"}

VARIABLES
  named11,  \* the server's queue still has its name
  named12,  \* which response queue is called "/MSG12", or None
  requests, \* the server's queue: whose requests are waiting
  replies,  \* replies[c]: the messages in the response queue c created
  file,     \* the size of the file each client asks for
  alone,    \* clients are run one after the other, and nothing is killed
            \* and no fork() fails
  \* the server
  spc, req, \* its next step and the request it holds
  sigchld,  \* SIGCHLD is pending
  reaping,  \* grimReaper() is running
  \* the clients
  cpc, cq,  \* next step, and the response queue opened
  mtype,    \* resp.mtype
  tot, msgs,\* totBytes and numMsgs
  served,   \* whose children the messages received came from
  \* the children
  kpc, kq,  \* next step, and the response queue opened
  off       \* how far in the file

names    == <<named11, named12>>
server   == <<spc, req, sigchld, reaping>>
client   == <<cpc, cq, mtype, tot, msgs, served>>
children == <<kpc, kq, off>>
user     == <<file, alone>>
vars     == <<names, requests, replies, user, server, client, children>>

\* Messages on the wire: the first len bytes of a responseMsg.
Message(c, type, len) == [of |-> c, mtype |-> type, len |-> len]

\* A process at its step "from" goes on to its step "to".
SStep(from, to) == ~reaping /\ spc = from /\ spc' = to
CStep(c, from, to) == cpc[c] = from /\ cpc' = [cpc EXCEPT ![c] = to]
KStep(c, from, to) == kpc[c] = from /\ kpc' = [kpc EXCEPT ![c] = to]

Ended == {"done", "failed", "refused", "killed"}
Lesser(a, b) == IF a < b THEN a ELSE b

-----------------------------------------------------------------------------
(* Slips a programmer could make, not what the code does: each variant of  *)
(* a definition below breaks one of the properties at the end.             *)

SForkWhenIdle ==
  /\ \A c \in Clients : kpc[c] \in {"none", "gone"}
  /\ SStep("fork", "receive")
  /\ kpc' = [kpc EXCEPT ![req] = "openQueue"]
  /\ UNCHANGED <<names, requests, replies, user, req, sigchld, reaping,
                 client, kq, off>>

SReapOne(c) ==
  /\ reaping /\ KStep(c, "zombie", "gone")
  /\ reaping' = FALSE
  /\ UNCHANGED <<names, requests, replies, user, spc, req, sigchld, client,
                 kq, off>>

CExitKeepsQueue(c) ==
  /\ CStep(c, "print", "done") \/ CStep(c, "fail", "failed")
  /\ UNCHANGED <<names, requests, replies, user, server, cq, mtype, tot,
                 msgs, served, children>>

ReceivedAfresh(c, m) ==
  IF m.len >= LONG THEN {m.mtype} ELSE {m.mtype, "OTHER"}

KSendEndOmitted(c) ==
  /\ KStep(c, "end", "exit")
  /\ UNCHANGED <<names, requests, replies, user, server, client, kq, off>>

-----------------------------------------------------------------------------
(* The server.  mq_receive() interrupted by the handler is restarted.      *)

SReceive ==
  /\ requests # <<>>
  /\ SStep("receive", "fork")
  /\ req' = Head(requests)
  /\ requests' = Tail(requests)
  /\ UNCHANGED <<names, replies, user, sigchld, reaping, client, children>>

SFork ==
  /\ SStep("fork", "receive")
  /\ kpc' = [kpc EXCEPT ![req] = "openQueue"]
  /\ UNCHANGED <<names, requests, replies, user, req, sigchld, reaping,
                 client, kq, off>>

SForkFails ==
  /\ "fork" \in Faults /\ ~alone
  /\ SStep("fork", "unlink")
  /\ UNCHANGED <<names, requests, replies, user, req, sigchld, reaping,
                 client, children>>

\* mq_unlink(), then exit(), whose removeQueue() finds the name gone and
\* turns success into failure.  init reaps the children.
SUnlink ==
  /\ SStep("unlink", "exited")
  /\ named11' = FALSE
  /\ kpc' = [c \in Clients |-> IF kpc[c] = "zombie" THEN "gone" ELSE kpc[c]]
  /\ UNCHANGED <<named12, requests, replies, user, req, sigchld, reaping,
                 client, kq, off>>

\* grimReaper(): SIGCHLD, blocked while it runs, may be pending again.
SCatch ==
  /\ spc # "exited" /\ sigchld /\ ~reaping
  /\ reaping' = TRUE
  /\ sigchld' = FALSE
  /\ UNCHANGED <<names, requests, replies, user, spc, req, client, children>>

SReap(c) ==
  /\ reaping /\ KStep(c, "zombie", "gone")
  /\ UNCHANGED <<names, requests, replies, user, server, client, kq, off>>

SReturn ==
  /\ reaping /\ \A c \in Clients : kpc[c] # "zombie"
  /\ reaping' = FALSE
  /\ UNCHANGED <<names, requests, replies, user, spc, req, sigchld, client,
                 children>>

ServerStep ==
  SReceive \/ SFork \/ SCatch \/ SReturn \/ \E c \in Clients : SReap(c)

-----------------------------------------------------------------------------
(* The child that serves the request of client c: serveRequest().  Errors  *)
(* of mq_send() are printed and otherwise ignored.                         *)

KOpenQueue(c) ==
  /\ KStep(c, "openQueue", "openFile")
  /\ kq' = [kq EXCEPT ![c] = named12]
  /\ UNCHANGED <<names, requests, replies, user, server, client, off>>

KOpenFile(c) ==
  /\ KStep(c, "openFile", IF file[c] = NOFILE THEN "failure" ELSE "data")
  /\ UNCHANGED <<names, requests, replies, user, server, client, kq, off>>

\* mq_send() blocks while the queue is full.
KSend(c, m) ==
  /\ kq[c] # None
  /\ Len(replies[kq[c]]) < MAXMSG
  /\ replies' = [replies EXCEPT ![kq[c]] = Append(@, m)]

KSendError(c) == kq[c] = None /\ UNCHANGED replies

KSendFailure(c) ==
  /\ KStep(c, "failure", "exitFailure")
  /\ KSend(c, Message(c, "FAILURE", FAIL_LEN)) \/ KSendError(c)
  /\ UNCHANGED <<names, requests, user, server, client, kq, off>>

\* What read() returns.
NumRead(c) == Lesser(RESP_MSG_SIZE, file[c] - off[c])

KSendData(c) ==
  /\ NumRead(c) > 0
  /\ KStep(c, "data", "data")
  /\ KSend(c, Message(c, "DATA", NumRead(c)))
  /\ off' = [off EXCEPT ![c] = @ + NumRead(c)]
  /\ UNCHANGED <<names, requests, user, server, client, kq>>

\* End of file, or a message that cannot be sent.
KDataDone(c) ==
  /\ NumRead(c) = 0 \/ kq[c] = None
  /\ KStep(c, "data", "end")
  /\ UNCHANGED <<names, requests, replies, user, server, client, kq, off>>

KSendEnd(c) ==
  /\ KStep(c, "end", "exit")
  /\ KSend(c, Message(c, "END", 1)) \/ KSendError(c)
  /\ UNCHANGED <<names, requests, user, server, client, kq, off>>

\* A child that ends is a zombie of the server, or init's if that is gone.
KEnds(c, from) ==
  /\ KStep(c, from, IF spc = "exited" THEN "gone" ELSE "zombie")
  /\ sigchld' = (sigchld \/ spc # "exited")

KExit(c) ==
  /\ KEnds(c, "exit")
  /\ UNCHANGED <<names, requests, replies, user, spc, req, reaping, client,
                 kq, off>>

\* exit(), not _exit(): the child runs the server's removeQueue().
KExitFailure(c) ==
  /\ KEnds(c, "exitFailure")
  /\ named11' = FALSE
  /\ UNCHANGED <<named12, requests, replies, user, spc, req, reaping, client,
                 kq, off>>

ChildStep(c) ==
  \/ KOpenQueue(c) \/ KOpenFile(c) \/ KSendFailure(c) \/ KSendData(c)
  \/ KDataDone(c) \/ KSendEnd(c) \/ KExit(c) \/ KExitFailure(c)

-----------------------------------------------------------------------------
(* The clients.                                                            *)

\* The user's choice: whether to run a client while another is running.
MayStart(c) ==
  alone =>
    \A d \in Clients : /\ cpc[d] \in Ended \cup {"new"}
                       /\ kpc[d] \in {"none", "zombie", "gone"}

COpenServer(c) ==
  /\ MayStart(c)
  /\ CStep(c, "new", IF named11 THEN "openQueue" ELSE "refused")
  /\ UNCHANGED <<names, requests, replies, user, server, cq, mtype, tot,
                 msgs, served, children>>

\* mq_open(O_CREAT) without O_EXCL: a queue that is there is used.
COpenQueue(c) ==
  /\ CStep(c, "openQueue", "send")
  /\ named12' = IF named12 = None THEN c ELSE named12
  /\ cq' = [cq EXCEPT ![c] = named12']
  /\ UNCHANGED <<named11, requests, replies, user, server, mtype, tot, msgs,
                 served, children>>

CSend(c) ==
  /\ Len(requests) < MAXMSG
  /\ CStep(c, "send", "first")
  /\ requests' = Append(requests, c)
  /\ UNCHANGED <<names, replies, user, server, cq, mtype, tot, msgs,
                 served, children>>

\* mq_receive() writes m.len bytes over resp, so a short message leaves the
\* high bytes of mtype as they were: zero once a whole mtype has been
\* received, anything ("OTHER" if not zero) in the first message.
Received(c, m) ==
  IF m.len >= LONG \/ mtype[c] # "UNSET" THEN {m.mtype}
                                         ELSE {m.mtype, "OTHER"}

CReceive(c) ==
  /\ cpc[c] \in {"first", "next"}
  /\ replies[cq[c]] # <<>>
  /\ LET m == Head(replies[cq[c]]) IN
     \E type \in Received(c, m) :
       /\ \/ CStep(c, "first", IF type = "FAILURE" THEN "fail"
                               ELSE IF type = "DATA" THEN "next" ELSE "print")
          \/ CStep(c, "next", IF type = "DATA" THEN "next" ELSE "print")
       /\ mtype' = [mtype EXCEPT ![c] = type]
       /\ tot' = [tot EXCEPT ![c] = @ + m.len]
       /\ msgs' = [msgs EXCEPT ![c] = @ + 1]
       /\ served' = [served EXCEPT ![c] = @ \cup {m.of}]
       /\ replies' = [replies EXCEPT ![cq[c]] = Tail(@)]
  /\ UNCHANGED <<names, requests, user, server, cq, children>>

\* exit() runs removeQueue(), whichever queue is called "/MSG12" by then.
CExit(c) ==
  /\ CStep(c, "print", "done") \/ CStep(c, "fail", "failed")
  /\ named12' = None
  /\ UNCHANGED <<named11, requests, replies, user, server, cq, mtype, tot,
                 msgs, served, children>>

CKilled(c) ==
  /\ "kill" \in Faults /\ ~alone
  /\ cpc[c] \notin Ended \cup {"new"}
  /\ cpc' = [cpc EXCEPT ![c] = "killed"]
  /\ UNCHANGED <<names, requests, replies, user, server, cq, mtype, tot,
                 msgs, served, children>>

ClientStep(c) ==
  COpenServer(c) \/ COpenQueue(c) \/ CSend(c) \/ CReceive(c) \/ CExit(c)

-----------------------------------------------------------------------------

Init ==
  /\ named11 = TRUE
  /\ named12 = None
  /\ requests = <<>>
  /\ replies = [c \in Clients |-> <<>>]
  /\ alone \in BOOLEAN
  /\ file \in [Clients -> Sizes[alone]]
  /\ spc = "receive"
  /\ req = None
  /\ sigchld = FALSE
  /\ reaping = FALSE
  /\ cpc = [c \in Clients |-> "new"]
  /\ cq = [c \in Clients |-> None]
  /\ mtype = [c \in Clients |-> "UNSET"]
  /\ tot = [c \in Clients |-> 0]
  /\ msgs = [c \in Clients |-> 0]
  /\ served = [c \in Clients |-> {}]
  /\ kpc = [c \in Clients |-> "none"]
  /\ kq = [c \in Clients |-> None]
  /\ off = [c \in Clients |-> 0]

Next ==
  \/ ServerStep \/ SForkFails \/ SUnlink
  \/ \E c \in Clients : ClientStep(c) \/ ChildStep(c) \/ CKilled(c)

Spec == Init /\ [][Next]_vars

\* Every process that can take its next step eventually takes it.
FairSpec ==
  /\ Spec
  /\ WF_vars(ServerStep \/ SUnlink)
  /\ \A c \in Clients : WF_vars(ClientStep(c)) /\ WF_vars(ChildStep(c))

-----------------------------------------------------------------------------

\* "Received %ld bytes (%d messages)": clients that are run one at a time
\* report the size of their file, although mtype's bytes are counted with
\* the data's, and one message for each RESP_MSG_SIZE bytes and one for the
\* end; and a client whose file cannot be opened says so.  A file shorter
\* than a long is left out: its first message does not set all of mtype.
Blocks(n) == (n + RESP_MSG_SIZE - 1) \div RESP_MSG_SIZE
ReportIsFileSize ==
  alone => \A c \in Clients :
    /\ cpc[c] = "done" /\ file[c] \notin 1 .. LONG - 1 =>
         /\ file[c] # NOFILE
         /\ tot[c] - 1 = file[c]
         /\ msgs[c] = Blocks(file[c]) + 1
    /\ cpc[c] = "failed" => file[c] = NOFILE

\* "create queue for response" (svmsg_file_client.c:27): clients that are run
\* one after the other receive only what was sent to them, as each removes
\* the queue with the messages it left unread.  (Clients that overlap share
\* one queue and do take each other's messages.)
NoCrossTalk == alone => \A c \in Clients : served[c] \subseteq {c}

\* A client run alone gets an answer or is refused.
ClientAnswered ==
  \A c \in Clients :
    alone /\ cpc[c] = "openQueue" ~> cpc[c] \in {"done", "failed"}

\* A child that has died is never forgotten: the server is reaping, or will
\* be interrupted to do so, however many SIGCHLDs have been merged into one.
ZombieNoticed ==
  (\E c \in Clients : kpc[c] = "zombie") => sigchld \/ reaping

\* "handle each in a separate child process" (svmsg_file_server.c:87): a
\* request is given to a child of its own even while the child of a client
\* that was killed is blocked for ever on a full queue, unless fork() has failed
\* and the server has exited.
Waiting(c) == \E i \in 1..Len(requests) : requests[i] = c
RequestsServed ==
  \A c \in Clients : Waiting(c) ~> kpc[c] # "none" \/ spc = "exited"

\* "If msgrcv() or fork() fails, remove server MQ and exit"
\* (svmsg_file_server.c:114): a running server keeps its name.
ServerStaysReachable == spc \in {"receive", "fork"} => named11
=============================================================================
