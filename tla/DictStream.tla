----------------------------- MODULE DictStream -----------------------------
(***************************************************************************)
(* SP_HW11/part1 and part2: a dictionary over stream sockets.  The server  *)
(* accepts a connection and forks a child, which answers the words of one  *)
(* client with what it finds in a table that it maps at its first lookup.  *)
(* The two programs differ in the address family (inet), and so in what a  *)
(* write to a connection does whose other end has been closed: a UNIX      *)
(* socket raises SIGPIPE, an Internet socket only at the second write.     *)
(*                                                                         *)
(* Words and texts are sent without their terminator, so a receiver reads  *)
(* the right string only if its memory was zeroed before; a message goes   *)
(* through unsplit, as one of at most 480 bytes does on these sockets.     *)
(***************************************************************************)
EXTENDS Dictionary, Sequences, FiniteSets

CONSTANT
  Clients   \* the runs of the client

ASSUME ClientsAssumption ==
  /\ IsFiniteSet(Clients)
  /\ None \notin Clients

VARIABLES
  inet,    \* part2 runs, not part1
  limit,   \* how many processes the server's user may start
  file,    \* the edition of the datafile, or None if it is not there
  ppc, cd, \* the server's next step, and the connection it holds
  backlog, \* the connections not accepted yet
  conn,    \* each client's connection
  up,      \* the word in it, on its way to the server
  down,    \* the text in it, on its way to the client
  cpc,     \* the client's next step
  word,    \* its tryit.word
  text,    \* its tryit.text
  shown,   \* the word and the text it printed last
  spc,     \* the next step of the child that serves it
  sought,  \* the child's tryit.word
  table    \* the edition the child has mapped

world   == <<inet, limit, file>>
parent  == <<ppc, cd, backlog>>
sockets == <<conn, up, down>>
client  == <<cpc, word, text, shown>>
child   == <<spc, sought, table>>
vars    == <<world, parent, sockets, client, child>>

\* Started: the child exists.  The server never waits for it, so it counts
\* against the limit when it has ended too.
Serving == {"recv", "lookup", "send"}
Started == Serving \cup {"ended"}

TypeOK ==
  /\ inet \in BOOLEAN /\ limit \in Nat /\ file \in Editions \cup {None}
  /\ ppc \in {"accept", "fork", "close", "dead"}
  /\ cd \in Clients \cup {None} /\ backlog \in Seq(Clients)
  /\ conn \in [Clients -> {"none", "open", "closed", "broken", "reset"}]
  /\ up \in [Clients -> Queries \cup {OddWord}]
  /\ down \in [Clients -> Texts]
  /\ cpc \in [Clients -> {"prompt", "connect", "send", "recv", "gone"}]
  /\ word \in [Clients -> Queries]
  /\ text \in [Clients -> Texts]
  /\ shown \in [Clients -> (Queries \X Texts) \cup {None}]
  /\ spc \in [Clients -> Started \cup {"none"}]
  /\ sought \in [Clients -> Queries \cup {OddWord}]
  /\ table \in [Clients -> Editions \cup {None}]

PStep(from, to) == ppc = from /\ ppc' = to
CStep(c, from, to) == cpc[c] = from /\ cpc' = [cpc EXCEPT ![c] = to]
SStep(c, from, to) == spc[c] = from /\ spc' = [spc EXCEPT ![c] = to]

-----------------------------------------------------------------------------
(* Connections.                                                            *)

\* The state of a connection one end of which is closed: the other end is
\* told whether it had bytes that nobody read.
Closing(c, unread) ==
  IF conn[c] # "open" THEN conn[c]
  ELSE IF unread THEN "reset" ELSE "closed"

\* What a write does to a connection, and whether it kills the writer.
Kills(c) == ~inet \/ conn[c] # "closed"
Broken(c) == IF conn[c] = "closed" THEN "broken" ELSE conn[c]

-----------------------------------------------------------------------------
Init ==
  /\ inet \in BOOLEAN /\ limit \in 0..Cardinality(Clients)
  /\ file \in Editions \cup {None}
  /\ ppc = "accept" /\ cd = None /\ backlog = <<>>
  /\ conn = [c \in Clients |-> "none"]
  /\ up = [c \in Clients |-> NoWord]
  /\ down = [c \in Clients |-> NoText]
  /\ cpc = [c \in Clients |-> "prompt"]
  /\ word = [c \in Clients |-> NoWord]
  /\ text = [c \in Clients |-> NoText]
  /\ shown = [c \in Clients |-> None]
  /\ spc = [c \in Clients |-> "none"]
  /\ sought = [c \in Clients |-> NoWord]
  /\ table = [c \in Clients |-> None]

\* Another edition takes the place of the datafile, or it is removed.
Replace ==
  /\ file' \in (Editions \cup {None}) \ {file}
  /\ UNCHANGED <<inet, limit, parent, sockets, client, child>>

-----------------------------------------------------------------------------
(* The server.                                                             *)

PAccept ==
  /\ PStep("accept", "fork")
  /\ backlog # <<>>
  /\ cd' = Head(backlog) /\ backlog' = Tail(backlog)
  /\ UNCHANGED <<world, sockets, client, child>>

PFork ==
  /\ Cardinality({c \in Clients : spc[c] \in Started}) < limit
  /\ PStep("fork", "close")
  /\ spc' = [spc EXCEPT ![cd] = "recv"]
  /\ UNCHANGED <<world, cd, backlog, sockets, client, sought, table>>

\* A slip: the server keeps its own descriptor of the connection.
PCloseNever ==
  /\ PStep("close", "accept")
  /\ cd' = None
  /\ UNCHANGED <<world, backlog, sockets, client, child>>

\* close(cd); the child may have ended before.
PClose ==
  /\ PStep("close", "accept")
  /\ cd' = None
  /\ conn' = IF spc[cd] \in Serving THEN conn
             ELSE [conn EXCEPT ![cd] = Closing(cd, up[cd] # NoWord)]
  /\ UNCHANGED <<world, backlog, up, down, client, child>>

\* fork() fails: DIE() takes the listening socket and all it holds along.
PDie ==
  /\ Cardinality({c \in Clients : spc[c] \in Started}) >= limit
  /\ PStep("fork", "dead")
  /\ cd' = None /\ backlog' = <<>>
  /\ conn' = [c \in Clients |->
       IF c = cd THEN Closing(c, up[c] # NoWord)
       ELSE IF \E i \in DOMAIN backlog : backlog[i] = c
       THEN Closing(c, TRUE) ELSE conn[c]]
  /\ UNCHANGED <<world, up, down, client, child>>

-----------------------------------------------------------------------------
(* The child that serves client c.                                         *)

\* The child ends, and the connection with it, unless the server holds it.
SEnd(c) ==
  /\ spc' = [spc EXCEPT ![c] = "ended"]
  /\ conn' = IF cd = c THEN conn
             ELSE [conn EXCEPT ![c] = Closing(c, up[c] # NoWord)]

SRecv(c) ==
  /\ conn[c] # "reset"
  /\ up[c] # NoWord \/ conn[c] # "open"
  /\ SStep(c, "recv", "lookup")
  /\ sought' = [sought EXCEPT ![c] = IntoWord(@, up[c])]
  /\ up' = [up EXCEPT ![c] = NoWord]
  /\ UNCHANGED <<world, parent, conn, down, client, table>>

\* recv() < 0 ends the dialogue.
SExit(c) ==
  /\ conn[c] = "reset" /\ spc[c] = "recv"
  /\ SEnd(c)
  /\ UNCHANGED <<world, parent, up, down, client, sought, table>>

\* A slip: the table is opened anew for every word.
SLookupAnew(c) ==
  /\ file # None
  /\ SStep(c, "lookup", "send")
  /\ table' = [table EXCEPT ![c] = file]
  /\ UNCHANGED <<world, parent, sockets, client, sought>>

\* The first lookup opens the table.
SLookup(c) ==
  /\ table[c] # None \/ file # None
  /\ SStep(c, "lookup", "send")
  /\ table' = [table EXCEPT ![c] = IF @ = None THEN file ELSE @]
  /\ UNCHANGED <<world, parent, sockets, client, sought>>

\* The datafile cannot be opened: the child exits, and answers nothing.
SOpenFails(c) ==
  /\ spc[c] = "lookup" /\ table[c] = None /\ file = None
  /\ SEnd(c)
  /\ UNCHANGED <<world, parent, up, down, client, sought, table>>

\* The answer, and memset().
SSend(c) ==
  /\ conn[c] = "open"
  /\ SStep(c, "send", "recv")
  /\ down' = [down EXCEPT ![c] = IntoText(@, Answer(table[c], sought[c]))]
  /\ sought' = [sought EXCEPT ![c] = NoWord]
  /\ UNCHANGED <<world, parent, conn, up, client, table>>

\* A slip: SIGPIPE is ignored, as the result of send() is.
SSendIgnored(c) ==
  /\ conn[c] # "open"
  /\ SStep(c, "send", "recv")
  /\ sought' = [sought EXCEPT ![c] = NoWord]
  /\ UNCHANGED <<world, parent, conn, up, down, client, table>>

\* The client has gone: the child is killed, or comes back to be killed.
SSendGone(c) ==
  /\ conn[c] # "open"
  /\ \/ Kills(c) /\ spc[c] = "send" /\ SEnd(c) /\ UNCHANGED sought
     \/ /\ ~Kills(c)
        /\ SStep(c, "send", "recv")
        /\ conn' = [conn EXCEPT ![c] = Broken(c)]
        /\ sought' = [sought EXCEPT ![c] = NoWord]
  /\ UNCHANGED <<world, parent, up, down, client, table>>

-----------------------------------------------------------------------------
(* Client c: main() and lookup7 or lookup8.                                *)

\* gets() and, the first time, connect().
CAsk(c) ==
  /\ CStep(c, "prompt", IF conn[c] = "none" THEN "connect" ELSE "send")
  /\ \E w \in Queries : word' = [word EXCEPT ![c] = w]
  /\ UNCHANGED <<world, parent, sockets, text, shown, child>>

CConnect(c) ==
  /\ ppc # "dead"
  /\ CStep(c, "connect", "send")
  /\ backlog' = Append(backlog, c)
  /\ conn' = [conn EXCEPT ![c] = "open"]
  /\ UNCHANGED <<world, ppc, cd, up, down, word, text, shown, child>>

CRefused(c) ==
  /\ ppc = "dead"
  /\ CStep(c, "connect", "gone")
  /\ UNCHANGED <<world, parent, sockets, word, text, shown, child>>

\* An empty line is a send() of no bytes.
CSend(c) ==
  /\ conn[c] = "open"
  /\ CStep(c, "send", "recv")
  /\ up' = [up EXCEPT ![c] = IntoWord(@, word[c])]
  /\ UNCHANGED <<world, parent, conn, down, word, text, shown, child>>

\* The child has gone: as in SSendGone, except that no bytes break nothing.
CSendGone(c) ==
  /\ conn[c] # "open"
  /\ CStep(c, "send", IF Kills(c) THEN "gone" ELSE "recv")
  /\ conn' = IF word[c] = NoWord THEN conn ELSE [conn EXCEPT ![c] = Broken(c)]
  /\ UNCHANGED <<world, parent, up, down, word, text, shown, child>>

\* A text, or the end of the stream, which leaves tryit.text as it is.  Then
\* the answer is printed and tryit is zeroed.
CRecv(c) ==
  /\ conn[c] # "reset"
  /\ down[c] # NoText \/ conn[c] # "open"
  /\ CStep(c, "recv", "prompt")
  /\ shown' = [shown EXCEPT ![c] = <<word[c], IntoText(text[c], down[c])>>]
  /\ word' = [word EXCEPT ![c] = NoWord]
  /\ text' = [text EXCEPT ![c] = NoText]
  /\ down' = [down EXCEPT ![c] = NoText]
  /\ UNCHANGED <<world, parent, conn, up, child>>

CRecvFails(c) ==
  /\ conn[c] = "reset"
  /\ CStep(c, "recv", "gone")
  /\ UNCHANGED <<world, parent, sockets, word, text, shown, child>>

\* The end of the input at the prompt, or an interrupt anywhere.
CLeave(c) ==
  /\ cpc[c] # "gone"
  /\ cpc' = [cpc EXCEPT ![c] = "gone"]
  /\ conn' = [conn EXCEPT ![c] = Closing(c, down[c] # NoText)]
  /\ UNCHANGED <<world, parent, up, down, word, text, shown, child>>

-----------------------------------------------------------------------------
ParentStep == PAccept \/ PFork \/ PClose \/ PDie
ChildStep(c) == SRecv(c) \/ SExit(c) \/ SLookup(c) \/ SOpenFails(c)
                \/ SSend(c) \/ SSendGone(c)
ClientStep(c) == CConnect(c) \/ CRefused(c) \/ CSend(c) \/ CSendGone(c)
                 \/ CRecv(c) \/ CRecvFails(c)

Next ==
  \/ Replace
  \/ ParentStep
  \/ \E c \in Clients :
       ChildStep(c) \/ ClientStep(c) \/ CAsk(c) \/ CLeave(c)

Spec == Init /\ [][Next]_vars

\* The processes run; nobody need type a word, leave, or touch the file.
Fairness ==
  /\ WF_vars(ParentStep)
  /\ \A c \in Clients : WF_vars(ChildStep(c)) /\ WF_vars(ClientStep(c))

FairSpec == Spec /\ Fairness

-----------------------------------------------------------------------------
(* What must hold.                                                         *)

\* What a client prints of a word is what the edition its child has mapped
\* says of it; nothing is printed for an answer, as lookup() then returns
\* FOUND with the text it had, only when nobody is left to answer.
AnswersRight ==
  \A c \in Clients : shown[c] # None =>
    \/ table[c] # None /\ shown[c][2] = Answer(table[c], shown[c][1])
    \/ shown[c][2] = NoText /\ conn[c] \in {"closed", "broken"}

\* The client's view of the service is the abstract one.
Abstract == INSTANCE DictService WITH
  Empty <- NoText,
  asked <- [c \in Clients |-> IF cpc[c] \in {"connect", "send", "recv"}
                              THEN word[c] ELSE None],
  book <- table,
  over <- {c \in Clients : conn[c] \in {"closed", "broken", "reset"}}
ImplementsService == Abstract!Spec

\* A word that is not empty is answered, or the client told that it will not
\* be: the child has ended, or the server died with the connection in its
\* backlog.  An empty line may wait for ever, see the README.
EveryWordSettled ==
  \A c \in Clients :
    (cpc[c] = "recv" /\ word[c] # NoWord) ~> cpc[c] # "recv"

\* recv() gives 0 and not an error when the client has gone, so that the
\* loop of the child goes on; it ends all the same.
ChildEnds ==
  \A c \in Clients :
    (cpc[c] = "gone" /\ spc[c] \in Serving) ~> spc[c] = "ended"
=============================================================================
