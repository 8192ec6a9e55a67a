---------------------------- MODULE DictDatagram ----------------------------
(***************************************************************************)
(* SP_HW11/part3: a dictionary over UDP.  One server answers the words of  *)
(* all clients, one after the other, from a table that it maps at its      *)
(* first lookup.  Both ends run on one machine (lookup9 knows no other     *)
(* address than 127.0.0.1): a datagram is lost only when nobody has the    *)
(* port open, or when the buffer of the server's socket is full.  The      *)
(* client neither waits for a limited time nor asks again.                 *)
(***************************************************************************)
EXTENDS Dictionary, Sequences, FiniteSets

CONSTANTS
  Clients,  \* the runs of the client
  Capacity, \* how many datagrams the server's socket holds
  MaxRuns   \* bound on the runs of the server

ASSUME DatagramAssumption ==
  /\ None \notin Clients
  /\ Capacity \in Nat \ {0}
  /\ MaxRuns \in Nat \ {0}

VARIABLES
  file,     \* the edition of the datafile, or None if it is not there
  run,      \* which run of the server it is
  spc,      \* the server's next step
  sought,   \* its tryit->word
  from,     \* its client: the address that its last word came from
  table,    \* the edition it has mapped
  requests, \* the datagrams in its socket
  answers,  \* those in each client's socket
  cpc,      \* the client's next step
  word,     \* its tryit.word
  text,     \* its tryit.text
  shown,    \* the word and the text it printed last
  lost      \* history: the clients whose last datagram, or its answer, is lost

world  == <<file, run>>
server == <<spc, sought, from, table>>
client == <<cpc, word, text, shown>>
vars   == <<world, server, requests, answers, client, lost>>

SStep(start, end) == spc = start /\ spc' = end
CStep(c, start, end) == cpc[c] = start /\ cpc' = [cpc EXCEPT ![c] = end]

\* The clients that wait for this run of the server.
Waiting(c) == \/ \E i \in DOMAIN requests : requests[i].client = c
              \/ spc \in {"lookup", "send"} /\ from = c

-----------------------------------------------------------------------------
Init ==
  /\ file \in Editions \cup {None} /\ run = 1
  /\ spc = "recv" /\ sought = NoWord /\ from = None /\ table = None
  /\ requests = <<>> /\ answers = [c \in Clients |-> <<>>]
  /\ cpc = [c \in Clients |-> "prompt"]
  /\ word = [c \in Clients |-> NoWord]
  /\ text = [c \in Clients |-> NoText]
  /\ shown = [c \in Clients |-> None]
  /\ lost = {}

\* Another edition takes the place of the datafile, or it is removed.
Replace ==
  /\ file' \in (Editions \cup {None}) \ {file}
  /\ UNCHANGED <<run, server, requests, answers, client, lost>>

-----------------------------------------------------------------------------
(* The server.                                                             *)

\* A slip: the address is taken from the first word only.
SRecvOnce ==
  /\ requests # <<>>
  /\ SStep("recv", "lookup")
  /\ from' = IF from = None THEN Head(requests).client ELSE from
  /\ sought' = IntoWord(sought, Head(requests).word)
  /\ requests' = Tail(requests)
  /\ UNCHANGED <<world, table, answers, client, lost>>

\* A slip: recvfrom() > 0, so that an empty word is not answered.
SRecvIfAny ==
  /\ requests # <<>>
  /\ SStep("recv", IF Head(requests).word = NoWord THEN "recv" ELSE "lookup")
  /\ from' = Head(requests).client
  /\ sought' = IntoWord(sought, Head(requests).word)
  /\ requests' = Tail(requests)
  /\ UNCHANGED <<world, table, answers, client, lost>>

\* A word, perhaps an empty one, and the address it came from.
SRecv ==
  /\ requests # <<>>
  /\ SStep("recv", "lookup")
  /\ from' = Head(requests).client
  /\ sought' = IntoWord(sought, Head(requests).word)
  /\ requests' = Tail(requests)
  /\ UNCHANGED <<world, table, answers, client, lost>>

\* The first lookup opens the table.
SLookup ==
  /\ table # None \/ file # None
  /\ SStep("lookup", "send")
  /\ table' = IF table = None THEN file ELSE table
  /\ UNCHANGED <<world, sought, from, requests, answers, client, lost>>

\* A slip: the word is not zeroed after the answer.
SSendKeeps ==
  /\ SStep("send", "recv")
  /\ answers' = IF cpc[from] = "gone" THEN answers
                ELSE [answers EXCEPT ![from] = Append(@, Answer(table, sought))]
  /\ UNCHANGED <<world, sought, from, table, requests, client, lost>>

\* The answer, and memset().  A client that has gone has no socket.
SSend ==
  /\ SStep("send", "recv")
  /\ answers' = IF cpc[from] = "gone" THEN answers
                ELSE [answers EXCEPT ![from] = Append(@, Answer(table, sought))]
  /\ sought' = NoWord
  /\ UNCHANGED <<world, from, table, requests, client, lost>>

\* The process ends, and what its socket held is lost with it.
SEnd ==
  /\ spc' = "dead"
  /\ requests' = <<>>
  /\ lost' = lost \cup {c \in Clients : Waiting(c)}

\* The datafile cannot be opened: the server exits.
SOpenFails ==
  /\ spc = "lookup" /\ table = None /\ file = None
  /\ SEnd
  /\ UNCHANGED <<world, sought, from, table, answers, client>>

SKilled ==
  /\ spc # "dead"
  /\ SEnd
  /\ UNCHANGED <<world, sought, from, table, answers, client>>

\* The server is started again.
SStart ==
  /\ run < MaxRuns
  /\ SStep("dead", "recv")
  /\ run' = run + 1
  /\ sought' = NoWord /\ from' = None /\ table' = None
  /\ UNCHANGED <<file, requests, answers, client, lost>>

-----------------------------------------------------------------------------
(* Client c: main() and lookup9.                                           *)

\* gets() and sendto(), whose result is not looked at.
CAsk(c) ==
  /\ CStep(c, "prompt", "recv")
  /\ \E w \in Queries :
       /\ word' = [word EXCEPT ![c] = w]
       /\ IF spc # "dead" /\ Len(requests) < Capacity
          THEN /\ requests' = Append(requests, [client |-> c, word |-> w])
               /\ UNCHANGED lost
          ELSE /\ lost' = lost \cup {c}
               /\ UNCHANGED requests
  /\ UNCHANGED <<world, server, answers, text, shown>>

\* An answer; it is printed, and tryit zeroed.
CRecv(c) ==
  /\ answers[c] # <<>>
  /\ CStep(c, "recv", "prompt")
  /\ shown' = [shown EXCEPT ![c] = <<word[c], IntoText(text[c], Head(answers[c]))>>]
  /\ word' = [word EXCEPT ![c] = NoWord]
  /\ text' = [text EXCEPT ![c] = NoText]
  /\ answers' = [answers EXCEPT ![c] = Tail(@)]
  /\ UNCHANGED <<world, server, requests, lost>>

\* The end of the input at the prompt, or an interrupt anywhere.
CLeave(c) ==
  /\ cpc[c] # "gone"
  /\ cpc' = [cpc EXCEPT ![c] = "gone"]
  /\ answers' = [answers EXCEPT ![c] = <<>>]
  /\ UNCHANGED <<world, server, requests, word, text, shown, lost>>

-----------------------------------------------------------------------------
ServerStep == SRecv \/ SLookup \/ SOpenFails \/ SSend

Next ==
  \/ Replace \/ ServerStep \/ SKilled \/ SStart
  \/ \E c \in Clients : CAsk(c) \/ CRecv(c) \/ CLeave(c)

Spec == Init /\ [][Next]_vars

\* The server runs, and a client that has an answer takes it.
Fairness == WF_vars(ServerStep) /\ \A c \in Clients : WF_vars(CRecv(c))
FairSpec == Spec /\ Fairness

-----------------------------------------------------------------------------
(* What must hold.                                                         *)

\* What a client prints of a word is what an edition says of it, and in the
\* server's first run all clients are answered from the one it has mapped.
AnswersRight ==
  \A c \in Clients : shown[c] # None =>
    \E e \in Editions : /\ shown[c][2] = Answer(e, shown[c][1])
                        /\ run = 1 => e = table

\* A client that waits has its word in the server's socket, or with the
\* server, or an answer in its own socket, or has lost it: always just one,
\* so no answer is ever left over for the next question.
OnePlace ==
  \A c \in Clients : cpc[c] = "recv" =>
    Cardinality({i \in DOMAIN requests : requests[i].client = c})
    + (IF spc \in {"lookup", "send"} /\ from = c THEN 1 ELSE 0)
    + Len(answers[c])
    + (IF c \in lost THEN 1 ELSE 0) = 1

\* Every word is answered, the empty one too, unless it is lost; then, as
\* nothing times out, the client waits for ever, even for a server that has
\* been started again.
AnsweredUnlessLost ==
  \A c \in Clients : cpc[c] = "recv" ~> cpc[c] # "recv" \/ c \in lost
=============================================================================
