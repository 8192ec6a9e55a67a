------------------------- MODULE DictDatagramProofs -------------------------
(***************************************************************************)
(* Proofs about DictDatagram, for any clients, words, editions, capacity   *)
(* and number of runs: where a question is, and that its answer is right.  *)
(***************************************************************************)
EXTENDS DictDatagram, FiniteSetTheorems, TLAPS

Requests == [client : Clients, word : Queries]

TypeInv ==
  /\ run \in Nat \ {0}
  /\ file \in Editions \cup {None} /\ table \in Editions \cup {None}
  /\ spc \in {"recv", "lookup", "send", "dead"}
  /\ spc \in {"lookup", "send"} => from \in Clients
  /\ spc = "send" => table \in Editions
  /\ requests \in Seq(Requests)
  /\ answers \in [Clients -> Seq(Texts)]
  /\ cpc \in [Clients -> {"prompt", "recv", "gone"}]
  /\ word \in [Clients -> Queries]
  /\ text = [c \in Clients |-> NoText]
  /\ shown \in [Clients -> (Queries \X Texts) \cup {None}]
  /\ sought \in Queries
  /\ spc = "recv" => sought = NoWord

InSocket(c) == \E i \in 1..Len(requests) : requests[i].client = c
AtServer(c) == spc \in {"lookup", "send"} /\ from = c

JustOne(A, B, C, D) ==
  /\ A \/ B \/ C \/ D
  /\ A => ~B /\ ~C /\ ~D
  /\ B => ~C /\ ~D
  /\ C => ~D

\* Where the question of a client, or the answer, is.
PlaceOf(c) ==
  /\ Len(answers[c]) <= 1
  /\ cpc[c] = "gone" => answers[c] = <<>>
  /\ cpc[c] = "prompt" =>
       ~InSocket(c) /\ ~AtServer(c) /\ answers[c] = <<>> /\ c \notin lost
  /\ cpc[c] = "recv" =>
       JustOne(InSocket(c), AtServer(c), answers[c] # <<>>, c \in lost)

PlaceInv ==
  /\ \A i, j \in 1..Len(requests) :
       requests[i].client = requests[j].client => i = j
  /\ \A c \in Clients : PlaceOf(c)

\* What an edition says, in the first run of the server the one it has mapped.
Right(t, w) == \E e \in Editions : t = Answer(e, w) /\ (run = 1 => e = table)

WordsInv ==
  /\ \A i \in 1..Len(requests) :
       cpc[requests[i].client] = "recv" =>
         requests[i].word = word[requests[i].client]
  /\ spc \in {"lookup", "send"} /\ cpc[from] = "recv" => sought = word[from]
  /\ \A c \in Clients : cpc[c] = "recv" =>
       \A i \in 1..Len(answers[c]) : Right(answers[c][i], word[c])
  /\ \A c \in Clients : shown[c] # None => Right(shown[c][2], shown[c][1])

-----------------------------------------------------------------------------
(* Constants and sequences.                                                *)

LEMMA AnswerType ==
  ASSUME NEW e \in Editions, NEW w \in Queries
  PROVE  Answer(e, w) \in Texts
<1>1. CASE w \in Listed[e]
  BY <1>1, DictAssumption DEF Answer, Texts, Queries
<1>2. CASE w \notin Listed[e]
  BY <1>2 DEF Answer, Texts
<1> QED
  BY <1>1, <1>2

LEMMA NoneApart ==
  /\ None \notin Editions /\ None \notin Clients
  /\ NoWord \in Queries /\ NoText \in Texts
BY DictAssumption, DatagramAssumption DEF Queries, Texts

\* What is in a queue before and after something is taken from its front or
\* put at its end.
LEMMA TailHas ==
  ASSUME NEW S, NEW s \in Seq(S), s # <<>>
  PROVE  /\ Head(s) = s[1] /\ Head(s) \in S /\ 1 \in 1..Len(s)
         /\ Tail(s) \in Seq(S) /\ Len(Tail(s)) = Len(s) - 1
         /\ \A i \in 1..Len(Tail(s)) : i + 1 \in 1..Len(s) /\ Tail(s)[i] = s[i + 1]
         /\ \A i \in 1..Len(s) : 
              i = 1 \/ (i - 1 \in 1..Len(Tail(s)) /\ s[i] = Tail(s)[i - 1])
<1>1. Len(s) \in Nat /\ Len(s) # 0
  OBVIOUS
<1>2. Tail(s) \in Seq(S) /\ Len(Tail(s)) = Len(s) - 1
  BY <1>1
<1>3. \A i \in 1..Len(Tail(s)) : Tail(s)[i] = s[i + 1]
  BY <1>1, <1>2
<1>4. Head(s) = s[1] /\ Head(s) \in S /\ 1 \in 1..Len(s)
  BY <1>1
<1>5. \A i \in 1..Len(Tail(s)) : i + 1 \in 1..Len(s)
  BY <1>1, <1>2
<1>6. ASSUME NEW i \in 1..Len(s), i # 1
      PROVE  i - 1 \in 1..Len(Tail(s)) /\ s[i] = Tail(s)[i - 1]
  <2>1. i - 1 \in 1..Len(Tail(s)) /\ (i - 1) + 1 = i
    BY <1>1, <1>2, <1>6
  <2> QED
    BY <1>3, <2>1
<1>7. \A i \in 1..Len(s) :
        i = 1 \/ (i - 1 \in 1..Len(Tail(s)) /\ s[i] = Tail(s)[i - 1])
  BY <1>6
<1> QED
  BY <1>2, <1>3, <1>4, <1>5, <1>7

LEMMA EmptyIs ==
  ASSUME NEW S, NEW s \in Seq(S)
  PROVE  /\ Len(s) \in Nat
         /\ s = <<>> <=> Len(s) = 0
OBVIOUS

LEMMA OneLeft ==
  ASSUME NEW n \in Nat, n <= 1, n # 0
  PROVE  n = 1
OBVIOUS

LEMMA AppendHas ==
  ASSUME NEW S, NEW s \in Seq(S), NEW x \in S
  PROVE  /\ Append(s, x) \in Seq(S) /\ Len(Append(s, x)) = Len(s) + 1
         /\ Append(s, x)[Len(s) + 1] = x
         /\ \A i \in 1..Len(s) : Append(s, x)[i] = s[i]
         /\ \A i \in 1..Len(s) + 1 : i \in 1..Len(s) \/ i = Len(s) + 1
OBVIOUS

-----------------------------------------------------------------------------
(* Types.                                                                  *)

LEMMA ClientsAsk ==
  ASSUME TypeInv, NEW i \in 1..Len(requests)
  PROVE  requests[i].client \in Clients
<1>1. requests[i] \in Requests
  BY DEF TypeInv
<1> QED
  BY <1>1 DEF Requests

LEMMA TypeStart == Init => TypeInv
BY NoneApart DEF Init, TypeInv

LEMMA TypeStep == TypeInv /\ [Next]_vars => TypeInv'
<1> SUFFICES ASSUME TypeInv, [Next]_vars PROVE TypeInv'
  OBVIOUS
<1> USE DEF TypeInv, world, server, client, SStep, CStep
<1>1. CASE Replace
  BY <1>1 DEF Replace
<1>2. CASE SRecv
  <2>1. Head(requests) \in Requests /\ requests' \in Seq(Requests)
    BY <1>2, TailHas DEF SRecv
  <2> QED
    BY <1>2, <2>1 DEF SRecv, IntoWord, Into, Requests
<1>3. CASE SLookup
  BY <1>3 DEF SLookup
<1>4. CASE SOpenFails \/ SKilled
  <2>1. /\ spc' = "dead" /\ requests' = <<>> /\ UNCHANGED <<run, file, table>>
        /\ UNCHANGED <<answers, cpc, word, text, shown, sought>>
    BY <1>4 DEF SOpenFails, SKilled, SEnd
  <2> QED
    BY <2>1
<1>5. CASE SSend
  <2>1. from \in Clients /\ Answer(table, sought) \in Texts
    BY <1>5, AnswerType DEF SSend
  <2>2. answers' \in [Clients -> Seq(Texts)]
    BY <1>5, <2>1 DEF SSend
  <2> QED
    BY <1>5, <2>2, NoneApart DEF SSend
<1>6. CASE SStart
  BY <1>6, NoneApart DEF SStart
<1>7. ASSUME NEW c \in Clients, CAsk(c) PROVE TypeInv'
  <2>1. PICK w \in Queries :
          /\ word' = [word EXCEPT ![c] = w]
          /\ requests' = Append(requests, [client |-> c, word |-> w])
             \/ requests' = requests
    BY <1>7 DEF CAsk
  <2>2. requests' \in Seq(Requests)
    <3> DEFINE asked == [client |-> c, word |-> w]
    <3>1. asked \in Requests
      BY DEF Requests
    <3>2. requests' = Append(requests, asked) \/ requests' = requests
      BY <2>1
    <3>3. requests \in Seq(Requests)
      OBVIOUS
    <3> HIDE DEF asked, TypeInv
    <3>4. CASE requests' = Append(requests, asked)
      BY <3>1, <3>3, <3>4, AppendHas
    <3> QED
      BY <3>2, <3>3, <3>4
  <2> QED
    BY <1>7, <2>1, <2>2 DEF CAsk
<1>8. ASSUME NEW c \in Clients, CRecv(c) PROVE TypeInv'
  <2>1. Head(answers[c]) \in Texts /\ Tail(answers[c]) \in Seq(Texts)
    BY <1>8, TailHas DEF CRecv
  <2>2. IntoText(text[c], Head(answers[c])) = Head(answers[c])
    BY DEF IntoText, Into
  <2>3. shown' = [shown EXCEPT ![c] = <<word[c], Head(answers[c])>>]
    BY <1>8, <2>2 DEF CRecv
  <2>4. shown' \in [Clients -> (Queries \X Texts) \cup {None}]
    BY <2>1, <2>3
  <2>5. text' = text
    BY <1>8 DEF CRecv
  <2>6. answers' \in [Clients -> Seq(Texts)]
    BY <1>8, <2>1 DEF CRecv
  <2> QED
    BY <1>8, <2>4, <2>5, <2>6, NoneApart DEF CRecv
<1>9. ASSUME NEW c \in Clients, CLeave(c) PROVE TypeInv'
  BY <1>9 DEF CLeave
<1>10. CASE UNCHANGED vars
  BY <1>10 DEF vars
<1> QED
  BY <1>1, <1>2, <1>3, <1>4, <1>5, <1>6, <1>7, <1>8, <1>9, <1>10
  DEF Next, ServerStep

-----------------------------------------------------------------------------
(* Places.                                                                 *)

LEMMA PlaceStart == Init => PlaceInv
BY DEF Init, PlaceInv, PlaceOf, InSocket, AtServer

\* The server takes a question from its socket.
LEMMA RecvPlaces ==
  ASSUME TypeInv, PlaceInv, SRecv
  PROVE  PlaceInv'
<1>1. /\ requests # <<>> /\ requests' = Tail(requests) /\ spc = "recv"
      /\ spc' = "lookup" /\ from' = Head(requests).client
      /\ UNCHANGED <<answers, cpc, lost>>
  BY DEF SRecv, SStep, client
<1>2. /\ requests \in Seq(Requests) /\ Len(requests) \in Nat
      /\ Len(requests') = Len(requests) - 1
      /\ 1 \in 1..Len(requests) /\ from' = requests[1].client
      /\ \A i \in 1..Len(requests') :
           i + 1 \in 1..Len(requests) /\ requests'[i] = requests[i + 1]
      /\ \A i \in 1..Len(requests) :
           i = 1 \/ (i - 1 \in 1..Len(requests') /\ requests[i] = requests'[i - 1])
  BY <1>1, TailHas DEF TypeInv
<1>3. \A i, j \in 1..Len(requests') :
        requests'[i].client = requests'[j].client => i = j
  <2> SUFFICES ASSUME NEW i \in 1..Len(requests'), NEW j \in 1..Len(requests'),
                      requests'[i].client = requests'[j].client
               PROVE  i = j
    OBVIOUS
  <2>1. i + 1 = j + 1
    BY <1>2 DEF PlaceInv
  <2> QED
    BY <1>2, <2>1
<1>4. ASSUME NEW c \in Clients
      PROVE  /\ InSocket(c) <=> InSocket(c)' \/ AtServer(c)'
             /\ ~(InSocket(c)' /\ AtServer(c)') /\ ~AtServer(c)
  <2>1. AtServer(c)' <=> c = requests[1].client
    BY <1>1, <1>2 DEF AtServer
  <2>2. InSocket(c)' => InSocket(c) /\ c # requests[1].client
    <3> SUFFICES ASSUME NEW i \in 1..Len(requests'), requests'[i].client = c
                 PROVE  InSocket(c) /\ c # requests[1].client
      BY DEF InSocket
    <3>1. i + 1 \in 1..Len(requests) /\ requests[i + 1].client = c /\ i + 1 # 1
      BY <1>2
    <3> QED
      BY <1>2, <3>1 DEF InSocket, PlaceInv
  <2>3. InSocket(c) /\ c # requests[1].client => InSocket(c)'
    BY <1>2 DEF InSocket
  <2>4. c = requests[1].client => InSocket(c)
    BY <1>2 DEF InSocket
  <2> QED
    BY <1>1, <2>1, <2>2, <2>3, <2>4 DEF AtServer
<1>5. ASSUME NEW c \in Clients PROVE PlaceOf(c)'
  <2>1. PlaceOf(c)
    BY DEF PlaceInv
  <2> QED
    BY <1>1, <1>4, <2>1 DEF PlaceOf, JustOne
<1> QED
  BY <1>3, <1>5 DEF PlaceInv

\* The server sends its answer, which a client that has gone does not get.
LEMMA SendPlaces ==
  ASSUME TypeInv, PlaceInv, SSend
  PROVE  PlaceInv'
<1>1. /\ spc = "send" /\ spc' = "recv" /\ from' = from /\ from \in Clients
      /\ UNCHANGED <<requests, cpc, lost>>
  BY DEF SSend, SStep, client, TypeInv
<1>2. ASSUME NEW c \in Clients PROVE PlaceOf(c)'
  <2>1. PlaceOf(c) /\ ~AtServer(c)' /\ (InSocket(c)' <=> InSocket(c))
    BY <1>1 DEF PlaceInv, AtServer, InSocket
  <2>2. CASE c # from \/ cpc[from] = "gone"
    <3>1. answers'[c] = answers[c]
      BY <2>2 DEF SSend, TypeInv
    <3> QED
      BY <1>1, <2>1, <2>2, <3>1 DEF PlaceOf, JustOne, AtServer
  <2>3. CASE c = from /\ cpc[from] # "gone"
    <3>1. answers'[c] = Append(answers[c], Answer(table, sought))
      BY <1>1, <2>3 DEF SSend, TypeInv
    <3>2. cpc[c] = "recv" /\ answers[c] = <<>> /\ ~InSocket(c) /\ c \notin lost
      BY <1>1, <2>1, <2>3 DEF PlaceOf, JustOne, AtServer, TypeInv
    <3>3. Len(answers'[c]) = 1 /\ answers'[c] # <<>>
      BY <3>1, <3>2
    <3> QED
      BY <1>1, <2>1, <3>2, <3>3 DEF PlaceOf, JustOne
  <2> QED
    BY <2>2, <2>3
<1> QED
  BY <1>1, <1>2 DEF PlaceInv

\* The server ends.
LEMMA EndPlaces ==
  ASSUME TypeInv, PlaceInv, SEnd, UNCHANGED <<answers, cpc, from>>
  PROVE  PlaceInv'
<1>1. spc' = "dead" /\ requests' = <<>>
  BY DEF SEnd
<1>2. ASSUME NEW c \in Clients PROVE PlaceOf(c)'
  <2>1. PlaceOf(c) /\ ~AtServer(c)' /\ ~InSocket(c)'
    BY <1>1 DEF PlaceInv, AtServer, InSocket
  <2>2. Waiting(c) <=> InSocket(c) \/ AtServer(c)
    BY DEF Waiting, InSocket, AtServer, TypeInv
  <2>3. c \in lost' <=> c \in lost \/ InSocket(c) \/ AtServer(c)
    BY <2>2 DEF SEnd
  <2> QED
    BY <2>1, <2>3 DEF PlaceOf, JustOne
<1> QED
  BY <1>1, <1>2 DEF PlaceInv

LEMMA AskPlaces ==
  ASSUME TypeInv, PlaceInv, NEW c \in Clients, CAsk(c)
  PROVE  PlaceInv'
<1>1. /\ cpc[c] = "prompt" /\ cpc' = [cpc EXCEPT ![c] = "recv"]
      /\ UNCHANGED <<spc, from, answers>>
  BY DEF CAsk, CStep, server
<1>2. PlaceOf(c) /\ ~InSocket(c) /\ ~AtServer(c) /\ answers[c] = <<>> /\ c \notin lost
  BY <1>1 DEF PlaceInv, PlaceOf
<1>3. \A d \in Clients : AtServer(d)' <=> AtServer(d)
  BY <1>1 DEF AtServer
<1>4. CASE requests' = requests /\ lost' = lost \cup {c}
  <2>1. \A d \in Clients : InSocket(d)' <=> InSocket(d)
    BY <1>4 DEF InSocket
  <2>2. ASSUME NEW d \in Clients PROVE PlaceOf(d)'
    BY <1>1, <1>2, <1>3, <1>4, <2>1 DEF PlaceInv, PlaceOf, JustOne, TypeInv
  <2> QED
    BY <1>4, <2>2 DEF PlaceInv
<1>5. ASSUME NEW w \in Queries, lost' = lost,
             requests' = Append(requests, [client |-> c, word |-> w])
      PROVE  PlaceInv'
  <2> DEFINE asked == [client |-> c, word |-> w]
  <2>1. asked \in Requests /\ asked.client = c
    BY DEF Requests
  <2> HIDE DEF asked
  <2>2. /\ Len(requests) \in Nat /\ Len(requests') = Len(requests) + 1
        /\ requests'[Len(requests) + 1].client = c
        /\ \A i \in 1..Len(requests) : requests'[i] = requests[i]
        /\ \A i \in 1..Len(requests') : i \in 1..Len(requests) \/ i = Len(requests) + 1
    BY <1>5, <2>1, AppendHas DEF TypeInv, asked
  <2>3. InSocket(c)' /\ \A d \in Clients : d # c => (InSocket(d)' <=> InSocket(d))
    BY <2>2 DEF InSocket
  <2>4. \A i, j \in 1..Len(requests') :
          requests'[i].client = requests'[j].client => i = j
    BY <1>2, <2>2 DEF PlaceInv, InSocket
  <2>5. ASSUME NEW d \in Clients PROVE PlaceOf(d)'
    BY <1>1, <1>2, <1>3, <1>5, <2>3 DEF PlaceInv, PlaceOf, JustOne, TypeInv
  <2> QED
    BY <2>4, <2>5 DEF PlaceInv
<1> QED
  BY <1>4, <1>5 DEF CAsk

\* A client takes its answer, or leaves.
LEMMA ClientPlaces ==
  ASSUME TypeInv, PlaceInv, NEW c \in Clients, CRecv(c) \/ CLeave(c)
  PROVE  PlaceInv'
<1>1. UNCHANGED <<spc, from, requests, lost>>
  BY DEF CRecv, CLeave, server
<1>2. \A d \in Clients : (AtServer(d)' <=> AtServer(d)) /\ (InSocket(d)' <=> InSocket(d))
  BY <1>1 DEF AtServer, InSocket
<1>3. PlaceOf(c)'
  <2>1. CASE CRecv(c)
    <3>1. /\ cpc[c] = "recv" /\ cpc'[c] = "prompt"
          /\ answers[c] # <<>> /\ answers'[c] = Tail(answers[c])
      BY <2>1 DEF CRecv, CStep, TypeInv
    <3>2. PlaceOf(c) /\ answers[c] \in Seq(Texts)
      BY DEF PlaceInv, TypeInv
    <3>3. Len(answers[c]) = 1
      <4>1. Len(answers[c]) <= 1
        BY <3>2 DEF PlaceOf
      <4>2. Len(answers[c]) \in Nat /\ Len(answers[c]) # 0
        BY <3>1, <3>2
      <4> QED
        BY <4>1, <4>2, OneLeft
    <3>4. answers'[c] = <<>>
      BY <3>1, <3>2, <3>3, TailHas, EmptyIs
    <3> QED
      BY <1>1, <1>2, <3>1, <3>2, <3>4 DEF PlaceOf, JustOne
  <2>2. CASE CLeave(c)
    <3>1. cpc'[c] = "gone" /\ answers'[c] = <<>>
      BY <2>2 DEF CLeave, TypeInv
    <3> QED
      BY <3>1 DEF PlaceOf
  <2> QED
    BY <2>1, <2>2
<1>4. ASSUME NEW d \in Clients, d # c PROVE PlaceOf(d)'
  <2>1. cpc'[d] = cpc[d] /\ answers'[d] = answers[d]
    BY <1>4 DEF CRecv, CLeave, CStep, TypeInv
  <2> QED
    BY <1>1, <1>2, <2>1 DEF PlaceInv, PlaceOf, JustOne
<1> QED
  BY <1>1, <1>3, <1>4 DEF PlaceInv

LEMMA PlaceStep == TypeInv /\ PlaceInv /\ [Next]_vars => PlaceInv'
<1> SUFFICES ASSUME TypeInv, PlaceInv, [Next]_vars PROVE PlaceInv'
  OBVIOUS
<1>1. CASE \/ Replace \/ SLookup \/ SStart \/ UNCHANGED vars
  <2>1. UNCHANGED <<requests, answers, cpc, lost>>
    BY <1>1 DEF Replace, SLookup, SStart, vars, client
  <2>2. ASSUME NEW c \in Clients PROVE AtServer(c)' <=> AtServer(c)
    BY <1>1 DEF AtServer, Replace, SLookup, SStart, SStep, vars, server
  <2>3. \A c \in Clients : InSocket(c)' <=> InSocket(c)
    BY <2>1 DEF InSocket
  <2> QED
    BY <2>1, <2>2, <2>3 DEF PlaceInv, PlaceOf, JustOne
<1>2. CASE SRecv
  BY <1>2, RecvPlaces
<1>3. CASE SSend
  BY <1>3, SendPlaces
<1>4. CASE SOpenFails \/ SKilled
  BY <1>4, EndPlaces DEF SOpenFails, SKilled, client
<1>5. ASSUME NEW c \in Clients, CAsk(c) PROVE PlaceInv'
  BY <1>5, AskPlaces
<1>6. ASSUME NEW c \in Clients, CRecv(c) \/ CLeave(c) PROVE PlaceInv'
  BY <1>6, ClientPlaces
<1> QED
  BY <1>1, <1>2, <1>3, <1>4, <1>5, <1>6 DEF Next, ServerStep

-----------------------------------------------------------------------------
(* Answers.                                                                *)

LEMMA WordsStart == Init => WordsInv
BY DEF Init, WordsInv

\* In the first run the server keeps the edition that it has mapped.
LEMMA RightStays ==
  ASSUME NEW t, NEW w, Right(t, w), run' >= run, run \in Nat, run' \in Nat,
         \/ run' = run /\ (table' = table \/ table \notin Editions)
         \/ run' > 1
  PROVE  Right(t, w)'
<1>1. PICK e \in Editions : t = Answer(e, w) /\ (run = 1 => e = table)
  BY DEF Right
<1>2. run' = 1 => e = table'
  BY <1>1
<1> QED
  BY <1>1, <1>2 DEF Right

LEMMA SRecvWords ==
  ASSUME TypeInv, PlaceInv, WordsInv, SRecv
  PROVE  WordsInv'
<1>1. /\ requests # <<>> /\ requests' = Tail(requests) /\ spc = "recv"
      /\ spc' = "lookup" /\ from' = Head(requests).client
      /\ sought' = Head(requests).word
      /\ UNCHANGED <<run, table, answers, cpc, word, shown>>
  BY DEF SRecv, SStep, client, world, TypeInv, IntoWord, Into
<1>2. /\ from' = requests[1].client /\ sought' = requests[1].word
      /\ 1 \in 1..Len(requests)
      /\ \A i \in 1..Len(requests') :
           i + 1 \in 1..Len(requests) /\ requests'[i] = requests[i + 1]
  BY <1>1, TailHas DEF TypeInv
<1>3. \A t, w : Right(t, w) => Right(t, w)'
  BY <1>1 DEF Right
<1> QED
  BY <1>1, <1>2, <1>3 DEF WordsInv

LEMMA SSendWords ==
  ASSUME TypeInv, PlaceInv, WordsInv, SSend
  PROVE  WordsInv'
<1>1. /\ spc = "send" /\ spc' = "recv" /\ from \in Clients /\ table \in Editions
      /\ UNCHANGED <<run, table, requests, cpc, word, shown>>
  BY DEF SSend, SStep, client, world, TypeInv
<1>2. \A t, w : Right(t, w) => Right(t, w)'
  BY <1>1 DEF Right
<1>3. ASSUME NEW c \in Clients, cpc[c] = "recv", NEW i \in 1..Len(answers'[c])
      PROVE  Right(answers'[c][i], word[c])
  <2>1. CASE c # from
    BY <1>3, <2>1 DEF SSend, TypeInv, WordsInv
  <2>2. CASE c = from
    <3>1. answers'[c] = Append(answers[c], Answer(table, sought))
      BY <1>1, <1>3, <2>2 DEF SSend, TypeInv
    <3>2. sought = word[c] /\ answers[c] \in Seq(Texts)
      BY <1>1, <1>3, <2>2 DEF WordsInv, TypeInv
    <3>3. Answer(table, sought) \in Texts
      BY <1>1, AnswerType DEF TypeInv
    <3>4. answers'[c][i] = Answer(table, sought) \/
          (i \in 1..Len(answers[c]) /\ answers'[c][i] = answers[c][i])
      BY <1>3, <3>1, <3>2, <3>3, AppendHas
    <3>5. Right(Answer(table, sought), word[c])
      BY <1>1, <3>2 DEF Right
    <3> QED
      BY <1>3, <3>4, <3>5 DEF WordsInv
  <2> QED
    BY <2>1, <2>2
<1> QED
  BY <1>1, <1>2, <1>3 DEF WordsInv

LEMMA CAskWords ==
  ASSUME TypeInv, PlaceInv, WordsInv, NEW c \in Clients, CAsk(c)
  PROVE  WordsInv'
<1>1. /\ cpc[c] = "prompt" /\ cpc' = [cpc EXCEPT ![c] = "recv"]
      /\ UNCHANGED <<spc, from, sought, table, run, answers, shown>>
  BY DEF CAsk, CStep, server, world
<1>2. ~InSocket(c) /\ ~AtServer(c) /\ answers[c] = <<>>
  BY <1>1 DEF PlaceInv, PlaceOf
<1>3. PICK w \in Queries :
        /\ word' = [word EXCEPT ![c] = w]
        /\ \/ requests' = Append(requests, [client |-> c, word |-> w])
           \/ requests' = requests
  BY DEF CAsk
<1>4. \A t, v : Right(t, v) => Right(t, v)'
  BY <1>1 DEF Right
<1>5. ASSUME NEW i \in 1..Len(requests), i \in 1..Len(requests'),
             requests'[i] = requests[i]
      PROVE  cpc'[requests'[i].client] = "recv" =>
               requests'[i].word = word'[requests'[i].client]
  <2>1. requests[i].client # c
    BY <1>2 DEF InSocket
  <2>2. requests[i].client \in Clients
    BY ClientsAsk
  <2> QED
    BY <1>1, <1>3, <1>5, <2>1, <2>2 DEF WordsInv, TypeInv
<1>6. ASSUME NEW i \in 1..Len(requests')
      PROVE  cpc'[requests'[i].client] = "recv" =>
               requests'[i].word = word'[requests'[i].client]
  <2>1. CASE requests' = requests
    BY <1>5, <2>1
  <2> DEFINE asked == [client |-> c, word |-> w]
  <2>2. CASE requests' = Append(requests, asked)
    <3>1. asked \in Requests /\ asked.client = c /\ asked.word = w
      BY DEF Requests
    <3> HIDE DEF asked
    <3>2. (i \in 1..Len(requests) /\ requests'[i] = requests[i])
          \/ requests'[i] = asked
      BY <2>2, <3>1, AppendHas DEF TypeInv
    <3> QED
      BY <1>3, <1>5, <3>1, <3>2 DEF TypeInv
  <2> QED
    BY <1>3, <2>1, <2>2
<1>7. spc' \in {"lookup", "send"} /\ cpc'[from'] = "recv" => sought' = word'[from']
  BY <1>1, <1>2, <1>3 DEF WordsInv, AtServer, TypeInv
<1>8. ASSUME NEW d \in Clients, cpc'[d] = "recv", NEW i \in 1..Len(answers'[d])
      PROVE  Right(answers'[d][i], word'[d])
  <2>1. d # c
    BY <1>1, <1>2
  <2> QED
    BY <1>1, <1>3, <1>8, <2>1 DEF WordsInv, TypeInv
<1> QED
  BY <1>1, <1>4, <1>6, <1>7, <1>8 DEF WordsInv

LEMMA CRecvWords ==
  ASSUME TypeInv, PlaceInv, WordsInv, NEW c \in Clients, CRecv(c)
  PROVE  WordsInv'
<1>1. /\ cpc[c] = "recv" /\ cpc' = [cpc EXCEPT ![c] = "prompt"]
      /\ word' = [word EXCEPT ![c] = NoWord]
      /\ answers[c] # <<>> /\ answers' = [answers EXCEPT ![c] = Tail(@)]
      /\ UNCHANGED <<spc, from, sought, table, run, requests>>
  BY DEF CRecv, CStep, server, world
<1>2. \A t, w : Right(t, w) => Right(t, w)'
  BY <1>1 DEF Right
<1>3. shown' = [shown EXCEPT ![c] = <<word[c], Head(answers[c])>>]
  BY DEF CRecv, IntoText, Into, TypeInv
<1>4. Right(Head(answers[c]), word[c])
  <2>1. answers[c] \in Seq(Texts)
    BY DEF TypeInv
  <2>2. Head(answers[c]) = answers[c][1] /\ 1 \in 1..Len(answers[c])
    BY <1>1, <2>1, TailHas
  <2> QED
    BY <1>1, <2>2 DEF WordsInv
<1>5. ASSUME NEW d \in Clients, shown'[d] # None
      PROVE  Right(shown'[d][2], shown'[d][1])
  <2>1. CASE d = c
    <3>1. shown'[d] = <<word[c], Head(answers[c])>>
      BY <1>3, <2>1 DEF TypeInv
    <3> QED
      BY <1>4, <3>1
  <2>2. CASE d # c
    <3>1. shown'[d] = shown[d]
      BY <1>3, <2>2 DEF TypeInv
    <3> QED
      BY <1>5, <3>1 DEF WordsInv
  <2> QED
    BY <2>1, <2>2
<1>6. \A d \in Clients : cpc'[d] = "recv" =>
        d # c /\ cpc[d] = "recv" /\ word'[d] = word[d] /\ answers'[d] = answers[d]
  BY <1>1 DEF TypeInv
<1>7. /\ requests' = requests
      /\ \A i \in 1..Len(requests) : requests[i].client \in Clients
  BY <1>1, ClientsAsk
<1>8. \A i \in 1..Len(requests') : cpc'[requests'[i].client] = "recv" =>
        requests'[i].word = word'[requests'[i].client]
  BY <1>1, <1>6, <1>7 DEF WordsInv
<1>9. spc' \in {"lookup", "send"} /\ cpc'[from'] = "recv" => sought' = word'[from']
  BY <1>1, <1>6 DEF WordsInv, TypeInv
<1> QED
  BY <1>1, <1>2, <1>5, <1>6, <1>8, <1>9 DEF WordsInv

\* The server ends, starts again, or maps its table.
LEMMA ServerWords ==
  ASSUME TypeInv, TypeInv', WordsInv, SLookup \/ SStart \/ SOpenFails \/ SKilled
  PROVE  WordsInv'
<1>1. UNCHANGED <<answers, cpc, word, shown>> /\ (requests' = requests \/ requests' = <<>>)
  BY DEF SLookup, SStart, SOpenFails, SKilled, SEnd, client
<1>2. /\ run \in Nat /\ run' \in Nat /\ run' >= run
      /\ \/ run' = run /\ (table' = table \/ table \notin Editions)
         \/ run' > 1
  <2>1. CASE SLookup
    BY <2>1, NoneApart DEF SLookup, world, TypeInv
  <2>2. CASE SStart
    <3>1. run' = run + 1 /\ run \in Nat
      BY <2>2 DEF SStart, TypeInv
    <3>2. run # 0
      BY DEF TypeInv
    <3> QED
      BY <3>1, <3>2
  <2>3. CASE SOpenFails \/ SKilled
    BY <2>3 DEF SOpenFails, SKilled, world, TypeInv
  <2> QED
    BY <2>1, <2>2, <2>3
<1>3. \A t, w : Right(t, w) => Right(t, w)'
  BY <1>2, RightStays
<1>4. spc' \in {"lookup", "send"} => spc \in {"lookup", "send"} /\ UNCHANGED <<from, sought>>
  BY DEF SLookup, SStart, SOpenFails, SKilled, SEnd, SStep
<1> QED
  BY <1>1, <1>3, <1>4 DEF WordsInv

LEMMA WordsStep ==
  TypeInv /\ TypeInv' /\ PlaceInv /\ WordsInv /\ [Next]_vars => WordsInv'
<1> SUFFICES ASSUME TypeInv, TypeInv', PlaceInv, WordsInv, [Next]_vars
             PROVE  WordsInv'
  OBVIOUS
<1>1. CASE Replace \/ UNCHANGED vars
  BY <1>1 DEF Replace, vars, world, server, client, WordsInv, Right
<1>2. CASE SRecv
  BY <1>2, SRecvWords
<1>3. CASE SSend
  BY <1>3, SSendWords
<1>4. CASE SLookup \/ SStart \/ SOpenFails \/ SKilled
  BY <1>4, ServerWords
<1>5. ASSUME NEW c \in Clients, CAsk(c) PROVE WordsInv'
  BY <1>5, CAskWords
<1>6. ASSUME NEW c \in Clients, CRecv(c) PROVE WordsInv'
  BY <1>6, CRecvWords
<1>7. ASSUME NEW c \in Clients, CLeave(c) PROVE WordsInv'
  <2>1. /\ UNCHANGED <<spc, from, sought, table, run, requests, word, shown>>
        /\ \A d \in Clients : cpc'[d] = "recv" =>
             cpc[d] = "recv" /\ answers'[d] = answers[d]
    BY <1>7 DEF CLeave, world, server, TypeInv
  <2>2. \A t, w : Right(t, w) => Right(t, w)'
    BY <2>1 DEF Right
  <2>3. \A i \in 1..Len(requests) : requests[i].client \in Clients
    BY ClientsAsk
  <2> QED
    BY <2>1, <2>2, <2>3 DEF WordsInv, TypeInv
<1> QED
  BY <1>1, <1>2, <1>3, <1>4, <1>5, <1>6, <1>7 DEF Next, ServerStep

-----------------------------------------------------------------------------
(* The theorems.                                                           *)

IInv == TypeInv /\ PlaceInv /\ WordsInv

LEMMA Inductive == Spec => []IInv
<1>1. Init => IInv
  BY TypeStart, PlaceStart, WordsStart DEF IInv
<1>2. IInv /\ [Next]_vars => IInv'
  BY TypeStep, PlaceStep, WordsStep DEF IInv
<1> QED
  BY <1>1, <1>2, PTL DEF Spec

\* The number of a client's questions in the server's socket.
LEMMA SocketCount ==
  ASSUME PlaceInv, TypeInv, NEW c \in Clients
  PROVE  Cardinality({i \in DOMAIN requests : requests[i].client = c})
           = IF InSocket(c) THEN 1 ELSE 0
<1> DEFINE asking == {i \in DOMAIN requests : requests[i].client = c}
<1>1. DOMAIN requests = 1..Len(requests)
  BY DEF TypeInv
<1>2. CASE ~InSocket(c)
  <2>1. asking = {}
    BY <1>1, <1>2 DEF InSocket
  <2> QED
    BY <1>2, <2>1, FS_EmptySet
<1>3. CASE InSocket(c)
  <2>1. PICK i \in 1..Len(requests) : requests[i].client = c
    BY <1>3 DEF InSocket
  <2>2. asking = {i}
    BY <1>1, <2>1 DEF PlaceInv
  <2> QED
    BY <1>3, <2>2, FS_Singleton
<1> QED
  BY <1>2, <1>3

\* For any number of clients, any capacity and however often the server dies
\* and is started: a client that waits has its question, or the answer, in
\* just one place, or it is lost.
THEOREM InOnePlace == Spec => []OnePlace
<1>1. IInv => OnePlace
  <2> SUFFICES ASSUME IInv, NEW c \in Clients, cpc[c] = "recv"
               PROVE  Cardinality({i \in DOMAIN requests : requests[i].client = c})
                      + (IF spc \in {"lookup", "send"} /\ from = c THEN 1 ELSE 0)
                      + Len(answers[c])
                      + (IF c \in lost THEN 1 ELSE 0) = 1
    BY DEF OnePlace
  <2>1. Cardinality({i \in DOMAIN requests : requests[i].client = c})
          = IF InSocket(c) THEN 1 ELSE 0
    BY SocketCount DEF IInv
  <2>2. /\ Len(answers[c]) <= 1 /\ answers[c] \in Seq(Texts)
        /\ JustOne(InSocket(c), AtServer(c), answers[c] # <<>>, c \in lost)
    BY DEF IInv, PlaceInv, PlaceOf, TypeInv
  <2>3. Len(answers[c]) = IF answers[c] # <<>> THEN 1 ELSE 0
    <3>1. Len(answers[c]) <= 1 /\ Len(answers[c]) \in Nat
          /\ (answers[c] = <<>> <=> Len(answers[c]) = 0)
      BY <2>2, EmptyIs
    <3> QED
      BY <3>1, OneLeft
  <2> HIDE DEF IInv
  <2> QED
    BY <2>1, <2>2, <2>3 DEF JustOne, AtServer
<1> QED
  BY <1>1, Inductive, PTL

\* For any clients, words and editions that come and go: what a client prints
\* of a word is what an edition says of it, in the server's first run the one
\* that it has mapped.
THEOREM Answers == Spec => []AnswersRight
<1>1. IInv => AnswersRight
  BY DEF IInv, WordsInv, Right, AnswersRight
<1> QED
  BY <1>1, Inductive, PTL
=============================================================================
