-------------------------- MODULE DictStreamProofs --------------------------
(***************************************************************************)
(* Proofs about DictStream: its types, that a client is shown the right    *)
(* answers, and that it implements DictService.                            *)
(***************************************************************************)
EXTENDS DictStream, FiniteSetTheorems, TLAPS

\* Live: the client runs.  Open: its connection works both ways.
Live(c) == cpc[c] # "gone"
Over(c) == conn[c] \in {"closed", "broken", "reset"}

Waiting == {backlog[i] : i \in DOMAIN backlog}
Distinct == \A i, j \in DOMAIN backlog : backlog[i] = backlog[j] => i = j

\* A connection waits in the backlog, then the server holds it, then it has a
\* child; a client that finds it over has nobody on the other side.
Place(c) ==
  /\ c \in Waiting => cd # c /\ spc[c] = "none" /\ conn[c] # "none"
  /\ ppc = "fork" /\ cd = c => spc[c] = "none"
  /\ conn[c] = "none" =>
       spc[c] = "none" /\ cpc[c] \in {"prompt", "connect", "gone"} /\ cd # c
  /\ cpc[c] = "connect" => conn[c] = "none"
  /\ Live(c) /\ Over(c) => spc[c] \notin Serving /\ cd # c /\ c \notin Waiting

Places ==
  /\ Distinct
  /\ ppc \in {"accept", "dead"} <=> cd = None
  /\ \A c \in Clients : Place(c)

\* At most one word or answer of a client is under way, and in one place.
Message(c) ==
  /\ text[c] = NoText
  /\ up[c] # NoWord =>
       /\ Live(c) => cpc[c] = "recv" /\ up[c] = word[c]
       /\ spc[c] \notin {"lookup", "send"} /\ down[c] = NoText
  /\ Live(c) /\ conn[c] \in {"closed", "broken"} => up[c] = NoWord
  /\ spc[c] \in {"none", "recv"} => sought[c] = NoWord
  /\ spc[c] \in {"lookup", "send"} /\ Live(c) =>
       /\ down[c] = NoText
       /\ cpc[c] = "recv" /\ sought[c] = word[c] /\ sought[c] # NoWord
  /\ Live(c) /\ conn[c] = "open" /\ spc[c] \in {"none", "ended"} =>
       down[c] = NoText
  /\ down[c] # NoText /\ Live(c) =>
       /\ conn[c] = "open" /\ cpc[c] = "recv" /\ table[c] # None
       /\ down[c] = Answer(table[c], word[c])

Messages == \A c \in Clients : Message(c)

-----------------------------------------------------------------------------
(* Types.                                                                  *)

LEMMA DictFacts ==
  /\ NoWord \in Queries /\ NoText \in Texts /\ XXXX \in Texts
  /\ None \notin Clients /\ None \notin Queries /\ None \notin Editions
  /\ None \notin Queries \X Texts
BY DictAssumption, ClientsAssumption DEF Queries, Texts

LEMMA AnswerType ==
  ASSUME NEW e \in Editions, NEW w
  PROVE  Answer(e, w) \in Texts
BY DictAssumption DEF Answer, Texts

\* A child that is about to answer has a table.
TypeInv == TypeOK /\ \A c \in Clients : spc[c] = "send" => table[c] # None

LEMMA TypeInit == Init => TypeInv
BY DictFacts, ClientsAssumption, FS_CardinalityType DEF Init, TypeOK, TypeInv

LEMMA TypeStep ==
  ASSUME TypeInv, [Next]_vars
  PROVE  TypeInv'
<1> USE DictFacts DEF TypeInv, TypeOK, PStep, CStep, SStep, world, parent,
    sockets, client, child, Started, Serving
<1>1. CASE Replace
  BY <1>1 DEF Replace
<1>2. CASE PAccept
  <2>1. Head(backlog) \in Clients /\ Tail(backlog) \in Seq(Clients)
    BY <1>2 DEF PAccept
  <2> QED
    BY <1>2, <2>1 DEF PAccept
<1>3. CASE PFork
  BY <1>3 DEF PFork
<1>4. CASE PClose
  BY <1>4 DEF PClose, Closing
<1>5. CASE PDie
  <2>1. conn' \in [Clients -> {"none", "open", "closed", "broken", "reset"}]
    BY <1>5 DEF PDie, Closing
  <2>2. /\ ppc' = "dead" /\ cd' = None /\ backlog' = <<>>
        /\ UNCHANGED <<world, up, down, client, child>>
    BY <1>5 DEF PDie
  <2> QED
    BY <2>1, <2>2
<1>6. ASSUME NEW c \in Clients, SRecv(c) PROVE TypeInv'
  BY <1>6 DEF SRecv, Into, IntoWord
<1>7. ASSUME NEW c \in Clients, SExit(c) \/ SOpenFails(c) PROVE TypeInv'
  BY <1>7 DEF SExit, SOpenFails, SEnd, Closing
<1>8. ASSUME NEW c \in Clients, SLookup(c) PROVE TypeInv'
  BY <1>8 DEF SLookup
<1>9. ASSUME NEW c \in Clients, SSend(c) PROVE TypeInv'
  <2>1. Answer(table[c], sought[c]) \in Texts
    BY <1>9, AnswerType DEF SSend
  <2>2. down' \in [Clients -> Texts]
    BY <1>9, <2>1 DEF SSend, Into, IntoText, Texts
  <2>3. spc' \in [Clients -> Started \cup {"none"}]
        /\ \A d \in Clients : spc'[d] = "send" => spc[d] = "send"
    BY <1>9 DEF SSend
  <2>4. sought' \in [Clients -> Queries \cup {OddWord}]
    BY <1>9 DEF SSend
  <2>5. UNCHANGED <<world, parent, conn, up, client, table>>
    BY <1>9 DEF SSend
  <2> QED
    BY <2>2, <2>3, <2>4, <2>5
<1>10. ASSUME NEW c \in Clients, SSendGone(c) PROVE TypeInv'
  <2>1. CASE Kills(c) /\ spc[c] = "send" /\ SEnd(c) /\ UNCHANGED sought
    BY <1>10, <2>1 DEF SSendGone, SEnd, Closing
  <2>2. CASE /\ SStep(c, "send", "recv")
             /\ conn' = [conn EXCEPT ![c] = Broken(c)]
             /\ sought' = [sought EXCEPT ![c] = NoWord]
    BY <1>10, <2>2 DEF SSendGone, Broken
  <2> QED
    BY <1>10, <2>1, <2>2 DEF SSendGone
<1>11. ASSUME NEW c \in Clients, CAsk(c) \/ CConnect(c) \/ CRefused(c)
       PROVE  TypeInv'
  <2>1. CASE CAsk(c)
    BY <2>1 DEF CAsk
  <2>2. CASE CConnect(c)
    BY <2>2 DEF CConnect
  <2>3. CASE CRefused(c)
    BY <2>3 DEF CRefused
  <2> QED
    BY <1>11, <2>1, <2>2, <2>3
<1>12. ASSUME NEW c \in Clients, CSend(c) PROVE TypeInv'
  <2>1. /\ up' \in [Clients -> Queries \cup {OddWord}]
        /\ cpc' \in [Clients -> {"prompt", "connect", "send", "recv", "gone"}]
    BY <1>12 DEF CSend, Into, IntoWord
  <2>2. UNCHANGED <<world, parent, conn, down, word, text, shown, child>>
    BY <1>12 DEF CSend
  <2> QED
    BY <2>1, <2>2
<1>13. ASSUME NEW c \in Clients, CSendGone(c) \/ CRecvFails(c) PROVE TypeInv'
  BY <1>13 DEF CSendGone, CRecvFails, Broken
<1>14. ASSUME NEW c \in Clients, CRecv(c) PROVE TypeInv'
  <2>1. IntoText(text[c], down[c]) \in Texts
    BY DEF Into, IntoText, Texts
  <2>2. shown' \in [Clients -> (Queries \X Texts) \cup {None}]
    BY <1>14, <2>1 DEF CRecv
  <2>3. /\ text' \in [Clients -> Texts] /\ down' \in [Clients -> Texts]
        /\ word' \in [Clients -> Queries]
        /\ cpc' \in [Clients -> {"prompt", "connect", "send", "recv", "gone"}]
    BY <1>14 DEF CRecv
  <2>4. UNCHANGED <<world, parent, conn, up, child>>
    BY <1>14 DEF CRecv
  <2> QED
    BY <2>2, <2>3, <2>4
<1>15. ASSUME NEW c \in Clients, CLeave(c) PROVE TypeInv'
  <2>1. /\ conn' \in [Clients -> {"none", "open", "closed", "broken", "reset"}]
        /\ cpc' \in [Clients -> {"prompt", "connect", "send", "recv", "gone"}]
    BY <1>15 DEF CLeave, Closing
  <2>2. UNCHANGED <<world, parent, up, down, word, text, shown, child>>
    BY <1>15 DEF CLeave
  <2> QED
    BY <2>1, <2>2
<1>16. CASE UNCHANGED vars
  BY <1>16 DEF vars
<1> QED
  BY <1>1, <1>2, <1>3, <1>4, <1>5, <1>6, <1>7, <1>8, <1>9, <1>10, <1>11, <1>12,
     <1>13, <1>14, <1>15, <1>16 DEF Next, ParentStep, ChildStep, ClientStep

\* Every variable keeps its type, for any number of clients and editions.
THEOREM TypeCorrect == Spec => []TypeOK
<1>1. TypeInv => TypeOK
  BY DEF TypeInv
<1> QED
  BY <1>1, TypeInit, TypeStep, PTL DEF Spec

-----------------------------------------------------------------------------
(* Where a connection is.                                                  *)

LEMMA PlacesInit == Init => Places
BY DictFacts DEF Init, Places, Place, Distinct, Waiting, Live, Over, Serving

\* What accept() and connect() do to the backlog.
LEMMA AcceptBacklog ==
  ASSUME TypeOK, Distinct, PAccept
  PROVE  /\ Distinct' /\ cd' \in Clients
         /\ \A c \in Clients :
              /\ c \in Waiting' => c \in Waiting /\ c # cd'
              /\ c = cd' => c \in Waiting
<1> USE DEF PAccept, TypeOK, Waiting, Distinct
<1>1. /\ Len(backlog) \in Nat \ {0} /\ Head(backlog) = backlog[1]
      /\ Head(backlog) \in Clients
      /\ DOMAIN Tail(backlog) = 1 .. Len(backlog) - 1
      /\ \A i \in 1 .. Len(backlog) - 1 : Tail(backlog)[i] = backlog[i + 1]
  OBVIOUS
<1>2. \A i \in DOMAIN backlog' : /\ i + 1 \in DOMAIN backlog /\ i + 1 # 1
                                 /\ backlog'[i] = backlog[i + 1]
  BY <1>1
<1>3. cd' = backlog[1] /\ 1 \in DOMAIN backlog
  BY <1>1
<1>4. Distinct'
  <2>1. ASSUME NEW i \in DOMAIN backlog', NEW j \in DOMAIN backlog',
               backlog'[i] = backlog'[j]
        PROVE  i = j
    <3>1. i + 1 = j + 1
      BY <1>2, <2>1
    <3>2. i \in Nat /\ j \in Nat
      BY <1>1
    <3> QED
      BY <3>1, <3>2
  <2> QED
    BY <2>1
<1>5. ASSUME NEW c \in Clients, NEW i \in DOMAIN backlog', backlog'[i] = c
      PROVE  c \in Waiting /\ c # cd'
  BY <1>2, <1>3, <1>5
<1>6. ASSUME NEW c \in Clients, c = cd' PROVE c \in Waiting
  BY <1>3, <1>6
<1> QED
  BY <1>1, <1>3, <1>4, <1>5, <1>6

LEMMA ConnectBacklog ==
  ASSUME TypeOK, Distinct, NEW c \in Clients, CConnect(c), c \notin Waiting
  PROVE  Distinct' /\ \A d \in Clients : d # c => (d \in Waiting' <=> d \in Waiting)
<1> USE DEF CConnect, TypeOK, Waiting, Distinct
<1>1. /\ Len(backlog) \in Nat /\ DOMAIN backlog = 1 .. Len(backlog)
      /\ DOMAIN backlog' = 1 .. Len(backlog) + 1
      /\ backlog'[Len(backlog) + 1] = c
      /\ \A i \in DOMAIN backlog : backlog'[i] = backlog[i]
  OBVIOUS
<1>2. \A i \in DOMAIN backlog' : i \in DOMAIN backlog \/ i = Len(backlog) + 1
  BY <1>1
<1>3. \A i \in DOMAIN backlog : i \in DOMAIN backlog'
  BY <1>1
<1> QED
  BY <1>1, <1>2, <1>3

LEMMA PlacesStep ==
  ASSUME TypeInv, Places, [Next]_vars
  PROVE  Places'
<1> USE DictFacts DEF TypeInv, TypeOK, Places, Place, PStep, CStep, SStep,
    world, parent, sockets, client, child, Live, Over, Serving
<1>1. CASE Replace
  BY <1>1 DEF Replace, Distinct, Waiting
<1>2. CASE PAccept
  <2> HIDE DEF TypeInv, TypeOK, Places
  <2>1. TypeOK /\ Distinct /\ Places
    BY DEF TypeInv, Places
  <2>2. /\ Distinct' /\ cd' \in Clients
        /\ \A c \in Clients :
             /\ c \in Waiting' => c \in Waiting /\ c # cd'
             /\ c = cd' => c \in Waiting
    BY <1>2, <2>1, AcceptBacklog
  <2>3. ppc' = "fork" /\ UNCHANGED <<spc, cpc, conn>>
    BY <1>2 DEF PAccept
  <2>4. ASSUME NEW c \in Clients PROVE Place(c)'
    BY <2>1, <2>2, <2>3 DEF Places
  <2> QED
    BY <2>2, <2>3, <2>4 DEF Places
<1>3. CASE PFork
  <2>1. /\ cd \in Clients /\ ppc = "fork" /\ ppc' = "close"
        /\ spc' = [spc EXCEPT ![cd] = "recv"]
        /\ UNCHANGED <<cd, backlog, conn, cpc>>
    BY <1>3 DEF PFork
  <2> QED
    BY <2>1 DEF Distinct, Waiting
<1>4. CASE PClose
  BY <1>4 DEF PClose, Closing, Distinct, Waiting
<1>5. CASE PDie
  <2>1. /\ cd \in Clients /\ ppc = "fork" /\ ppc' = "dead" /\ cd' = None
        /\ backlog' = <<>> /\ UNCHANGED <<spc, cpc>>
    BY <1>5 DEF PDie
  <2>2. \A c \in Clients : /\ conn'[c] = "none" <=> conn[c] = "none"
                           /\ conn'[c] # conn[c] => c = cd \/ c \in Waiting
    BY <1>5 DEF PDie, Closing, Waiting
  <2>3. Distinct' /\ \A c \in Clients : c \notin Waiting'
    BY <2>1 DEF Distinct, Waiting
  <2> QED
    BY <2>1, <2>2, <2>3
<1>6. ASSUME NEW c \in Clients, SRecv(c) \/ SLookup(c) \/ SSend(c)
      PROVE  Places'
  BY <1>6 DEF SRecv, SLookup, SSend, Distinct, Waiting
<1>7. ASSUME NEW c \in Clients, SExit(c) \/ SOpenFails(c) PROVE Places'
  BY <1>7 DEF SExit, SOpenFails, SEnd, Closing, Distinct, Waiting
<1>8. ASSUME NEW c \in Clients, SSendGone(c) PROVE Places'
  BY <1>8 DEF SSendGone, SEnd, Closing, Broken, Distinct, Waiting
<1>9. ASSUME NEW c \in Clients, CAsk(c) \/ CRefused(c) PROVE Places'
  BY <1>9 DEF CAsk, CRefused, Distinct, Waiting
<1>10. ASSUME NEW c \in Clients, CConnect(c) PROVE Places'
  <2>1. c \notin Waiting /\ conn[c] = "none" /\ spc[c] = "none" /\ cd # c
    BY <1>10 DEF CConnect
  <2>2. ASSUME NEW d \in Clients PROVE Place(d)'
    BY <1>10, <2>1, ConnectBacklog DEF CConnect
  <2> QED
    BY <1>10, <2>1, <2>2, ConnectBacklog DEF CConnect
<1>11. ASSUME NEW c \in Clients, CSend(c) \/ CRecv(c) \/ CRecvFails(c)
       PROVE  Places'
  BY <1>11 DEF CSend, CRecv, CRecvFails, Distinct, Waiting
<1>12. ASSUME NEW c \in Clients, CSendGone(c) PROVE Places'
  BY <1>12 DEF CSendGone, Broken, Distinct, Waiting
<1>13. ASSUME NEW c \in Clients, CLeave(c) PROVE Places'
  BY <1>13 DEF CLeave, Closing, Distinct, Waiting
<1>14. CASE UNCHANGED vars
  BY <1>14 DEF vars, Distinct, Waiting
<1> QED
  BY <1>1, <1>2, <1>3, <1>4, <1>5, <1>6, <1>7, <1>8, <1>9, <1>10, <1>11, <1>12,
     <1>13, <1>14 DEF Next, ParentStep, ChildStep, ClientStep

-----------------------------------------------------------------------------
(* What is under way, and what is shown.                                   *)

LEMMA MessagesInit == Init => Messages /\ AnswersRight
BY DictFacts DEF Init, Messages, Message, AnswersRight, Live

LEMMA IntoNothing ==
  \A b : IntoWord(NoWord, b) = b /\ IntoText(NoText, b) = b
BY DEF IntoWord, IntoText, Into

LEMMA MessagesStep ==
  ASSUME TypeInv, Places, Messages, [Next]_vars
  PROVE  Messages'
<1> USE DictFacts DEF TypeInv, TypeOK, Messages, Message, PStep, CStep, SStep,
    world, parent, sockets, client, child, Live, Serving
<1>1. CASE Replace
  BY <1>1 DEF Replace
<1>2. CASE PAccept
  BY <1>2 DEF PAccept
<1>3. CASE PFork
  <2>1. /\ cd \in Clients /\ spc[cd] = "none"
        /\ spc' = [spc EXCEPT ![cd] = "recv"]
        /\ UNCHANGED <<sockets, client, sought, table>>
    BY <1>3 DEF PFork, Places, Place
  <2> QED
    BY <2>1
<1>4. CASE PClose \/ PDie
  <2>1. ASSUME NEW c \in Clients
        PROVE  \/ conn'[c] = conn[c]
               \/ /\ conn[c] = "open" /\ spc[c] \in {"none", "ended"}
                  /\ \/ conn'[c] = "reset"
                     \/ conn'[c] = "closed" /\ up[c] = NoWord
    <3>1. cd \in Clients /\ (ppc = "fork" => spc[cd] = "none")
          /\ (c \in Waiting => spc[c] = "none")
      BY <1>4 DEF PClose, PDie, Places, Place
    <3> QED
      BY <1>4, <3>1 DEF PClose, PDie, Closing, Waiting, Started
  <2>2. UNCHANGED <<up, down, client, child>>
    BY <1>4 DEF PClose, PDie
  <2>3. ASSUME NEW c \in Clients PROVE Message(c)'
    BY <2>1, <2>2
  <2> QED
    BY <2>3
<1>5. ASSUME NEW c \in Clients, SRecv(c) PROVE Messages'
  <2>1. Live(c) => up[c] # NoWord
    BY <1>5 DEF SRecv, Places, Place, Over
  <2>2. /\ sought' = [sought EXCEPT ![c] = up[c]]
        /\ up' = [up EXCEPT ![c] = NoWord]
        /\ spc' = [spc EXCEPT ![c] = "lookup"]
        /\ spc[c] = "recv"
        /\ UNCHANGED <<conn, down, client, table>>
    BY <1>5, IntoNothing DEF SRecv
  <2> QED
    BY <2>1, <2>2
<1>6. ASSUME NEW c \in Clients, SExit(c) PROVE Messages'
  BY <1>6 DEF SExit, SEnd, Closing
<1>7. ASSUME NEW c \in Clients, SOpenFails(c) PROVE Messages'
  BY <1>7 DEF SOpenFails, SEnd, Closing
<1>8. ASSUME NEW c \in Clients, SLookup(c) PROVE Messages'
  BY <1>8 DEF SLookup
<1>9. ASSUME NEW c \in Clients, SSend(c) PROVE Messages'
  <2>1. /\ spc[c] = "send" /\ conn[c] = "open" /\ table[c] # None
        /\ Live(c) =>
             /\ down'[c] = Answer(table[c], word[c])
             /\ cpc[c] = "recv"
        /\ up[c] = NoWord
    BY <1>9, IntoNothing DEF SSend
  <2>2. /\ sought' = [sought EXCEPT ![c] = NoWord]
        /\ spc' = [spc EXCEPT ![c] = "recv"]
        /\ \A d \in Clients : d # c => down'[d] = down[d]
        /\ UNCHANGED <<conn, up, client, table>>
    BY <1>9 DEF SSend
  <2> QED
    BY <2>1, <2>2
<1>10. ASSUME NEW c \in Clients, SSendGone(c) PROVE Messages'
  <2>1. spc[c] = "send" /\ conn[c] # "open" /\ ~Live(c)
    BY <1>10 DEF SSendGone, Places, Place, Over
  <2>2. /\ \A d \in Clients : d # c =>
             /\ sought'[d] = sought[d] /\ spc'[d] = spc[d]
             /\ conn'[d] = conn[d]
        /\ sought'[c] = NoWord \/ spc'[c] = "ended"
        /\ spc'[c] \in {"recv", "ended"}
        /\ UNCHANGED <<up, down, client, table>>
    BY <1>10 DEF SSendGone, SEnd
  <2> QED
    BY <2>1, <2>2
<1>11. ASSUME NEW c \in Clients, CAsk(c) PROVE Messages'
  BY <1>11 DEF CAsk
<1>12. ASSUME NEW c \in Clients, CConnect(c) \/ CRefused(c) PROVE Messages'
  BY <1>12 DEF CConnect, CRefused
<1>13. ASSUME NEW c \in Clients, CSend(c) PROVE Messages'
  <2>1. /\ up' = [up EXCEPT ![c] = word[c]] /\ cpc[c] = "send"
        /\ cpc' = [cpc EXCEPT ![c] = "recv"] /\ conn[c] = "open"
        /\ UNCHANGED <<conn, down, word, text, shown, child>>
    BY <1>13, IntoNothing DEF CSend
  <2> QED
    BY <2>1
<1>14. ASSUME NEW c \in Clients, CSendGone(c) PROVE Messages'
  BY <1>14 DEF CSendGone, Broken
<1>15. ASSUME NEW c \in Clients, CRecv(c) PROVE Messages'
  <2>1. /\ cpc[c] = "recv" /\ up[c] = NoWord /\ spc[c] \notin {"lookup", "send"}
    BY <1>15 DEF CRecv, Places, Place, Over
  <2>2. /\ cpc' = [cpc EXCEPT ![c] = "prompt"]
        /\ word' = [word EXCEPT ![c] = NoWord]
        /\ text' = [text EXCEPT ![c] = NoText]
        /\ down' = [down EXCEPT ![c] = NoText]
        /\ UNCHANGED <<conn, up, child>>
    BY <1>15 DEF CRecv
  <2> QED
    BY <2>1, <2>2
<1>16. ASSUME NEW c \in Clients, CRecvFails(c) PROVE Messages'
  BY <1>16 DEF CRecvFails
<1>17. ASSUME NEW c \in Clients, CLeave(c) PROVE Messages'
  BY <1>17 DEF CLeave, Closing
<1>18. CASE UNCHANGED vars
  BY <1>18 DEF vars
<1> QED
  BY <1>1, <1>2, <1>3, <1>4, <1>5, <1>6, <1>7, <1>8, <1>9, <1>10, <1>11, <1>12,
     <1>13, <1>14, <1>15, <1>16, <1>17, <1>18
  DEF Next, ParentStep, ChildStep, ClientStep

\* What a client reads is the answer to its question, or the end of the
\* stream when nobody is left.
LEMMA Reading ==
  ASSUME TypeInv, Places, Messages, NEW c \in Clients, CRecv(c)
  PROVE  /\ shown' = [shown EXCEPT ![c] = <<word[c], down[c]>>]
         /\ \/ /\ ~Over(c) /\ table[c] # None
               /\ down[c] = Answer(table[c], word[c])
            \/ conn[c] \in {"closed", "broken"} /\ down[c] = NoText
<1>1. /\ cpc[c] = "recv" /\ conn[c] # "none" /\ text[c] = NoText
      /\ conn[c] # "reset" /\ (down[c] # NoText \/ conn[c] # "open")
      /\ shown' = [shown EXCEPT ![c] = <<word[c], IntoText(text[c], down[c])>>]
  BY DEF CRecv, CStep, Places, Place, Messages, Message
<1>2. IntoText(text[c], down[c]) = down[c]
  BY <1>1, IntoNothing
<1> QED
  BY <1>1, <1>2 DEF TypeInv, TypeOK, Messages, Message, Live, Over

LEMMA AnswersStep ==
  ASSUME TypeInv, Places, Messages, AnswersRight, [Next]_vars
  PROVE  AnswersRight'
<1> USE DictFacts DEF AnswersRight
<1>1. ASSUME NEW c \in Clients, CRecv(c) PROVE AnswersRight'
  <2>1. UNCHANGED <<conn, table>>
    BY <1>1 DEF CRecv, child
  <2>2. ASSUME NEW d \in Clients, d # c PROVE shown'[d] = shown[d]
    BY <1>1, <2>2, Reading DEF TypeInv, TypeOK
  <2>3. shown'[c] = <<word[c], down[c]>>
    BY <1>1, Reading DEF TypeInv, TypeOK
  <2> QED
    BY <1>1, <2>1, <2>2, <2>3, Reading
<1>2. ASSUME NEW c \in Clients, SLookup(c) PROVE AnswersRight'
  <2>1. /\ UNCHANGED <<conn, shown>>
        /\ \A d \in Clients : table[d] # None => table'[d] = table[d]
    BY <1>2 DEF SLookup, sockets, client, TypeInv, TypeOK
  <2> QED
    BY <2>1
<1>3. ASSUME UNCHANGED <<shown, table>>,
             \A c \in Clients : conn[c] \in {"closed", "broken"} =>
                               conn'[c] \in {"closed", "broken"}
      PROVE  AnswersRight'
  BY <1>3
<1> HIDE DEF AnswersRight
<1>4. CASE \/ Replace \/ PAccept \/ PFork \/ UNCHANGED vars
           \/ \E c \in Clients :
                \/ SRecv(c) \/ SSend(c) \/ CAsk(c) \/ CRefused(c)
                \/ CSend(c) \/ CRecvFails(c)
  BY <1>3, <1>4 DEF Replace, PAccept, PFork, SRecv, SSend, CAsk, CRefused, CSend,
     CRecvFails, vars, sockets, client, child
<1>5. CASE PClose \/ PDie
  BY <1>3, <1>5 DEF PClose, PDie, Closing, client, child, TypeInv, TypeOK
<1>6. ASSUME NEW c \in Clients,
             SExit(c) \/ SOpenFails(c) \/ SSendGone(c) \/ CLeave(c)
             \/ CSendGone(c) \/ CConnect(c)
      PROVE  AnswersRight'
  <2>1. UNCHANGED <<shown, table>>
    BY <1>6 DEF SExit, SOpenFails, SSendGone, CLeave, CSendGone, CConnect, client,
       child
  <2>2. \A d \in Clients : conn[d] \in {"closed", "broken"} =>
                           conn'[d] \in {"closed", "broken"}
    BY <1>6 DEF SExit, SOpenFails, SSendGone, CLeave, CSendGone, CConnect, SEnd,
       Closing, Broken, CStep, Places, Place, TypeInv, TypeOK
  <2> QED
    BY <1>3, <2>1, <2>2
<1> QED
  BY <1>1, <1>2, <1>4, <1>5, <1>6 DEF Next, ParentStep, ChildStep, ClientStep

IInv == TypeInv /\ Places /\ Messages /\ AnswersRight

LEMMA Invariance == Spec => []IInv
<1>1. Init => IInv
  BY TypeInit, PlacesInit, MessagesInit DEF IInv
<1>2. IInv /\ [Next]_vars => IInv'
  BY TypeStep, PlacesStep, MessagesStep, AnswersStep DEF IInv
<1> QED
  BY <1>1, <1>2, PTL DEF Spec

\* Whatever a client prints is what one edition says of the word it asked,
\* or nothing, once nobody is left to answer.
THEOREM Answers == Spec => []AnswersRight
BY Invariance, PTL DEF IInv

-----------------------------------------------------------------------------
(* The refinement.                                                         *)

\* What the mapping makes of the variables.
Asked == [c \in Clients |-> IF cpc[c] \in {"connect", "send", "recv"}
                            THEN word[c] ELSE None]
Ended == {c \in Clients : conn[c] \in {"closed", "broken", "reset"}}

LEMMA AbstractInit == Init => Abstract!Init
<1> SUFFICES ASSUME Init PROVE Abstract!Init
  OBVIOUS
<1>1. Asked = [c \in Clients |-> None]
  BY DEF Init, Asked
<1>2. Ended = {}
  BY DEF Init, Ended
<1> QED
  BY <1>1, <1>2 DEF Init, Abstract!Init, Asked, Ended

\* A step of the program asks, opens, shows, breaks off, leaves, or changes
\* nothing that the service knows of.
LEMMA AbstractStep ==
  ASSUME TypeInv, Places, Messages, [Next]_vars
  PROVE  [Abstract!Next]_(Abstract!vars)
<1> USE DictFacts DEF TypeInv, TypeOK, CStep, SStep, world, parent, sockets,
    client, child
<1>a. ASSUME UNCHANGED <<cpc, word, conn, table, shown>>
      PROVE  UNCHANGED Abstract!vars
  BY <1>a DEF Abstract!vars
<1>b. ASSUME UNCHANGED <<cpc, word, table, shown>>,
             Ended \subseteq Ended'
      PROVE  Abstract!Break
  <2>1. Ended' \in SUBSET Clients
    BY DEF Ended
  <2> QED
    BY <1>b, <2>1 DEF Abstract!Break, Ended
<1>c. ASSUME NEW c \in Clients, cpc' = [cpc EXCEPT ![c] = "gone"],
             UNCHANGED <<word, table, shown>>,
             \A d \in Clients : d # c => conn'[d] = conn[d],
             c \in Ended => c \in Ended'
      PROVE  Abstract!Leave(c)
  <2>1. Asked' = [Asked EXCEPT ![c] = None]
    BY <1>c DEF Asked
  <2>2. Ended' = Ended \/ Ended' = Ended \cup {c}
    <3>1. \A d \in Clients : d # c => (d \in Ended' <=> d \in Ended)
      BY <1>c DEF Ended
    <3>2. CASE c \in Ended'
      BY <3>1, <3>2 DEF Ended
    <3>3. CASE c \notin Ended'
      BY <1>c, <3>1, <3>3 DEF Ended
    <3> QED
      BY <3>2, <3>3
  <2> QED
    BY <1>c, <2>1, <2>2 DEF Abstract!Leave, Asked, Ended
<1>1. CASE Replace \/ PAccept \/ PFork \/ UNCHANGED vars
  BY <1>1, <1>a DEF Replace, PAccept, PFork, vars
<1>2. CASE PClose \/ PDie
  BY <1>2, <1>b DEF PClose, PDie, Closing, Ended, Abstract!Next
<1>3. ASSUME NEW c \in Clients, SRecv(c) \/ SSend(c)
      PROVE  [Abstract!Next]_(Abstract!vars)
  BY <1>3, <1>a DEF SRecv, SSend
<1>4. ASSUME NEW c \in Clients, SExit(c) \/ SOpenFails(c) \/ SSendGone(c)
      PROVE  [Abstract!Next]_(Abstract!vars)
  <2>1. UNCHANGED <<cpc, word, table, shown>>
    BY <1>4 DEF SExit, SOpenFails, SSendGone
  <2>2. Ended \subseteq Ended'
    BY <1>4 DEF SExit, SOpenFails, SSendGone, SEnd, Closing, Broken, Ended
  <2> QED
    BY <1>b, <2>1, <2>2 DEF Abstract!Next
<1>5. ASSUME NEW c \in Clients, SLookup(c)
      PROVE  [Abstract!Next]_(Abstract!vars)
  <2>1. CASE table[c] = None
    <3>1. /\ file \in Editions /\ table' = [table EXCEPT ![c] = file]
          /\ UNCHANGED <<cpc, word, conn, shown>>
      BY <1>5, <2>1 DEF SLookup
    <3>2. Abstract!Open(c)
      BY <2>1, <3>1 DEF Abstract!Open
    <3> QED
      BY <3>2 DEF Abstract!Next
  <2>2. CASE table[c] # None
    <3>1. table' = table
      BY <1>5, <2>2 DEF SLookup
    <3> QED
      BY <1>5, <3>1, <1>a DEF SLookup
  <2> QED
    BY <2>1, <2>2
<1>6. ASSUME NEW c \in Clients, CAsk(c)
      PROVE  [Abstract!Next]_(Abstract!vars)
  <2>1. PICK w \in Queries : word' = [word EXCEPT ![c] = w]
    BY <1>6 DEF CAsk
  <2>2. /\ cpc[c] = "prompt" /\ cpc'[c] \in {"connect", "send"}
        /\ \A d \in Clients : d # c => cpc'[d] = cpc[d]
        /\ UNCHANGED <<conn, table, shown>>
    BY <1>6 DEF CAsk
  <2>3. Asked[c] = None /\ Asked' = [Asked EXCEPT ![c] = w]
    <3>1. word'[c] = w /\ \A d \in Clients : d # c => word'[d] = word[d]
      BY <2>1
    <3>2. \A d \in Clients : Asked'[d] = IF d = c THEN w ELSE Asked[d]
      BY <2>2, <3>1 DEF Asked
    <3> QED
      BY <2>2, <3>2 DEF Asked
  <2>4. Abstract!Ask(c)
    BY <2>2, <2>3 DEF Abstract!Ask, Asked
  <2> QED
    BY <2>4 DEF Abstract!Next
<1>7. ASSUME NEW c \in Clients, CConnect(c)
      PROVE  [Abstract!Next]_(Abstract!vars)
  <2>1. /\ cpc[c] = "connect" /\ cpc' = [cpc EXCEPT ![c] = "send"]
        /\ conn[c] = "none" /\ conn' = [conn EXCEPT ![c] = "open"]
        /\ UNCHANGED <<word, table, shown>>
    BY <1>7 DEF CConnect, Places, Place
  <2>2. Asked' = Asked /\ Ended' = Ended
    BY <2>1 DEF Asked, Ended
  <2> QED
    BY <2>1, <2>2 DEF Abstract!vars, Asked, Ended
<1>8. ASSUME NEW c \in Clients, CSend(c)
      PROVE  [Abstract!Next]_(Abstract!vars)
  <2>1. /\ cpc[c] = "send" /\ cpc' = [cpc EXCEPT ![c] = "recv"]
        /\ UNCHANGED <<conn, word, table, shown>>
    BY <1>8 DEF CSend
  <2>2. Asked' = Asked
    BY <2>1 DEF Asked
  <2> QED
    BY <2>1, <2>2 DEF Abstract!vars, Asked
<1>9. ASSUME NEW c \in Clients, CSendGone(c)
      PROVE  [Abstract!Next]_(Abstract!vars)
  <2>1. /\ cpc[c] = "send" /\ UNCHANGED <<word, table, shown>>
        /\ \/ cpc' = [cpc EXCEPT ![c] = "gone"]
           \/ cpc' = [cpc EXCEPT ![c] = "recv"]
    BY <1>9 DEF CSendGone
  <2>2. /\ Ended' = Ended /\ \A d \in Clients : d # c => conn'[d] = conn[d]
    BY <1>9 DEF CSendGone, Broken, Ended
  <2>3. CASE cpc' = [cpc EXCEPT ![c] = "gone"]
    BY <1>c, <2>1, <2>2, <2>3 DEF Abstract!Next
  <2>4. CASE cpc' = [cpc EXCEPT ![c] = "recv"]
    <3>1. Asked' = Asked
      BY <2>1, <2>4 DEF Asked
    <3> QED
      BY <2>1, <2>2, <3>1 DEF Abstract!vars, Asked, Ended
  <2> QED
    BY <2>1, <2>3, <2>4
<1>10. ASSUME NEW c \in Clients, CRecv(c)
       PROVE  [Abstract!Next]_(Abstract!vars)
  <2>1. /\ cpc[c] = "recv" /\ cpc' = [cpc EXCEPT ![c] = "prompt"]
        /\ \A d \in Clients : d # c => word'[d] = word[d]
        /\ UNCHANGED <<conn, table>>
    BY <1>10 DEF CRecv
  <2>2. Asked[c] = word[c] /\ Asked' = [Asked EXCEPT ![c] = None]
    <3>1. /\ Asked[c] = word[c]
          /\ \A d \in Clients : Asked'[d] = IF d = c THEN None ELSE Asked[d]
      <4>1. cpc'[c] = "prompt" /\ \A d \in Clients : d # c => cpc'[d] = cpc[d]
        BY <2>1 DEF TypeInv, TypeOK
      <4> QED
        BY <2>1, <4>1 DEF Asked
    <3> QED
      BY <3>1 DEF Asked
  <2>3. shown' = [shown EXCEPT ![c] = <<Asked[c], down[c]>>]
        /\ \/ c \notin Ended /\ table[c] # None
              /\ down[c] = Answer(table[c], Asked[c])
           \/ c \in Ended /\ down[c] = NoText
    BY <1>10, <2>2, Reading DEF Ended, Over
  <2>4. Abstract!Show(c)
    <3>1. Asked[c] # None
      BY <2>2
    <3>2. CASE c \notin Ended
      BY <2>1, <2>2, <2>3, <3>1, <3>2 DEF Abstract!Show, Asked, Ended
    <3>3. CASE c \in Ended
      BY <2>1, <2>2, <2>3, <3>1, <3>3 DEF Abstract!Show, Asked, Ended
    <3> QED
      BY <3>2, <3>3
  <2> QED
    BY <2>4 DEF Abstract!Next
<1>11. ASSUME NEW c \in Clients, CRefused(c) \/ CRecvFails(c) \/ CLeave(c)
       PROVE  [Abstract!Next]_(Abstract!vars)
  <2>1. /\ cpc' = [cpc EXCEPT ![c] = "gone"] /\ UNCHANGED <<word, table, shown>>
        /\ \A d \in Clients : d # c => conn'[d] = conn[d]
    BY <1>11 DEF CRefused, CRecvFails, CLeave
  <2>2. c \in Ended => c \in Ended'
    BY <1>11 DEF CRefused, CRecvFails, CLeave, Closing, Ended
  <2> QED
    BY <1>c, <2>1, <2>2 DEF Abstract!Next
<1> QED
  BY <1>1, <1>2, <1>3, <1>4, <1>5, <1>6, <1>7, <1>8, <1>9, <1>10, <1>11
  DEF Next, ParentStep, ChildStep, ClientStep

\* To its clients the program is the service, whatever their number.
THEOREM Implementation == Spec => ImplementsService
<1>1. IInv /\ [Next]_vars => [Abstract!Next]_(Abstract!vars)
  BY AbstractStep DEF IInv
<1> QED
  BY <1>1, AbstractInit, Invariance, PTL DEF Spec, ImplementsService, Abstract!Spec

=============================================================================
