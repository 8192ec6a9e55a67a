---------------------------- MODULE DictService ----------------------------
(***************************************************************************)
(* What the dictionary services of SP_HW11 promise a client, with no       *)
(* socket in sight.  A client asks one word at a time and is shown what    *)
(* the dictionary says of it, or that it is not there.  All its answers    *)
(* come from one edition of the dictionary, the one its book was opened    *)
(* at.  Once the service has broken off, it is shown no answer any more.   *)
(***************************************************************************)
EXTENDS Integers

CONSTANTS
  Clients,
  Queries,     \* what a client may ask
  Editions,    \* the editions of the dictionary
  None,        \* no edition, no question, nothing shown
  Empty,       \* the text shown when there is no answer
  Answer(_, _) \* what an edition says of a word

VARIABLES
  asked, \* the word each client waits for
  book,  \* the edition its answers come from
  over,  \* the clients with whom the service has broken off
  shown  \* the last word and text shown

vars == <<asked, book, over, shown>>

Init ==
  /\ asked = [c \in Clients |-> None]
  /\ book = [c \in Clients |-> None]
  /\ over = {}
  /\ shown = [c \in Clients |-> None]

Ask(c) ==
  /\ asked[c] = None
  /\ \E w \in Queries : asked' = [asked EXCEPT ![c] = w]
  /\ UNCHANGED <<book, over, shown>>

Open(c) ==
  /\ book[c] = None
  /\ \E e \in Editions : book' = [book EXCEPT ![c] = e]
  /\ UNCHANGED <<asked, over, shown>>

Show(c) ==
  /\ asked[c] # None
  /\ \/ /\ c \notin over /\ book[c] # None
        /\ shown' = [shown EXCEPT ![c] = <<asked[c], Answer(book[c], asked[c])>>]
     \/ /\ c \in over
        /\ shown' = [shown EXCEPT ![c] = <<asked[c], Empty>>]
  /\ asked' = [asked EXCEPT ![c] = None]
  /\ UNCHANGED <<book, over>>

\* The service breaks off, for any number of clients at once.
Break ==
  /\ over' \in SUBSET Clients /\ over \subseteq over'
  /\ UNCHANGED <<asked, book, shown>>

\* The client goes, with or without its answer.
Leave(c) ==
  /\ asked' = [asked EXCEPT ![c] = None]
  /\ over' \in {over, over \cup {c}}
  /\ UNCHANGED <<book, shown>>

Next ==
  \/ Break
  \/ \E c \in Clients : Ask(c) \/ Open(c) \/ Show(c) \/ Leave(c)

Spec == Init /\ [][Next]_vars
=============================================================================
