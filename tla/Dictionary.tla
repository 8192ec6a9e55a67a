----------------------------- MODULE Dictionary -----------------------------
(***************************************************************************)
(* SP_HW11: what the dictionary programs have in common, words and texts   *)
(* in memory and on their way, and the lookup in a datafile.               *)
(***************************************************************************)
EXTENDS Integers

CONSTANTS
  Words,    \* the words that users type, the empty line aside
  Editions, \* the datafiles, one after the other, that have the name
  Listed,   \* the words in each of them
  None      \* no client, no edition, nothing shown

\* A text is what an edition says of a word, or one of these three.
NoText == <<"", 0>>
XXXX == <<"XXXX", 0>>
OddText == <<"tail of a longer text", 0>>

\* A word, nothing, and a word that continues with the tail of another.
NoWord == ""
OddWord == "tail of a longer word"

Queries == Words \cup {NoWord}
Texts == {t \in Words \X Editions : t[1] \in Listed[t[2]]}
         \cup {NoText, XXXX, OddText}

ASSUME DictAssumption ==
  /\ Editions \subseteq Nat \ {0}
  /\ {NoWord, OddWord} \cap Words = {}
  /\ None \notin Words \cup {NoWord} /\ None \notin Editions
  /\ None \notin Queries \X Texts
  /\ Listed \in [Editions -> SUBSET Words]

\* What is in a socket after a send(), or in memory after a recv().
Into(old, new, none, odd) == IF old = none THEN new
                             ELSE IF new = none THEN old ELSE odd
IntoWord(old, new) == Into(old, new, NoWord, OddWord)
IntoText(old, new) == Into(old, new, NoText, OddText)

\* bsearch() in a table whose words are in order.
Answer(e, w) == IF w \in Listed[e] THEN <<w, e>> ELSE XXXX
=============================================================================
