------------------------------ MODULE DictFile ------------------------------
(***************************************************************************)
(* SP_HW4/part3: convert turns a text file into a datafile of records of   *)
(* one size, and file_lookup searches it from its start, word after word.  *)
(* A line of the text file is a word, a line of a definition, or blank;    *)
(* any line may stand in any place.  Lines fit the fields of a record.     *)
(***************************************************************************)
EXTENDS Integers, Sequences, FiniteSetsExt, SequencesExt

CONSTANTS
  Lines,    \* the lines of text, the blank one aside
  MaxLines  \* bound on the text file

VARIABLES
  step,     \* the next step of the program that runs
  text,     \* the text file
  rest,     \* what convert has not read of it
  datafile, \* the records
  present,  \* the datafile exists
  in,       \* lookup()'s static FILE *: "first_time", "open" or "NULL"
  shown     \* the last word, result and text printed

vars == <<step, text, rest, datafile, present, in, shown>>

Blank == ""
Garbage == <<"uninitialised">>
AllLines == Lines \cup {Blank}

\* The definition ends at the first blank line after the word.
Ends(f) == {i \in 2..Len(f) : f[i] = Blank}

\* What printf("%s") shows of a text: each line is stored with its
\* terminator, so the first one ends the string.
Printed(lines) == IF lines = <<>> THEN lines ELSE <<lines[1]>>

\* A slip: the search compares the text as it does the word.
HoldsAnywhere(record, w) == record.word = w \/ Contains(record.text, w)

\* strcmp() with the word and its newline: an empty line is a word too.
Holds(record, w) == record.word = w

-----------------------------------------------------------------------------
Init ==
  /\ step = "start"
  /\ text = <<>> /\ rest = <<>> /\ datafile = <<>> /\ present = FALSE
  /\ in = "first_time"
  /\ shown = <<>>

\* convert is run, or it is not and there is no datafile.
Start ==
  /\ step = "start"
  /\ \/ /\ step' = "convert"
        /\ text' \in SeqOf(AllLines, MaxLines)
        /\ present' = TRUE
     \/ /\ step' = "lookup"
        /\ UNCHANGED <<text, present>>
  /\ rest' = text'
  /\ UNCHANGED <<datafile, in, shown>>

\* A slip: the line that ends the definition is read as the next word.
ConvertEntryStays ==
  /\ step = "convert" /\ Ends(rest) # {}
  /\ LET end == Min(Ends(rest)) IN
       /\ datafile' = Append(datafile, [word |-> rest[1],
                                        text |-> SubSeq(rest, 2, end - 1)])
       /\ rest' = SubSeq(rest, end, Len(rest))
  /\ UNCHANGED <<step, text, present, in, shown>>

\* One turn of the reading loop: a word, its definition, and the record.
ConvertEntry ==
  /\ step = "convert" /\ Ends(rest) # {}
  /\ LET end == Min(Ends(rest)) IN
       /\ datafile' = Append(datafile, [word |-> rest[1],
                                        text |-> SubSeq(rest, 2, end - 1)])
       /\ rest' = SubSeq(rest, end + 1, Len(rest))
  /\ UNCHANGED <<step, text, present, in, shown>>

\* The end of the file comes before a blank line: nothing is written.
ConvertEnds ==
  /\ step = "convert" /\ Ends(rest) = {}
  /\ step' = "lookup"
  /\ UNCHANGED <<text, rest, datafile, present, in, shown>>

\* The search from the top of the file.
Search(w) ==
  LET found == {i \in DOMAIN datafile : Holds(datafile[i], w)} IN
    IF found = {} THEN <<w, "NOTFOUND", <<>>>>
    ELSE <<w, "FOUND", Printed(datafile[Min(found)].text)>>

Lookup(w) ==
  /\ step = "lookup" /\ present /\ in # "NULL"
  /\ in' = "open"
  /\ shown' = Search(w)
  /\ UNCHANGED <<step, text, rest, datafile, present>>

\* fopen() fails: lookup() returns 0, which is FOUND.
LookupNoFile(w) ==
  /\ step = "lookup" /\ ~present /\ in = "first_time"
  /\ in' = "NULL"
  /\ shown' = <<w, "FOUND", Garbage>>
  /\ UNCHANGED <<step, text, rest, datafile, present>>

\* rewind(NULL) at the lookup after.
LookupCrash ==
  /\ step = "lookup" /\ in = "NULL"
  /\ step' = "crashed"
  /\ UNCHANGED <<text, rest, datafile, present, in, shown>>

Next ==
  \/ Start \/ ConvertEntry \/ ConvertEnds \/ LookupCrash
  \/ \E w \in AllLines : Lookup(w) \/ LookupNoFile(w)

Spec == Init /\ [][Next]_vars

-----------------------------------------------------------------------------
(* The text file is "in the form" of convert.c's comment, but for the last *)
(* blank line: entries with one blank line between them.                   *)
InForm == \A i \in DOMAIN text : text[i] = Blank => i > 1 /\ text[i - 1] # Blank

\* The entries: the line of the word and that of the blank line after it.
Entries ==
  {e \in (DOMAIN text) \X (DOMAIN text) :
     /\ e[1] < e[2] /\ text[e[2]] = Blank
     /\ e[1] = 1 \/ text[e[1] - 1] = Blank
     /\ \A i \in e[1] .. e[2] - 1 : text[i] # Blank}
Named(w) == {e \in Entries : text[e[1]] = w}
First(es) == CHOOSE e \in es : \A d \in es : e[1] <= d[1]
Definition(e) == SubSeq(text, e[1] + 1, e[2] - 1)

\* file_lookup finds just the words that begin an entry followed by a blank
\* line, wherever else the word may stand, and prints the first line of the
\* first entry it has; a last entry without its blank line is not found.
LookupRight ==
  present /\ InForm /\ shown # <<>> =>
    LET w == shown[1] IN
      shown = IF Named(w) = {} THEN <<w, "NOTFOUND", <<>>>>
              ELSE <<w, "FOUND", Printed(Definition(First(Named(w))))>>

\* "multiline definition of word1 stretching over several lines"
\* (convert.c:4): what is printed of a word that is found is all of its
\* definition.
WholeDefinitionShown ==
  present /\ InForm /\ shown # <<>> /\ shown[2] = "FOUND" =>
    shown[3] = Definition(First(Named(shown[1])))
=============================================================================
