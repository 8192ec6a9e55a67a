---------------------------- MODULE ProcessTree ----------------------------
(***************************************************************************)
(* SP_HW3/hw3_part2: a tree of the processes that /proc lists.  The names  *)
(* are read first, then the status file of each; meanwhile processes end,  *)
(* and their children become init's.  Then each row is hung under the row  *)
(* of its father among the rows before it, and the tree is printed from    *)
(* the first row, with the second row made the sibling of the first, by a  *)
(* function that calls itself for a row's child and then its sibling.      *)
(***************************************************************************)
EXTENDS Integers, Sequences, FiniteSetsExt, SequencesExt

CONSTANTS
  MaxPid,   \* process numbers are 1..MaxPid
  MaxDeaths \* bound: how many processes end during the scan

VARIABLES
  step,     \* the program's next step
  father,   \* the processes, each with the number of its father
  deaths,   \* history: how many processes have ended
  names,    \* the names in /proc that have not been looked at yet
  rows,     \* pn: pid and ppid
  call,     \* the row that traversal() is called with, or 0: it returns
  stack,    \* the calls that are at their row's child
  count,    \* the static count
  tree      \* what is printed: the index in rows, and the indentation

traversal == <<call, stack, count, tree>>
vars == <<step, father, deaths, names, rows, traversal>>

\* Process 1 has no father, nor has 2, the kernel's thread, unless this is a
\* name space of its own.  Process numbers are used again: a father may have
\* a greater number than its child.
Families ==
  LET Forest(f, S) == \A C \in SUBSET S \ {{}} : \E p \in C : f[p] \notin C IN
  UNION {{f \in [{1, 2} \cup S -> 0..MaxPid] :
            /\ f[1] = 0 /\ f[2] \in {0, 1}
            /\ \A p \in S : f[p] \in DOMAIN f
            /\ Forest(f, S)} : S \in SUBSET (3..MaxPid)}

-----------------------------------------------------------------------------
(* The tree.  A process_node is its index in rows, and NULL is 0.          *)

Largest(S) == IF S = {} THEN 0 ELSE Max(S)

\* A slip: the search looks at all rows.
FatherRowAny(j) == Largest({k \in DOMAIN rows : rows[k].pid = rows[j].ppid})

\* The row of the father: the search goes down from the row before.
FatherRow(j) == Largest({k \in 1..j - 1 : rows[k].pid = rows[j].ppid})

\* The rows are hung in descending order, each after its siblings.
Child(k) == Largest({j \in DOMAIN rows : FatherRow(j) = k})

\* The rows without a father are nobody's siblings, except by the line
\* pn[0].sibling = &pn[1].
Sibling(j) ==
  IF j = 1 THEN 2
  ELSE Largest({i \in 1..j - 1 : FatherRow(j) # 0 /\ FatherRow(i) = FatherRow(j)})

-----------------------------------------------------------------------------
Init ==
  /\ step = "start"
  /\ father = <<>> /\ deaths = 0
  /\ names = {} /\ rows = <<>>
  /\ call = 0 /\ stack = <<>> /\ count = 1 /\ tree = <<>>

\* opendir() and the names, which come in one read.
Start ==
  /\ step = "start" /\ step' = "scan"
  /\ father' \in Families
  /\ names' = DOMAIN father'
  /\ UNCHANGED <<deaths, rows, traversal>>

\* readdir() gives the names in ascending order.
Entry == Min(names)
ReadRow(ppid) ==
  /\ names' = names \ {Entry}
  /\ rows' = Append(rows, [pid |-> Entry, ppid |-> ppid])

\* The status file of the next process.
ReadProcess ==
  /\ step = "scan" /\ names # {} /\ Entry \in DOMAIN father
  /\ ReadRow(father[Entry])
  /\ UNCHANGED <<step, father, deaths, traversal>>

\* fopen() fails: main() returns.
ReadFails ==
  /\ step = "scan" /\ names # {} /\ Entry \notin DOMAIN father
  /\ step' = "ended"
  /\ UNCHANGED <<father, deaths, names, rows, traversal>>

\* A process ends; its children become init's.
Ends(p) ==
  /\ deaths < MaxDeaths
  /\ p \in DOMAIN father \ {1, 2}
  /\ deaths' = deaths + 1
  /\ father' = [q \in DOMAIN father \ {p} |->
                  IF father[q] = p THEN 1 ELSE father[q]]

ProcessEnds(p) ==
  /\ step = "scan"
  /\ Ends(p)
  /\ UNCHANGED <<step, names, rows, traversal>>

\* The process ends between fopen() and getline(): ppid is what the memory
\* from realloc() held.
ReadDying ==
  /\ step = "scan" /\ names # {}
  /\ Ends(Entry)
  /\ \E odd \in 0..MaxPid : ReadRow(odd)
  /\ UNCHANGED <<step, traversal>>

\* The rows are hung, and traversal() is called with the first.
HangRows ==
  /\ step = "scan" /\ names = {} /\ step' = "print"
  /\ call' = 1
  /\ UNCHANGED <<father, deaths, names, rows, stack, count, tree>>

\* traversal(call): the row is printed, as far to the right as the caller
\* has set it, by count; then its child is traversed.
PrintRow ==
  /\ step = "print" /\ call # 0
  /\ tree' = Append(tree, <<call, count>>)
  /\ stack' = Append(stack, call)
  /\ call' = Child(call)
  /\ count' = IF call' # 0 THEN count + 1 ELSE count
  /\ UNCHANGED <<step, father, deaths, names, rows>>

\* Back from the child: then its sibling is traversed.  Of the call before
\* there is nothing left to do.
GoOver ==
  /\ step = "print" /\ call = 0 /\ stack # <<>>
  /\ stack' = Front(stack)
  /\ call' = Sibling(Last(stack))
  /\ count' = IF call' # 0 /\ rows[call'].pid = 2 THEN 1 ELSE count
  /\ UNCHANGED <<step, father, deaths, names, rows, tree>>

Return ==
  /\ step = "print" /\ call = 0 /\ stack = <<>> /\ step' = "ended"
  /\ UNCHANGED <<father, deaths, names, rows, traversal>>

Next ==
  \/ Start \/ ReadProcess \/ ReadFails \/ ReadDying \/ HangRows
  \/ PrintRow \/ GoOver \/ Return
  \/ \E p \in 3..MaxPid : ProcessEnds(p)

Spec == Init /\ [][Next]_vars

-----------------------------------------------------------------------------
\* The rows from which the fathers' numbers lead, row by row backwards, to
\* one of the roots; the rows in between stand before it.
Under(roots) ==
  {j \in DOMAIN rows :
     \E path \in SUBSET (1..j) :
       /\ j \in path
       /\ \A i \in path \ roots : \E k \in path : k < i /\ rows[k].pid = rows[i].ppid}

Times(j) == Cardinality({n \in DOMAIN tree : tree[n][1] = j})

\* However processes end during the scan: if a tree is printed it holds just
\* the rows whose ancestors all have rows before them, and each of them once,
\* after its father and farther to the right.  Where the second process is a
\* child of the first it is printed twice, with all that is under it.
TreeShown ==
  step = "ended" /\ tree # <<>> =>
    LET twice == IF rows[2].ppid = 1 THEN Under({2}) ELSE {} IN
    \A j \in DOMAIN rows :
      /\ Times(j) = IF j \in twice THEN 2 ELSE IF j \in Under({1, 2}) THEN 1 ELSE 0
      /\ j \notin {1, 2} /\ j \in Under({1, 2}) \ twice =>
           \E m, n \in DOMAIN tree :
             /\ m < n /\ tree[n][1] = j
             /\ rows[tree[m][1]].pid = rows[j].ppid
             /\ twice = {} => tree[m][2] < tree[n][2]
=============================================================================
