----------------------------- MODULE MCPrograms -----------------------------
(***************************************************************************)
(* One run for the programs that are small and have nothing to do with     *)
(* each other: the initial state says which of them runs, with the bounds  *)
(* given here, and the variables of the others stay as they are.  The      *)
(* programs with a first step of their own share the variable step.        *)
(* They are instantiated in SmallPrograms.                                 *)
(***************************************************************************)
EXTENDS SmallPrograms

CONSTANTS
  Programs,   \* which programs may run
  c1, c2, c3  \* the clients of the polling sequence-number server

VARIABLE program  \* which one runs

pingVars   == <<pc, scnt, handled, blocked, pending, kills, strays>>
treeVars   == <<father, deaths, names, rows, call, stack, count, tree>>
dictVars   == <<text, rest, datafile, present, dictIn, dictShown>>
copyVars   == <<tool, src, dst, size, buf, stdout, old, cut>>
notifyVars == <<exist, changes, dir, watched, toWatch, queue, passed>>
filterVars == <<typed, eof, read, at, line, child, up, down, outs, shown,
                lost>>
popenVars  == <<mode, popenEof, command, pid, running, written, pipe, open,
                keep_fd, fdtopid, buf1, got, popenShown>>
sysvVars   == <<sa_mask, handler, sysvBlocked, sysvPending, paused, held,
                missed, counter, sent>>
seqnumVars == <<listening, requests, seqLen, serverUp, pollSpc, req, clientFd,
                seqNum, cpc, linked, reading, fifo, printed>>
allVars    == <<program, step, pingVars, treeVars, dictVars, copyVars,
                notifyVars, filterVars, popenVars, sysvVars, seqnumVars>>

-----------------------------------------------------------------------------
MCInit ==
  /\ program \in Programs
  /\ Ping!Init
  /\ Tree!Init /\ Dict!Init /\ Copy!Init /\ Notify!Init /\ Filter!Init
  /\ PopenP!Init /\ SysV!Init /\ Seqnum!Init
  /\ seqLen = [c \in Clients |-> IF c = c1 THEN 1 ELSE 2]

SigSpeedNext ==
  /\ program = "sig_speed" /\ Ping!Next
  /\ UNCHANGED <<program, step, treeVars, dictVars, copyVars, notifyVars,
                 filterVars, popenVars, sysvVars, seqnumVars>>

TreeNext ==
  /\ program = "tree" /\ Tree!Next
  /\ UNCHANGED <<program, pingVars, dictVars, copyVars, notifyVars, filterVars,
                 popenVars, sysvVars, seqnumVars>>

DictNext ==
  /\ program = "dictionary" /\ Dict!Next
  /\ UNCHANGED <<program, pingVars, treeVars, copyVars, notifyVars, filterVars,
                 popenVars, sysvVars, seqnumVars>>

CopyNext ==
  /\ program = "copy" /\ Copy!Next
  /\ UNCHANGED <<program, pingVars, treeVars, dictVars, notifyVars, filterVars,
                 popenVars, sysvVars, seqnumVars>>

NotifyNext ==
  /\ program = "notify" /\ Notify!Next
  /\ UNCHANGED <<program, pingVars, treeVars, dictVars, copyVars, filterVars,
                 popenVars, sysvVars, seqnumVars>>

FilterNext ==
  /\ program = "filter" /\ Filter!Next
  /\ UNCHANGED <<program, pingVars, step, treeVars, dictVars, copyVars,
                 notifyVars, popenVars, sysvVars, seqnumVars>>

PopenNext ==
  /\ program = "popen" /\ PopenP!Next
  /\ UNCHANGED <<program, pingVars, treeVars, dictVars, copyVars, notifyVars,
                 filterVars, sysvVars, seqnumVars>>

SysVNext ==
  /\ program = "system_v" /\ SysV!Next
  /\ UNCHANGED <<program, pingVars, treeVars, dictVars, copyVars, notifyVars,
                 filterVars, popenVars, seqnumVars>>

SeqnumNext ==
  /\ program = "seqnum" /\ Seqnum!Next
  /\ UNCHANGED <<program, pingVars, step, treeVars, dictVars, copyVars,
                 notifyVars, filterVars, popenVars, sysvVars>>

MCNext ==
  \/ SigSpeedNext \/ TreeNext \/ DictNext \/ CopyNext \/ NotifyNext
  \/ FilterNext \/ PopenNext \/ SysVNext \/ SeqnumNext

\* The fairness of each module; that of the two whose first step needs
\* nothing is stated for when they run.
MCSpec ==
  /\ MCInit /\ [][MCNext]_allVars
  /\ WF_pingVars(program = "sig_speed" /\ Ping!Start)
  /\ \A p \in Ping!Process :
       WF_pingVars(program = "sig_speed" /\ Ping!ProcessStep(p))
  /\ Filter!Fairness /\ PopenP!Fairness
  /\ WF_seqnumVars(program = "seqnum" /\ Seqnum!ServerStep)
  /\ \A c \in Clients :
       WF_seqnumVars(program = "seqnum" /\ Seqnum!ClientStep(c))

-----------------------------------------------------------------------------
(* The signals in turns come to an end.                                    *)

PartnersFinish == program = "sig_speed" => Ping!BothFinish
=============================================================================
