----------------------------- MODULE SigPingPong -----------------------------
(***************************************************************************)
(* SP_HW7-1, sig_speed_sigsuspend and sig_speed_sigwaitinfo: a parent and  *)
(* its child send each other SIGUSR1 in turns, numSigs times, the child    *)
(* first.  Both programs block the signal before fork() and wait for it    *)
(* with a call that accepts it atomically; they differ in that call only:  *)
(* sigsuspend() lets the handler run, sigwaitinfo() takes the signal       *)
(* itself, and either way a pending SIGUSR1 is used up and the call        *)
(* returns.  A second SIGUSR1 sent while one is pending is lost.           *)
(***************************************************************************)
EXTENDS Naturals

CONSTANTS
  numSigs,    \* the program's argument, num-sigs
  MaxStrays   \* bound: how many SIGUSR1s other processes send

VARIABLES
  pc,       \* each process's next step
  scnt,     \* its loop counter
  handled,  \* the handler is installed
  blocked,  \* whether each process has SIGUSR1 blocked
  pending,  \* whether it has a SIGUSR1 pending
  kills,    \* history: how many signals it has sent
  strays    \* history: how many signals have come from elsewhere

vars == <<pc, scnt, handled, blocked, pending, kills, strays>>

Process == {"parent", "child"}
Partner(p) == IF p = "parent" THEN "child" ELSE "parent"

\* Which call a round begins with; the variant is a slip, in which both send
\* before they wait.
FirstBoth(p) == "kill"
First(p) == IF p = "parent" THEN "suspend" ELSE "kill"

Ended == {"done", "failed", "killed"}

Step(p, from, to) == pc[p] = from /\ pc' = [pc EXCEPT ![p] = to]

-----------------------------------------------------------------------------
(* A slip a programmer could make, not what the code does: without this,   *)
(* the last property fails.                                                *)

BlockForgotten ==
  /\ Step("parent", "sigprocmask", "fork")
  /\ UNCHANGED <<scnt, handled, blocked, pending, kills, strays>>

-----------------------------------------------------------------------------
(* Before the fork.                                                        *)

Sigaction ==
  /\ Step("parent", "sigaction", "sigprocmask")
  /\ handled' = TRUE
  /\ UNCHANGED <<scnt, blocked, pending, kills, strays>>

Block ==
  /\ Step("parent", "sigprocmask", "fork")
  /\ blocked' = [blocked EXCEPT !["parent"] = TRUE]
  /\ UNCHANGED <<scnt, handled, pending, kills, strays>>

\* The child inherits the handler and the mask, but no pending signal.
Fork ==
  /\ pc["parent"] = "fork"
  /\ pc' = [p \in Process |-> First(p)]
  /\ blocked' = [p \in Process |-> blocked["parent"]]
  /\ UNCHANGED <<scnt, handled, pending, kills, strays>>

-----------------------------------------------------------------------------
(* The two loops.                                                          *)

\* The test of the for statement.
Loop(p) == IF scnt[p] < numSigs THEN First(p) ELSE "exit"

Iterate(p) ==
  /\ Step(p, "loop", Loop(p))
  /\ UNCHANGED <<scnt, handled, blocked, pending, kills, strays>>

\* A signal for a process that has ended, but is a zombie, is discarded.
\* When the parent has ended, getppid() is another process, which the child
\* may or may not be allowed to signal.
Kill(p) ==
  /\ pc[p] = "kill"
  /\ \/ /\ p = "parent" \/ pc["parent"] \notin Ended
        /\ pending' = [pending EXCEPT ![Partner(p)] = pc[Partner(p)] \notin Ended]
        /\ kills' = [kills EXCEPT ![p] = @ + 1]
        /\ pc' = [pc EXCEPT ![p] = IF p = "parent" THEN "loop" ELSE "suspend"]
     \/ /\ p = "child" /\ pc["parent"] \in Ended
        /\ pc' \in {[pc EXCEPT ![p] = "suspend"], [pc EXCEPT ![p] = "failed"]}
        /\ UNCHANGED <<pending, kills>>
  /\ scnt' = IF p = "parent" THEN [scnt EXCEPT ![p] = @ + 1] ELSE scnt
  /\ UNCHANGED <<handled, blocked, strays>>

\* sigsuspend(&emptyMask), or sigwaitinfo() with the full set: from here on
\* a pending signal is accepted.
Suspend(p) ==
  /\ Step(p, "suspend", "suspended")
  /\ blocked' = [blocked EXCEPT ![p] = FALSE]
  /\ UNCHANGED <<scnt, handled, pending, kills, strays>>

Return(p) ==
  /\ pc[p] = "suspended" /\ pending[p]
  /\ pc' = [pc EXCEPT ![p] = IF p = "parent" THEN "kill" ELSE "loop"]
  /\ scnt' = IF p = "child" THEN [scnt EXCEPT ![p] = @ + 1] ELSE scnt
  /\ blocked' = [blocked EXCEPT ![p] = TRUE]
  /\ pending' = [pending EXCEPT ![p] = FALSE]
  /\ UNCHANGED <<handled, kills, strays>>

Exit(p) ==
  /\ Step(p, "exit", "done")
  /\ UNCHANGED <<scnt, handled, blocked, pending, kills, strays>>

-----------------------------------------------------------------------------
(* The kernel, and the other processes of the user.                        *)

\* A signal that is neither blocked nor waited for runs the handler, which
\* does nothing; without a handler it kills the process.
Deliver(p) ==
  /\ pending[p] /\ ~blocked[p]
  /\ pc[p] \notin Ended \cup {"suspended"}
  /\ pending' = [pending EXCEPT ![p] = FALSE]
  /\ pc' = IF handled THEN pc ELSE [pc EXCEPT ![p] = "killed"]
  /\ UNCHANGED <<scnt, handled, blocked, kills, strays>>

Stray(p) ==
  /\ strays < MaxStrays
  /\ pc[p] \notin Ended \cup {"unborn"}
  /\ pending' = [pending EXCEPT ![p] = TRUE]
  /\ strays' = strays + 1
  /\ UNCHANGED <<pc, scnt, handled, blocked, kills>>

ProcessStep(p) ==
  Iterate(p) \/ Kill(p) \/ Suspend(p) \/ Return(p) \/ Exit(p) \/ Deliver(p)

-----------------------------------------------------------------------------

Init ==
  /\ pc = [p \in Process |-> IF p = "parent" THEN "sigaction" ELSE "unborn"]
  /\ scnt = [p \in Process |-> 0]
  /\ handled = FALSE
  /\ blocked = [p \in Process |-> FALSE]
  /\ pending = [p \in Process |-> FALSE]
  /\ kills = [p \in Process |-> 0]
  /\ strays = 0

Start == Sigaction \/ Block \/ Fork

Next == Start \/ \E p \in Process : ProcessStep(p) \/ Stray(p)

Spec == Init /\ [][Next]_vars

\* Every process that can take its next step eventually takes it.
FairSpec ==
  Spec /\ WF_vars(Start) /\ \A p \in Process : WF_vars(ProcessStep(p))

-----------------------------------------------------------------------------

\* The shape of the state.
TypeOK ==
  /\ pc \in [Process -> Ended \cup {"sigaction", "sigprocmask", "fork", "unborn",
                           "loop", "kill", "suspend", "suspended", "exit"}]
  /\ scnt \in [Process -> 0..numSigs]
  /\ handled \in BOOLEAN
  /\ blocked \in [Process -> BOOLEAN] /\ pending \in [Process -> BOOLEAN]
  /\ kills \in [Process -> 0..numSigs]
  /\ strays \in 0..MaxStrays

\* "alternately send signals to each other (the child starts first)"
\* (sig_speed_sigsuspend.c:15): at most one signal is on its way, so none is
\* merged with another, the child is never more than one ahead, and getppid()
\* and childPid name a partner that is there whenever it is signalled.
Alternation ==
  strays = 0 =>
    /\ ~(pending["parent"] /\ pending["child"])
    /\ \A p \in Process :
         pc[p] = "kill" => ~pending[Partner(p)] /\ pc[Partner(p)] \notin Ended
    /\ kills["child"] - kills["parent"] \in {0, 1}

\* A process comes out of its wait no more often than it has been sent
\* signals, by its partner or by others.
WakesAccounted ==
  /\ scnt["child"] <= kills["parent"] + strays
  /\ kills["parent"] <= kills["child"] + strays

\* "Block the signal before fork(), so that the child doesn't manage to send
\* it to the parent before the parent is ready to catch it"
\* (sig_speed_sigsuspend.c:55): no wake-up is lost and both processes end.
BothFinish ==
  <>(strays > 0 \/ \A p \in Process : pc[p] = "done" /\ kills[p] = numSigs)
=============================================================================
