---------------------------- MODULE SysVSignals ----------------------------
(***************************************************************************)
(* SP_HW7/SP_HW7-2: the signal functions of System V, written with those   *)
(* of POSIX around one static struct sigaction, whose sa_mask collects     *)
(* what is held.  Any program may call them in any order; example.c and    *)
(* main.c are two, and sig_interrupt(), which gives up at the third        *)
(* signal, is the handler of all.  A signal that is pending and not        *)
(* blocked is delivered before the program takes its next step.            *)
(***************************************************************************)
EXTENDS Naturals

CONSTANTS
  Signals,   \* the signals the program handles
  MaxSent    \* bound: how many signals others send

VARIABLES
  step,      \* the program's next step
  sa_mask,   \* the static sa.sa_mask
  handler,   \* what each signal does: "SIG_DFL", "SIG_IGN", "caught"
  blocked,   \* the signal mask of the process
  pending,   \* the signals that are pending
  paused,    \* the signals whose my_sigpause() has been called and not returned
  held,      \* history: it was blocked when it was called
  missed,    \* history: it was handled after the call, before sigsuspend()
  counter,   \* of sig_interrupt()
  sent       \* history: how many signals have been sent

vars == <<step, sa_mask, handler, blocked, pending, paused, held, missed,
          counter, sent>>

\* While it is suspended, the mask is the one given to sigsuspend().
Masked == IF step = "suspended" THEN sa_mask ELSE blocked
Deliverable == pending \ Masked

Init ==
  /\ step = "start"
  /\ sa_mask = {} /\ blocked = {} /\ pending = {}
  /\ handler = [s \in Signals |-> "SIG_DFL"]
  /\ paused = {} /\ held = FALSE /\ missed = FALSE
  /\ counter = 0 /\ sent = 0

Start ==
  /\ step = "start" /\ step' = "run"
  /\ UNCHANGED <<sa_mask, handler, blocked, pending, paused, held, missed,
                 counter, sent>>

\* The program calls one of the functions.
Calls == step = "run" /\ Deliverable = {}

-----------------------------------------------------------------------------
(* The functions.                                                          *)

\* sigaction() with SIG_IGN discards a pending signal.
my_sigignore(sig) ==
  /\ Calls
  /\ handler' = [handler EXCEPT ![sig] = "SIG_IGN"]
  /\ pending' = pending \ {sig}
  /\ UNCHANGED <<step, sa_mask, blocked, paused, held, missed, counter, sent>>

\* With SIG_HOLD nothing is blocked until the next my_sighold().
my_sigset(sig) ==
  /\ Calls
  /\ \/ /\ sa_mask' = sa_mask \cup {sig}
        /\ UNCHANGED handler
     \/ /\ \E h \in {"SIG_DFL", "caught"} : handler' = [handler EXCEPT ![sig] = h]
        /\ sa_mask' = {}
  /\ UNCHANGED <<step, blocked, pending, paused, held, missed, counter, sent>>

my_sighold(sig) ==
  /\ Calls
  /\ sa_mask' = sa_mask \cup {sig}
  /\ blocked' = blocked \cup sa_mask'
  /\ UNCHANGED <<step, handler, pending, paused, held, missed, counter, sent>>

\* What my_sigrelse(sig) unblocks is all that is held, but for sig: it is
\* taken out of the set first.  The slip takes it out afterwards.
UnblockWith(sig) == blocked \ sa_mask
Unblock(sig) == blocked \ (sa_mask \ {sig})

my_sigrelse(sig) ==
  /\ Calls
  /\ sa_mask' = sa_mask \ {sig}
  /\ blocked' = Unblock(sig)
  /\ UNCHANGED <<step, handler, pending, paused, held, missed, counter, sent>>

\* my_sigrelse(), and then sigsuspend() in a step of its own.
my_sigpause(sig) ==
  /\ Calls /\ step' = "pause"
  /\ sa_mask' = sa_mask \ {sig}
  /\ blocked' = Unblock(sig)
  /\ paused' = {sig} /\ held' = (sig \in blocked) /\ missed' = FALSE
  /\ UNCHANGED <<handler, pending, counter, sent>>

Suspend ==
  /\ step = "pause" /\ Deliverable = {}
  /\ step' = "suspended"
  /\ UNCHANGED <<sa_mask, handler, blocked, pending, paused, held, missed,
                 counter, sent>>

-----------------------------------------------------------------------------
(* The signals.                                                            *)

Running == step \in {"run", "pause", "suspended"}

Send(sig) ==
  /\ Running /\ sent < MaxSent
  /\ sent' = sent + 1
  /\ pending' = IF handler[sig] = "SIG_IGN" THEN pending ELSE pending \cup {sig}
  /\ UNCHANGED <<step, sa_mask, handler, blocked, paused, held, missed, counter>>

\* The default is to end the process; the handler ends sigsuspend().
Deliver(sig) ==
  /\ Running /\ sig \in Deliverable
  /\ pending' = pending \ {sig}
  /\ IF handler[sig] = "SIG_DFL" THEN step' = "killed" /\ UNCHANGED counter
     ELSE /\ counter' = counter + 1
          /\ step' = IF counter' = 3 THEN "exited"
                     ELSE IF step = "suspended" THEN "run" ELSE step
  /\ missed' = (missed \/ (step = "pause" /\ sig \in paused))
  /\ paused' = IF step = "suspended" THEN {} ELSE paused
  /\ UNCHANGED <<sa_mask, handler, blocked, held, sent>>

-----------------------------------------------------------------------------
ProgramStep ==
  \/ Suspend
  \/ \E s \in Signals : \/ my_sigset(s) \/ my_sighold(s) \/ my_sigrelse(s)
                        \/ my_sigignore(s) \/ my_sigpause(s)

Next ==
  \/ Start \/ ProgramStep
  \/ \E s \in Signals : Send(s) \/ Deliver(s)

Spec == Init /\ [][Next]_vars

-----------------------------------------------------------------------------
\* my_sigpause() takes two calls for what must be one; still, a program that
\* holds a signal and pauses for it is not suspended after the signal has
\* come, because my_sigrelse() does not unblock the signal it is called for.
NoLostWakeup == step = "suspended" /\ held => ~missed
=============================================================================
