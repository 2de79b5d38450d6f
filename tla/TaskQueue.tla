------------------------------ MODULE TaskQueue ------------------------------
(***************************************************************************)
(* What the rest of the server relies on when it posts a task to a         *)
(* dispatcher: every posted task leaves the queue once, in the order of    *)
(* posting, and a task runs alone, to its end, before the next one starts. *)
(* Every handler of the game state is written as if it were atomic because *)
(* of this module.                                                         *)
(***************************************************************************)
EXTENDS Naturals, Sequences

CONSTANTS QTasks, QExpiring, QClosing, Idle

VARIABLES
    pending,   \* posted tasks that have not been started
    running,   \* the task being executed, or Idle
    posted,    \* every task ever posted
    ended      \* the closing task has run

qvars == <<pending, running, posted, ended>>

QInit ==
    /\ pending = <<>>
    /\ running = Idle
    /\ posted = {}
    /\ ended = FALSE

\* Anybody may post, a running task included; a task is posted once.
Post(k) ==
    /\ k \notin posted
    /\ posted' = posted \cup {k}
    /\ pending' = Append(pending, k)
    /\ UNCHANGED <<running, ended>>

Start ==
    /\ running = Idle
    /\ pending # <<>>
    /\ running' = Head(pending)
    /\ pending' = Tail(pending)
    /\ UNCHANGED <<posted, ended>>

DropExpired ==
    /\ running = Idle
    /\ pending # <<>>
    /\ Head(pending) \in QExpiring
    /\ pending' = Tail(pending)
    /\ UNCHANGED <<running, posted, ended>>

\* The closing task marks the queue ended; others leave it as it is.
Finish ==
    /\ running # Idle
    /\ running' = Idle
    /\ ended' = (ended \/ running \in QClosing)
    /\ UNCHANGED <<pending, posted>>

QNext ==
    \/ \E k \in QTasks : Post(k)
    \/ Start
    \/ DropExpired
    \/ Finish

QSpec == QInit /\ [][QNext]_qvars
=============================================================================
