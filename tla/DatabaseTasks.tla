---------------------------- MODULE DatabaseTasks ----------------------------
(***************************************************************************)
(* src/databasetasks.cpp: asynchronous queries, executed by one worker in  *)
(* the order of posting, or by whichever thread calls flush(); results go  *)
(* back to the game thread as dispatcher tasks.                            *)
(*                                                                         *)
(* A query runs under the database's own mutex, so the query of a runner   *)
(* is one step; a runner that has popped a query and not run it yet holds  *)
(* it in its hand, outside taskLock.                                       *)
(***************************************************************************)
EXTENDS Naturals, Sequences, SequencesExt

CONSTANTS
    Game,        \* the dispatcher thread
    Net,         \* the network thread, which lifts expired bans
    Main,        \* main(), which shuts everything down when offline
    Worker,      \* the thread of threadMain
    Queries,
    WithCallback,\* queries posted with a callback
    MaxFlush,    \* bound on the calls of flush by saveGameState
    None         \* nobody, or no query

Callers == {Game, Net, Main}
Runners == Callers \cup {Worker}

ASSUME DatabaseAssumption ==
    /\ WithCallback \subseteq Queries
    /\ MaxFlush \in Nat
    /\ None \notin Runners \cup Queries
    /\ Game # Net /\ Game # Main /\ Net # Main
    /\ Worker \notin Callers

VARIABLES
    mode,         \* "signal": stop, then shutdown, both on the game thread;
                  \* "offline": main() calls shutdown while RUNNING
    threadState,
    lock,         \* holder of taskLock
    tasks,        \* the deque
    wpc,          \* where threadMain is
    op, pc,       \* what each caller is doing, and where it is
    arg,          \* the query of an addTask
    hand,         \* the popped query of each runner
    flushes,      \* flush calls made
    gameOpen,     \* g_dispatcher is RUNNING
    accepted,     \* history: queries pushed
    executed,     \* history: queries run
    callbacks     \* callbacks posted to g_dispatcher, in order

vars == <<mode, threadState, lock, tasks, wpc, op, pc, arg, hand, flushes,
          gameOpen, accepted, executed, callbacks>>

Init ==
    /\ mode \in {"signal", "offline"}
    /\ threadState = "RUNNING"
    /\ lock = None
    /\ tasks = <<>>
    /\ wpc = "check"
    /\ op = [t \in Callers |-> "add"]
    /\ pc = [t \in Callers |-> "idle"]
    /\ arg = [t \in Callers |-> None]
    /\ hand = [r \in Runners |-> None]
    /\ flushes = 0
    /\ gameOpen = TRUE
    /\ accepted = <<>>
    /\ executed = <<>>
    /\ callbacks = <<>>

Goto(t, where) == pc' = [pc EXCEPT ![t] = where]

\* A query is given to one call only.
Fresh(q) == q \notin ToSet(accepted) /\ \A t \in Callers : arg[t] # q

-----------------------------------------------------------------------------
(* The calls.                                                               *)

CallAdd(t, q) ==
    /\ t = Game \/ (t = Net /\ mode = "signal")
    /\ pc[t] = "idle"
    /\ Fresh(q)
    /\ op' = [op EXCEPT ![t] = "add"]
    /\ arg' = [arg EXCEPT ![t] = q]
    /\ Goto(t, "lock")
    /\ UNCHANGED <<mode, threadState, lock, tasks, wpc, hand, flushes, gameOpen,
                   accepted, executed, callbacks>>

\* Game::saveGameState, also the one that precedes stop().
CallFlush ==
    /\ pc[Game] = "idle"
    /\ threadState = "RUNNING"
    /\ flushes < MaxFlush
    /\ flushes' = flushes + 1
    /\ op' = [op EXCEPT ![Game] = "flush"]
    /\ Goto(Game, "lock")
    /\ UNCHANGED <<mode, threadState, lock, tasks, wpc, arg, hand, gameOpen,
                   accepted, executed, callbacks>>

Stop ==
    /\ mode = "signal"
    /\ pc[Game] = "idle"
    /\ threadState = "RUNNING"
    /\ threadState' = "CLOSING"
    /\ UNCHANGED <<mode, lock, tasks, wpc, op, pc, arg, hand, flushes, gameOpen,
                   accepted, executed, callbacks>>

\* setGameState stops g_dispatcher right after g_databaseTasks.
StopDispatcher ==
    /\ threadState = "CLOSING"
    /\ pc[Game] = "idle"
    /\ gameOpen
    /\ gameOpen' = FALSE
    /\ UNCHANGED <<mode, threadState, lock, tasks, wpc, op, pc, arg, hand,
                   flushes, accepted, executed, callbacks>>

\* Game::shutdown runs as a task posted by setGameState; main() calls
\* shutdown with no stop() before it.
CallShutdown(t) ==
    /\ pc[t] = "idle"
    /\ op[t] # "shutdown"
    /\ \/ mode = "signal" /\ t = Game /\ threadState = "CLOSING" /\ ~gameOpen
       \/ mode = "offline" /\ t = Main
    /\ op' = [op EXCEPT ![t] = "shutdown"]
    /\ Goto(t, "lock")
    /\ UNCHANGED <<mode, threadState, lock, tasks, wpc, arg, hand, flushes,
                   gameOpen, accepted, executed, callbacks>>

TakeLock(t) ==
    /\ pc[t] = "lock"
    /\ lock = None
    /\ lock' = t
    /\ Goto(t, "critical")
    /\ UNCHANGED <<mode, threadState, tasks, wpc, op, arg, hand, flushes,
                   gameOpen, accepted, executed, callbacks>>

\* The signal is decided before the push and sent after the unlock; decided
\* after the push, it would never be sent.
SignalAfterPushMutant == FALSE
DoSignal == tasks = <<>>

\* Both loops take the front of the deque under the lock.
PopLateMutant(r) ==
    /\ hand' = [hand EXCEPT ![r] = Head(tasks)]
    /\ UNCHANGED tasks

PopBackMutant(r) ==
    /\ hand' = [hand EXCEPT ![r] = tasks[Len(tasks)]]
    /\ tasks' = SubSeq(tasks, 1, Len(tasks) - 1)

Pop(r) ==
    /\ hand' = [hand EXCEPT ![r] = Head(tasks)]
    /\ tasks' = Tail(tasks)

Push(t) == tasks' = Append(tasks, arg[t])

AddAndUnlock(t) ==
    /\ pc[t] = "critical"
    /\ op[t] = "add"
    /\ lock' = None
    /\ \/ /\ threadState = "RUNNING"
          /\ Push(t)
          /\ accepted' = Append(accepted, arg[t])
          /\ Goto(t, IF DoSignal THEN "notify" ELSE "idle")
       \/ /\ threadState # "RUNNING"
          /\ UNCHANGED <<tasks, accepted>>
          /\ Goto(t, "idle")
    /\ arg' = [arg EXCEPT ![t] = None]
    /\ UNCHANGED <<mode, threadState, wpc, op, hand, flushes, gameOpen,
                   executed, callbacks>>

\* shutdown, first part: the state is stored under the lock.
TerminateAndUnlock(t) ==
    /\ pc[t] = "critical"
    /\ op[t] = "shutdown"
    /\ threadState # "TERMINATED"
    /\ threadState' = "TERMINATED"
    /\ lock' = None
    /\ Goto(t, "lock")
    /\ UNCHANGED <<mode, tasks, wpc, op, arg, hand, flushes, gameOpen,
                   accepted, executed, callbacks>>

\* One round of the loop of flush, and its end.
InFlush(t) ==
    \/ op[t] = "flush"
    \/ op[t] = "shutdown" /\ threadState = "TERMINATED"

FlushPop(t) ==
    /\ pc[t] = "critical"
    /\ InFlush(t)
    /\ tasks # <<>>
    /\ Pop(t)
    /\ lock' = None
    /\ Goto(t, "run")
    /\ UNCHANGED <<mode, threadState, wpc, op, arg, flushes, gameOpen, accepted,
                   executed, callbacks>>

FlushOneMutant == TRUE
FlushDone == tasks = <<>>

FlushEnd(t) ==
    /\ pc[t] = "critical"
    /\ InFlush(t)
    /\ FlushDone
    /\ lock' = None
    /\ Goto(t, IF op[t] = "shutdown" THEN "notify" ELSE "idle")
    /\ UNCHANGED <<mode, threadState, tasks, wpc, op, arg, hand, flushes,
                   gameOpen, accepted, executed, callbacks>>

\* notify_one with one possible waiter; lost when nobody waits.
Notify(t) ==
    /\ pc[t] = "notify"
    /\ wpc' = IF wpc = "waiting" THEN "relock" ELSE wpc
    /\ Goto(t, "idle")
    /\ UNCHANGED <<mode, threadState, lock, tasks, op, arg, hand, flushes,
                   gameOpen, accepted, executed, callbacks>>

-----------------------------------------------------------------------------
(* runTask, by the worker and by a flushing caller: the query, then the     *)
(* callback, which g_dispatcher deletes when it is not RUNNING.             *)

Query(r) ==
    /\ hand[r] # None
    /\ hand[r] \notin ToSet(executed)
    /\ executed' = Append(executed, hand[r])
    /\ UNCHANGED <<mode, threadState, lock, tasks, wpc, op, pc, arg, hand,
                   flushes, gameOpen, accepted, callbacks>>

PostCallback(r) ==
    /\ hand[r] \in ToSet(executed)
    /\ callbacks' = IF hand[r] \in WithCallback /\ gameOpen
                    THEN Append(callbacks, hand[r]) ELSE callbacks
    /\ hand' = [hand EXCEPT ![r] = None]
    /\ IF r = Worker
       THEN wpc' = "check" /\ UNCHANGED pc
       ELSE Goto(r, "lock") /\ UNCHANGED wpc
    /\ UNCHANGED <<mode, threadState, lock, tasks, op, arg, flushes, gameOpen,
                   accepted, executed>>

-----------------------------------------------------------------------------
(* threadMain.                                                              *)

\* The loop condition is read without the lock.
WorkerCheck ==
    /\ wpc = "check"
    /\ wpc' = IF threadState = "TERMINATED" THEN "exit" ELSE "lock"
    /\ UNCHANGED <<mode, threadState, lock, tasks, op, pc, arg, hand, flushes,
                   gameOpen, accepted, executed, callbacks>>

WorkerLock ==
    /\ wpc \in {"lock", "relock"}
    /\ lock = None
    /\ lock' = Worker
    /\ wpc' = IF wpc = "lock" THEN "locked" ELSE "woken"
    /\ UNCHANGED <<mode, threadState, tasks, op, pc, arg, hand, flushes,
                   gameOpen, accepted, executed, callbacks>>

WorkerWait ==
    /\ wpc = "locked"
    /\ tasks = <<>>
    /\ lock' = None
    /\ wpc' = "waiting"
    /\ UNCHANGED <<mode, threadState, tasks, op, pc, arg, hand, flushes,
                   gameOpen, accepted, executed, callbacks>>

SpuriousWakeup ==
    /\ wpc = "waiting"
    /\ wpc' = "relock"
    /\ UNCHANGED <<mode, threadState, lock, tasks, op, pc, arg, hand, flushes,
                   gameOpen, accepted, executed, callbacks>>

WorkerPop ==
    /\ wpc \in {"locked", "woken"}
    /\ tasks # <<>>
    /\ Pop(Worker)
    /\ lock' = None
    /\ wpc' = "run"
    /\ UNCHANGED <<mode, threadState, op, pc, arg, flushes, gameOpen, accepted,
                   executed, callbacks>>

\* Woken with nothing to do: round the loop again.
WorkerIdle ==
    /\ wpc = "woken"
    /\ tasks = <<>>
    /\ lock' = None
    /\ wpc' = "check"
    /\ UNCHANGED <<mode, threadState, tasks, op, pc, arg, hand, flushes,
                   gameOpen, accepted, executed, callbacks>>

-----------------------------------------------------------------------------
InCall(t) ==
    \/ TakeLock(t) \/ AddAndUnlock(t) \/ TerminateAndUnlock(t)
    \/ FlushPop(t) \/ FlushEnd(t) \/ Notify(t)

RunTask(r) == Query(r) \/ PostCallback(r)

ThreadMain ==
    WorkerCheck \/ WorkerLock \/ WorkerWait \/ WorkerPop \/ WorkerIdle

Next ==
    \/ \E t \in Callers, q \in Queries : CallAdd(t, q)
    \/ CallFlush
    \/ Stop
    \/ StopDispatcher
    \/ \E t \in Callers : CallShutdown(t) \/ InCall(t)
    \/ \E r \in Runners : RunTask(r)
    \/ ThreadMain
    \/ SpuriousWakeup

Spec == Init /\ [][Next]_vars

\* Every thread inside a call or a loop keeps running and gets the mutex in
\* turn.  No spurious wakeup is owed to anybody.
Fairness ==
    /\ \A t \in Callers : SF_vars(TakeLock(t)) /\ WF_vars(InCall(t))
    /\ \A r \in Runners : WF_vars(RunTask(r))
    /\ SF_vars(WorkerLock)
    /\ WF_vars(ThreadMain)

FairSpec == Spec /\ Fairness

-----------------------------------------------------------------------------
InHand == {hand[r] : r \in Runners} \ {None}
Executed == ToSet(executed)

TypeOK ==
    /\ mode \in {"signal", "offline"}
    /\ threadState \in {"RUNNING", "CLOSING", "TERMINATED"}
    /\ lock \in Runners \cup {None}
    /\ tasks \in Seq(Queries)
    /\ wpc \in {"check", "lock", "locked", "waiting", "relock", "woken", "run", "exit"}
    /\ op \in [Callers -> {"add", "flush", "shutdown"}]
    /\ pc \in [Callers -> {"idle", "lock", "critical", "run", "notify"}]
    /\ arg \in [Callers -> Queries \cup {None}]
    /\ hand \in [Runners -> Queries \cup {None}]
    /\ flushes \in 0 .. MaxFlush
    /\ gameOpen \in BOOLEAN
    /\ accepted \in Seq(Queries)
    /\ executed \in Seq(Queries)
    /\ callbacks \in Seq(Queries)

\* Each accepted query is run once or still owed, by the deque or by a
\* runner, although two threads pop the deque and run without the lock.
OnceOrOwed ==
    /\ IsInjective(executed)
    /\ ToSet(accepted) = Executed \cup InHand \cup ToSet(tasks)
    /\ (Executed \cup InHand) \cap ToSet(tasks) = {}

\* Execution may leave the order of posting only between a query the worker
\* has popped and those a flush runs meanwhile: whatever was posted before a
\* query that has run has run too or is in a runner's hand.
ReorderOnlyInHand ==
    \A i, j \in 1 .. Len(accepted) :
        i < j /\ accepted[j] \in Executed =>
            accepted[i] \in Executed \/ accepted[i] \in InHand

\* flush is not a barrier: it may return while another runner still holds a
\* query posted before it, but at most that one query for each of them.
FlushLeavesInHand ==
    [][ \A t \in Callers :
          (pc[t] = "critical" /\ InFlush(t) /\ pc'[t] \in {"idle", "notify"}) =>
              ToSet(accepted) \ Executed \subseteq {hand[r] : r \in Runners \ {t}} ]_vars

\* The worker does not sleep on a posted query that nobody is about to signal
\* or to flush.
NoLostWakeup ==
    wpc = "waiting" /\ tasks # <<>> =>
        \E t \in Callers : pc[t] = "notify" \/ (InFlush(t) /\ pc[t] # "idle")

\* Every accepted query runs, also one that was in the deque, or in the
\* worker's hand, when the shutdown began; its callback is posted, unless
\* the dispatcher has been stopped.
AcceptedRuns ==
    \A q \in Queries :
        (q \in ToSet(accepted)) ~>
            /\ q \in Executed
            /\ q \in WithCallback => q \in ToSet(callbacks) \/ ~gameOpen

\* signals.cpp blocks "until all threads have joined" and main() joins the
\* worker: after shutdown the worker leaves its loop.  It may not: it can
\* read the state before shutdown stores TERMINATED and start to wait after
\* the only notify_one.
JoinReturns == (threadState = "TERMINATED") ~> (wpc = "exit")
=============================================================================
