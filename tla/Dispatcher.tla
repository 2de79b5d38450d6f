----------------------------- MODULE Dispatcher -----------------------------
(***************************************************************************)
(* The task queue of src/tasks.cpp: the game thread (g_dispatcher) and the *)
(* second instance g_utility_boss.  A mutex, a condition variable that is  *)
(* waited on without a predicate, a signal that is sent only when the list *)
(* was empty, a thread state that is stored outside the mutex, and the     *)
(* three ways a server closes a dispatcher.                                *)
(*                                                                         *)
(* A critical section is two steps: taking taskLock, and everything up to  *)
(* its release, placed where addTask reads the thread state.               *)
(***************************************************************************)
EXTENDS Naturals, Sequences

CONSTANTS
    Producers,   \* threads that post tasks: scheduler, database, network ...
    Owner,       \* the thread that closes g_utility_boss, or main() offline
    Worker,      \* the dispatcher's own thread
    Plain,       \* tasks any thread may post
    Expiring,    \* those of them created with an expiration
    CloseTask,   \* the task that runs setGameState(GAME_STATE_SHUTDOWN)
    FinTask,     \* the task that runs Game::shutdown
    TermTask,    \* the task Dispatcher::shutdown creates
    NoThread     \* holder of a free mutex, owner of no call

Posters  == Producers \cup {Owner}
Threads  == Posters \cup {Worker}
Tasks    == Plain \cup {CloseTask, FinTask, TermTask}

ASSUME DispatcherAssumption ==
    /\ Expiring \subseteq Plain
    /\ Worker \notin Posters
    /\ NoThread \notin Threads \cup Tasks
    /\ CloseTask \notin Plain /\ FinTask \notin Plain /\ TermTask \notin Plain
    /\ CloseTask # FinTask /\ CloseTask # TermTask /\ FinTask # TermTask

VARIABLES
    mode,          \* how this dispatcher will be closed (chosen by Init)
    threadState,   \* ThreadHolder::threadState
    lock,          \* holder of taskLock
    taskList,      \* tasks posted and not yet swapped out
    tmpTaskList,   \* tasks of the current batch that have not been deleted
    wpc,           \* where threadMain is
    callPc,        \* where each thread is inside addTask or shutdown
    callTask,      \* the task of that call
    created,       \* Task objects that have been made: each is posted once
    accepted,      \* history: tasks pushed on taskList, in order
    finished,      \* history: tasks executed or found expired, in order
    dispatcherCycle

callVars == <<callPc, callTask>>
vars == <<mode, threadState, lock, taskList, tmpTaskList, wpc, callPc, callTask,
          created, accepted, finished, dispatcherCycle>>

\* "signal": setGameState(SHUTDOWN) runs as a task of the dispatcher itself.
\* "utility": another thread calls stop() and later shutdown().
\* "offline": main() found no service and calls shutdown() while RUNNING.
Modes == {"signal", "utility", "offline"}

NoTask == CloseTask   \* value of callTask[t] outside a call: never read

Init ==
    /\ mode \in Modes
    /\ threadState = "RUNNING"
    /\ lock = NoThread
    /\ taskList = <<>>
    /\ tmpTaskList = <<>>
    /\ wpc = "check"
    /\ callPc = [t \in Threads |-> "idle"]
    /\ callTask = [t \in Threads |-> NoTask]
    /\ created = {}
    /\ accepted = <<>>
    /\ finished = <<>>
    /\ dispatcherCycle = 0

-----------------------------------------------------------------------------
(* Dispatcher::addTask and Dispatcher::shutdown, in the calling thread.     *)

\* The worker calls addTask only from the task it is executing.
Current == Head(tmpTaskList)

MayCall(t, k) ==
    /\ callPc[t] = "idle"
    /\ k \notin created
    /\ IF t = Worker
       THEN /\ wpc = "exec"
            /\ \/ k \in Plain /\ Current \in Plain
               \/ k = FinTask /\ Current = CloseTask
       ELSE k \in Plain \/ (k = CloseTask /\ mode = "signal")

\* The caller has made its Task and is about to lock taskLock.
CallAdd(t, k) ==
    /\ MayCall(t, k)
    /\ callPc' = [callPc EXCEPT ![t] = "lock"]
    /\ callTask' = [callTask EXCEPT ![t] = k]
    /\ created' = created \cup {k}
    /\ UNCHANGED <<mode, threadState, lock, taskList, tmpTaskList, wpc,
                   accepted, finished, dispatcherCycle>>

\* shutdown(): from Game::shutdown on the game thread, from the game thread
\* on g_utility_boss after its stop(), or from main() with no stop() before.
MayShutdown(t) ==
    \/ /\ t = Worker
       /\ wpc = "exec"
       /\ Current = FinTask
    \/ /\ t = Owner
       /\ \/ mode = "utility" /\ threadState = "CLOSING"
          \/ mode = "offline"

CallShutdown(t) ==
    /\ callPc[t] = "idle"
    /\ TermTask \notin created
    /\ MayShutdown(t)
    /\ callPc' = [callPc EXCEPT ![t] = "lock"]
    /\ callTask' = [callTask EXCEPT ![t] = TermTask]
    /\ created' = created \cup {TermTask}
    /\ UNCHANGED <<mode, threadState, lock, taskList, tmpTaskList, wpc,
                   accepted, finished, dispatcherCycle>>

LockForCall(t) ==
    /\ callPc[t] = "lock"
    /\ lock = NoThread
    /\ lock' = t
    /\ callPc' = [callPc EXCEPT ![t] = "critical"]
    /\ UNCHANGED <<mode, threadState, taskList, tmpTaskList, wpc, callTask,
                   created, accepted, finished, dispatcherCycle>>

Push(k) ==
    /\ taskList' = Append(taskList, k)
    /\ accepted' = Append(accepted, k)

\* do_signal, which is computed before the push; after it, the list is never
\* empty.
SignalAfterPushMutant == FALSE
DoSignal == taskList = <<>>

AcceptingUntilEndMutant == threadState # "TERMINATED"
Accepting == threadState = "RUNNING"

PushAndUnlock(t) ==
    /\ callPc[t] = "critical"
    /\ callTask[t] # TermTask
    /\ Accepting
    /\ Push(callTask[t])
    /\ lock' = NoThread
    /\ callPc' = [callPc EXCEPT ![t] = IF DoSignal THEN "notify" ELSE "idle"]
    /\ UNCHANGED <<mode, threadState, tmpTaskList, wpc, callTask, created,
                   finished, dispatcherCycle>>

\* A dispatcher that is not RUNNING deletes the task.
DiscardAndUnlock(t) ==
    /\ callPc[t] = "critical"
    /\ callTask[t] # TermTask
    /\ ~Accepting
    /\ lock' = NoThread
    /\ callPc' = [callPc EXCEPT ![t] = "idle"]
    /\ UNCHANGED <<mode, threadState, taskList, tmpTaskList, wpc, callTask, created,
                   accepted, finished, dispatcherCycle>>

UnnotifiedMutant == wpc

\* notify_one: there is one waiter at most.  Notifying nobody has no effect.
Notified == IF wpc = "waiting" THEN "relock" ELSE wpc

NotifyAfterUnlock(t) ==
    /\ callPc[t] = "notify"
    /\ wpc' = Notified
    /\ callPc' = [callPc EXCEPT ![t] = "idle"]
    /\ UNCHANGED <<mode, threadState, lock, taskList, tmpTaskList, callTask,
                   created, accepted, finished, dispatcherCycle>>

\* shutdown() pushes whatever the state is, and notifies under the lock.
PushTermination(t) ==
    /\ callPc[t] = "critical"
    /\ callTask[t] = TermTask
    /\ Push(TermTask)
    /\ wpc' = Notified
    /\ lock' = NoThread
    /\ callPc' = [callPc EXCEPT ![t] = "idle"]
    /\ UNCHANGED <<mode, threadState, tmpTaskList, callTask, created,
                   finished, dispatcherCycle>>

\* The game thread stops g_utility_boss from setGameState(SHUTDOWN).
StopUtility ==
    /\ mode = "utility"
    /\ threadState = "RUNNING"
    /\ threadState' = "CLOSING"
    /\ UNCHANGED <<mode, lock, taskList, tmpTaskList, wpc, callVars, created,
                   accepted, finished, dispatcherCycle>>

-----------------------------------------------------------------------------
(* Dispatcher::threadMain.                                                  *)

WorkerCheck ==
    /\ wpc = "check"
    /\ wpc' = IF threadState = "TERMINATED" THEN "exit" ELSE "lock"
    /\ UNCHANGED <<mode, threadState, lock, taskList, tmpTaskList, callVars,
                   created, accepted, finished, dispatcherCycle>>

WorkerLock ==
    /\ wpc = "lock"
    /\ lock = NoThread
    /\ lock' = Worker
    /\ wpc' = "locked"
    /\ UNCHANGED <<mode, threadState, taskList, tmpTaskList, callVars, created,
                   accepted, finished, dispatcherCycle>>

\* taskSignal.wait releases the lock and blocks in one step.
WorkerWait ==
    /\ wpc = "locked"
    /\ taskList = <<>>
    /\ lock' = NoThread
    /\ wpc' = "waiting"
    /\ UNCHANGED <<mode, threadState, taskList, tmpTaskList, callVars, created,
                   accepted, finished, dispatcherCycle>>

SpuriousWakeup ==
    /\ wpc = "waiting"
    /\ wpc' = "relock"
    /\ UNCHANGED <<mode, threadState, lock, taskList, tmpTaskList, callVars,
                   created, accepted, finished, dispatcherCycle>>

\* The wait returns with the lock held; the list is not tested again.
WorkerRelock ==
    /\ wpc = "relock"
    /\ lock = NoThread
    /\ lock' = Worker
    /\ wpc' = "woken"
    /\ UNCHANGED <<mode, threadState, taskList, tmpTaskList, callVars, created,
                   accepted, finished, dispatcherCycle>>

WorkerSwap ==
    /\ \/ wpc = "locked" /\ taskList # <<>>
       \/ wpc = "woken"
    /\ taskList' = tmpTaskList
    /\ tmpTaskList' = taskList
    /\ lock' = NoThread
    /\ wpc' = "batch"
    /\ UNCHANGED <<mode, threadState, callVars, created, accepted, finished,
                   dispatcherCycle>>

\* The rest of the batch is dropped with its head.
RetireBatchMutant ==
    /\ finished' = Append(finished, Head(tmpTaskList))
    /\ tmpTaskList' = <<>>

\* Leaves the head of the batch: the task is deleted.
Retire ==
    /\ finished' = Append(finished, Head(tmpTaskList))
    /\ tmpTaskList' = Tail(tmpTaskList)

BeginTask ==
    /\ wpc = "batch"
    /\ tmpTaskList # <<>>
    /\ dispatcherCycle' = dispatcherCycle + 1
    /\ wpc' = "exec"
    /\ UNCHANGED <<mode, threadState, lock, taskList, tmpTaskList, callVars,
                   created, accepted, finished>>

SkipExpired ==
    /\ wpc = "batch"
    /\ tmpTaskList # <<>>
    /\ Head(tmpTaskList) \in Expiring
    /\ Retire
    /\ UNCHANGED <<mode, threadState, lock, taskList, wpc, callVars, created,
                   accepted, dispatcherCycle>>

\* setGameState(SHUTDOWN): addTask(FinTask) has returned, stop() follows.
StopFromTask ==
    /\ wpc = "exec"
    /\ Current = CloseTask
    /\ FinTask \in created
    /\ callPc[Worker] = "idle"
    /\ threadState = "RUNNING"
    /\ threadState' = "CLOSING"
    /\ UNCHANGED <<mode, lock, taskList, tmpTaskList, wpc, callVars, created,
                   accepted, finished, dispatcherCycle>>

\* The body of the task Dispatcher::shutdown posts; its notify_one finds no
\* waiter, for the only thread that waits is the one that runs it.
Terminate ==
    /\ wpc = "exec"
    /\ Current = TermTask
    /\ threadState # "TERMINATED"
    /\ threadState' = "TERMINATED"
    /\ wpc' = Notified
    /\ UNCHANGED <<mode, lock, taskList, tmpTaskList, callVars, created,
                   accepted, finished, dispatcherCycle>>

\* What a task has done when it returns.
BodyDone(k) ==
    CASE k = CloseTask -> FinTask \in created /\ threadState # "RUNNING"
      [] k = FinTask   -> TermTask \in created
      [] k = TermTask  -> threadState = "TERMINATED"
      [] OTHER         -> TRUE

EndTask ==
    /\ wpc = "exec"
    /\ callPc[Worker] = "idle"
    /\ BodyDone(Current)
    /\ Retire
    /\ wpc' = "batch"
    /\ UNCHANGED <<mode, threadState, lock, taskList, callVars, created,
                   accepted, dispatcherCycle>>

EndBatch ==
    /\ wpc = "batch"
    /\ tmpTaskList = <<>>
    /\ wpc' = "check"
    /\ UNCHANGED <<mode, threadState, lock, taskList, tmpTaskList, callVars,
                   created, accepted, finished, dispatcherCycle>>

-----------------------------------------------------------------------------
Call(t) ==
    \/ \E k \in Tasks : CallAdd(t, k)
    \/ CallShutdown(t)

InCall(t) ==
    \/ LockForCall(t)
    \/ PushAndUnlock(t)
    \/ DiscardAndUnlock(t)
    \/ NotifyAfterUnlock(t)
    \/ PushTermination(t)

ThreadMain ==
    \/ WorkerCheck \/ WorkerLock \/ WorkerWait \/ WorkerRelock \/ WorkerSwap
    \/ BeginTask \/ SkipExpired \/ StopFromTask \/ Terminate \/ EndTask
    \/ EndBatch

Next ==
    \/ \E t \in Threads : Call(t) \/ InCall(t)
    \/ ThreadMain
    \/ StopUtility
    \/ SpuriousWakeup

Spec == Init /\ [][Next]_vars

\* Threads that hold or want the mutex keep running and the mutex is granted
\* to each in turn (strong fairness of taking it); setGameState and
\* Game::shutdown make the calls their code makes.  Nobody has to post, and
\* no spurious wakeup has to come.
Fairness ==
    /\ \A t \in Threads :
          /\ SF_vars(LockForCall(t))
          /\ WF_vars(InCall(t))
    /\ SF_vars(WorkerLock)
    /\ SF_vars(WorkerRelock)
    /\ WF_vars(ThreadMain)
    /\ WF_vars(CallAdd(Worker, FinTask))
    /\ WF_vars(CallShutdown(Worker))

FairSpec == Spec /\ Fairness

-----------------------------------------------------------------------------
TypeOK ==
    /\ mode \in Modes
    /\ threadState \in {"RUNNING", "CLOSING", "TERMINATED"}
    /\ lock \in Threads \cup {NoThread}
    /\ taskList \in Seq(Tasks)
    /\ tmpTaskList \in Seq(Tasks)
    /\ wpc \in {"check", "lock", "locked", "waiting", "relock", "woken",
                "batch", "exec", "exit"}
    /\ callPc \in [Threads -> {"idle", "lock", "critical", "notify"}]
    /\ callTask \in [Threads -> Tasks]
    /\ created \subseteq Tasks
    /\ accepted \in Seq(Tasks)
    /\ finished \in Seq(Tasks)
    /\ dispatcherCycle \in Nat

\* Tasks run in the order in which they were posted and none is lost or run
\* twice: what was accepted is what is finished, then the rest of the batch,
\* then the list, whatever the threads do between the swap and the clear.
FifoNoLoss == accepted = finished \o tmpTaskList \o taskList

\* The worker never sleeps on a non-empty list without somebody who is about
\* to wake it: the "signal only if it was empty" test of addTask, sent after
\* the unlock, and the wait without a predicate never lose a wakeup.
NoLostWakeup ==
    wpc = "waiting" /\ taskList # <<>> =>
        \E t \in Threads : callPc[t] = "notify"

\* A task never executes while its own thread holds taskLock, so a task may
\* post tasks; and the mutex is never held by a thread that has returned.
LockDiscipline ==
    /\ (lock = Worker) <=> (\/ wpc \in {"locked", "woken"}
                            \/ callPc[Worker] = "critical")
    /\ \A t \in Posters : (lock = t) <=> callPc[t] = "critical"
    /\ callPc[Worker] # "idle" => wpc = "exec"

\* Game::shutdown posts the termination task after stop(): nothing that was
\* accepted lies behind it, so an orderly stop loses no accepted task.
NothingAcceptedAfterTerm ==
    mode # "offline" =>
        \A i \in 1 .. Len(accepted) : accepted[i] = TermTask => i = Len(accepted)

OrderlyExit ==
    wpc = "exit" /\ mode # "offline" => taskList = <<>> /\ tmpTaskList = <<>>

\* Every accepted task of an orderly server is eventually executed or found
\* expired.
AcceptedFinishes ==
    \A k \in Tasks :
        (mode # "offline" /\ \E i \in 1 .. Len(accepted) : accepted[i] = k)
            ~> (\E i \in 1 .. Len(finished) : finished[i] = k)

\* g_dispatcher.join() returns: once shutdown() was called, on any path, the
\* thread leaves threadMain.
JoinReturns == (TermTask \in created) ~> (wpc = "exit")

-----------------------------------------------------------------------------
(* The dispatcher implements the queue its callers believe in.              *)

Running == IF wpc = "exec" THEN Current ELSE NoThread

NotStarted ==
    IF wpc = "exec" THEN Tail(tmpTaskList) \o taskList ELSE tmpTaskList \o taskList

Posted == {accepted[i] : i \in 1 .. Len(accepted)}

Terminated == \E i \in 1 .. Len(finished) : finished[i] = TermTask

Queue == INSTANCE TaskQueue
    WITH QTasks <- Tasks, QExpiring <- Expiring, QClosing <- {TermTask},
         Idle <- NoThread, pending <- NotStarted, running <- Running,
         posted <- Posted, ended <- Terminated

\* Serial, first in first out, each accepted task once: the double buffer of
\* threadMain is invisible to those who post.
ImplementsTaskQueue == Queue!QSpec
=============================================================================
