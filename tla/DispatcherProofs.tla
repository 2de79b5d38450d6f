-------------------------- MODULE DispatcherProofs --------------------------
(***************************************************************************)
(* Theorems about Dispatcher, for any number of threads and tasks.         *)
(***************************************************************************)
EXTENDS Dispatcher, TLAPS, SequenceTheorems

\* Every variable keeps its type: a step that appends to a list appends a
\* task, and one that takes a head finds the list not empty.
TypeInv ==
    /\ TypeOK
    /\ wpc = "exec" => tmpTaskList # <<>>

LEMMA TypeInit == Init => TypeInv
  BY DispatcherAssumption DEF Init, TypeInv, TypeOK, Modes, NoTask, Tasks

LEMMA TypeStep == TypeInv /\ [Next]_vars => TypeInv'
  <1> SUFFICES ASSUME TypeInv, [Next]_vars PROVE TypeInv'
    OBVIOUS
  <1> USE DEF TypeInv, TypeOK
  <1>1. ASSUME NEW t \in Threads, NEW k \in Tasks, CallAdd(t, k) PROVE TypeInv'
    BY <1>1 DEF CallAdd
  <1>2. ASSUME NEW t \in Threads, CallShutdown(t) PROVE TypeInv'
    BY <1>2 DEF CallShutdown, Tasks
  <1>3. ASSUME NEW t \in Threads, LockForCall(t) PROVE TypeInv'
    BY <1>3 DEF LockForCall
  <1>4. ASSUME NEW t \in Threads, PushAndUnlock(t) PROVE TypeInv'
    BY <1>4 DEF PushAndUnlock, Push
  <1>5. ASSUME NEW t \in Threads, DiscardAndUnlock(t) PROVE TypeInv'
    BY <1>5 DEF DiscardAndUnlock
  <1>6. ASSUME NEW t \in Threads, NotifyAfterUnlock(t) PROVE TypeInv'
    BY <1>6 DEF NotifyAfterUnlock, Notified
  <1>7. ASSUME NEW t \in Threads, PushTermination(t) PROVE TypeInv'
    BY <1>7 DEF PushTermination, Push, Notified, Tasks
  <1>8. CASE ThreadMain
    <2>1. CASE WorkerCheck  BY <2>1 DEF WorkerCheck, callVars
    <2>2. CASE WorkerLock  BY <2>2 DEF WorkerLock, callVars, Threads
    <2>3. CASE WorkerWait  BY <2>3 DEF WorkerWait, callVars
    <2>4. CASE WorkerRelock  BY <2>4 DEF WorkerRelock, callVars, Threads
    <2>5. CASE WorkerSwap  BY <2>5 DEF WorkerSwap, callVars
    <2>6. CASE BeginTask  BY <2>6 DEF BeginTask, callVars
    <2>7. CASE SkipExpired  BY <2>7 DEF SkipExpired, Retire, callVars
    <2>8. CASE StopFromTask  BY <2>8 DEF StopFromTask, callVars
    <2>9. CASE Terminate  BY <2>9 DEF Terminate, Notified, callVars
    <2>10. CASE EndTask  BY <2>10 DEF EndTask, Retire, callVars
    <2>11. CASE EndBatch  BY <2>11 DEF EndBatch, callVars
    <2> QED  BY <1>8, <2>1, <2>2, <2>3, <2>4, <2>5, <2>6, <2>7, <2>8, <2>9,
                <2>10, <2>11 DEF ThreadMain
  <1>9. CASE StopUtility  BY <1>9 DEF StopUtility, callVars
  <1>10. CASE SpuriousWakeup  BY <1>10 DEF SpuriousWakeup, callVars
  <1>11. CASE UNCHANGED vars  BY <1>11 DEF vars
  <1> QED  BY <1>1, <1>2, <1>3, <1>4, <1>5, <1>6, <1>7, <1>8, <1>9, <1>10, <1>11
           DEF Next, Call, InCall

\* Type correctness of the dispatcher.
THEOREM DispatcherTypes == Spec => []TypeOK
  <1>1. Spec => []TypeInv
    BY TypeInit, TypeStep, PTL DEF Spec
  <1>2. TypeInv => TypeOK
    BY DEF TypeInv
  <1> QED  BY <1>1, <1>2, PTL

-----------------------------------------------------------------------------
\* threadMain never sleeps on a non-empty list unless some thread is about to
\* notify it: the first thread to fill the list owes the signal, and the
\* signal wakes the worker if it sleeps.
LEMMA WakeupStep == TypeInv /\ NoLostWakeup /\ [Next]_vars => NoLostWakeup'
  <1> SUFFICES ASSUME TypeInv, NoLostWakeup, [Next]_vars,
                      wpc' = "waiting", taskList' # <<>>
               PROVE  \E t \in Threads : callPc'[t] = "notify"
    BY DEF NoLostWakeup
  <1> USE DEF TypeInv, TypeOK
  <1>1. ASSUME NEW t \in Threads, NEW k \in Tasks, CallAdd(t, k)
        PROVE \E u \in Threads : callPc'[u] = "notify"
    BY <1>1 DEF CallAdd, MayCall, NoLostWakeup
  <1>2. ASSUME NEW t \in Threads, CallShutdown(t)
        PROVE \E u \in Threads : callPc'[u] = "notify"
    BY <1>2 DEF CallShutdown, NoLostWakeup
  <1>3. ASSUME NEW t \in Threads, LockForCall(t)
        PROVE \E u \in Threads : callPc'[u] = "notify"
    BY <1>3 DEF LockForCall, NoLostWakeup
  <1>4. ASSUME NEW t \in Threads, PushAndUnlock(t)
        PROVE \E u \in Threads : callPc'[u] = "notify"
    <2>1. CASE taskList = <<>>
      BY <1>4, <2>1 DEF PushAndUnlock, DoSignal
    <2>2. CASE taskList # <<>>
      BY <1>4, <2>2 DEF PushAndUnlock, DoSignal, NoLostWakeup
    <2> QED  BY <2>1, <2>2
  <1>5. ASSUME NEW t \in Threads, DiscardAndUnlock(t)
        PROVE \E u \in Threads : callPc'[u] = "notify"
    BY <1>5 DEF DiscardAndUnlock, NoLostWakeup
  <1>6. ASSUME NEW t \in Threads, NotifyAfterUnlock(t)
        PROVE FALSE
    BY <1>6 DEF NotifyAfterUnlock, Notified
  <1>7. ASSUME NEW t \in Threads, PushTermination(t)
        PROVE FALSE
    BY <1>7 DEF PushTermination, Notified
  <1>8. CASE ThreadMain
    <2>1. CASE WorkerCheck  BY <2>1 DEF WorkerCheck
    <2>2. CASE WorkerLock  BY <2>2 DEF WorkerLock
    <2>3. CASE WorkerWait  BY <2>3 DEF WorkerWait
    <2>4. CASE WorkerRelock  BY <2>4 DEF WorkerRelock
    <2>5. CASE WorkerSwap  BY <2>5 DEF WorkerSwap
    <2>6. CASE BeginTask  BY <2>6 DEF BeginTask
    <2>7. CASE SkipExpired  BY <2>7 DEF SkipExpired
    <2>8. CASE StopFromTask  BY <2>8 DEF StopFromTask
    <2>9. CASE Terminate  BY <2>9 DEF Terminate, Notified
    <2>10. CASE EndTask  BY <2>10 DEF EndTask
    <2>11. CASE EndBatch  BY <2>11 DEF EndBatch
    <2> QED  BY <1>8, <2>1, <2>2, <2>3, <2>4, <2>5, <2>6, <2>7, <2>8, <2>9,
                <2>10, <2>11 DEF ThreadMain
  <1>9. CASE StopUtility  BY <1>9 DEF StopUtility, callVars, NoLostWakeup
  <1>10. CASE SpuriousWakeup  BY <1>10 DEF SpuriousWakeup
  <1>11. CASE UNCHANGED vars  BY <1>11 DEF vars, NoLostWakeup
  <1> QED  BY <1>1, <1>2, <1>3, <1>4, <1>5, <1>6, <1>7, <1>8, <1>9, <1>10, <1>11
           DEF Next, Call, InCall

\* No wakeup of the dispatcher is lost, however many threads post.
THEOREM DispatcherNoLostWakeup == Spec => []NoLostWakeup
  <1>1. Init => TypeInv /\ NoLostWakeup
    BY TypeInit DEF Init, NoLostWakeup
  <1>2. TypeInv /\ NoLostWakeup /\ [Next]_vars => TypeInv' /\ NoLostWakeup'
    BY TypeStep, WakeupStep
  <1> QED  BY <1>1, <1>2, PTL DEF Spec

-----------------------------------------------------------------------------
(* Sequences: how appending, taking heads and concatenating commute.        *)

LEMMA AppendConcat ==
  ASSUME NEW S, NEW s \in Seq(S), NEW t \in Seq(S), NEW e \in S
  PROVE  s \o Append(t, e) = Append(s \o t, e)
  <1>1. <<e>> \in Seq(S) /\ s \o t \in Seq(S)
    BY ConcatProperties
  <1>2. Append(t, e) = t \o <<e>> /\ Append(s \o t, e) = (s \o t) \o <<e>>
    BY <1>1, AppendIsConcat
  <1> QED  BY <1>1, <1>2, ConcatAssociative

LEMMA HeadTailConcat ==
  ASSUME NEW S, NEW s \in Seq(S), NEW t \in Seq(S), s # <<>>
  PROVE  /\ s \o t # <<>>
         /\ Head(s \o t) = Head(s)
         /\ Tail(s \o t) = Tail(s) \o t
  OBVIOUS

LEMMA MoveHead ==
  ASSUME NEW S, NEW s \in Seq(S), NEW t \in Seq(S), t # <<>>
  PROVE  Append(s, Head(t)) \o Tail(t) = s \o t
  <1>1. Head(t) \in S /\ Tail(t) \in Seq(S) /\ t = <<Head(t)>> \o Tail(t)
    OBVIOUS
  <1>2. <<Head(t)>> \in Seq(S) /\ Append(s, Head(t)) = s \o <<Head(t)>>
    BY <1>1, AppendIsConcat
  <1> QED  BY SMTT(30), <1>1, <1>2, ConcatAssociative

-----------------------------------------------------------------------------
(* The lists.                                                               *)

\* The worker holds a batch between the swap and the end of the loop only.
BatchInv == wpc \notin {"batch", "exec"} => tmpTaskList = <<>>

\* What a step may do to the lists.
Pushes(k) ==
    /\ taskList' = Append(taskList, k)
    /\ accepted' = Append(accepted, k)
    /\ UNCHANGED <<tmpTaskList, finished>>

Swaps ==
    /\ tmpTaskList = <<>>
    /\ taskList' = <<>>
    /\ tmpTaskList' = taskList
    /\ UNCHANGED <<accepted, finished>>

Retires ==
    /\ tmpTaskList # <<>>
    /\ tmpTaskList' = Tail(tmpTaskList)
    /\ finished' = Append(finished, Head(tmpTaskList))
    /\ UNCHANGED <<taskList, accepted>>

LEMMA ListsStep ==
  ASSUME TypeInv, BatchInv, [Next]_vars
  PROVE  /\ BatchInv'
         /\ \/ UNCHANGED <<taskList, tmpTaskList, accepted, finished>>
            \/ \E t \in Threads : Pushes(callTask[t])
            \/ Swaps
            \/ Retires
  <1> DEFINE Same == UNCHANGED <<taskList, tmpTaskList, accepted, finished>>
             Goal == /\ BatchInv'
                     /\ Same \/ (\E t \in Threads : Pushes(callTask[t])) \/ Swaps \/ Retires
  <1> SUFFICES Goal
    OBVIOUS
  <1> USE DEF TypeInv, TypeOK, BatchInv
  <1>1. ASSUME NEW t \in Threads, NEW k \in Tasks, CallAdd(t, k) PROVE Goal
    BY <1>1 DEF CallAdd
  <1>2. ASSUME NEW t \in Threads, CallShutdown(t) PROVE Goal
    BY <1>2 DEF CallShutdown
  <1>3. ASSUME NEW t \in Threads, LockForCall(t) PROVE Goal
    BY <1>3 DEF LockForCall
  <1>4. ASSUME NEW t \in Threads, PushAndUnlock(t) PROVE Goal
    BY <1>4 DEF PushAndUnlock, Push, Pushes
  <1>5. ASSUME NEW t \in Threads, DiscardAndUnlock(t) PROVE Goal
    BY <1>5 DEF DiscardAndUnlock
  <1>6. ASSUME NEW t \in Threads, NotifyAfterUnlock(t) PROVE Goal
    BY <1>6 DEF NotifyAfterUnlock, Notified
  <1>7. ASSUME NEW t \in Threads, PushTermination(t) PROVE Goal
    BY <1>7 DEF PushTermination, Push, Pushes, Notified
  <1>8. CASE ThreadMain
    <2>1. CASE WorkerCheck  BY <2>1 DEF WorkerCheck
    <2>2. CASE WorkerLock  BY <2>2 DEF WorkerLock
    <2>3. CASE WorkerWait  BY <2>3 DEF WorkerWait
    <2>4. CASE WorkerRelock  BY <2>4 DEF WorkerRelock
    <2>5. CASE WorkerSwap  BY <2>5 DEF WorkerSwap, Swaps
    <2>6. CASE BeginTask  BY <2>6 DEF BeginTask
    <2>7. CASE SkipExpired  BY <2>7 DEF SkipExpired, Retire, Retires
    <2>8. CASE StopFromTask  BY <2>8 DEF StopFromTask
    <2>9. CASE Terminate  BY <2>9 DEF Terminate, Notified
    <2>10. CASE EndTask  BY <2>10 DEF EndTask, Retire, Retires
    <2>11. CASE EndBatch  BY <2>11 DEF EndBatch
    <2> QED  BY <1>8, <2>1, <2>2, <2>3, <2>4, <2>5, <2>6, <2>7, <2>8, <2>9,
                <2>10, <2>11 DEF ThreadMain
  <1>9. CASE StopUtility  BY <1>9 DEF StopUtility
  <1>10. CASE SpuriousWakeup  BY <1>10 DEF SpuriousWakeup
  <1>11. CASE UNCHANGED vars  BY <1>11 DEF vars
  <1> QED  BY <1>1, <1>2, <1>3, <1>4, <1>5, <1>6, <1>7, <1>8, <1>9, <1>10, <1>11
           DEF Next, Call, InCall

LEMMA FifoStep ==
  ASSUME TypeInv, BatchInv, FifoNoLoss, [Next]_vars
  PROVE  FifoNoLoss'
  <1> USE DEF TypeInv, TypeOK, FifoNoLoss
  <1>1. CASE UNCHANGED <<taskList, tmpTaskList, accepted, finished>>
    BY <1>1
  <1>2. ASSUME NEW t \in Threads, Pushes(callTask[t]) PROVE FifoNoLoss'
    <2>1. callTask[t] \in Tasks /\ finished \o tmpTaskList \in Seq(Tasks)
      BY ConcatProperties
    <2>2. (finished \o tmpTaskList) \o Append(taskList, callTask[t])
             = Append((finished \o tmpTaskList) \o taskList, callTask[t])
      BY <2>1, AppendConcat
    <2> QED  BY <1>2, <2>2 DEF Pushes
  <1>3. CASE Swaps
    BY <1>3, ConcatEmptySeq DEF Swaps
  <1>4. CASE Retires
    BY <1>4, MoveHead DEF Retires
  <1> QED  BY <1>1, <1>2, <1>3, <1>4, ListsStep

LEMMA FifoInvariant == Spec => [](TypeInv /\ BatchInv /\ FifoNoLoss)
  <1>1. Init => TypeInv /\ BatchInv /\ FifoNoLoss
    BY TypeInit DEF Init, BatchInv, FifoNoLoss
  <1>2. TypeInv /\ BatchInv /\ FifoNoLoss /\ [Next]_vars
            => TypeInv' /\ BatchInv' /\ FifoNoLoss'
    BY TypeStep, ListsStep, FifoStep
  <1> QED  BY <1>1, <1>2, PTL DEF Spec

\* Tasks run in the order of posting and none is lost or run twice.
THEOREM DispatcherFifoNoLoss == Spec => []FifoNoLoss
  BY FifoInvariant, PTL

-----------------------------------------------------------------------------
(* The mutex.                                                               *)

LEMMA LockStep ==
  ASSUME TypeInv, LockDiscipline, [Next]_vars
  PROVE  LockDiscipline'
  <1> USE DispatcherAssumption DEF TypeInv, TypeOK, LockDiscipline, Threads
  <1>1. ASSUME NEW t \in Threads, NEW k \in Tasks, CallAdd(t, k) PROVE LockDiscipline'
    BY <1>1 DEF CallAdd, MayCall
  <1>2. ASSUME NEW t \in Threads, CallShutdown(t) PROVE LockDiscipline'
    <2>1. t = Worker => wpc = "exec"
      BY <1>2 DEF CallShutdown, MayShutdown, Posters
    <2> QED  BY <1>2, <2>1 DEF CallShutdown
  <1>3. ASSUME NEW t \in Threads, LockForCall(t) PROVE LockDiscipline'
    BY <1>3 DEF LockForCall
  <1>4. ASSUME NEW t \in Threads, PushAndUnlock(t) PROVE LockDiscipline'
    BY <1>4 DEF PushAndUnlock
  <1>5. ASSUME NEW t \in Threads, DiscardAndUnlock(t) PROVE LockDiscipline'
    BY <1>5 DEF DiscardAndUnlock
  <1>6. ASSUME NEW t \in Threads, NotifyAfterUnlock(t) PROVE LockDiscipline'
    BY <1>6 DEF NotifyAfterUnlock, Notified
  <1>7. ASSUME NEW t \in Threads, PushTermination(t) PROVE LockDiscipline'
    BY <1>7 DEF PushTermination, Notified
  <1>8. CASE ThreadMain
    <2>1. CASE WorkerCheck  BY <2>1 DEF WorkerCheck, callVars
    <2>2. CASE WorkerLock  BY <2>2 DEF WorkerLock, callVars
    <2>3. CASE WorkerWait  BY <2>3 DEF WorkerWait, callVars
    <2>4. CASE WorkerRelock  BY <2>4 DEF WorkerRelock, callVars
    <2>5. CASE WorkerSwap  BY <2>5 DEF WorkerSwap, callVars
    <2>6. CASE BeginTask  BY <2>6 DEF BeginTask, callVars
    <2>7. CASE SkipExpired  BY <2>7 DEF SkipExpired, callVars
    <2>8. CASE StopFromTask  BY <2>8 DEF StopFromTask, callVars
    <2>9. CASE Terminate  BY <2>9 DEF Terminate, Notified, callVars
    <2>10. CASE EndTask  BY <2>10 DEF EndTask, callVars
    <2>11. CASE EndBatch  BY <2>11 DEF EndBatch, callVars
    <2> QED  BY <1>8, <2>1, <2>2, <2>3, <2>4, <2>5, <2>6, <2>7, <2>8, <2>9,
                <2>10, <2>11 DEF ThreadMain
  <1>9. CASE StopUtility  BY <1>9 DEF StopUtility, callVars
  <1>10. CASE SpuriousWakeup  BY <1>10 DEF SpuriousWakeup, callVars
  <1>11. CASE UNCHANGED vars  BY <1>11 DEF vars
  <1> QED  BY <1>1, <1>2, <1>3, <1>4, <1>5, <1>6, <1>7, <1>8, <1>9, <1>10, <1>11
           DEF Next, Call, InCall

\* No task executes under taskLock, and only who is inside a critical section
\* holds it.
THEOREM DispatcherLockDiscipline == Spec => []LockDiscipline
  <1>1. Init => TypeInv /\ LockDiscipline
    BY TypeInit, DispatcherAssumption DEF Init, LockDiscipline, Threads
  <1>2. TypeInv /\ LockDiscipline /\ [Next]_vars => TypeInv' /\ LockDiscipline'
    BY TypeStep, LockStep
  <1> QED  BY <1>1, <1>2, PTL DEF Spec

-----------------------------------------------------------------------------
(* Who has which task.                                                      *)

Calling(t) == callPc[t] \in {"lock", "critical"}

\* A task has been created before it is accepted, and it is in the hands of
\* one caller until then.
CallInv ==
    /\ Posted \subseteq created
    /\ \A t \in Threads : Calling(t) => callTask[t] \in created \ Posted
    /\ \A t, u \in Threads :
          Calling(t) /\ Calling(u) /\ callTask[t] = callTask[u] => t = u

LEMMA PostedAppend ==
  ASSUME TypeInv, NEW k \in Tasks, accepted' = Append(accepted, k)
  PROVE  Posted' = Posted \cup {k}
  BY DEF TypeInv, TypeOK, Posted

LEMMA CallStep ==
  ASSUME TypeInv, CallInv, [Next]_vars
  PROVE  CallInv'
  <1> USE DEF TypeInv, TypeOK, CallInv, Calling
  <1>1. ASSUME NEW t \in Threads, NEW k \in Tasks, CallAdd(t, k) PROVE CallInv'
    <2>1. Posted' = Posted
      BY <1>1 DEF CallAdd, Posted
    <2> QED  BY <1>1, <2>1 DEF CallAdd, MayCall
  <1>2. ASSUME NEW t \in Threads, CallShutdown(t) PROVE CallInv'
    <2>1. Posted' = Posted
      BY <1>2 DEF CallShutdown, Posted
    <2> QED  BY <1>2, <2>1 DEF CallShutdown
  <1>3. ASSUME NEW t \in Threads, LockForCall(t) PROVE CallInv'
    BY <1>3 DEF LockForCall, Posted
  <1>4. ASSUME NEW t \in Threads, PushAndUnlock(t) PROVE CallInv'
    <2>1. Posted' = Posted \cup {callTask[t]}
      BY <1>4, PostedAppend DEF PushAndUnlock, Push
    <2> QED  BY <1>4, <2>1 DEF PushAndUnlock
  <1>5. ASSUME NEW t \in Threads, DiscardAndUnlock(t) PROVE CallInv'
    BY <1>5 DEF DiscardAndUnlock, Posted
  <1>6. ASSUME NEW t \in Threads, NotifyAfterUnlock(t) PROVE CallInv'
    BY <1>6 DEF NotifyAfterUnlock, Posted
  <1>7. ASSUME NEW t \in Threads, PushTermination(t) PROVE CallInv'
    <2>1. Posted' = Posted \cup {callTask[t]}
      BY <1>7, PostedAppend DEF PushTermination, Push
    <2> QED  BY <1>7, <2>1 DEF PushTermination
  <1>8. ASSUME UNCHANGED <<callPc, callTask, created, accepted>> PROVE CallInv'
    BY <1>8 DEF Posted
  <1>9. CASE ThreadMain \/ StopUtility \/ SpuriousWakeup
    BY <1>8, <1>9 DEF ThreadMain, StopUtility, SpuriousWakeup, WorkerCheck, WorkerLock,
       WorkerWait, WorkerRelock, WorkerSwap, BeginTask, SkipExpired, StopFromTask,
       Terminate, EndTask, EndBatch, Retire, callVars
  <1>10. CASE UNCHANGED vars  BY <1>8, <1>10 DEF vars
  <1> QED  BY <1>1, <1>2, <1>3, <1>4, <1>5, <1>6, <1>7, <1>9, <1>10
           DEF Next, Call, InCall

-----------------------------------------------------------------------------
(* The orderly stop.                                                        *)

\* Once the task of Game::shutdown exists, the task that made it is still
\* running or has stopped the dispatcher; the termination task is made later.
ClosingInv ==
    /\ FinTask \in created /\ threadState = "RUNNING" =>
          wpc = "exec" /\ Current = CloseTask
    /\ TermTask \in created /\ mode # "offline" => threadState # "RUNNING"

QueueInv == TypeInv /\ BatchInv /\ FifoNoLoss /\ CallInv /\ ClosingInv

LEMMA CurrentPosted ==
  ASSUME TypeInv, FifoNoLoss, tmpTaskList # <<>>
  PROVE  Current \in Posted
  <1> USE DEF TypeInv, TypeOK
  <1>1. accepted = finished \o (tmpTaskList \o taskList)
    BY ConcatAssociative DEF FifoNoLoss
  <1>2. tmpTaskList \o taskList \in Seq(Tasks) /\ Len(tmpTaskList \o taskList) >= 1
        /\ (tmpTaskList \o taskList)[1] = Head(tmpTaskList)
    BY ConcatProperties
  <1>3. /\ Len(accepted) >= Len(finished) + 1
        /\ accepted[Len(finished) + 1] = Head(tmpTaskList)
    BY <1>1, <1>2, ConcatProperties
  <1> QED  BY <1>3 DEF Current, Posted

LEMMA ClosingStep ==
  ASSUME QueueInv, [Next]_vars
  PROVE  ClosingInv'
  <1> USE DispatcherAssumption DEF QueueInv, TypeInv, TypeOK, ClosingInv, Threads, Tasks
  <1>1. ASSUME NEW t \in Threads, NEW k \in Tasks, CallAdd(t, k) PROVE ClosingInv'
    BY <1>1 DEF CallAdd, MayCall, Current
  <1>2. ASSUME NEW t \in Threads, CallShutdown(t) PROVE ClosingInv'
    <2>1. wpc = "exec" /\ Current = FinTask => FinTask \in created
      BY CurrentPosted DEF CallInv
    <2>2. mode # "offline" => threadState # "RUNNING"
      BY <1>2, <2>1 DEF CallShutdown, MayShutdown, Modes
    <2> QED  BY <1>2, <2>2 DEF CallShutdown, Current
  <1>3. ASSUME NEW t \in Threads, InCall(t), wpc' # wpc PROVE wpc = "waiting"
    BY <1>3 DEF InCall, LockForCall, PushAndUnlock, DiscardAndUnlock, NotifyAfterUnlock,
       PushTermination, Notified
  <1>4. ASSUME NEW t \in Threads, InCall(t) PROVE ClosingInv'
    <2>1. UNCHANGED <<mode, threadState, tmpTaskList, created>>
      BY <1>4 DEF InCall, LockForCall, PushAndUnlock, DiscardAndUnlock, NotifyAfterUnlock,
         PushTermination, Push
    <2> QED  BY <1>3, <1>4, <2>1 DEF Current
  <1>5. CASE ThreadMain
    <2>1. CASE WorkerCheck  BY <2>1 DEF WorkerCheck, callVars
    <2>2. CASE WorkerLock  BY <2>2 DEF WorkerLock, callVars
    <2>3. CASE WorkerWait  BY <2>3 DEF WorkerWait, callVars
    <2>4. CASE WorkerRelock  BY <2>4 DEF WorkerRelock, callVars
    <2>5. CASE WorkerSwap  BY <2>5 DEF WorkerSwap, callVars
    <2>6. CASE BeginTask  BY <2>6 DEF BeginTask, callVars
    <2>7. CASE SkipExpired  BY <2>7 DEF SkipExpired, callVars
    <2>8. CASE StopFromTask  BY <2>8 DEF StopFromTask, callVars
    <2>9. CASE Terminate  BY <2>9 DEF Terminate, callVars
    <2>10. CASE EndTask  BY <2>10 DEF EndTask, BodyDone, callVars
    <2>11. CASE EndBatch  BY <2>11 DEF EndBatch, callVars
    <2> QED  BY <1>5, <2>1, <2>2, <2>3, <2>4, <2>5, <2>6, <2>7, <2>8, <2>9,
                <2>10, <2>11 DEF ThreadMain
  <1>6. CASE StopUtility  BY <1>6 DEF StopUtility, callVars
  <1>7. CASE SpuriousWakeup  BY <1>7 DEF SpuriousWakeup, callVars
  <1>8. CASE UNCHANGED vars  BY <1>8 DEF vars, Current
  <1> QED  BY <1>1, <1>2, <1>4, <1>5, <1>6, <1>7, <1>8 DEF Next, Call

LEMMA QueueInvariant == Spec => []QueueInv
  <1>1. Init => QueueInv
    <2> SUFFICES ASSUME Init PROVE QueueInv
      OBVIOUS
    <2>1. TypeInv /\ BatchInv /\ FifoNoLoss
      BY TypeInit DEF Init, BatchInv, FifoNoLoss
    <2>2. CallInv /\ ClosingInv
      BY DEF Init, CallInv, Calling, Posted, ClosingInv
    <2> QED  BY <2>1, <2>2 DEF QueueInv
  <1>2. QueueInv /\ [Next]_vars => QueueInv'
    <2> SUFFICES ASSUME QueueInv, [Next]_vars PROVE QueueInv'
      OBVIOUS
    <2>1. TypeInv' /\ BatchInv' /\ FifoNoLoss' /\ CallInv'
      BY TypeStep, ListsStep, FifoStep, CallStep DEF QueueInv
    <2> QED  BY <2>1, ClosingStep DEF QueueInv
  <1> QED  BY <1>1, <1>2, PTL DEF Spec

LEMMA AfterTermStep ==
  ASSUME QueueInv, NothingAcceptedAfterTerm, [Next]_vars
  PROVE  NothingAcceptedAfterTerm'
  <1> USE DEF QueueInv, TypeInv, TypeOK, NothingAcceptedAfterTerm
  <1>1. mode' = mode
    BY DEF Next, vars, Call, InCall, ThreadMain, CallAdd, CallShutdown, LockForCall,
       PushAndUnlock, DiscardAndUnlock, NotifyAfterUnlock, PushTermination, WorkerCheck,
       WorkerLock, WorkerWait, WorkerRelock, WorkerSwap, BeginTask, SkipExpired,
       StopFromTask, Terminate, EndTask, EndBatch, StopUtility, SpuriousWakeup
  <1>2. CASE accepted' = accepted
    BY <1>1, <1>2
  <1>3. ASSUME NEW t \in Threads, PushAndUnlock(t) PROVE NothingAcceptedAfterTerm'
    <2>1. mode # "offline" => TermTask \notin Posted
      BY <1>3 DEF PushAndUnlock, Accepting, ClosingInv, CallInv
    <2>2. accepted' = Append(accepted, callTask[t]) /\ callTask[t] # TermTask
      BY <1>3 DEF PushAndUnlock, Push
    <2> QED  BY <1>1, <2>1, <2>2 DEF Posted
  <1>4. ASSUME NEW t \in Threads, PushTermination(t) PROVE NothingAcceptedAfterTerm'
    <2>1. TermTask \notin Posted
      BY <1>4 DEF PushTermination, CallInv, Calling
    <2>2. accepted' = Append(accepted, TermTask)
      BY <1>4 DEF PushTermination, Push
    <2> QED  BY <1>1, <2>1, <2>2 DEF Posted, Tasks
  <1>5. accepted' = accepted \/ \E t \in Threads : PushAndUnlock(t) \/ PushTermination(t)
    BY DEF Next, vars, Call, InCall, ThreadMain, CallAdd, CallShutdown, LockForCall,
       DiscardAndUnlock, NotifyAfterUnlock, WorkerCheck,
       WorkerLock, WorkerWait, WorkerRelock, WorkerSwap, BeginTask, SkipExpired, Retire,
       StopFromTask, Terminate, EndTask, EndBatch, StopUtility, SpuriousWakeup
  <1> QED  BY <1>2, <1>3, <1>4, <1>5

\* An orderly stop loses no task: whatever is accepted is accepted before the
\* task that ends the dispatcher.
THEOREM DispatcherNothingAfterTerm == Spec => []NothingAcceptedAfterTerm
  <1>1. Init => NothingAcceptedAfterTerm
    BY DEF Init, NothingAcceptedAfterTerm
  <1>2. QueueInv /\ NothingAcceptedAfterTerm /\ [Next]_vars => NothingAcceptedAfterTerm'
    BY AfterTermStep
  <1> QED  BY <1>1, <1>2, QueueInvariant, PTL DEF Spec

-----------------------------------------------------------------------------
(* The exit of the thread.                                                  *)

\* Once terminated, an orderly dispatcher has nothing left but, perhaps, the
\* termination task it is still running.
ExitInv ==
    /\ wpc = "exit" => threadState = "TERMINATED"
    /\ threadState = "TERMINATED" => TermTask \in Posted
    /\ threadState = "TERMINATED" /\ mode # "offline" =>
          taskList = <<>> /\ Len(tmpTaskList) <= 1

LEMMA TermIsLast ==
  ASSUME QueueInv, NothingAcceptedAfterTerm, mode # "offline",
         tmpTaskList # <<>>, Current = TermTask
  PROVE  taskList = <<>> /\ Len(tmpTaskList) <= 1
  <1> USE DEF QueueInv, TypeInv, TypeOK
  <1>1. accepted = finished \o (tmpTaskList \o taskList)
    BY SMTT(30), ConcatAssociative DEF FifoNoLoss
  <1>2. /\ tmpTaskList \o taskList \in Seq(Tasks)
        /\ Len(tmpTaskList \o taskList) = Len(tmpTaskList) + Len(taskList)
        /\ Len(tmpTaskList) >= 1
        /\ (tmpTaskList \o taskList)[1] = Head(tmpTaskList)
    BY ConcatProperties
  <1>3. /\ Len(accepted) = Len(finished) + Len(tmpTaskList) + Len(taskList)
        /\ accepted[Len(finished) + 1] = TermTask
    BY <1>1, <1>2, ConcatProperties DEF Current
  <1>4. Len(finished) + 1 = Len(accepted)
    BY <1>2, <1>3 DEF NothingAcceptedAfterTerm
  <1> QED  BY <1>2, <1>3, <1>4

LEMMA ExitStep ==
  ASSUME QueueInv, NothingAcceptedAfterTerm, ExitInv, [Next]_vars
  PROVE  ExitInv'
  <1> USE DEF QueueInv, TypeInv, TypeOK, ExitInv
  <1>1. ASSUME UNCHANGED <<mode, threadState, taskList, tmpTaskList, accepted>>,
               wpc' = "exit" => wpc = "exit"
        PROVE  ExitInv'
    BY <1>1 DEF Posted
  <1>2. ASSUME NEW t \in Threads, PushAndUnlock(t) PROVE ExitInv'
    BY <1>2 DEF PushAndUnlock, Accepting
  <1>3. ASSUME NEW t \in Threads, PushTermination(t) PROVE ExitInv'
    <2>1. threadState # "TERMINATED"
      BY <1>3 DEF PushTermination, CallInv, Calling
    <2> QED  BY <1>3, <2>1 DEF PushTermination, Notified
  <1>4. ASSUME NEW t \in Threads, Call(t) \/ InCall(t) PROVE ExitInv'
    <2>1. CASE PushAndUnlock(t) \/ PushTermination(t)
      BY <1>2, <1>3, <2>1
    <2>2. CASE ~(PushAndUnlock(t) \/ PushTermination(t))
      BY <1>1, <1>4, <2>2 DEF Call, InCall, CallAdd, CallShutdown, LockForCall,
         DiscardAndUnlock, NotifyAfterUnlock, Notified
    <2> QED  BY <2>1, <2>2
  <1>5. CASE ThreadMain
    <2>1. CASE WorkerCheck  BY <2>1 DEF WorkerCheck, Posted
    <2>2. CASE WorkerLock  BY <1>1, <2>2 DEF WorkerLock
    <2>3. CASE WorkerWait  BY <1>1, <2>3 DEF WorkerWait
    <2>4. CASE WorkerRelock  BY <1>1, <2>4 DEF WorkerRelock
    <2>5. CASE WorkerSwap
      <3>1. tmpTaskList = <<>>
        BY <2>5 DEF WorkerSwap, BatchInv
      <3> QED  BY <2>5, <3>1 DEF WorkerSwap, Posted
    <2>6. CASE BeginTask  BY <1>1, <2>6 DEF BeginTask
    <2>7. CASE SkipExpired  BY <2>7 DEF SkipExpired, Retire, Posted
    <2>8. CASE StopFromTask  BY <2>8 DEF StopFromTask, Posted
    <2>9. CASE Terminate
      <3>1. tmpTaskList # <<>> /\ Current = TermTask
        BY <2>9 DEF Terminate
      <3>2. TermTask \in Posted
        BY <3>1, CurrentPosted
      <3>3. mode # "offline" => taskList = <<>> /\ Len(tmpTaskList) <= 1
        BY <3>1, TermIsLast
      <3> QED  BY <2>9, <3>2, <3>3 DEF Terminate, Notified, Posted
    <2>10. CASE EndTask  BY <2>10 DEF EndTask, Retire, Posted
    <2>11. CASE EndBatch  BY <1>1, <2>11 DEF EndBatch
    <2> QED  BY <1>5, <2>1, <2>2, <2>3, <2>4, <2>5, <2>6, <2>7, <2>8, <2>9,
                <2>10, <2>11 DEF ThreadMain
  <1>6. CASE StopUtility  BY <1>6 DEF StopUtility, Posted
  <1>7. CASE SpuriousWakeup  BY <1>1, <1>7 DEF SpuriousWakeup
  <1>8. CASE UNCHANGED vars  BY <1>1, <1>8 DEF vars
  <1> QED  BY <1>4, <1>5, <1>6, <1>7, <1>8 DEF Next

\* A dispatcher that was closed in order has run everything when its thread
\* leaves.
THEOREM DispatcherOrderlyExit == Spec => []OrderlyExit
  <1>1. Init => ExitInv
    BY DEF Init, ExitInv
  <1>2. QueueInv /\ NothingAcceptedAfterTerm /\ ExitInv /\ [Next]_vars => ExitInv'
    BY ExitStep
  <1>3. QueueInv /\ ExitInv => OrderlyExit
    BY DEF QueueInv, BatchInv, ExitInv, OrderlyExit
  <1> QED  BY <1>1, <1>2, <1>3, QueueInvariant, DispatcherNothingAfterTerm, PTL DEF Spec

-----------------------------------------------------------------------------
(* The refinement.                                                          *)

LEMMA RetireTerminated ==
  ASSUME TypeInv, NEW k \in Tasks, finished' = Append(finished, k)
  PROVE  Terminated' <=> Terminated \/ k = TermTask
  BY DEF TypeInv, TypeOK, Terminated

LEMMA QueueStep ==
  ASSUME QueueInv, [Next]_vars
  PROVE  [Queue!QNext]_(Queue!qvars)
  <1> DEFINE Goal == Queue!QNext \/ UNCHANGED Queue!qvars
  <1> SUFFICES Goal
    OBVIOUS
  <1> USE DispatcherAssumption DEF QueueInv, TypeInv, TypeOK
  <1>1. ASSUME UNCHANGED <<taskList, tmpTaskList, accepted, finished>>,
               wpc' = "exec" <=> wpc = "exec"
        PROVE  Goal
    BY <1>1 DEF Queue!qvars, NotStarted, Running, Current, Posted, Terminated
  <1>2. ASSUME NEW k \in Tasks, k \notin Posted, Push(k), UNCHANGED <<tmpTaskList, finished>>,
               wpc' = "exec" <=> wpc = "exec"
        PROVE  Goal
    <2>1. Posted' = Posted \cup {k}
      BY <1>2, PostedAppend DEF Push
    <2>2. NotStarted' = Append(NotStarted, k)
      <3>1. CASE wpc = "exec"
        <4>1. Tail(tmpTaskList) \in Seq(Tasks)
          BY <3>1
        <4> QED  BY SMTT(30), <1>2, <3>1, <4>1, AppendConcat DEF NotStarted, Push
      <3>2. CASE wpc # "exec"
        <4>1. tmpTaskList \o Append(taskList, k) = Append(tmpTaskList \o taskList, k)
          BY AppendConcat
        <4> QED  BY <1>2, <3>2, <4>1 DEF NotStarted, Push
      <3> QED  BY <3>1, <3>2
    <2>3. Running' = Running /\ Terminated' = Terminated
      BY <1>2 DEF Running, Current, Terminated
    <2>4. Queue!Post(k)
      BY <1>2, <2>1, <2>2, <2>3 DEF Queue!Post
    <2> QED  BY <2>4 DEF Queue!QNext
  <1>3. ASSUME NEW t \in Threads, Call(t) \/ InCall(t) PROVE Goal
    <2>1. CASE PushAndUnlock(t)
      <3>1. callTask[t] \notin Posted
        BY <2>1 DEF PushAndUnlock, CallInv, Calling
      <3> QED  BY <1>2, <2>1, <3>1 DEF PushAndUnlock
    <2>2. CASE PushTermination(t)
      <3>1. callTask[t] = TermTask /\ callTask[t] \notin Posted
        BY <2>2 DEF PushTermination, CallInv, Calling
      <3> QED  BY <1>2, <2>2, <3>1 DEF PushTermination, Notified
    <2>3. CASE ~(PushAndUnlock(t) \/ PushTermination(t))
      BY <1>1, <1>3, <2>3 DEF Call, InCall, CallAdd, CallShutdown, LockForCall,
         DiscardAndUnlock, NotifyAfterUnlock, Notified
    <2> QED  BY <2>1, <2>2, <2>3
  <1>4. CASE WorkerSwap
    <2>1. tmpTaskList = <<>> /\ wpc # "exec" /\ wpc' # "exec"
      BY <1>4 DEF WorkerSwap, BatchInv
    <2>2. NotStarted' = NotStarted
      BY <1>4, <2>1, ConcatEmptySeq DEF WorkerSwap, NotStarted
    <2>3. Running' = Running /\ Posted' = Posted /\ Terminated' = Terminated
      BY <1>4, <2>1 DEF WorkerSwap, Running, Posted, Terminated
    <2> QED  BY <2>2, <2>3 DEF Queue!qvars
  <1>5. CASE BeginTask
    <2>1. tmpTaskList # <<>> /\ wpc = "batch" /\ wpc' = "exec"
      BY <1>5 DEF BeginTask
    <2>2. /\ NotStarted # <<>>
          /\ Running' = Head(NotStarted)
          /\ NotStarted' = Tail(NotStarted)
      BY SMTT(30), <1>5, <2>1, HeadTailConcat DEF BeginTask, NotStarted, Running, Current
    <2>3. Running = NoThread /\ Posted' = Posted /\ Terminated' = Terminated
      BY <1>5, <2>1 DEF BeginTask, Running, Posted, Terminated
    <2>4. Queue!Start
      BY <2>2, <2>3 DEF Queue!Start
    <2> QED  BY <2>4 DEF Queue!QNext
  <1>6. CASE SkipExpired
    <2>1. tmpTaskList # <<>> /\ wpc = "batch" /\ wpc' = "batch" /\ Head(tmpTaskList) \in Expiring
      BY <1>6 DEF SkipExpired
    <2>2. /\ NotStarted # <<>>
          /\ Head(NotStarted) = Head(tmpTaskList)
          /\ NotStarted' = Tail(NotStarted)
      <3>1. NotStarted = tmpTaskList \o taskList
        BY <2>1 DEF NotStarted
      <3>2. NotStarted' = Tail(tmpTaskList) \o taskList
        BY <1>6, <2>1 DEF SkipExpired, Retire, NotStarted
      <3>3. tmpTaskList \in Seq(Tasks) /\ taskList \in Seq(Tasks)
        OBVIOUS
      <3>4. /\ tmpTaskList \o taskList # <<>>
            /\ Head(tmpTaskList \o taskList) = Head(tmpTaskList)
            /\ Tail(tmpTaskList \o taskList) = Tail(tmpTaskList) \o taskList
        BY <2>1, <3>3, HeadTailConcat
      <3> QED  BY <3>1, <3>2, <3>4, Zenon
    <2>3. Running = NoThread /\ Running' = NoThread /\ Posted' = Posted
      BY <1>6, <2>1 DEF SkipExpired, Running, Posted
    <2>4. Head(tmpTaskList) \in Tasks /\ Head(tmpTaskList) # TermTask
      BY <2>1 DEF Tasks
    <2>5. Terminated' = Terminated
      BY <1>6, <2>4, RetireTerminated DEF SkipExpired, Retire, Terminated
    <2>6. Queue!DropExpired
      BY <2>1, <2>2, <2>3, <2>5 DEF Queue!DropExpired
    <2> QED  BY <2>6 DEF Queue!QNext
  <1>7. CASE EndTask
    <2>1. tmpTaskList # <<>> /\ wpc = "exec" /\ wpc' = "batch"
      BY <1>7 DEF EndTask
    <2>2. NotStarted' = NotStarted
      BY <1>7, <2>1 DEF EndTask, Retire, NotStarted
    <2>3. /\ Running = Head(tmpTaskList)
          /\ Running' = NoThread
          /\ Posted' = Posted
      BY <1>7, <2>1 DEF EndTask, Running, Current, Posted
    <2>4. Head(tmpTaskList) \in Tasks /\ Head(tmpTaskList) # NoThread
      BY <2>1
    <2>5. Terminated' = (Terminated \/ Running \in {TermTask})
      BY <1>7, <2>3, <2>4, RetireTerminated DEF EndTask, Retire, Terminated
    <2>6. Queue!Finish
      BY <2>2, <2>3, <2>4, <2>5 DEF Queue!Finish
    <2> QED  BY <2>6 DEF Queue!QNext
  <1>8. CASE ThreadMain /\ ~WorkerSwap /\ ~BeginTask /\ ~SkipExpired /\ ~EndTask
    BY <1>1, <1>8 DEF ThreadMain, WorkerCheck, WorkerLock, WorkerWait, WorkerRelock,
       StopFromTask, Terminate, EndBatch, Notified
  <1>9. CASE StopUtility \/ SpuriousWakeup \/ UNCHANGED vars
    BY <1>1, <1>9 DEF StopUtility, SpuriousWakeup, vars
  <1> QED  BY <1>3, <1>4, <1>5, <1>6, <1>7, <1>8, <1>9 DEF Next

\* The dispatcher implements the queue its callers believe in: tasks are
\* executed one at a time, in the order of posting, each once.
THEOREM DispatcherImplementsTaskQueue == Spec => ImplementsTaskQueue
  <1>1. Init => Queue!QInit
    BY DEF Init, Queue!QInit, NotStarted, Running, Posted, Terminated
  <1>2. QueueInv /\ [Next]_vars => [Queue!QNext]_(Queue!qvars)
    BY QueueStep
  <1> QED  BY <1>1, <1>2, QueueInvariant, PTL DEF Spec, ImplementsTaskQueue, Queue!QSpec
=============================================================================
