--------------------------- MODULE DatabaseProofs ---------------------------
(***************************************************************************)
(* Theorems about DatabaseTasks, for any number of queries.                *)
(***************************************************************************)
EXTENDS DatabaseTasks, TLAPS

\* Where a caller is, what it adds and what it holds agree: an addTask has
\* its query until the push, and only a flush holds a popped query.
HandInv ==
    /\ \A t \in Callers :
          /\ arg[t] # None <=> op[t] = "add" /\ pc[t] \in {"lock", "critical"}
          /\ hand[t] # None <=> pc[t] = "run"
          /\ pc[t] = "run" => InFlush(t)
    /\ hand[Worker] # None <=> wpc = "run"

TypeInv == TypeOK /\ HandInv

LEMMA ExecutedQuery ==
  ASSUME TypeOK, NEW q, q \in ToSet(executed)
  PROVE  q \in Queries
  BY DEF TypeOK, ToSet

LEMMA TypeInit == Init => TypeInv
  BY DatabaseAssumption DEF Init, TypeInv, TypeOK, HandInv, Callers, Runners

LEMMA TypeStep ==
  ASSUME TypeInv, [Next]_vars
  PROVE  TypeInv'
  <1> USE DatabaseAssumption DEF TypeInv, TypeOK, HandInv, InFlush, Goto
  <1>1. ASSUME NEW t \in Callers, NEW q \in Queries, CallAdd(t, q) PROVE TypeInv'
    BY <1>1 DEF CallAdd, Runners
  <1>2. CASE CallFlush
    BY <1>2 DEF CallFlush, Callers, Runners
  <1>3. CASE Stop
    BY <1>3 DEF Stop
  <1>4. CASE StopDispatcher
    BY <1>4 DEF StopDispatcher
  <1>5. ASSUME NEW t \in Callers, CallShutdown(t) PROVE TypeInv'
    BY <1>5 DEF CallShutdown
  <1>6. ASSUME NEW t \in Callers, TakeLock(t) PROVE TypeInv'
    BY <1>6 DEF TakeLock, Runners
  <1>7. ASSUME NEW t \in Callers, AddAndUnlock(t) PROVE TypeInv'
    <2>1. arg[t] \in Queries
      BY <1>7 DEF AddAndUnlock
    <2>2. /\ tasks' \in Seq(Queries)
          /\ accepted' \in Seq(Queries)
          /\ pc' \in [Callers -> {"idle", "lock", "critical", "run", "notify"}]
          /\ pc'[t] \in {"notify", "idle"}
      <3>1. CASE threadState = "RUNNING"
        <4>1. /\ tasks' = Append(tasks, arg[t])
              /\ accepted' = Append(accepted, arg[t])
              /\ pc' = [pc EXCEPT ![t] = IF tasks = <<>> THEN "notify" ELSE "idle"]
          BY <1>7, <3>1 DEF AddAndUnlock, Push, DoSignal
        <4> QED  BY <2>1, <4>1
      <3>2. CASE threadState # "RUNNING"
        BY <1>7, <3>2 DEF AddAndUnlock
      <3> QED  BY <3>1, <3>2
    <2>3. /\ arg' = [arg EXCEPT ![t] = None]
          /\ \A u \in Callers : u # t => pc'[u] = pc[u]
      BY <1>7 DEF AddAndUnlock
    <2>4. lock' = None /\ UNCHANGED <<mode, threadState, wpc, op, hand, flushes,
                                     gameOpen, executed, callbacks>>
      BY <1>7 DEF AddAndUnlock
    <2>5. pc[t] = "critical"
      BY <1>7 DEF AddAndUnlock
    <2> QED  BY <2>2, <2>3, <2>4, <2>5
  <1>8. ASSUME NEW t \in Callers, TerminateAndUnlock(t) PROVE TypeInv'
    BY <1>8 DEF TerminateAndUnlock
  <1>9. ASSUME NEW t \in Callers, FlushPop(t) PROVE TypeInv'
    BY <1>9 DEF FlushPop, Pop, Runners
  <1>10. ASSUME NEW t \in Callers, FlushEnd(t) PROVE TypeInv'
    BY <1>10 DEF FlushEnd
  <1>11. ASSUME NEW t \in Callers, Notify(t) PROVE TypeInv'
    BY <1>11 DEF Notify
  <1>12. ASSUME NEW r \in Runners, Query(r) PROVE TypeInv'
    BY <1>12 DEF Query
  <1>13. ASSUME NEW r \in Runners, PostCallback(r) PROVE TypeInv'
    <2>1. hand[r] \in Queries
      BY <1>13, ExecutedQuery DEF PostCallback
    <2>2. CASE r = Worker
      BY <1>13, <2>1, <2>2 DEF PostCallback, Runners
    <2>3. CASE r # Worker
      <3>1. r \in Callers /\ pc[r] = "run" /\ op[r] # "add"
        BY <2>1, <2>3 DEF Runners
      <3>2. callbacks' \in Seq(Queries)
        BY <1>13, <2>1 DEF PostCallback
      <3>3. /\ hand' = [hand EXCEPT ![r] = None]
            /\ pc' = [pc EXCEPT ![r] = "lock"]
            /\ UNCHANGED <<mode, threadState, lock, tasks, wpc, op, arg, flushes,
                           gameOpen, accepted, executed>>
        BY <1>13, <2>3 DEF PostCallback
      <3> QED  BY <3>1, <3>2, <3>3 DEF Runners
    <2> QED  BY <2>2, <2>3
  <1>14. CASE ThreadMain
    <2>1. CASE WorkerCheck  BY <2>1 DEF WorkerCheck
    <2>2. CASE WorkerLock  BY <2>2 DEF WorkerLock, Runners
    <2>3. CASE WorkerWait  BY <2>3 DEF WorkerWait
    <2>4. CASE WorkerPop  BY <2>4 DEF WorkerPop, Pop, Runners
    <2>5. CASE WorkerIdle  BY <2>5 DEF WorkerIdle
    <2> QED  BY <1>14, <2>1, <2>2, <2>3, <2>4, <2>5 DEF ThreadMain
  <1>15. CASE SpuriousWakeup
    BY <1>15 DEF SpuriousWakeup
  <1>16. CASE UNCHANGED vars
    BY <1>16 DEF vars
  <1> QED  BY <1>1, <1>2, <1>3, <1>4, <1>5, <1>6, <1>7, <1>8, <1>9, <1>10, <1>11,
              <1>12, <1>13, <1>14, <1>15, <1>16 DEF Next, InCall, RunTask

\* Type correctness of the database worker.
THEOREM DatabaseTypes == Spec => []TypeOK
  <1>1. TypeInv /\ [Next]_vars => TypeInv'
    BY TypeStep
  <1> QED  BY TypeInit, <1>1, PTL DEF Spec, TypeInv

-----------------------------------------------------------------------------
LEMMA WakeupStep ==
  ASSUME TypeInv, NoLostWakeup, [Next]_vars
  PROVE  NoLostWakeup'
  <1> USE DatabaseAssumption
      DEF TypeInv, TypeOK, HandInv, InFlush, Goto, NoLostWakeup
  <1>1. ASSUME NEW t \in Callers, NEW q \in Queries, CallAdd(t, q) PROVE NoLostWakeup'
    BY <1>1 DEF CallAdd
  <1>2. CASE CallFlush
    BY <1>2 DEF CallFlush
  <1>3. CASE Stop
    BY <1>3 DEF Stop
  <1>4. CASE StopDispatcher
    BY <1>4 DEF StopDispatcher
  <1>5. ASSUME NEW t \in Callers, CallShutdown(t) PROVE NoLostWakeup'
    BY <1>5 DEF CallShutdown
  <1>6. ASSUME NEW t \in Callers, TakeLock(t) PROVE NoLostWakeup'
    BY <1>6 DEF TakeLock
  <1>7. ASSUME NEW t \in Callers, AddAndUnlock(t) PROVE NoLostWakeup'
    <2>1. CASE tasks = <<>>
      BY <1>7, <2>1 DEF AddAndUnlock, Push, DoSignal
    <2>2. CASE tasks # <<>>
      BY <1>7, <2>2 DEF AddAndUnlock, Push, DoSignal
    <2> QED  BY <2>1, <2>2
  <1>8. ASSUME NEW t \in Callers, TerminateAndUnlock(t) PROVE NoLostWakeup'
    BY <1>8 DEF TerminateAndUnlock
  <1>9. ASSUME NEW t \in Callers, FlushPop(t) PROVE NoLostWakeup'
    BY <1>9 DEF FlushPop
  <1>10. ASSUME NEW t \in Callers, FlushEnd(t) PROVE NoLostWakeup'
    BY <1>10 DEF FlushEnd, FlushDone
  <1>11. ASSUME NEW t \in Callers, Notify(t) PROVE NoLostWakeup'
    BY <1>11 DEF Notify
  <1>12. ASSUME NEW r \in Runners, Query(r) PROVE NoLostWakeup'
    BY <1>12 DEF Query
  <1>13. ASSUME NEW r \in Runners, PostCallback(r) PROVE NoLostWakeup'
    <2>1. hand[r] # None
      BY <1>13, ExecutedQuery DEF PostCallback
    <2>2. CASE r = Worker
      BY <1>13, <2>2 DEF PostCallback
    <2>3. CASE r # Worker
      <3>1. r \in Callers /\ InFlush(r)
        BY <2>1, <2>3 DEF Runners
      <3>2. pc' = [pc EXCEPT ![r] = "lock"] /\ UNCHANGED <<threadState, tasks, wpc, op>>
        BY <1>13, <2>3 DEF PostCallback
      <3> QED  BY <3>1, <3>2
    <2> QED  BY <2>2, <2>3
  <1>14. CASE ThreadMain
    BY <1>14 DEF ThreadMain, WorkerCheck, WorkerLock, WorkerWait, WorkerPop, WorkerIdle
  <1>15. CASE SpuriousWakeup
    BY <1>15 DEF SpuriousWakeup
  <1>16. CASE UNCHANGED vars
    BY <1>16 DEF vars
  <1> QED  BY <1>1, <1>2, <1>3, <1>4, <1>5, <1>6, <1>7, <1>8, <1>9, <1>10, <1>11,
              <1>12, <1>13, <1>14, <1>15, <1>16 DEF Next, InCall, RunTask

\* The worker does not sleep on a query that nobody will signal or flush.
THEOREM DatabaseNoLostWakeup == Spec => []NoLostWakeup
  <1>1. Init => NoLostWakeup
    BY DEF Init, NoLostWakeup
  <1>2. TypeInv /\ NoLostWakeup /\ [Next]_vars => TypeInv' /\ NoLostWakeup'
    BY TypeStep, WakeupStep
  <1> QED  BY TypeInit, <1>1, <1>2, PTL DEF Spec

-----------------------------------------------------------------------------
(* Every query once.  The deque is a suffix of what was accepted; whatever  *)
(* stands before it has been run or is in a runner's hand.                  *)

Popped == Len(accepted) - Len(tasks)

Owner(q) == q \in Executed \/ \E r \in Runners : hand[r] = q

ArgInv ==
    /\ \A t \in Callers : arg[t] # None =>
          \A i \in 1 .. Len(accepted) : accepted[i] # arg[t]
    /\ \A t, u \in Callers : arg[t] # None /\ arg[t] = arg[u] => t = u

SuffixInv ==
    /\ \A i, j \in 1 .. Len(accepted) : accepted[i] = accepted[j] => i = j
    /\ Len(tasks) <= Len(accepted)
    /\ \A i \in 1 .. Len(tasks) : tasks[i] = accepted[Popped + i]

OwnerInv ==
    /\ \A i \in 1 .. Popped : Owner(accepted[i])
    /\ \A q \in Queries : Owner(q) => \E i \in 1 .. Popped : accepted[i] = q
    /\ \A i, j \in 1 .. Len(executed) : executed[i] = executed[j] => i = j

OnceInv == ArgInv /\ SuffixInv /\ OwnerInv

\* What a step may do to the queries.
Fetches(t, q) ==
    /\ Fresh(q)
    /\ arg' = [arg EXCEPT ![t] = q]
    /\ UNCHANGED <<tasks, accepted, executed, hand>>

Drops(t) ==
    /\ arg' = [arg EXCEPT ![t] = None]
    /\ UNCHANGED <<tasks, accepted, executed, hand>>

Accepts(t) ==
    /\ arg[t] # None
    /\ tasks' = Append(tasks, arg[t])
    /\ accepted' = Append(accepted, arg[t])
    /\ arg' = [arg EXCEPT ![t] = None]
    /\ UNCHANGED <<executed, hand>>

Pops(r) ==
    /\ tasks # <<>>
    /\ hand[r] = None
    /\ Pop(r)
    /\ UNCHANGED <<arg, accepted, executed>>

Runs(r) ==
    /\ hand[r] # None
    /\ hand[r] \notin Executed
    /\ executed' = Append(executed, hand[r])
    /\ UNCHANGED <<arg, tasks, accepted, hand>>

Releases(r) ==
    /\ hand[r] \in Executed
    /\ hand' = [hand EXCEPT ![r] = None]
    /\ UNCHANGED <<arg, tasks, accepted, executed>>

LEMMA QueriesStep ==
  ASSUME TypeInv, [Next]_vars
  PROVE  \/ UNCHANGED <<arg, tasks, accepted, executed, hand>>
         \/ \E t \in Callers, q \in Queries : Fetches(t, q)
         \/ \E t \in Callers : Drops(t) \/ Accepts(t)
         \/ \E r \in Runners : Pops(r) \/ Runs(r) \/ Releases(r)
  <1> DEFINE Same == UNCHANGED <<arg, tasks, accepted, executed, hand>>
  <1> USE DatabaseAssumption DEF TypeInv, TypeOK, HandInv
  <1>1. ASSUME NEW t \in Callers, NEW q \in Queries, CallAdd(t, q) PROVE Fetches(t, q)
    BY <1>1 DEF CallAdd, Fetches
  <1>2. ASSUME NEW t \in Callers, AddAndUnlock(t) PROVE Drops(t) \/ Accepts(t)
    BY <1>2 DEF AddAndUnlock, Push, Drops, Accepts
  <1>3. ASSUME NEW t \in Callers, FlushPop(t) PROVE t \in Runners /\ Pops(t)
    BY <1>3 DEF FlushPop, Pops, Runners
  <1>4. ASSUME NEW t \in Callers, CallShutdown(t) \/ InCall(t),
               ~AddAndUnlock(t), ~FlushPop(t)
        PROVE  Same
    BY <1>4 DEF CallShutdown, InCall, TakeLock, TerminateAndUnlock, FlushEnd, Notify
  <1>5. ASSUME NEW r \in Runners, Query(r) PROVE Runs(r)
    BY <1>5 DEF Query, Runs, Executed
  <1>6. ASSUME NEW r \in Runners, PostCallback(r) PROVE Releases(r)
    BY <1>6 DEF PostCallback, Releases, Executed
  <1>7. ASSUME WorkerPop PROVE Worker \in Runners /\ Pops(Worker)
    BY <1>7 DEF WorkerPop, Pops, Runners
  <1>8. CASE ThreadMain /\ ~WorkerPop
    BY <1>8 DEF ThreadMain, WorkerCheck, WorkerLock, WorkerWait, WorkerIdle
  <1>9. CASE CallFlush \/ Stop \/ StopDispatcher \/ SpuriousWakeup \/ UNCHANGED vars
    BY <1>9 DEF CallFlush, Stop, StopDispatcher, SpuriousWakeup, vars
  <1> QED  BY <1>1, <1>2, <1>3, <1>4, <1>5, <1>6, <1>7, <1>8, <1>9
           DEF Next, InCall, RunTask, ThreadMain

LEMMA ExecutedAppend ==
  ASSUME TypeOK, NEW q \in Queries, executed' = Append(executed, q)
  PROVE  Executed' = Executed \cup {q}
  <1>1. /\ DOMAIN executed = 1 .. Len(executed)
        /\ DOMAIN executed' = 1 .. Len(executed) + 1
        /\ \A i \in 1 .. Len(executed) : executed'[i] = executed[i]
        /\ executed'[Len(executed) + 1] = q
        /\ Len(executed) \in Nat
    BY DEF TypeOK
  <1>2. \A i \in 1 .. Len(executed) + 1 : i \in 1 .. Len(executed) \/ i = Len(executed) + 1
    BY <1>1
  <1>3. Executed' = {executed'[i] : i \in 1 .. Len(executed) + 1}
        /\ Executed = {executed[i] : i \in 1 .. Len(executed)}
    BY <1>1 DEF Executed, ToSet
  <1>4. Len(executed) + 1 \in 1 .. Len(executed) + 1
        /\ \A i \in 1 .. Len(executed) : i \in 1 .. Len(executed) + 1
    BY <1>1
  <1> QED  BY <1>1, <1>2, <1>3, <1>4

LEMMA FreshAccepted ==
  ASSUME TypeOK, NEW q, Fresh(q)
  PROVE  /\ \A i \in 1 .. Len(accepted) : accepted[i] # q
         /\ \A t \in Callers : arg[t] # q
  BY DEF TypeOK, Fresh, ToSet

LEMMA OnceStep ==
  ASSUME TypeInv, OnceInv, [Next]_vars
  PROVE  OnceInv'
  <1> USE DatabaseAssumption
      DEF TypeInv, TypeOK, OnceInv, ArgInv, SuffixInv, OwnerInv, Owner, Popped
  <1>1. CASE UNCHANGED <<arg, tasks, accepted, executed, hand>>
    BY <1>1 DEF Executed
  <1>2. ASSUME NEW t \in Callers, NEW q \in Queries, Fetches(t, q) PROVE OnceInv'
    <2>1. arg' = [arg EXCEPT ![t] = q]
          /\ UNCHANGED <<tasks, accepted, executed, hand>>
          /\ Executed' = Executed
      BY <1>2 DEF Fetches, Executed
    <2>2. ArgInv'
      BY <1>2, <2>1, FreshAccepted DEF Fetches
    <2> QED  BY <2>1, <2>2
  <1>3. ASSUME NEW t \in Callers, Drops(t) PROVE OnceInv'
    BY <1>3 DEF Drops, Executed
  <1>4. ASSUME NEW t \in Callers, Accepts(t) PROVE OnceInv'
    <2>1. arg[t] \in Queries
      BY <1>4 DEF Accepts
    <2>2. /\ Len(tasks') = Len(tasks) + 1
          /\ Len(accepted') = Len(accepted) + 1
          /\ \A i \in 1 .. Len(tasks) : tasks'[i] = tasks[i]
          /\ \A i \in 1 .. Len(accepted) : accepted'[i] = accepted[i]
          /\ tasks'[Len(tasks) + 1] = arg[t]
          /\ accepted'[Len(accepted) + 1] = arg[t]
      BY <1>4, <2>1 DEF Accepts
    <2>3. ArgInv'
      BY <1>4, <2>2 DEF Accepts
    <2>4. SuffixInv'
      <3>1. \A i \in 1 .. Len(accepted) : accepted[i] # arg[t]
        BY <1>4 DEF Accepts
      <3>2. \A i, j \in 1 .. Len(accepted') : accepted'[i] = accepted'[j] => i = j
        <4> SUFFICES ASSUME NEW i \in 1 .. Len(accepted) + 1, NEW j \in 1 .. Len(accepted) + 1,
                            accepted'[i] = accepted'[j]
                     PROVE  i = j
          BY <2>2
        <4>1. CASE i \in 1 .. Len(accepted) /\ j \in 1 .. Len(accepted)
          BY <2>2, <4>1
        <4>2. CASE i = Len(accepted) + 1 /\ j \in 1 .. Len(accepted)
          BY <2>2, <3>1, <4>2
        <4>3. CASE i \in 1 .. Len(accepted) /\ j = Len(accepted) + 1
          BY <2>2, <3>1, <4>3
        <4> QED  BY <4>1, <4>2, <4>3
      <3>3. Popped' = Popped /\ Popped \in Nat
        BY <2>2
      <3>4. ASSUME NEW i \in 1 .. Len(tasks) + 1 PROVE tasks'[i] = accepted'[Popped' + i]
        <4>1. CASE i = Len(tasks) + 1
          BY <2>2, <3>3, <4>1
        <4>2. CASE i # Len(tasks) + 1
          <5>1. i \in 1 .. Len(tasks) /\ Popped + i \in 1 .. Len(accepted)
            BY <4>2
          <5>2. tasks'[i] = tasks[i] /\ tasks[i] = accepted[Popped + i]
            BY <2>2, <5>1
          <5>3. accepted'[Popped + i] = accepted[Popped + i]
            BY <2>2, <5>1
          <5> HIDE DEF Popped
          <5> QED  BY <3>3, <5>2, <5>3
        <4> QED  BY <4>1, <4>2
      <3> QED  BY <2>2, <3>2, <3>4
    <2>5. OwnerInv'
      <3>1. Executed' = Executed /\ hand' = hand /\ executed' = executed
        BY <1>4 DEF Accepts, Executed
      <3>2. Popped' = Popped
        BY <2>2
      <3>3. \A i \in 1 .. Popped : accepted'[i] = accepted[i]
        BY <2>2
      <3>4. \A q : Owner(q)' <=> Owner(q)
        BY <3>1
      <3> HIDE DEF Owner, Popped
      <3> QED  BY <3>1, <3>2, <3>3, <3>4
    <2> QED  BY <2>3, <2>4, <2>5
  <1>5. ASSUME NEW r \in Runners, Pops(r) PROVE OnceInv'
    <2>1. /\ tasks' \in Seq(Queries)
          /\ Len(tasks) >= 1
          /\ Len(tasks') = Len(tasks) - 1
          /\ \A i \in 1 .. Len(tasks') : tasks'[i] = tasks[i + 1]
          /\ hand' = [hand EXCEPT ![r] = tasks[1]]
          /\ tasks[1] \in Queries
      BY <1>5 DEF Pops, Pop
    <2>2. UNCHANGED <<arg, accepted, executed>> /\ Executed' = Executed /\ hand[r] = None
      BY <1>5 DEF Pops, Executed
    <2>3. Popped' = Popped + 1 /\ tasks[1] = accepted[Popped + 1] /\ Popped \in Nat
      BY <2>1, <2>2
    <2>4. ArgInv'
      BY <2>2
    <2>5. SuffixInv'
      BY <2>1, <2>2, <2>3
    <2>6. \A q \in Queries : Owner(q)' <=> Owner(q) \/ q = tasks[1]
      BY <2>1, <2>2
    <2>7. OwnerInv'
      <3>1. \A i \in 1 .. Popped' : accepted'[i] \in Queries
        BY <2>1, <2>2, <2>3
      <3>2. \A i \in 1 .. Popped' : i \in 1 .. Popped \/ i = Popped + 1
        <4> HIDE DEF Popped
        <4> QED  BY <2>3
      <3>3. \A i \in 1 .. Popped' : Owner(accepted[i])'
        BY ZenonT(30), <2>2, <2>3, <2>6, <3>1, <3>2
      <3>4. \A q \in Queries : Owner(q)' => \E i \in 1 .. Popped' : accepted'[i] = q
        BY <2>2, <2>3, <2>6
      <3> QED  BY <2>2, <3>3, <3>4
    <2> QED  BY <2>4, <2>5, <2>7
  <1>6. ASSUME NEW r \in Runners, Runs(r) PROVE OnceInv'
    <2>1. hand[r] \in Queries
      BY <1>6 DEF Runs
    <2>2. Executed' = Executed \cup {hand[r]}
      BY <1>6, <2>1, ExecutedAppend DEF Runs
    <2>3. \A q \in Queries : Owner(q)' <=> Owner(q)
      BY <1>6, <2>1, <2>2 DEF Runs
    <2>4. \A i \in 1 .. Len(executed) : executed[i] # hand[r]
      BY <1>6 DEF Runs, Executed, ToSet
    <2>5. \A i, j \in 1 .. Len(executed') : executed'[i] = executed'[j] => i = j
      BY <1>6, <2>1, <2>4 DEF Runs
    <2>6. \A i \in 1 .. Popped : accepted[i] \in Queries
      OBVIOUS
    <2>7. UNCHANGED <<arg, tasks, accepted>>
      BY <1>6 DEF Runs
    <2> QED  BY ZenonT(30), <2>3, <2>5, <2>6, <2>7
  <1>7. ASSUME NEW r \in Runners, Releases(r) PROVE OnceInv'
    <2>1. Executed' = Executed
      BY <1>7 DEF Releases, Executed
    <2>2. \A q \in Queries : Owner(q)' <=> Owner(q)
      BY <1>7, <2>1 DEF Releases
    <2>3. \A i \in 1 .. Popped : accepted[i] \in Queries
      OBVIOUS
    <2>4. UNCHANGED <<arg, tasks, accepted, executed>>
      BY <1>7 DEF Releases
    <2> QED  BY ZenonT(30), <2>2, <2>3, <2>4
  <1> QED  BY <1>1, <1>2, <1>3, <1>4, <1>5, <1>6, <1>7, QueriesStep

LEMMA OnceInvariant == Spec => [](TypeInv /\ OnceInv)
  <1>1. Init => OnceInv
    <2> SUFFICES ASSUME Init PROVE OnceInv
      OBVIOUS
    <2>1. ArgInv /\ SuffixInv
      BY DEF Init, ArgInv, SuffixInv, Popped
    <2>2. Executed = {}
      BY DEF Init, Executed, ToSet
    <2>3. \A q \in Queries : ~Owner(q)
      BY <2>2, DatabaseAssumption DEF Init, Owner
    <2>4. OwnerInv
      BY <2>3 DEF Init, OwnerInv, Popped
    <2> QED  BY <2>1, <2>4 DEF OnceInv
  <1>2. TypeInv /\ OnceInv /\ [Next]_vars => TypeInv' /\ OnceInv'
    BY TypeStep, OnceStep
  <1> QED  BY TypeInit, <1>1, <1>2, PTL DEF Spec

LEMMA AcceptedIndex ==
  ASSUME TypeInv, OnceInv, NEW i \in 1 .. Len(accepted)
  PROVE  \/ i \in 1 .. Popped /\ Owner(accepted[i])
         \/ /\ i \notin 1 .. Popped
            /\ i - Popped \in 1 .. Len(tasks)
            /\ accepted[i] = tasks[i - Popped]
  <1> USE DEF TypeInv, TypeOK, OnceInv, SuffixInv
  <1>1. CASE i \in 1 .. Popped
    BY <1>1 DEF OwnerInv
  <1>2. CASE i \notin 1 .. Popped
    <2>1. i - Popped \in 1 .. Len(tasks) /\ Popped + (i - Popped) = i
      BY <1>2 DEF Popped
    <2> QED  BY <1>2, <2>1
  <1> QED  BY <1>1, <1>2

LEMMA OwnerSets ==
  ASSUME TypeInv
  PROVE  \A q \in Queries : Owner(q) <=> q \in Executed \cup InHand
  BY DatabaseAssumption DEF Owner, InHand

LEMMA OnceImplies ==
  ASSUME TypeInv, OnceInv
  PROVE  OnceOrOwed /\ ReorderOnlyInHand
  <1> USE DEF TypeInv, TypeOK
  <1>1. /\ DOMAIN accepted = 1 .. Len(accepted)
        /\ DOMAIN tasks = 1 .. Len(tasks)
        /\ DOMAIN executed = 1 .. Len(executed)
    OBVIOUS
  <1>2. IsInjective(executed)
    BY <1>1 DEF IsInjective, OnceInv, OwnerInv
  <1>3. ASSUME NEW q \in ToSet(accepted) PROVE q \in Executed \cup InHand \cup ToSet(tasks)
    <2>1. PICK i \in 1 .. Len(accepted) : accepted[i] = q
      BY <1>1, <1>3 DEF ToSet
    <2>2. q \in Queries
      BY <2>1
    <2> QED  BY <1>1, <2>1, <2>2, AcceptedIndex, OwnerSets DEF ToSet
  <1>4. ASSUME NEW q \in Executed \cup InHand
        PROVE  q \in Queries /\ \E i \in 1 .. Popped : accepted[i] = q
    <2>1. q \in Queries
      BY <1>1, <1>4 DEF Executed, InHand, ToSet
    <2> QED  BY <1>4, <2>1, OwnerSets DEF OnceInv, OwnerInv
  <1>5. \A i \in 1 .. Popped : i \in 1 .. Len(accepted)
    BY DEF Popped, OnceInv, SuffixInv
  <1>6. ASSUME NEW j \in 1 .. Len(tasks)
        PROVE  /\ Popped + j \in 1 .. Len(accepted)
               /\ Popped + j \notin 1 .. Popped
               /\ tasks[j] = accepted[Popped + j]
    BY <1>6 DEF Popped, OnceInv, SuffixInv
  <1>7. ASSUME NEW q \in ToSet(tasks) PROVE q \in ToSet(accepted)
    BY <1>1, <1>6, <1>7 DEF ToSet
  <1>8. ToSet(accepted) = Executed \cup InHand \cup ToSet(tasks)
    <2>1. Executed \cup InHand \subseteq ToSet(accepted)
      BY <1>1, <1>4, <1>5 DEF ToSet
    <2> QED  BY <1>3, <1>7, <2>1
  <1>9. (Executed \cup InHand) \cap ToSet(tasks) = {}
    <2> SUFFICES ASSUME NEW q \in Executed \cup InHand, q \in ToSet(tasks) PROVE FALSE
      OBVIOUS
    <2>1. PICK i \in 1 .. Popped : accepted[i] = q
      BY <1>4
    <2>2. PICK j \in 1 .. Len(tasks) : tasks[j] = q
      BY <1>1 DEF ToSet
    <2>3. i = Popped + j
      BY <1>5, <1>6, <2>1, <2>2 DEF OnceInv, SuffixInv
    <2> QED  BY <1>6, <2>1, <2>3
  <1>10. ASSUME NEW i \in 1 .. Len(accepted), NEW j \in 1 .. Len(accepted),
                i < j, accepted[j] \in Executed
         PROVE  accepted[i] \in Executed \/ accepted[i] \in InHand
    <2>1. PICK k \in 1 .. Popped : accepted[k] = accepted[j]
      BY <1>4, <1>10
    <2>2. k = j
      BY <1>5, <2>1 DEF OnceInv, SuffixInv
    <2>3. i \in 1 .. Popped
      BY <1>10, <2>2 DEF Popped
    <2>4. accepted[i] \in Queries
      OBVIOUS
    <2> QED  BY <2>3, <2>4, OwnerSets DEF OnceInv, OwnerInv
  <1> QED  BY <1>2, <1>8, <1>9, <1>10 DEF OnceOrOwed, ReorderOnlyInHand

\* An accepted query is run once or still owed, by the deque or a runner.
THEOREM DatabaseOnceOrOwed == Spec => []OnceOrOwed
  BY OnceInvariant, OnceImplies, PTL

\* A query is overtaken only while some runner holds it.
THEOREM DatabaseReorder == Spec => []ReorderOnlyInHand
  BY OnceInvariant, OnceImplies, PTL

\* When flush() returns, what has not been run is in another runner's hand.
LEMMA FlushStep ==
  ASSUME TypeInv, OnceInv, [Next]_vars, NEW t \in Callers,
         pc[t] = "critical", InFlush(t), pc'[t] \in {"idle", "notify"}
  PROVE  ToSet(accepted) \ Executed \subseteq {hand[r] : r \in Runners \ {t}}
  <1> USE DEF TypeInv, TypeOK
  <1>1. tasks = <<>>
    <2>1. \A u \in Callers : pc'[u] # pc[u] /\ pc[u] = "critical" =>
              AddAndUnlock(u) \/ TerminateAndUnlock(u) \/ FlushPop(u) \/ FlushEnd(u)
      BY SMTT(30) DEF Next, vars, Goto, CallAdd, CallFlush, Stop, StopDispatcher, CallShutdown,
         InCall, TakeLock, AddAndUnlock, TerminateAndUnlock, FlushPop, FlushEnd, Notify,
         RunTask, Query, PostCallback, HandInv, ThreadMain, WorkerCheck, WorkerLock,
         WorkerWait, WorkerPop, WorkerIdle, SpuriousWakeup
    <2> QED  BY <2>1 DEF AddAndUnlock, TerminateAndUnlock, FlushPop, FlushEnd, FlushDone,
         InFlush, Goto
  <1>2. ToSet(tasks) = {}
    BY <1>1 DEF ToSet
  <1>3. ToSet(accepted) \ Executed \subseteq InHand
    BY <1>2, OnceImplies DEF OnceOrOwed
  <1>4. hand[t] = None
    BY DEF HandInv
  <1> QED  BY <1>3, <1>4 DEF InHand

\* A flush() that returns leaves to nobody but the other runners what was
\* accepted and has not been executed.
THEOREM DatabaseFlushLeavesInHand == Spec => FlushLeavesInHand
  <1>1. TypeInv /\ OnceInv /\ [Next]_vars =>
          [ \A t \in Callers :
              (pc[t] = "critical" /\ InFlush(t) /\ pc'[t] \in {"idle", "notify"}) =>
                  ToSet(accepted) \ Executed \subseteq {hand[r] : r \in Runners \ {t}} ]_vars
    BY FlushStep
  <1> QED  BY <1>1, OnceInvariant, PTL DEF Spec, FlushLeavesInHand
=============================================================================
