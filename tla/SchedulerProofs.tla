--------------------------- MODULE SchedulerProofs ---------------------------
(***************************************************************************)
(* Theorems about Scheduler, for any number of events and any width of the *)
(* id counter.                                                             *)
(***************************************************************************)
EXTENDS Scheduler, FiniteSetTheorems, SequenceTheorems, TLAPS

(* What a queue holds: whether an element of K is in it, and whether there  *)
(* is at most one.                                                          *)
Has(st, K) == \E n \in 1 .. Len(st) : st[n] \in K
Single(st, K) == \A n, m \in 1 .. Len(st) : st[n] \in K /\ st[m] \in K => n = m

LEMMA TailHas ==
  ASSUME NEW K, NEW S, NEW st \in Seq(S), st # <<>>, Single(st, K)
  PROVE  /\ Single(Tail(st), K)
         /\ Has(Tail(st), K) <=> Has(st, K) /\ Head(st) \notin K
  <1>1. /\ Len(st) \in Nat \ {0} /\ Len(Tail(st)) = Len(st) - 1 /\ Head(st) = st[1]
        /\ \A n \in 1 .. Len(Tail(st)) : Tail(st)[n] = st[n + 1]
    OBVIOUS
  <1>2. Single(Tail(st), K)
    BY <1>1 DEF Single
  <1>3. ASSUME Has(Tail(st), K) PROVE Has(st, K) /\ Head(st) \notin K
    BY <1>1, <1>3 DEF Has, Single
  <1>4. ASSUME Has(st, K), Head(st) \notin K PROVE Has(Tail(st), K)
    <2>1. PICK n \in 1 .. Len(st) : st[n] \in K
      BY <1>4 DEF Has
    <2>2. n # 1 /\ n - 1 \in 1 .. Len(Tail(st)) /\ Tail(st)[n - 1] = st[n]
      BY <1>1, <1>4, <2>1
    <2> QED  BY <2>1, <2>2 DEF Has
  <1> QED  BY <1>2, <1>3, <1>4

LEMMA AppendHas ==
  ASSUME NEW K, NEW S, NEW st \in Seq(S), NEW h \in S, Single(st, K), h \in K => ~Has(st, K)
  PROVE  /\ Single(Append(st, h), K)
         /\ Has(Append(st, h), K) <=> Has(st, K) \/ h \in K
  <1>1. /\ Len(st) \in Nat /\ Len(Append(st, h)) = Len(st) + 1 /\ Append(st, h)[Len(st) + 1] = h
        /\ \A n \in 1 .. Len(st) : Append(st, h)[n] = st[n]
    OBVIOUS
  <1>2. Single(Append(st, h), K)
    BY <1>1 DEF Single, Has
  <1>3. Has(Append(st, h), K) => Has(st, K) \/ h \in K
    BY <1>1 DEF Has
  <1>4. ASSUME Has(st, K) PROVE Has(Append(st, h), K)
    BY <1>1, <1>4 DEF Has
  <1>5. ASSUME h \in K PROVE Has(Append(st, h), K)
    <2>1. Len(st) + 1 \in 1 .. Len(Append(st, h))
      BY <1>1
    <2> QED  BY <1>1, <1>5, <2>1 DEF Has
  <1> QED  BY <1>2, <1>3, <1>4, <1>5

LEMMA HeadTailHas ==
  ASSUME NEW K, NEW S, NEW st \in Seq(S), st # <<>>
  PROVE  /\ Has(st, K) <=> Head(st) \in K \/ Has(Tail(st), K)
         /\ Single(st, K) => Single(Tail(st), K) /\ ~(Head(st) \in K /\ Has(Tail(st), K))
  <1>1. /\ Len(st) \in Nat \ {0} /\ Len(Tail(st)) = Len(st) - 1 /\ Head(st) = st[1]
        /\ \A n \in 1 .. Len(Tail(st)) : Tail(st)[n] = st[n + 1]
    OBVIOUS
  <1>2. Has(Tail(st), K) => Has(st, K)
    BY <1>1 DEF Has
  <1>3. Head(st) \in K => Has(st, K)
    BY <1>1 DEF Has
  <1>4. ASSUME Has(st, K), Head(st) \notin K PROVE Has(Tail(st), K)
    <2>1. PICK n \in 1 .. Len(st) : st[n] \in K
      BY <1>4 DEF Has
    <2>2. n # 1 /\ n - 1 \in 1 .. Len(Tail(st)) /\ Tail(st)[n - 1] = st[n]
      BY <1>1, <1>4, <2>1
    <2> QED  BY <2>1, <2>2 DEF Has
  <1>5. Single(st, K) => Single(Tail(st), K) /\ ~(Head(st) \in K /\ Has(Tail(st), K))
    BY <1>1, TailHas
  <1> QED  BY <1>2, <1>3, <1>4, <1>5

LEMMA ConcatHas ==
  ASSUME NEW K, NEW S, NEW s \in Seq(S), NEW t \in Seq(S)
  PROVE  /\ Has(s \o t, K) <=> Has(s, K) \/ Has(t, K)
         /\ Single(s, K) /\ Single(t, K) /\ ~(Has(s, K) /\ Has(t, K)) => Single(s \o t, K)
  <1>1. /\ Len(s) \in Nat /\ Len(t) \in Nat /\ Len(s \o t) = Len(s) + Len(t)
        /\ \A n \in 1 .. Len(s) : n \in 1 .. Len(s \o t) /\ (s \o t)[n] = s[n]
        /\ \A n \in 1 .. Len(t) : Len(s) + n \in 1 .. Len(s \o t) /\ (s \o t)[Len(s) + n] = t[n]
    OBVIOUS
  <1>2. ASSUME NEW n \in 1 .. Len(s \o t)
        PROVE  \/ n \in 1 .. Len(s) /\ (s \o t)[n] = s[n]
               \/ n - Len(s) \in 1 .. Len(t) /\ (s \o t)[n] = t[n - Len(s)]
    <2>1. CASE n <= Len(s)
      BY <1>1, <1>2, <2>1
    <2>2. CASE n > Len(s)
      <3>1. n - Len(s) \in 1 .. Len(t) /\ Len(s) + (n - Len(s)) = n
        BY <1>1, <1>2, <2>2
      <3> QED  BY <1>1, <3>1
    <2> QED  BY <1>1, <1>2, <2>1, <2>2
  <1>3. Has(s \o t, K) => Has(s, K) \/ Has(t, K)
    BY <1>2 DEF Has
  <1>4. Has(s, K) => Has(s \o t, K)
    BY <1>1 DEF Has
  <1>5. Has(t, K) => Has(s \o t, K)
    BY <1>1 DEF Has
  <1>6. ASSUME Single(s, K), Single(t, K), ~(Has(s, K) /\ Has(t, K)) PROVE Single(s \o t, K)
    <2> SUFFICES ASSUME NEW n \in 1 .. Len(s \o t), NEW m \in 1 .. Len(s \o t),
                        (s \o t)[n] \in K, (s \o t)[m] \in K
                 PROVE  n = m
      BY DEF Single
    <2>1. n \in Int /\ m \in Int /\ Len(s) \in Int
      BY <1>1
    <2>2. CASE n \in 1 .. Len(s) /\ (s \o t)[n] = s[n] /\ m \in 1 .. Len(s) /\ (s \o t)[m] = s[m]
      BY <1>6, <2>2 DEF Single
    <2>3. CASE n \in 1 .. Len(s) /\ (s \o t)[n] = s[n]
               /\ m - Len(s) \in 1 .. Len(t) /\ (s \o t)[m] = t[m - Len(s)]
      BY <1>6, <2>3 DEF Has
    <2>4. CASE m \in 1 .. Len(s) /\ (s \o t)[m] = s[m]
               /\ n - Len(s) \in 1 .. Len(t) /\ (s \o t)[n] = t[n - Len(s)]
      BY <1>6, <2>4 DEF Has
    <2>5. CASE n - Len(s) \in 1 .. Len(t) /\ (s \o t)[n] = t[n - Len(s)]
               /\ m - Len(s) \in 1 .. Len(t) /\ (s \o t)[m] = t[m - Len(s)]
      <3>1. n - Len(s) = m - Len(s)
        BY <1>6, <2>5 DEF Single
      <3> QED  BY <2>1, <3>1
    <2> QED  BY <1>2, <2>2, <2>3, <2>4, <2>5
  <1> QED  BY <1>3, <1>4, <1>5, <1>6

-----------------------------------------------------------------------------
\* Where the pointer to a task is: in a handler of the io queue, in the map,
\* in the queue of the dispatcher, or nowhere, because the object is freed.
TaskHandlers(e) == {Handler(kind, e) : kind \in {"insert", "expired", "aborted"}}
InIo(e) == Has(ioQueue, TaskHandlers(e))
InMap(e) == \E i \in Ids : timerMap[i] = e
InGame(e) == Has(gameQueue, {e})

OnePlace(e) ==
    /\ Single(ioQueue, TaskHandlers(e)) /\ Single(gameQueue, {e})
    /\ \A i \in Ids : timerMap[i] = e => eventId[e] = i
    /\ eventId[e] # None <=> InIo(e) \/ InMap(e) \/ InGame(e) \/ e \in ran \/ e \in deleted
    /\ InIo(e) => ~InMap(e) /\ ~InGame(e) /\ e \notin ran /\ e \notin deleted
    /\ InMap(e) => ~InGame(e) /\ e \notin ran /\ e \notin deleted
    /\ InGame(e) => e \notin ran /\ e \notin deleted
    /\ e \notin ran \/ e \notin deleted
PlaceInv == \A e \in Events : OnePlace(e)

TypeInv == TypeOK /\ PlaceInv

LEMMA Distinct ==
  /\ \A e \in Events : e \notin {None, Absent, Fired}
  /\ \A i \in Ids : i # None
  /\ Absent # Fired /\ Game # Net /\ IdMax \in Nat /\ 0 \in Ids
  BY SchedulerAssumption DEF Ids

LEMMA HandlerOf ==
  ASSUME NEW kind, NEW e, NEW f
  PROVE  Handler(kind, e) \in TaskHandlers(f) <=> kind \in {"insert", "expired", "aborted"} /\ e = f
  BY DEF Handler, TaskHandlers

\* The wait of a timer that is aborted belongs to an event.
LEMMA AbortedTypes ==
  ASSUME TypeOK, NEW i \in Ids
  PROVE  /\ Aborted(i) \in Seq(Handlers)
         /\ Waiting(i) => timerMap[i] \in Events
         /\ \A K : /\ Single(Aborted(i), K)
                   /\ Has(Aborted(i), K) <=> Waiting(i) /\ Handler("aborted", timerMap[i]) \in K
  <1>1. CASE Waiting(i)
    <2>1. timerMap[i] \in Events
      BY <1>1 DEF TypeOK, Waiting
    <2>2. Handler("aborted", timerMap[i]) \in Handlers
      BY <2>1 DEF Handler, Handlers
    <2>3. Aborted(i) = <<Handler("aborted", timerMap[i])>>
      BY <1>1 DEF Aborted
    <2> HIDE DEF Handler
    <2>4. Len(Aborted(i)) = 1 /\ Aborted(i)[1] = Handler("aborted", timerMap[i])
      BY <2>3
    <2> QED  BY <1>1, <2>1, <2>2, <2>3, <2>4 DEF Has, Single
  <1>2. CASE ~Waiting(i)
    <2>1. Aborted(i) = <<>>
      BY <1>2 DEF Aborted
    <2> QED  BY <1>2, <2>1 DEF Has, Single
  <1> QED  BY <1>1, <1>2

\* A handler that is posted comes last.
LEMMA IoPost ==
  ASSUME TypeOK, NEW h \in Handlers, ioQueue' = Append(ioQueue, h)
  PROVE  /\ ioQueue' \in Seq(Handlers)
         /\ \A K : /\ Has(ioQueue', K) <=> Has(ioQueue, K) \/ h \in K
                   /\ Single(ioQueue, K) /\ (h \in K => ~Has(ioQueue, K)) => Single(ioQueue', K)
  <1>1. ioQueue \in Seq(Handlers) /\ <<h>> \in Seq(Handlers) /\ ioQueue' = ioQueue \o <<h>>
    BY AppendIsConcat DEF TypeOK
  <1>2. \A K : Single(<<h>>, K) /\ (Has(<<h>>, K) <=> h \in K)
    BY DEF Single, Has
  <1>3. \A K : /\ Has(ioQueue \o <<h>>, K) <=> Has(ioQueue, K) \/ Has(<<h>>, K)
               /\ Single(ioQueue, K) /\ Single(<<h>>, K) /\ ~(Has(ioQueue, K) /\ Has(<<h>>, K))
                     => Single(ioQueue \o <<h>>, K)
    BY <1>1, ConcatHas
  <1>4. ioQueue \o <<h>> \in Seq(Handlers)
    BY <1>1, ConcatProperties
  <1> QED  BY <1>1, <1>2, <1>3, <1>4

\* The first handler goes, and the waits it aborts come last.
LEMMA IoTake ==
  ASSUME TypeOK, ioQueue # <<>>, NEW w \in Seq(Handlers), ioQueue' = Tail(ioQueue) \o w
  PROVE  /\ ioQueue' \in Seq(Handlers) /\ Head(ioQueue) \in Handlers
         /\ \A K : /\ Has(ioQueue, K) <=> Head(ioQueue) \in K \/ Has(Tail(ioQueue), K)
                   /\ Has(ioQueue', K) <=> Has(Tail(ioQueue), K) \/ Has(w, K)
                   /\ Single(ioQueue, K) => ~(Head(ioQueue) \in K /\ Has(Tail(ioQueue), K))
                   /\ Single(ioQueue, K) /\ Single(w, K) /\ ~(Has(Tail(ioQueue), K) /\ Has(w, K))
                         => Single(ioQueue', K)
  <1>1. ioQueue \in Seq(Handlers) /\ Head(ioQueue) \in Handlers /\ Tail(ioQueue) \in Seq(Handlers)
    BY DEF TypeOK
  <1>2. \A K : /\ Has(ioQueue, K) <=> Head(ioQueue) \in K \/ Has(Tail(ioQueue), K)
               /\ Single(ioQueue, K) => Single(Tail(ioQueue), K)
                                          /\ ~(Head(ioQueue) \in K /\ Has(Tail(ioQueue), K))
    BY <1>1, HeadTailHas
  <1>3. \A K : /\ Has(Tail(ioQueue) \o w, K) <=> Has(Tail(ioQueue), K) \/ Has(w, K)
               /\ Single(Tail(ioQueue), K) /\ Single(w, K) /\ ~(Has(Tail(ioQueue), K) /\ Has(w, K))
                     => Single(Tail(ioQueue) \o w, K)
    BY <1>1, ConcatHas
  <1>4. Tail(ioQueue) \o w \in Seq(Handlers)
    BY <1>1, ConcatProperties
  <1> QED  BY <1>1, <1>2, <1>3, <1>4

LEMMA TypeInit == Init => TypeInv
  <1> SUFFICES ASSUME Init PROVE TypeInv
    OBVIOUS
  <1>1. TypeOK
    <2>1. mode \in {"signal", "offline"} /\ threadState \in {"RUNNING", "CLOSING", "TERMINATED"}
      BY DEF Init
    <2>2. ioQueue \in Seq(Handlers) /\ gameQueue \in Seq(Events)
      BY DEF Init
    <2>3. lastEventId \in Ids /\ timerMap \in [Ids -> Events \cup {Absent, Fired}]
      BY Distinct DEF Init
    <2>4. /\ eventId \in [Events -> Ids \cup {None}] /\ handle \in [Events -> Ids \cup {None}]
          /\ adding \in [Clients -> Events \cup {None}]
      BY DEF Init
    <2>5. /\ stopped \subseteq Events /\ ran \subseteq Events /\ deleted \subseteq Events
          /\ ioStopped \in BOOLEAN /\ gameOpen \in BOOLEAN
      BY DEF Init
    <2> QED  BY <2>1, <2>2, <2>3, <2>4, <2>5 DEF TypeOK
  <1>2. \A K : ~Has(ioQueue, K) /\ Single(ioQueue, K) /\ ~Has(gameQueue, K) /\ Single(gameQueue, K)
    BY DEF Init, Has, Single
  <1>3. ASSUME NEW e \in Events PROVE OnePlace(e)
    BY <1>2, <1>3, Distinct DEF Init, OnePlace, InIo, InMap, InGame
  <1> QED  BY <1>1, <1>3 DEF TypeInv, PlaceInv

-----------------------------------------------------------------------------
LEMMA NextIdTypes == TypeOK => NextId \in Ids
  BY Distinct DEF TypeOK, NextId, Ids

\* A step that leaves every task where it is.
LEMMA PlaceKept ==
  ASSUME TypeInv, UNCHANGED <<eventId, timerMap, gameQueue, ran, deleted>>,
         \A e \in Events : /\ Has(ioQueue', TaskHandlers(e)) <=> InIo(e)
                           /\ Single(ioQueue', TaskHandlers(e))
  PROVE  PlaceInv'
  BY DEF TypeInv, PlaceInv, OnePlace, InIo, InMap, InGame

LEMMA AddStep ==
  ASSUME TypeInv, NEW c \in Clients, NEW e \in Events, AddEvent(c, e)
  PROVE  TypeInv'
  <1> DEFINE h == Handler("insert", e)
  <1>a. TypeOK /\ PlaceInv
    BY DEF TypeInv
  <1>1. h \in Handlers
    BY DEF Handler, Handlers
  <1>2. \A f \in Events : h \in TaskHandlers(f) <=> f = e
    BY HandlerOf
  <1>3. /\ eventId[e] = None /\ ioQueue' = Append(ioQueue, h)
        /\ eventId' = [eventId EXCEPT ![e] = NextId] /\ lastEventId' = NextId
        /\ adding' = [adding EXCEPT ![c] = e]
        /\ UNCHANGED <<mode, threadState, handle, stopped, timerMap, ioStopped, gameOpen,
                       gameQueue, ran, deleted>>
    <2>1. e \notin 1 .. e - 1
      BY DEF Events
    <2> QED  BY <2>1 DEF AddEvent, taskVars
  <1> HIDE DEF h
  <1>4. /\ ioQueue' \in Seq(Handlers)
        /\ \A K : /\ Has(ioQueue', K) <=> Has(ioQueue, K) \/ h \in K
                  /\ Single(ioQueue, K) /\ (h \in K => ~Has(ioQueue, K)) => Single(ioQueue', K)
    BY <1>a, <1>1, <1>3, IoPost
  <1>5. NextId \in Ids /\ NextId # None
    BY <1>a, NextIdTypes, Distinct
  <1>6. TypeOK'
    BY <1>a, <1>3, <1>4, <1>5 DEF TypeOK
  <1>7. ASSUME NEW f \in Events PROVE OnePlace(f)'
    <2>1. CASE f = e
      <3>1. /\ ~Has(ioQueue, TaskHandlers(e)) /\ Single(ioQueue, TaskHandlers(e))
            /\ ~InMap(e) /\ ~InGame(e) /\ Single(gameQueue, {e})
            /\ e \notin ran /\ e \notin deleted
        BY <1>a, <1>3 DEF PlaceInv, OnePlace, InIo
      <3>2. Has(ioQueue', TaskHandlers(e)) /\ Single(ioQueue', TaskHandlers(e))
        BY <1>2, <1>4, <3>1
      <3>3. eventId'[e] # None
        BY <1>a, <1>3, <1>5 DEF TypeOK
      <3>4. ~InMap(e)' /\ ~InGame(e)' /\ Single(gameQueue', {e}) /\ e \notin ran' /\ e \notin deleted'
        BY <1>3, <3>1 DEF InMap, InGame
      <3> QED  BY <2>1, <3>2, <3>3, <3>4 DEF OnePlace, InIo, InMap
    <2>2. CASE f # e
      BY ZenonT(30), <1>a, <1>2, <1>3, <1>4, <1>5, <2>2 DEF PlaceInv, OnePlace, InIo, InMap, InGame, TypeOK
    <2> QED  BY <2>1, <2>2
  <1> QED  BY <1>6, <1>7 DEF TypeInv, PlaceInv

LEMMA ClientStep ==
  ASSUME TypeInv,
         \/ \E c \in Clients : ReturnId(c)
         \/ \E e \in Events : StopEvent(e)
         \/ Stop \/ StopDispatcher \/ Shutdown
  PROVE  TypeInv'
  <1>a. TypeOK /\ PlaceInv
    BY DEF TypeInv
  <1>1. ASSUME NEW c \in Clients, ReturnId(c) PROVE TypeInv'
    <2>1. UNCHANGED <<mode, threadState, lastEventId, eventId, stopped, ioQueue, timerMap,
                      ioStopped, gameOpen, gameQueue, ran, deleted>>
      BY <1>1 DEF ReturnId, taskVars
    <2>2. /\ handle' \in [Events -> Ids \cup {None}]
          /\ adding' \in [Clients -> Events \cup {None}]
      BY <1>a, <1>1 DEF ReturnId, TypeOK
    <2>3. TypeOK'
      BY <1>a, <2>1, <2>2 DEF TypeOK
    <2>4. PlaceInv'
      BY <1>a, <2>1, PlaceKept DEF InIo, PlaceInv, OnePlace
    <2> QED  BY <2>3, <2>4 DEF TypeInv
  <1>2. ASSUME NEW h \in Handlers, \A e \in Events : h \notin TaskHandlers(e),
               ioQueue' = Append(ioQueue, h), stopped' \subseteq Events,
               threadState' \in {"RUNNING", "CLOSING", "TERMINATED"},
               UNCHANGED <<mode, lastEventId, eventId, handle, adding, timerMap, ioStopped,
                           gameOpen, gameQueue, ran, deleted>>
        PROVE  TypeInv'
    <2>1. /\ ioQueue' \in Seq(Handlers)
          /\ \A K : /\ Has(ioQueue', K) <=> Has(ioQueue, K) \/ h \in K
                    /\ Single(ioQueue, K) /\ (h \in K => ~Has(ioQueue, K)) => Single(ioQueue', K)
      BY <1>a, <1>2, IoPost
    <2>2. TypeOK'
      BY <1>a, <1>2, <2>1 DEF TypeOK
    <2>3. PlaceInv'
      BY <1>a, <1>2, <2>1, PlaceKept DEF InIo, PlaceInv, OnePlace
    <2> QED  BY <2>2, <2>3 DEF TypeInv
  <1>3. ASSUME NEW e \in Events, StopEvent(e) PROVE TypeInv'
    <2>1. handle[e] \in Ids /\ stopped' \subseteq Events
          /\ UNCHANGED <<mode, threadState, lastEventId, eventId, handle, adding, timerMap, ioStopped,
                         gameOpen, gameQueue, ran, deleted>>
      BY <1>a, <1>3 DEF StopEvent, taskVars, TypeOK
    <2>2. CASE handle[e] = 0
      <3>1. UNCHANGED ioQueue
        BY <1>3, <2>2 DEF StopEvent
      <3>2. TypeOK'
        BY <1>a, <2>1, <3>1 DEF TypeOK
      <3>3. PlaceInv'
        BY <1>a, <2>1, <3>1, PlaceKept DEF InIo, PlaceInv, OnePlace
      <3> QED  BY <3>2, <3>3 DEF TypeInv
    <2>3. CASE handle[e] # 0
      <3> DEFINE h == Handler("cancel", handle[e])
      <3>1. ioQueue' = Append(ioQueue, h)
        BY <1>3, <2>3 DEF StopEvent
      <3>2. h \in Handlers
        BY <2>1 DEF Handler, Handlers
      <3>3. \A f \in Events : h \notin TaskHandlers(f)
        BY HandlerOf
      <3> HIDE DEF h
      <3> QED  BY <1>a, <1>2, <2>1, <3>1, <3>2, <3>3 DEF TypeOK
    <2> QED  BY <2>2, <2>3
  <1>4. CASE Stop \/ StopDispatcher
    <2>1. UNCHANGED <<mode, lastEventId, eventId, handle, adding, stopped, ioQueue, timerMap,
                      ioStopped, gameQueue, ran, deleted>>
      BY <1>4 DEF Stop, StopDispatcher, taskVars, clientVars
    <2>2. threadState' \in {"RUNNING", "CLOSING", "TERMINATED"} /\ gameOpen' \in BOOLEAN
      BY <1>a, <1>4 DEF Stop, StopDispatcher, TypeOK
    <2>3. TypeOK'
      BY <1>a, <2>1, <2>2 DEF TypeOK
    <2>4. PlaceInv'
      BY <1>a, <2>1, PlaceKept DEF InIo, PlaceInv, OnePlace
    <2> QED  BY <2>3, <2>4 DEF TypeInv
  <1>5. CASE Shutdown
    <2> DEFINE h == Handler("shutdown", None)
    <2>1. ioQueue' = Append(ioQueue, h) /\ threadState' = "TERMINATED"
          /\ UNCHANGED <<mode, lastEventId, eventId, handle, adding, stopped, timerMap, ioStopped,
                         gameOpen, gameQueue, ran, deleted>>
      BY <1>5 DEF Shutdown, taskVars, clientVars
    <2>2. h \in Handlers
      BY DEF Handler, Handlers
    <2>3. \A f \in Events : h \notin TaskHandlers(f)
      BY HandlerOf
    <2> HIDE DEF h
    <2> QED  BY <1>a, <1>2, <2>1, <2>2, <2>3 DEF TypeOK
  <1> QED  BY <1>1, <1>3, <1>4, <1>5

\* The game thread.
LEMMA RunStep ==
  ASSUME TypeInv, RunTask
  PROVE  TypeInv'
  <1> DEFINE g == Head(gameQueue)
  <1>a. TypeOK /\ PlaceInv
    BY DEF TypeInv
  <1>1. /\ gameQueue # <<>> /\ ran' = ran \cup {g} /\ gameQueue' = Tail(gameQueue)
        /\ UNCHANGED <<mode, threadState, lastEventId, eventId, handle, adding, stopped, ioQueue,
                       timerMap, ioStopped, gameOpen, deleted>>
    BY DEF RunTask, clientVars
  <1>2. gameQueue \in Seq(Events) /\ g \in Events /\ gameQueue' \in Seq(Events)
    BY <1>a, <1>1 DEF TypeOK
  <1> HIDE DEF g
  <1>3. TypeOK'
    BY <1>a, <1>1, <1>2 DEF TypeOK
  <1>4. \A K : /\ Has(gameQueue, K) <=> g \in K \/ Has(gameQueue', K)
               /\ Single(gameQueue, K) => Single(gameQueue', K) /\ ~(g \in K /\ Has(gameQueue', K))
    BY <1>1, <1>2, HeadTailHas DEF g
  <1>5. ASSUME NEW e \in Events PROVE OnePlace(e)'
    <2>1. /\ InIo(e)' <=> InIo(e)
          /\ InMap(e)' <=> InMap(e)
      BY <1>1 DEF InIo, InMap
    <2>2. InGame(e) <=> g = e \/ InGame(e)'
      BY <1>4 DEF InGame
    <2>3. Single(gameQueue, {e}) /\ OnePlace(e)
      BY <1>a DEF PlaceInv, OnePlace
    <2>4. Single(gameQueue', {e}) /\ ~(g = e /\ InGame(e)')
      BY <1>4, <2>3 DEF InGame
    <2>5. e \in ran' <=> e \in ran \/ g = e
      BY <1>1
    <2> QED  BY <1>1, <2>1, <2>2, <2>3, <2>4, <2>5 DEF OnePlace
  <1> QED  BY <1>3, <1>5 DEF TypeInv, PlaceInv

\* The io thread takes the first handler: it names a task, or an id.
LEMMA IoHead ==
  ASSUME TypeInv, NEW kind, IoReady(kind)
  PROVE  /\ ioQueue # <<>> /\ Head(ioQueue) \in Handlers /\ Head(ioQueue).kind = kind
         /\ Head(ioQueue) = Handler(kind, Head(ioQueue).event)
         /\ kind \in {"insert", "expired", "aborted"} =>
               /\ Head(ioQueue).event \in Events /\ InIo(Head(ioQueue).event)
               /\ eventId[Head(ioQueue).event] \in Ids
         /\ kind = "cancel" => Head(ioQueue).event \in Ids
  <1> DEFINE h == Head(ioQueue)
  <1>a. TypeOK /\ PlaceInv /\ ioQueue # <<>> /\ ioQueue \in Seq(Handlers) /\ h \in Handlers
        /\ h.kind = kind
    BY DEF TypeInv, TypeOK, IoReady
  <1>1. h = Handler(kind, h.event)
    BY <1>a DEF Handler, Handlers
  <1>2. kind = "cancel" => h.event \in Ids
    BY <1>a DEF Handlers
  <1>3. ASSUME kind \in {"insert", "expired", "aborted"} PROVE h.event \in Events /\ InIo(h.event)
    <2>1. h.event \in Events
      BY <1>a, <1>3 DEF Handlers
    <2>2. h \in TaskHandlers(h.event)
      BY <1>1, <1>3, HandlerOf
    <2>3. h = ioQueue[1] /\ 1 \in 1 .. Len(ioQueue)
      BY <1>a
    <2> HIDE DEF h
    <2> QED  BY <2>1, <2>2, <2>3 DEF InIo, Has
  <1>4. \A e \in Events : InIo(e) => eventId[e] \in Ids
    BY <1>a DEF PlaceInv, OnePlace, TypeOK
  <1> QED  BY <1>a, <1>1, <1>2, <1>3, <1>4

\* What the io thread does to the places of the tasks: the task of its handler
\* goes wherever it goes, and the one whose wait is aborted, if any, goes from
\* the map to the queue.
LEMMA InsertStep ==
  ASSUME TypeInv, HandleInsert
  PROVE  TypeInv'
  <1> DEFINE e == Head(ioQueue).event
             i == eventId[e]
  <1>a. TypeOK /\ PlaceInv
    BY DEF TypeInv
  <1>1. /\ ioQueue # <<>> /\ Head(ioQueue) = Handler("insert", e)
        /\ e \in Events /\ InIo(e) /\ i \in Ids
    BY IoHead DEF HandleInsert
  <1>2. /\ timerMap' = [timerMap EXCEPT ![i] = e] /\ ioQueue' = Tail(ioQueue) \o Aborted(i)
        /\ UNCHANGED <<mode, threadState, lastEventId, eventId, handle, adding, stopped, ioStopped,
                       gameOpen, gameQueue, ran, deleted>>
    BY DEF HandleInsert, clientVars, taskVars
  <1> HIDE DEF e, i
  <1>3. /\ Aborted(i) \in Seq(Handlers)
        /\ Waiting(i) => timerMap[i] \in Events
        /\ \A K : /\ Single(Aborted(i), K)
                  /\ Has(Aborted(i), K) <=> Waiting(i) /\ Handler("aborted", timerMap[i]) \in K
    BY <1>a, <1>1, AbortedTypes
  <1>4. /\ ioQueue' \in Seq(Handlers)
        /\ \A K : /\ Has(ioQueue, K) <=> Handler("insert", e) \in K \/ Has(Tail(ioQueue), K)
                  /\ Has(ioQueue', K) <=> Has(Tail(ioQueue), K) \/ Has(Aborted(i), K)
                  /\ Single(ioQueue, K) => ~(Handler("insert", e) \in K /\ Has(Tail(ioQueue), K))
                  /\ Single(ioQueue, K) /\ Single(Aborted(i), K)
                        /\ ~(Has(Tail(ioQueue), K) /\ Has(Aborted(i), K)) => Single(ioQueue', K)
    BY <1>a, <1>1, <1>2, <1>3, IoTake
  <1>5. TypeOK'
    BY <1>a, <1>1, <1>2, <1>4 DEF TypeOK
  <1>6. ASSUME NEW f \in Events PROVE OnePlace(f)'
    <2>1. OnePlace(f) /\ OnePlace(e)
      BY <1>a, <1>1 DEF PlaceInv
    <2>2. /\ Handler("insert", e) \in TaskHandlers(f) <=> f = e
          /\ Handler("aborted", timerMap[i]) \in TaskHandlers(f) <=> timerMap[i] = f
      BY HandlerOf
    <2>3. Waiting(i) /\ timerMap[i] = f <=> timerMap[i] = f
      BY Distinct DEF Waiting
    <2>4. timerMap[i] # e
      BY <1>1, <2>1 DEF OnePlace, InMap
    <2>5. /\ Has(ioQueue, TaskHandlers(f)) <=> f = e \/ Has(Tail(ioQueue), TaskHandlers(f))
          /\ Has(ioQueue', TaskHandlers(f))
                <=> Has(Tail(ioQueue), TaskHandlers(f)) \/ timerMap[i] = f
          /\ Single(ioQueue, TaskHandlers(f)) => ~(f = e /\ Has(Tail(ioQueue), TaskHandlers(f)))
      BY <1>3, <1>4, <2>2, <2>3
    <2>6. timerMap[i] = f => InMap(f)
      BY <1>1 DEF InMap
    <2>7. Single(ioQueue', TaskHandlers(f))
      <3>1. ~(Has(Tail(ioQueue), TaskHandlers(f)) /\ Has(Aborted(i), TaskHandlers(f)))
        BY <1>3, <2>1, <2>2, <2>3, <2>5, <2>6 DEF OnePlace, InIo
      <3> QED  BY <1>3, <1>4, <2>1, <3>1 DEF OnePlace
    <2>8. InIo(f)' <=> (InIo(f) /\ f # e) \/ timerMap[i] = f
      BY <2>1, <2>5 DEF InIo, OnePlace
    <2>9. InMap(f)' <=> f = e \/ (InMap(f) /\ timerMap[i] # f)
      <3>1. f = e => InMap(f)'
        BY <1>a, <1>1, <1>2 DEF InMap, TypeOK
      <3>2. InMap(f)' => f = e \/ (InMap(f) /\ timerMap[i] # f)
        <4>1. ASSUME NEW j \in Ids, timerMap'[j] = f, f # e PROVE InMap(f) /\ timerMap[i] # f
          <5>1. j # i /\ timerMap[j] = f
            BY <1>a, <1>1, <1>2, <4>1 DEF TypeOK
          <5>2. eventId[f] = j
            BY <2>1, <5>1 DEF OnePlace
          <5> QED  BY <1>1, <2>1, <5>1, <5>2 DEF OnePlace, InMap
        <4> QED  BY <4>1 DEF InMap
      <3>3. InMap(f) /\ timerMap[i] # f => InMap(f)'
        BY <1>a, <1>1, <1>2 DEF InMap, TypeOK
      <3> QED  BY <3>1, <3>2, <3>3
    <2>10. \A j \in Ids : timerMap'[j] = f => eventId'[f] = j
      BY <1>a, <1>1, <1>2, <2>1 DEF OnePlace, TypeOK, i
    <2>11. /\ InGame(f)' <=> InGame(f)
           /\ f \in ran' <=> f \in ran
           /\ f \in deleted' <=> f \in deleted
           /\ eventId'[f] = eventId[f] /\ Single(gameQueue', {f})
      BY <1>2, <2>1 DEF InGame, OnePlace
    <2> QED  BY <1>1, <2>1, <2>4, <2>6, <2>7, <2>8, <2>9, <2>10, <2>11 DEF OnePlace
  <1> QED  BY <1>5, <1>6 DEF TypeInv, PlaceInv

LEMMA CancelStep ==
  ASSUME TypeInv, HandleCancel
  PROVE  TypeInv'
  <1> DEFINE i == Head(ioQueue).event
  <1>a. TypeOK /\ PlaceInv
    BY DEF TypeInv
  <1>1. ioQueue # <<>> /\ Head(ioQueue) = Handler("cancel", i) /\ i \in Ids
    BY IoHead DEF HandleCancel
  <1>2. /\ timerMap' = IF Waiting(i) THEN [timerMap EXCEPT ![i] = Fired] ELSE timerMap
        /\ ioQueue' = Tail(ioQueue) \o Aborted(i)
        /\ UNCHANGED <<mode, threadState, lastEventId, eventId, handle, adding, stopped, ioStopped,
                       gameOpen, gameQueue, ran, deleted>>
    BY DEF HandleCancel, clientVars, taskVars
  <1> HIDE DEF i
  <1>3. /\ Aborted(i) \in Seq(Handlers)
        /\ Waiting(i) => timerMap[i] \in Events
        /\ \A K : /\ Single(Aborted(i), K)
                  /\ Has(Aborted(i), K) <=> Waiting(i) /\ Handler("aborted", timerMap[i]) \in K
    BY <1>a, <1>1, AbortedTypes
  <1>4. /\ ioQueue' \in Seq(Handlers)
        /\ \A K : /\ Has(ioQueue, K) <=> Handler("cancel", i) \in K \/ Has(Tail(ioQueue), K)
                  /\ Has(ioQueue', K) <=> Has(Tail(ioQueue), K) \/ Has(Aborted(i), K)
                  /\ Single(ioQueue, K) /\ Single(Aborted(i), K)
                        /\ ~(Has(Tail(ioQueue), K) /\ Has(Aborted(i), K)) => Single(ioQueue', K)
    BY <1>a, <1>1, <1>2, <1>3, IoTake
  <1>5. TypeOK'
    BY <1>a, <1>1, <1>2, <1>4 DEF TypeOK
  <1>6. ASSUME NEW f \in Events PROVE OnePlace(f)'
    <2>1. OnePlace(f)
      BY <1>a DEF PlaceInv
    <2>2. /\ Handler("cancel", i) \notin TaskHandlers(f)
          /\ Handler("aborted", timerMap[i]) \in TaskHandlers(f) <=> timerMap[i] = f
      BY HandlerOf
    <2>3. Waiting(i) /\ timerMap[i] = f <=> timerMap[i] = f
      BY Distinct DEF Waiting
    <2>4. InIo(f)' <=> InIo(f) \/ timerMap[i] = f
      BY <1>3, <1>4, <2>2, <2>3 DEF InIo
    <2>5. timerMap[i] = f => InMap(f)
      BY <1>1 DEF InMap
    <2>6. Single(ioQueue', TaskHandlers(f))
      <3>1. ~(Has(Tail(ioQueue), TaskHandlers(f)) /\ Has(Aborted(i), TaskHandlers(f)))
        BY <1>3, <1>4, <2>1, <2>2, <2>3, <2>5 DEF OnePlace, InIo
      <3> QED  BY <1>3, <1>4, <2>1, <3>1 DEF OnePlace
    <2>7. \A j \in Ids : timerMap'[j] = f <=> timerMap[j] = f /\ j # i
      <3>1. CASE Waiting(i)
        BY <1>a, <1>1, <1>2, <3>1, Distinct DEF TypeOK
      <3>2. CASE ~Waiting(i)
        BY <1>1, <1>2, <2>3, <3>2
      <3> QED  BY <3>1, <3>2
    <2>8. InMap(f)' <=> InMap(f) /\ timerMap[i] # f
      BY <1>1, <2>1, <2>7 DEF InMap, OnePlace
    <2>9. /\ InGame(f)' <=> InGame(f)
          /\ f \in ran' <=> f \in ran
          /\ f \in deleted' <=> f \in deleted
          /\ eventId'[f] = eventId[f] /\ Single(gameQueue', {f})
      BY <1>2, <2>1 DEF InGame, OnePlace
    <2> QED  BY <2>1, <2>4, <2>5, <2>6, <2>7, <2>8, <2>9 DEF OnePlace
  <1> QED  BY <1>5, <1>6 DEF TypeInv, PlaceInv

LEMMA ExpireStep ==
  ASSUME TypeInv, NEW i \in Ids, Expire(i)
  PROVE  TypeInv'
  <1> DEFINE e == timerMap[i]
             h == Handler("expired", e)
  <1>a. TypeOK /\ PlaceInv
    BY DEF TypeInv
  <1>1. e \in Events /\ InMap(e) /\ OnePlace(e)
    BY <1>a DEF Expire, Waiting, TypeOK, InMap, PlaceInv
  <1>2. /\ ioQueue' = Append(ioQueue, h) /\ timerMap' = [timerMap EXCEPT ![i] = Fired]
        /\ UNCHANGED <<mode, threadState, lastEventId, eventId, handle, adding, stopped, ioStopped,
                       gameOpen, gameQueue, ran, deleted>>
    BY DEF Expire, clientVars, taskVars
  <1>3. h \in Handlers
    BY <1>1 DEF Handler, Handlers
  <1>4. \A f \in Events : h \in TaskHandlers(f) <=> f = e
    BY HandlerOf
  <1> HIDE DEF h
  <1>5. /\ ioQueue' \in Seq(Handlers)
        /\ \A K : /\ Has(ioQueue', K) <=> Has(ioQueue, K) \/ h \in K
                  /\ Single(ioQueue, K) /\ (h \in K => ~Has(ioQueue, K)) => Single(ioQueue', K)
    BY <1>a, <1>2, <1>3, IoPost
  <1>6. TypeOK'
    BY <1>a, <1>2, <1>5 DEF TypeOK
  <1>7. ASSUME NEW f \in Events PROVE OnePlace(f)'
    <2>1. OnePlace(f)
      BY <1>a DEF PlaceInv
    <2>2. InIo(f)' <=> InIo(f) \/ f = e
      BY <1>4, <1>5 DEF InIo
    <2>3. Single(ioQueue', TaskHandlers(f))
      BY <1>1, <1>4, <1>5, <2>1 DEF OnePlace, InIo
    <2>4. \A j \in Ids : timerMap'[j] = f <=> timerMap[j] = f /\ j # i
      BY <1>a, <1>2, Distinct DEF TypeOK
    <2>5. InMap(f)' <=> InMap(f) /\ f # e
      BY <2>1, <2>4 DEF InMap, OnePlace
    <2>6. /\ InGame(f)' <=> InGame(f)
          /\ f \in ran' <=> f \in ran
          /\ f \in deleted' <=> f \in deleted
          /\ eventId'[f] = eventId[f] /\ Single(gameQueue', {f})
      BY <1>2, <2>1 DEF InGame, OnePlace
    <2> QED  BY <1>1, <2>1, <2>2, <2>3, <2>4, <2>5, <2>6 DEF OnePlace
  <1> QED  BY <1>6, <1>7 DEF TypeInv, PlaceInv

LEMMA WaitStep ==
  ASSUME TypeInv, HandleWait
  PROVE  TypeInv'
  <1> DEFINE h == Head(ioQueue)
             e == Head(ioQueue).event
             i == eventId[e]
  <1>a. TypeOK /\ PlaceInv
    BY DEF TypeInv
  <1>1. /\ ioQueue # <<>> /\ h \in Handlers
        /\ e \in Events /\ InIo(e) /\ i \in Ids
        /\ \A f \in Events : h \in TaskHandlers(f) <=> f = e
    <2>1. PICK kind \in {"expired", "aborted"} : IoReady(kind)
      BY DEF HandleWait
    <2>2. /\ ioQueue # <<>> /\ h \in Handlers /\ h = Handler(kind, e)
          /\ e \in Events /\ InIo(e) /\ i \in Ids
      BY <2>1, IoHead
    <2> QED  BY <2>2, HandlerOf
  <1>2. /\ timerMap' = [timerMap EXCEPT ![i] = Absent] /\ ioQueue' = Tail(ioQueue) \o Aborted(i)
        /\ UNCHANGED <<mode, threadState, lastEventId, eventId, handle, adding, stopped, ioStopped,
                       gameOpen, ran>>
        /\ \/ gameQueue' = Append(gameQueue, e) /\ UNCHANGED deleted
           \/ deleted' = deleted \cup {e} /\ UNCHANGED gameQueue
    BY DEF HandleWait, Erase, Dispose, clientVars
  <1> HIDE DEF h, e, i
  <1>3. /\ Aborted(i) \in Seq(Handlers)
        /\ Waiting(i) => timerMap[i] \in Events
        /\ \A K : /\ Single(Aborted(i), K)
                  /\ Has(Aborted(i), K) <=> Waiting(i) /\ Handler("aborted", timerMap[i]) \in K
    BY <1>a, <1>1, AbortedTypes
  <1>4. /\ ioQueue' \in Seq(Handlers)
        /\ \A K : /\ Has(ioQueue, K) <=> h \in K \/ Has(Tail(ioQueue), K)
                  /\ Has(ioQueue', K) <=> Has(Tail(ioQueue), K) \/ Has(Aborted(i), K)
                  /\ Single(ioQueue, K) => ~(h \in K /\ Has(Tail(ioQueue), K))
                  /\ Single(ioQueue, K) /\ Single(Aborted(i), K)
                        /\ ~(Has(Tail(ioQueue), K) /\ Has(Aborted(i), K)) => Single(ioQueue', K)
    BY <1>a, <1>1, <1>2, <1>3, IoTake DEF h
  <1>5. /\ gameQueue' \in Seq(Events) /\ deleted' \subseteq Events
        /\ \A f \in Events : Single(gameQueue', {f})
        /\ \/ /\ \A f \in Events : InGame(f)' <=> InGame(f) \/ f = e
              /\ \A f \in Events : f \in deleted' <=> f \in deleted
           \/ /\ \A f \in Events : InGame(f)' <=> InGame(f)
              /\ \A f \in Events : f \in deleted' <=> f \in deleted \/ f = e
    <2>1. gameQueue \in Seq(Events) /\ \A f \in Events : Single(gameQueue, {f})
      BY <1>a DEF TypeOK, PlaceInv, OnePlace
    <2>2. CASE gameQueue' = Append(gameQueue, e) /\ UNCHANGED deleted
      <3>1. ~InGame(e)
        BY <1>a, <1>1 DEF PlaceInv, OnePlace
      <3>2. ASSUME NEW f \in Events
            PROVE  Single(gameQueue', {f}) /\ (InGame(f)' <=> InGame(f) \/ f = e)
        <4>1. e \in {f} => ~Has(gameQueue, {f})
          BY <3>1 DEF InGame
        <4>2. /\ Single(Append(gameQueue, e), {f})
              /\ Has(Append(gameQueue, e), {f}) <=> Has(gameQueue, {f}) \/ e \in {f}
          BY <1>1, <2>1, <4>1, AppendHas
        <4> QED  BY <2>2, <4>2 DEF InGame
      <3>3. gameQueue' \in Seq(Events) /\ deleted' \subseteq Events
        BY <1>a, <1>1, <2>2 DEF TypeOK
      <3> QED  BY <2>2, <3>2, <3>3
    <2>3. CASE deleted' = deleted \cup {e} /\ UNCHANGED gameQueue
      <3>1. deleted' \subseteq Events /\ gameQueue' \in Seq(Events)
        BY <1>a, <1>1, <2>3 DEF TypeOK
      <3> QED  BY <2>1, <2>3, <3>1 DEF InGame
    <2> QED  BY <1>2, <2>2, <2>3
  <1>6. TypeOK'
    BY <1>a, <1>1, <1>2, <1>4, <1>5 DEF TypeOK
  <1>7. ASSUME NEW f \in Events PROVE OnePlace(f)'
    <2>1. OnePlace(f) /\ OnePlace(e)
      BY <1>a, <1>1 DEF PlaceInv
    <2>2. Handler("aborted", timerMap[i]) \in TaskHandlers(f) <=> timerMap[i] = f
      BY HandlerOf
    <2>3. Waiting(i) /\ timerMap[i] = f <=> timerMap[i] = f
      BY Distinct DEF Waiting
    <2>4. timerMap[i] # e
      BY <1>1, <2>1 DEF OnePlace, InMap
    <2>5. timerMap[i] = f => InMap(f)
      BY <1>1 DEF InMap
    <2>6. InIo(f)' <=> (InIo(f) /\ f # e) \/ timerMap[i] = f
      BY <1>1, <1>3, <1>4, <2>1, <2>2, <2>3 DEF InIo, OnePlace
    <2>7. Single(ioQueue', TaskHandlers(f))
      <3>1. ~(Has(Tail(ioQueue), TaskHandlers(f)) /\ Has(Aborted(i), TaskHandlers(f)))
        BY <1>3, <1>4, <2>1, <2>2, <2>3, <2>5 DEF OnePlace, InIo
      <3> QED  BY <1>3, <1>4, <2>1, <3>1 DEF OnePlace
    <2>8. \A j \in Ids : timerMap'[j] = f <=> timerMap[j] = f /\ j # i
      BY <1>a, <1>1, <1>2, Distinct DEF TypeOK
    <2>9. InMap(f)' <=> InMap(f) /\ timerMap[i] # f
      BY <1>1, <2>1, <2>8 DEF InMap, OnePlace
    <2>10. /\ f \in ran' <=> f \in ran
           /\ eventId'[f] = eventId[f]
      BY <1>2
    <2>11. Single(gameQueue', {f})
      BY <1>5
    <2>12. \/ (InGame(f)' <=> InGame(f) \/ f = e) /\ (f \in deleted' <=> f \in deleted)
           \/ (InGame(f)' <=> InGame(f)) /\ (f \in deleted' <=> f \in deleted \/ f = e)
      BY <1>5
    <2>13. \A j \in Ids : timerMap'[j] = f => eventId'[f] = j
      BY <2>1, <2>8, <2>10 DEF OnePlace
    <2> QED  BY <1>1, <2>1, <2>4, <2>5, <2>6, <2>7, <2>9, <2>10, <2>11, <2>12, <2>13 DEF OnePlace
  <1> QED  BY <1>6, <1>7 DEF TypeInv, PlaceInv

\* The shutdown handler cancels each wait once, in some order.
LEMMA WaitsTypes ==
  ASSUME TypeInv,
         NEW A, A = {Handler("aborted", timerMap[i]) : i \in {j \in Ids : Waiting(j)}},
         NEW waits \in SetToSeqs(A)
  PROVE  /\ waits \in Seq(Handlers)
         /\ \A K : Has(waits, K) <=> \E i \in Ids : Waiting(i) /\ Handler("aborted", timerMap[i]) \in K
         /\ \A f \in Events : Single(waits, TaskHandlers(f))
  <1> DEFINE I == {j \in Ids : Waiting(j)}
             g == [i \in I |-> Handler("aborted", timerMap[i])]
             n == Cardinality(A)
  <1>1. IsFiniteSet(I)
    <2>1. IsFiniteSet(Ids)
      BY Distinct, FS_Interval DEF Ids
    <2> QED  BY <2>1, FS_Subset
  <1>2. IsFiniteSet(A)
    <2>1. g \in Surjection(I, A)
      BY DEF Surjection
    <2> QED  BY <1>1, <2>1, FS_Surjection
  <1>3. n \in Nat
    BY <1>2, FS_CardinalityType
  <1>4. A \subseteq Handlers
    BY DEF TypeInv, TypeOK, Waiting, Handler, Handlers
  <1>5. waits \in [1 .. n -> A] /\ \A a, b \in 1 .. n : a # b => waits[a] # waits[b]
    BY DEF SetToSeqs
  <1> HIDE DEF n, g
  <1>6. waits \in Seq(Handlers) /\ Len(waits) = n
    <2>1. waits \in [1 .. n -> Handlers]
      BY <1>4, <1>5
    <2>2. waits \in Seq(Handlers)
      BY <1>3, <2>1
    <2> QED  BY <1>3, <1>5, <2>2, LenProperties
  <1>7. \A h \in A : \E a \in 1 .. n : waits[a] = h
    <2>1. waits \in Injection(1 .. n, A)
      BY <1>5 DEF Injection, IsInjective
    <2>2. Cardinality(1 .. n) = n
      BY <1>3, FS_Interval
    <2>3. waits \in Surjection(1 .. n, A)
      BY <1>2, <2>1, <2>2, FS_Injection DEF n
    <2> QED  BY <2>3 DEF Surjection
  <1>8. ASSUME NEW K
        PROVE  Has(waits, K) <=> \E i \in Ids : Waiting(i) /\ Handler("aborted", timerMap[i]) \in K
    <2>1. Has(waits, K) <=> \E a \in 1 .. n : waits[a] \in K
      BY <1>6 DEF Has
    <2>2. ASSUME NEW a \in 1 .. n, waits[a] \in K PROVE \E h \in A : h \in K
      BY <1>5, <2>2
    <2>3. ASSUME NEW h \in A, h \in K PROVE \E a \in 1 .. n : waits[a] \in K
      BY <1>7, <2>3
    <2> QED  BY <2>1, <2>2, <2>3
  <1>9. ASSUME NEW f \in Events PROVE Single(waits, TaskHandlers(f))
    <2>1. \A h \in A : h \in TaskHandlers(f) => h = Handler("aborted", f)
      BY HandlerOf
    <2> QED  BY <1>5, <1>6, <2>1 DEF Single
  <1> QED  BY <1>6, <1>8, <1>9

LEMMA ShutdownStep ==
  ASSUME TypeInv, HandleShutdown
  PROVE  TypeInv'
  <1> DEFINE A == {Handler("aborted", timerMap[i]) : i \in {j \in Ids : Waiting(j)}}
  <1>a. TypeOK /\ PlaceInv
    BY DEF TypeInv
  <1>1. PICK w \in SetToSeqs(A) : ioQueue' = Tail(ioQueue) \o w
    BY DEF HandleShutdown
  <1>2. /\ timerMap' = [i \in Ids |-> IF Waiting(i) THEN Fired ELSE timerMap[i]]
        /\ ioStopped' = TRUE
        /\ UNCHANGED <<mode, threadState, lastEventId, eventId, handle, adding, stopped,
                       gameOpen, gameQueue, ran, deleted>>
    BY DEF HandleShutdown, clientVars, taskVars
  <1>3. /\ w \in Seq(Handlers)
        /\ \A K : Has(w, K) <=> \E i \in Ids : Waiting(i) /\ Handler("aborted", timerMap[i]) \in K
        /\ \A f \in Events : Single(w, TaskHandlers(f))
    BY WaitsTypes
  <1> HIDE DEF A
  <1>4. ioQueue # <<>> /\ \E x : Head(ioQueue) = Handler("shutdown", x)
    BY IoHead DEF HandleShutdown
  <1>5. /\ ioQueue' \in Seq(Handlers)
        /\ \A K : /\ Has(ioQueue, K) <=> Head(ioQueue) \in K \/ Has(Tail(ioQueue), K)
                  /\ Has(ioQueue', K) <=> Has(Tail(ioQueue), K) \/ Has(w, K)
                  /\ Single(ioQueue, K) /\ Single(w, K)
                        /\ ~(Has(Tail(ioQueue), K) /\ Has(w, K)) => Single(ioQueue', K)
    BY <1>a, <1>1, <1>3, <1>4, IoTake
  <1>6. timerMap' \in [Ids -> Events \cup {Absent, Fired}]
    BY <1>a, <1>2 DEF TypeOK
  <1>7. TypeOK'
    BY <1>a, <1>2, <1>5, <1>6 DEF TypeOK
  <1>8. ASSUME NEW f \in Events PROVE OnePlace(f)'
    <2>1. OnePlace(f)
      BY <1>a DEF PlaceInv
    <2>2. Head(ioQueue) \notin TaskHandlers(f)
      BY <1>4, HandlerOf
    <2>3. Has(w, TaskHandlers(f)) <=> InMap(f)
      <3>1. \A i \in Ids : Waiting(i) /\ Handler("aborted", timerMap[i]) \in TaskHandlers(f)
                              <=> timerMap[i] = f
        BY HandlerOf, Distinct DEF Waiting
      <3> QED  BY <1>3, <3>1 DEF InMap
    <2>4. InIo(f)' <=> InIo(f) \/ InMap(f)
      BY <1>5, <2>2, <2>3 DEF InIo
    <2>5. Single(ioQueue', TaskHandlers(f))
      <3>1. ~(Has(Tail(ioQueue), TaskHandlers(f)) /\ Has(w, TaskHandlers(f)))
        BY <1>5, <2>1, <2>2, <2>3 DEF OnePlace, InIo
      <3> QED  BY <1>3, <1>5, <2>1, <3>1 DEF OnePlace
    <2>6. \A j \in Ids : timerMap'[j] # f
      BY <1>2, Distinct DEF Waiting
    <2>7. ~InMap(f)'
      BY <2>6 DEF InMap
    <2>8. /\ InGame(f)' <=> InGame(f)
          /\ f \in ran' <=> f \in ran
          /\ f \in deleted' <=> f \in deleted
          /\ eventId'[f] = eventId[f] /\ Single(gameQueue', {f})
      BY <1>2, <2>1 DEF InGame, OnePlace
    <2> QED  BY <2>1, <2>4, <2>5, <2>6, <2>7, <2>8 DEF OnePlace
  <1> QED  BY <1>7, <1>8 DEF TypeInv, PlaceInv

LEMMA TypeStep ==
  ASSUME TypeInv, [Next]_vars
  PROVE  TypeInv'
  <1>1. CASE UNCHANGED vars
    <2>1. TypeOK'
      BY <1>1 DEF vars, TypeInv, TypeOK
    <2>2. PlaceInv'
      BY <1>1, PlaceKept DEF vars, TypeInv, InIo, PlaceInv, OnePlace
    <2> QED  BY <2>1, <2>2 DEF TypeInv
  <1> QED  BY <1>1, AddStep, ClientStep, RunStep, InsertStep, CancelStep, ExpireStep, WaitStep,
              ShutdownStep DEF Next, IoThread

\* Type correctness of the scheduler.
THEOREM SchedulerTypes == Spec => []TypeOK
  <1>1. TypeInv /\ [Next]_vars => TypeInv'
    BY TypeStep
  <1> QED  BY TypeInit, <1>1, PTL DEF Spec, TypeInv

-----------------------------------------------------------------------------
(* Owned: a task has one owner, and an entry without a wait one handler     *)
(* that will erase it.                                                      *)

WaitHandlers(e) == {Handler(kind, e) : kind \in {"expired", "aborted"}}
Ending(i) == \E e \in Events : eventId[e] = i /\ Has(ioQueue, WaitHandlers(e))
FiredInv == \A i \in Ids : timerMap[i] = Fired => Ending(i)
OwnedInv == TypeInv /\ FiredInv

LEMMA PlacesOne ==
  ASSUME NEW e \in Events, OnePlace(e), eventId[e] # None
  PROVE  Cardinality(Places(e)) = 1
  <1>1. /\ Places(e) \subseteq {"insert", "expired", "aborted", "timer", "game", "ran", "deleted"}
        /\ "insert" \in Places(e) <=> Queued("insert", e)
        /\ "expired" \in Places(e) <=> Queued("expired", e)
        /\ "aborted" \in Places(e) <=> Queued("aborted", e)
        /\ "timer" \in Places(e) <=> InMap(e)
        /\ "game" \in Places(e) <=> InGame(e)
        /\ "ran" \in Places(e) <=> e \in ran
        /\ "deleted" \in Places(e) <=> e \in deleted
    BY DEF Places, InMap, InGame, Has
  <1>2. InIo(e) <=> Queued("insert", e) \/ Queued("expired", e) \/ Queued("aborted", e)
    BY DEF InIo, Has, TaskHandlers, Queued
  <1>3. ASSUME NEW k \in {"insert", "expired", "aborted"}, NEW l \in {"insert", "expired", "aborted"},
               Queued(k, e), Queued(l, e)
        PROVE  k = l
    <2>1. PICK n \in 1 .. Len(ioQueue) : ioQueue[n] = Handler(k, e)
      BY <1>3 DEF Queued
    <2>2. PICK m \in 1 .. Len(ioQueue) : ioQueue[m] = Handler(l, e)
      BY <1>3 DEF Queued
    <2>3. n = m
      BY <2>1, <2>2, HandlerOf DEF OnePlace, Single
    <2> QED  BY <2>1, <2>2, <2>3 DEF Handler
  <1>4. \E p : Places(e) = {p}
    <2>1. CASE InIo(e)
      <3>1. PICK k \in {"insert", "expired", "aborted"} : Queued(k, e)
        BY <1>2, <2>1
      <3>2. \A l \in {"insert", "expired", "aborted"} : Queued(l, e) <=> l = k
        BY <1>3, <3>1
      <3> QED  BY <1>1, <2>1, <3>2 DEF OnePlace
    <2>2. CASE ~InIo(e)
      BY <1>1, <1>2, <2>2 DEF OnePlace
    <2> QED  BY <2>1, <2>2
  <1> QED  BY <1>4, FS_Singleton

LEMMA OwnedHolds == OwnedInv => Owned
  <1>1. TypeInv => OneOwner
    BY PlacesOne DEF TypeInv, PlaceInv, OneOwner
  <1>2. FiredInv => NoStaleEntry
    BY DEF FiredInv, Ending, Has, WaitHandlers, NoStaleEntry, Queued
  <1> QED  BY <1>1, <1>2 DEF OwnedInv, Owned

\* What is in the queue afterwards, for the proofs below: a handler that was
\* posted, or one of the waits of the map that the io thread aborts.
LEMMA QueuePost ==
  ASSUME TypeOK, NEW c \in Clients, NEW e \in Events,
         AddEvent(c, e) \/ StopEvent(e)
  PROVE  \A K : /\ Has(ioQueue, K) => Has(ioQueue', K)
                /\ Has(ioQueue', K) =>
                     \/ Has(ioQueue, K)
                     \/ AddEvent(c, e) /\ Handler("insert", e) \in K
                     \/ StopEvent(e) /\ Handler("cancel", handle[e]) \in K
  <1>1. ASSUME NEW h \in Handlers, ioQueue' = Append(ioQueue, h)
        PROVE  \A K : Has(ioQueue', K) <=> Has(ioQueue, K) \/ h \in K
    BY <1>1, IoPost
  <1>2. CASE AddEvent(c, e)
    <2>1. Handler("insert", e) \in Handlers
      BY DEF Handler, Handlers
    <2> QED  BY <1>1, <1>2, <2>1 DEF AddEvent
  <1>3. CASE StopEvent(e)
    <2>1. Handler("cancel", handle[e]) \in Handlers
      BY <1>3 DEF StopEvent, TypeOK, Handler, Handlers
    <2>2. UNCHANGED ioQueue \/ ioQueue' = Append(ioQueue, Handler("cancel", handle[e]))
      BY <1>3 DEF StopEvent
    <2>3. CASE UNCHANGED ioQueue
      BY <2>3 DEF Has
    <2>4. CASE ioQueue' = Append(ioQueue, Handler("cancel", handle[e]))
      BY <1>1, <1>3, <2>1, <2>4
    <2> QED  BY <2>2, <2>3, <2>4
  <1> QED  BY <1>2, <1>3

LEMMA QueueTake ==
  ASSUME TypeInv, NEW i \in Ids, ioQueue # <<>>, ioQueue' = Tail(ioQueue) \o Aborted(i)
  PROVE  /\ Waiting(i) => timerMap[i] \in Events
         /\ \A K : /\ Has(ioQueue', K) <=>
                        \/ Has(Tail(ioQueue), K)
                        \/ Waiting(i) /\ Handler("aborted", timerMap[i]) \in K
                   /\ Has(ioQueue, K) <=> Head(ioQueue) \in K \/ Has(Tail(ioQueue), K)
  <1>1. /\ TypeOK /\ Aborted(i) \in Seq(Handlers)
        /\ Waiting(i) => timerMap[i] \in Events
        /\ \A K : Has(Aborted(i), K) <=> Waiting(i) /\ Handler("aborted", timerMap[i]) \in K
    BY AbortedTypes DEF TypeInv
  <1> QED  BY <1>1, IoTake

LEMMA FiredStep ==
  ASSUME OwnedInv, [Next]_vars
  PROVE  FiredInv'
  <1>a. TypeOK /\ PlaceInv /\ FiredInv /\ TypeInv
    BY DEF OwnedInv, TypeInv
  <1>h. \A e, f, kind : Handler(kind, e) \in WaitHandlers(f) <=> kind \in {"expired", "aborted"} /\ e = f
    BY DEF Handler, WaitHandlers
  <1>m. \A i \in Ids : Waiting(i) => timerMap[i] \in Events /\ eventId[timerMap[i]] = i
    BY <1>a DEF PlaceInv, OnePlace, TypeOK, Waiting
  <1>1. ASSUME UNCHANGED timerMap,
               \A i \in Ids : Ending(i) => Ending(i)'
        PROVE  FiredInv'
    BY <1>1, <1>a DEF FiredInv
  <1>2. ASSUME NEW c \in Clients, NEW e \in Events, AddEvent(c, e) \/ StopEvent(e)
        PROVE  FiredInv'
    <2>1. \A K : Has(ioQueue, K) => Has(ioQueue', K)
      BY <1>2, <1>a, QueuePost
    <2>2. ASSUME NEW f \in Events, eventId[f] \in Ids PROVE eventId'[f] = eventId[f]
      <3>1. AddEvent(c, e) => eventId[e] = None /\ eventId' = [eventId EXCEPT ![e] = NextId]
        <4>1. e \notin 1 .. e - 1
          BY DEF Events
        <4> QED  BY <4>1 DEF AddEvent
      <3> QED  BY <1>2, <1>a, <2>2, <3>1, Distinct
            DEF StopEvent, TypeOK
    <2>3. UNCHANGED timerMap
      BY <1>2 DEF AddEvent, StopEvent
    <2> QED  BY <1>1, <2>1, <2>2, <2>3 DEF Ending
  <1>3. CASE \/ UNCHANGED vars \/ (\E c \in Clients : ReturnId(c)) \/ Stop \/ StopDispatcher \/ RunTask
    <2>1. UNCHANGED <<timerMap, ioQueue, eventId>>
      BY <1>3 DEF vars, ReturnId, Stop, StopDispatcher, RunTask, clientVars
    <2> QED  BY <1>1, <2>1 DEF Ending
  <1>4. CASE HandleInsert
    <2> DEFINE e == Head(ioQueue).event
               i == eventId[e]
    <2>1. /\ ioQueue # <<>> /\ Head(ioQueue) = Handler("insert", e) /\ e \in Events /\ i \in Ids
      BY <1>4, <1>a, IoHead DEF HandleInsert
    <2>2. /\ timerMap' = [timerMap EXCEPT ![i] = e] /\ ioQueue' = Tail(ioQueue) \o Aborted(i)
          /\ UNCHANGED eventId
      BY <1>4 DEF HandleInsert, clientVars
    <2> HIDE DEF e, i
    <2>3. \A K : /\ Has(Tail(ioQueue), K) => Has(ioQueue', K)
                 /\ Has(ioQueue, K) <=> Handler("insert", e) \in K \/ Has(Tail(ioQueue), K)
      BY <1>a, <2>1, <2>2, QueueTake
    <2>4. \A j \in Ids : timerMap'[j] = Fired => timerMap[j] = Fired
      BY <1>a, <2>1, <2>2, Distinct DEF TypeOK
    <2> QED  BY <1>a, <1>h, <2>2, <2>3, <2>4 DEF FiredInv, Ending
  <1>5. CASE HandleCancel
    <2> DEFINE i == Head(ioQueue).event
    <2>1. /\ ioQueue # <<>> /\ Head(ioQueue) = Handler("cancel", i) /\ i \in Ids
      BY <1>5, <1>a, IoHead DEF HandleCancel
    <2>2. /\ timerMap' = IF Waiting(i) THEN [timerMap EXCEPT ![i] = Fired] ELSE timerMap
          /\ ioQueue' = Tail(ioQueue) \o Aborted(i)
          /\ UNCHANGED eventId
      BY <1>5 DEF HandleCancel, clientVars
    <2> HIDE DEF i
    <2>3. \A K : /\ Has(Tail(ioQueue), K) => Has(ioQueue', K)
                 /\ Waiting(i) /\ Handler("aborted", timerMap[i]) \in K => Has(ioQueue', K)
                 /\ Has(ioQueue, K) <=> Handler("cancel", i) \in K \/ Has(Tail(ioQueue), K)
      BY <1>a, <2>1, <2>2, QueueTake
    <2>4. \A j \in Ids : timerMap'[j] = Fired => timerMap[j] = Fired \/ (j = i /\ Waiting(i))
      BY <1>a, <2>1, <2>2 DEF TypeOK
    <2>5. \A j \in Ids : Ending(j) => Ending(j)'
      BY <1>h, <2>2, <2>3 DEF Ending
    <2>6. ASSUME NEW j \in Ids, j = i, Waiting(j) PROVE Ending(j)'
      <3>1. timerMap[j] \in Events /\ eventId'[timerMap[j]] = j
        BY <1>m, <2>1, <2>2, <2>6
      <3>2. Has(ioQueue', WaitHandlers(timerMap[j]))
        BY <1>h, <2>3, <2>6
      <3> QED  BY <2>2, <3>1, <3>2 DEF Ending
    <2> QED  BY <1>a, <2>1, <2>4, <2>5, <2>6 DEF FiredInv
  <1>6. ASSUME NEW i \in Ids, Expire(i) PROVE FiredInv'
    <2> DEFINE e == timerMap[i]
    <2>1. e \in Events /\ eventId[e] = i
      BY <1>6, <1>m DEF Expire
    <2>2. /\ ioQueue' = Append(ioQueue, Handler("expired", e))
          /\ timerMap' = [timerMap EXCEPT ![i] = Fired] /\ UNCHANGED eventId
      BY <1>6 DEF Expire, clientVars
    <2>3. Handler("expired", e) \in Handlers
      BY <2>1 DEF Handler, Handlers
    <2> HIDE DEF e
    <2>4. \A K : Has(ioQueue', K) <=> Has(ioQueue, K) \/ Handler("expired", e) \in K
      BY <1>a, <2>2, <2>3, IoPost
    <2>5. \A j \in Ids : timerMap'[j] = Fired => timerMap[j] = Fired \/ j = i
      BY <1>a, <2>2 DEF TypeOK
    <2> QED  BY <1>a, <1>h, <2>1, <2>2, <2>4, <2>5 DEF FiredInv, Ending
  <1>7. CASE HandleWait
    <2> DEFINE e == Head(ioQueue).event
               i == eventId[e]
    <2>1. /\ ioQueue # <<>> /\ e \in Events /\ i \in Ids
          /\ \E kind : Head(ioQueue) = Handler(kind, e)
      BY <1>7, <1>a, IoHead DEF HandleWait
    <2>2. /\ timerMap' = [timerMap EXCEPT ![i] = Absent] /\ ioQueue' = Tail(ioQueue) \o Aborted(i)
          /\ UNCHANGED eventId
      BY <1>7 DEF HandleWait, Erase, clientVars
    <2> HIDE DEF e, i
    <2>3. \A K : /\ Has(Tail(ioQueue), K) => Has(ioQueue', K)
                 /\ Has(ioQueue, K) <=> Head(ioQueue) \in K \/ Has(Tail(ioQueue), K)
      BY <1>a, <2>1, <2>2, QueueTake
    <2>4. \A j \in Ids : timerMap'[j] = Fired => timerMap[j] = Fired /\ j # i
      BY <1>a, <2>1, <2>2, Distinct DEF TypeOK
    <2>5. \A j \in Ids : Ending(j) /\ j # i => Ending(j)'
      BY <1>h, <2>1, <2>2, <2>3 DEF Ending, i
    <2> QED  BY <1>a, <2>4, <2>5 DEF FiredInv
  <1>8. CASE HandleShutdown
    <2> DEFINE A == {Handler("aborted", timerMap[i]) : i \in {j \in Ids : Waiting(j)}}
    <2>1. PICK w \in SetToSeqs(A) : ioQueue' = Tail(ioQueue) \o w
      BY <1>8 DEF HandleShutdown
    <2>2. /\ timerMap' = [i \in Ids |-> IF Waiting(i) THEN Fired ELSE timerMap[i]]
          /\ UNCHANGED eventId
      BY <1>8 DEF HandleShutdown, clientVars
    <2>3. /\ w \in Seq(Handlers)
          /\ \A K : Has(w, K) <=> \E i \in Ids : Waiting(i) /\ Handler("aborted", timerMap[i]) \in K
      BY <1>a, WaitsTypes
    <2> HIDE DEF A
    <2>4. ioQueue # <<>> /\ \E x : Head(ioQueue) = Handler("shutdown", x)
      BY <1>8, <1>a, IoHead DEF HandleShutdown
    <2>5. \A K : /\ Has(ioQueue, K) <=> Head(ioQueue) \in K \/ Has(Tail(ioQueue), K)
                 /\ Has(ioQueue', K) <=> Has(Tail(ioQueue), K) \/ Has(w, K)
      BY <1>a, <2>1, <2>3, <2>4, IoTake
    <2>6. \A j \in Ids : timerMap'[j] = Fired => timerMap[j] = Fired \/ Waiting(j)
      BY <2>2
    <2>7. \A j \in Ids : Ending(j) => Ending(j)'
      BY <1>h, <2>2, <2>4, <2>5 DEF Ending
    <2>8. \A j \in Ids : Waiting(j) => Ending(j)'
      BY <1>h, <1>m, <2>2, <2>3, <2>5 DEF Ending
    <2> QED  BY <1>a, <2>6, <2>7, <2>8 DEF FiredInv
  <1>9. CASE Shutdown
    <2>1. UNCHANGED <<timerMap, eventId>> /\ ioQueue' = Append(ioQueue, Handler("shutdown", None))
      BY <1>9 DEF Shutdown, clientVars
    <2>2. Handler("shutdown", None) \in Handlers
      BY DEF Handler, Handlers
    <2>3. \A K : Has(ioQueue, K) => Has(ioQueue', K)
      BY <1>a, <2>1, <2>2, IoPost
    <2> QED  BY <1>1, <2>1, <2>3 DEF Ending
  <1> QED  BY <1>2, <1>3, <1>4, <1>5, <1>6, <1>7, <1>8, <1>9 DEF Next, IoThread, Clients

\* A raw SchedulerTask pointer has one owner at any time and is freed once,
\* and every entry of the map that has no wait any more is about to be erased.
THEOREM SchedulerOwned == Spec => []Owned
  <1>1. Init => OwnedInv
    BY TypeInit, Distinct DEF OwnedInv, FiredInv, Init
  <1>2. OwnedInv /\ [Next]_vars => OwnedInv'
    BY TypeStep, FiredStep DEF OwnedInv
  <1> QED  BY <1>1, <1>2, OwnedHolds, PTL DEF Spec

-----------------------------------------------------------------------------
(* What a task may be lost to.                                              *)

\* A stopEvent of its own, another task of its id, or a stopEvent of its id.
Justified(e) ==
    \/ e \in stopped
    \/ \E f \in Events \ {e} : eventId[f] = eventId[e]
    \/ \E f \in stopped : handle[f] = eventId[e]

\* Where each client is between addEvent and stopEvent.
ClientInv ==
    /\ \A c \in Clients : adding[c] # None =>
          /\ eventId[adding[c]] # None /\ handle[adding[c]] = None
          /\ \A d \in Clients : adding[d] = adding[c] => d = c
    /\ \A e \in Events : handle[e] # None => eventId[e] # None
    /\ \A e \in stopped : handle[e] # None
    /\ adding[Game] \notin ran

QueueInv ==
    /\ \A i \in Ids : Has(ioQueue, {Handler("cancel", i)}) => \E f \in stopped : handle[f] = i
    /\ Has(ioQueue, {Handler("shutdown", None)}) => threadState = "TERMINATED"
    /\ threadState = "RUNNING" => gameOpen
    /\ threadState # "TERMINATED" =>
          /\ \A e \in Events : Has(ioQueue, {Handler("aborted", e)}) => Justified(e)
          /\ gameOpen => \A e \in deleted : Justified(e)

LossInv == TypeInv /\ ClientInv /\ QueueInv

LEMMA LossHolds == LossInv => LostOnlyByStopOrReuse /\ GameReadsLiveTask
  <1> SUFFICES ASSUME LossInv PROVE LostOnlyByStopOrReuse /\ GameReadsLiveTask
    OBVIOUS
  <1>1. LostOnlyByStopOrReuse
    BY DEF LossInv, QueueInv, Justified, LostOnlyByStopOrReuse
  <1>2. GameReadsLiveTask
    <2> SUFFICES ASSUME gameOpen, threadState # "TERMINATED", adding[Game] \in Freed
                 PROVE  \/ \E f \in Events \ {adding[Game]} : eventId[f] = eventId[adding[Game]]
                        \/ \E f \in stopped : handle[f] = eventId[adding[Game]]
      BY DEF GameReadsLiveTask
    <2> DEFINE e == adding[Game]
    <2>1. e \in deleted
      BY DEF LossInv, ClientInv, Freed
    <2>2. e # None
      BY <2>1, Distinct DEF LossInv, TypeInv, TypeOK
    <2>3. Justified(e) /\ e \notin stopped
      BY <2>1, <2>2 DEF LossInv, ClientInv, QueueInv, Clients
    <2> QED  BY <2>3 DEF Justified
  <1> QED  BY <1>1, <1>2

LEMMA LossInit == Init => LossInv
  <1> SUFFICES ASSUME Init PROVE LossInv
    OBVIOUS
  <1>1. TypeInv
    BY TypeInit
  <1>2. ClientInv
    BY Distinct DEF Init, ClientInv, Clients
  <1>3. \A K : ~Has(ioQueue, K)
    BY DEF Init, Has
  <1>4. QueueInv
    BY <1>3 DEF Init, QueueInv
  <1> QED  BY <1>1, <1>2, <1>4 DEF LossInv

\* A new task is new to everybody.
LEMMA AddFresh ==
  ASSUME LossInv, NEW c \in Clients, NEW e \in Events, AddEvent(c, e)
  PROVE  /\ eventId[e] = None /\ handle[e] = None /\ e \notin ran /\ e \notin deleted
         /\ e \notin stopped /\ \A d \in Clients : adding[d] # e
         /\ eventId' = [eventId EXCEPT ![e] = NextId] /\ NextId \in Ids
         /\ adding[c] = None /\ adding' = [adding EXCEPT ![c] = e]
         /\ UNCHANGED <<threadState, handle, stopped, gameOpen, ran, deleted>>
  <1>1. eventId[e] = None
    <2>1. e \notin 1 .. e - 1
      BY DEF Events
    <2> QED  BY <2>1 DEF AddEvent
  <1>2. e \notin ran /\ e \notin deleted
    BY <1>1 DEF LossInv, TypeInv, PlaceInv, OnePlace
  <1>3. handle[e] = None /\ e \notin stopped /\ \A d \in Clients : adding[d] # e
    BY <1>1, Distinct DEF LossInv, ClientInv, TypeInv, TypeOK
  <1>4. NextId \in Ids
    BY NextIdTypes DEF LossInv, TypeInv
  <1> QED  BY <1>1, <1>2, <1>3, <1>4 DEF AddEvent, taskVars

LEMMA ClientInvStep ==
  ASSUME LossInv, [Next]_vars
  PROVE  ClientInv'
  <1>a. TypeOK /\ ClientInv
    BY DEF LossInv, TypeInv
  <1>1. ASSUME NEW c \in Clients, NEW e \in Events, AddEvent(c, e) PROVE ClientInv'
    <2>1. /\ eventId[e] = None /\ handle[e] = None /\ e \notin ran /\ e \notin deleted
          /\ e \notin stopped /\ \A d \in Clients : adding[d] # e
          /\ eventId' = [eventId EXCEPT ![e] = NextId] /\ NextId \in Ids
          /\ adding[c] = None /\ adding' = [adding EXCEPT ![c] = e]
          /\ UNCHANGED <<threadState, handle, stopped, gameOpen, ran, deleted>>
      BY <1>1, AddFresh
    <2>2. /\ \A d \in Clients : adding'[d] = IF d = c THEN e ELSE adding[d]
          /\ \A f \in Events : eventId'[f] = IF f = e THEN NextId ELSE eventId[f]
      BY <1>a, <2>1 DEF TypeOK
    <2>3. NextId # None /\ e # None
      BY <2>1, Distinct
    <2>4. \A d \in Clients : adding[d] # None => adding[d] \in Events
      BY <1>a DEF TypeOK
    <2>5. \A d \in Clients : adding'[d] # None =>
             /\ eventId'[adding'[d]] # None /\ handle'[adding'[d]] = None
             /\ \A b \in Clients : adding'[b] = adding'[d] => b = d
      BY <1>a, <1>1, <2>1, <2>2, <2>3, <2>4 DEF ClientInv
    <2>6. /\ \A f \in Events : handle'[f] # None => eventId'[f] # None
          /\ \A f \in stopped' : handle'[f] # None
      BY <1>a, <2>1, <2>2, <2>3 DEF ClientInv
    <2>7. adding'[Game] \notin ran'
      BY <1>a, <2>1, <2>2 DEF ClientInv, Clients
    <2> QED  BY <2>5, <2>6, <2>7 DEF ClientInv
  <1>2. ASSUME NEW c \in Clients, ReturnId(c) PROVE ClientInv'
    <2>1. PICK i \in Ids : handle' = [handle EXCEPT ![adding[c]] = i]
      BY <1>2 DEF ReturnId
    <2>2. /\ adding[c] # None /\ adding' = [adding EXCEPT ![c] = None]
          /\ UNCHANGED <<eventId, stopped, ran>>
      BY <1>2 DEF ReturnId, taskVars
    <2>3. /\ \A d \in Clients : adding'[d] = IF d = c THEN None ELSE adding[d]
          /\ \A f \in Events : handle'[f] = IF f = adding[c] THEN i ELSE handle[f]
          /\ \A d \in Clients : adding[d] # None => adding[d] \in Events
          /\ stopped \subseteq Events /\ ran \subseteq Events
      BY <1>a, <2>1, <2>2 DEF TypeOK
    <2>4. i # None /\ None \notin Events
      BY Distinct
    <2>5. \A d \in Clients : adding'[d] # None =>
             /\ eventId'[adding'[d]] # None /\ handle'[adding'[d]] = None
             /\ \A b \in Clients : adding'[b] = adding'[d] => b = d
      BY <1>a, <1>2, <2>2, <2>3, <2>4 DEF ClientInv
    <2>6. /\ \A f \in Events : handle'[f] # None => eventId'[f] # None
          /\ \A f \in stopped' : handle'[f] # None
      BY <1>a, <1>2, <2>2, <2>3, <2>4 DEF ClientInv
    <2>7. adding'[Game] \notin ran'
      BY <1>a, <2>2, <2>3, <2>4 DEF ClientInv, Clients
    <2> QED  BY <2>5, <2>6, <2>7 DEF ClientInv
  <1>3. ASSUME NEW e \in Events, StopEvent(e) PROVE ClientInv'
    BY <1>a, <1>3 DEF StopEvent, taskVars, ClientInv
  <1>4. CASE RunTask
    <2>1. adding[Game] = None /\ ran' = ran \cup {Head(gameQueue)} /\ gameQueue # <<>>
          /\ UNCHANGED <<eventId, handle, adding, stopped>>
      BY <1>4 DEF RunTask, clientVars
    <2>2. ran' \subseteq Events
      BY <1>a, <2>1 DEF TypeOK
    <2>3. adding'[Game] \notin ran'
      BY <2>1, <2>2, Distinct
    <2> QED  BY <1>a, <2>1, <2>3 DEF ClientInv
  <1>5. CASE UNCHANGED <<eventId, handle, adding, stopped, ran>>
    BY <1>a, <1>5 DEF ClientInv
  <1> QED
    BY <1>1, <1>2, <1>3, <1>4, <1>5
    DEF Next, IoThread, vars, Stop, StopDispatcher, Shutdown, HandleInsert, HandleCancel, HandleWait,
        HandleShutdown, Expire, clientVars, taskVars

\* What justified the loss of a task goes on doing so.
LEMMA JustifiedStays ==
  ASSUME LossInv, [Next]_vars, NEW e \in Events, eventId[e] # None, Justified(e)
  PROVE  Justified(e)'
  <1>a. TypeOK /\ ClientInv
    BY DEF LossInv, TypeInv
  <1>1. ASSUME NEW c \in Clients, NEW f \in Events, AddEvent(c, f) PROVE Justified(e)'
    <2>1. /\ eventId[f] = None
          /\ eventId' = [eventId EXCEPT ![f] = NextId]
          /\ UNCHANGED <<handle, stopped>>
      BY <1>1, AddFresh
    <2>2. \A g \in Events : g # f => eventId'[g] = eventId[g]
      BY <1>a, <2>1 DEF TypeOK
    <2>3. e # f
      BY <2>1
    <2> QED  BY <2>1, <2>2, <2>3 DEF Justified
  <1>2. ASSUME NEW c \in Clients, ReturnId(c) PROVE Justified(e)'
    <2>1. /\ adding[c] # None /\ UNCHANGED <<eventId, stopped>>
          /\ \E i \in Ids : handle' = [handle EXCEPT ![adding[c]] = i]
      BY <1>2 DEF ReturnId
    <2>2. \A f \in stopped : f # adding[c] /\ f \in Events
      BY <1>a, <2>1 DEF ClientInv, TypeOK
    <2>3. \A f \in stopped : handle'[f] = handle[f]
      BY <1>a, <2>1, <2>2 DEF TypeOK
    <2> QED  BY <2>1, <2>3 DEF Justified
  <1>3. CASE UNCHANGED <<eventId, handle>> /\ stopped \subseteq stopped'
    BY <1>3 DEF Justified
  <1> QED
    BY <1>1, <1>2, <1>3
    DEF Next, IoThread, vars, StopEvent, Stop, StopDispatcher, Shutdown, RunTask, HandleInsert,
        HandleCancel, HandleWait, HandleShutdown, Expire, clientVars, taskVars

LEMMA QueueInvStep ==
  ASSUME LossInv, [Next]_vars
  PROVE  QueueInv'
  <1>a. TypeOK /\ PlaceInv /\ TypeInv /\ ClientInv /\ QueueInv
    BY DEF LossInv, TypeInv
  <1>h. /\ \A k, l, x, y : Handler(k, x) \in {Handler(l, y)} <=> k = l /\ x = y
        /\ \A kind, e : Handler(kind, e).kind = kind
    BY DEF Handler
  <1>m. \A i \in Ids : Waiting(i) => timerMap[i] \in Events /\ eventId[timerMap[i]] = i
    BY <1>a DEF PlaceInv, OnePlace, TypeOK, Waiting
  <1>n. /\ \A i \in Ids : i # None
        /\ \A e \in Events : e \in deleted \/ Has(ioQueue, {Handler("aborted", e)})
                                => eventId[e] # None
    <2>1. \A e \in Events : Has(ioQueue, {Handler("aborted", e)}) => InIo(e)
      BY HandlerOf DEF Has, InIo
    <2> QED  BY <1>a, <2>1, Distinct DEF PlaceInv, OnePlace
  <1>j. \A e \in Events : eventId[e] # None /\ Justified(e) => Justified(e)'
    BY JustifiedStays
  <1>d. deleted \subseteq Events
    BY <1>a DEF TypeOK
  <1> HIDE DEF Handler
  \* Steps of the clients: nothing is aborted and nothing deleted.
  <1>1. ASSUME \A e \in Events : Has(ioQueue', {Handler("aborted", e)})
                                    => Has(ioQueue, {Handler("aborted", e)}),
               \A i \in Ids : Has(ioQueue', {Handler("cancel", i)})
                                    => \E f \in stopped' : handle'[f] = i,
               Has(ioQueue', {Handler("shutdown", None)}) => threadState' = "TERMINATED",
               threadState' = "RUNNING" => gameOpen',
               threadState' # "TERMINATED" => threadState # "TERMINATED",
               gameOpen' => gameOpen,
               UNCHANGED deleted
        PROVE  QueueInv'
    BY <1>a, <1>d, <1>j, <1>n, <1>1 DEF QueueInv
  <1>2. \A i \in Ids : (\E f \in stopped : handle[f] = i) => \E f \in stopped' : handle'[f] = i
    <2>1. ASSUME NEW c \in Clients, ReturnId(c), NEW f \in stopped
          PROVE  handle'[f] = handle[f] /\ stopped' = stopped
      <3>1. f # adding[c] /\ f \in Events
        BY <1>a, <2>1 DEF ClientInv, TypeOK, ReturnId
      <3> QED  BY <1>a, <2>1, <3>1 DEF TypeOK, ReturnId
    <2>2. (\E c \in Clients : ReturnId(c)) \/ (UNCHANGED handle /\ stopped \subseteq stopped')
      BY DEF Next, IoThread, vars, AddEvent, StopEvent, Stop, StopDispatcher, Shutdown, RunTask,
             HandleInsert, HandleCancel, HandleWait, HandleShutdown, Expire, clientVars, taskVars
    <2> QED  BY <2>1, <2>2
  <1>3. ASSUME NEW c \in Clients, NEW e \in Events, AddEvent(c, e) PROVE QueueInv'
    <2>1. \A K : Has(ioQueue', K) => Has(ioQueue, K) \/ Handler("insert", e) \in K
      <3>1. Handler("insert", e) \in Handlers
        BY DEF Handler, Handlers
      <3> QED  BY <1>3, <1>a, <3>1, IoPost DEF AddEvent
    <2>2. UNCHANGED <<threadState, gameOpen, deleted>>
      BY <1>3 DEF AddEvent, taskVars
    <2>3. /\ \A i \in Ids : Has(ioQueue', {Handler("cancel", i)}) => Has(ioQueue, {Handler("cancel", i)})
          /\ Has(ioQueue', {Handler("shutdown", None)}) => Has(ioQueue, {Handler("shutdown", None)})
          /\ \A f \in Events : Has(ioQueue', {Handler("aborted", f)})
                                    => Has(ioQueue, {Handler("aborted", f)})
      BY <1>h, <2>1
    <2> QED  BY <1>a, <1>1, <1>2, <2>2, <2>3 DEF QueueInv
  <1>4. ASSUME NEW e \in Events, StopEvent(e) PROVE QueueInv'
    <2>1. \A K : Has(ioQueue', K) => Has(ioQueue, K) \/ Handler("cancel", handle[e]) \in K
      <3>1. Handler("cancel", handle[e]) \in Handlers
        BY <1>4, <1>a DEF StopEvent, TypeOK, Handler, Handlers
      <3>2. UNCHANGED ioQueue \/ ioQueue' = Append(ioQueue, Handler("cancel", handle[e]))
        BY <1>4 DEF StopEvent
      <3>3. CASE UNCHANGED ioQueue
        BY <3>3 DEF Has
      <3>4. CASE ioQueue' = Append(ioQueue, Handler("cancel", handle[e]))
        BY <1>a, <3>1, <3>4, IoPost
      <3> QED  BY <3>2, <3>3, <3>4
    <2>2. UNCHANGED <<threadState, gameOpen, deleted, handle>> /\ e \in stopped'
      BY <1>4 DEF StopEvent, taskVars
    <2>3. /\ \A i \in Ids : Has(ioQueue', {Handler("cancel", i)})
                               => Has(ioQueue, {Handler("cancel", i)}) \/ handle[e] = i
          /\ Has(ioQueue', {Handler("shutdown", None)}) => Has(ioQueue, {Handler("shutdown", None)})
          /\ \A f \in Events : Has(ioQueue', {Handler("aborted", f)})
                                    => Has(ioQueue, {Handler("aborted", f)})
      BY <1>h, <2>1
    <2> QED  BY <1>a, <1>1, <1>2, <2>2, <2>3 DEF QueueInv
  <1>5. CASE Shutdown
    <2>1. \A K : Has(ioQueue', K) => Has(ioQueue, K) \/ Handler("shutdown", None) \in K
      <3>1. Handler("shutdown", None) \in Handlers
        BY DEF Handler, Handlers
      <3> QED  BY <1>5, <1>a, <3>1, IoPost DEF Shutdown
    <2>2. threadState' = "TERMINATED" /\ UNCHANGED <<gameOpen, deleted>>
      BY <1>5 DEF Shutdown, taskVars
    <2>3. /\ \A i \in Ids : Has(ioQueue', {Handler("cancel", i)}) => Has(ioQueue, {Handler("cancel", i)})
          /\ \A f \in Events : Has(ioQueue', {Handler("aborted", f)})
                                    => Has(ioQueue, {Handler("aborted", f)})
      BY <1>h, <2>1
    <2> QED  BY <1>a, <1>1, <1>2, <2>2, <2>3 DEF QueueInv
  <1>6. CASE Stop \/ StopDispatcher \/ RunTask \/ (\E c \in Clients : ReturnId(c)) \/ UNCHANGED vars
    <2>1. /\ UNCHANGED <<ioQueue, deleted>>
          /\ threadState' # "TERMINATED" => threadState # "TERMINATED"
          /\ threadState = "TERMINATED" => threadState' = "TERMINATED"
          /\ gameOpen' => gameOpen
          /\ threadState' = "RUNNING" => threadState = "RUNNING" /\ gameOpen' = gameOpen
      BY <1>6 DEF Stop, StopDispatcher, RunTask, ReturnId, vars, clientVars, taskVars
    <2> QED  BY <1>a, <1>1, <1>2, <2>1 DEF QueueInv
  \* Steps of the io thread.
  <1>7. ASSUME NEW x, ioQueue # <<>>, NEW i \in Ids, ioQueue' = Tail(ioQueue) \o Aborted(i),
               Waiting(i) /\ threadState # "TERMINATED" => Justified(timerMap[i]),
               UNCHANGED <<threadState, gameOpen>>,
               gameOpen /\ threadState # "TERMINATED"
                  => \A e \in deleted' : e \in deleted \/ (e = x /\ x \in Events
                                            /\ Has(ioQueue, {Handler("aborted", x)}))
        PROVE  QueueInv'
    <2>1. \A K : Has(ioQueue', K) => \/ Has(ioQueue, K)
                                     \/ Waiting(i) /\ Handler("aborted", timerMap[i]) \in K
      BY <1>7, <1>a, QueueTake
    <2>2. /\ \A j \in Ids : Has(ioQueue', {Handler("cancel", j)}) => Has(ioQueue, {Handler("cancel", j)})
          /\ Has(ioQueue', {Handler("shutdown", None)}) => Has(ioQueue, {Handler("shutdown", None)})
          /\ \A e \in Events : Has(ioQueue', {Handler("aborted", e)})
                                  => Has(ioQueue, {Handler("aborted", e)}) \/ (Waiting(i) /\ timerMap[i] = e)
      BY <1>h, <2>1
    <2>3. ASSUME threadState # "TERMINATED", NEW e \in Events, Has(ioQueue', {Handler("aborted", e)})
          PROVE  Justified(e)'
      <3>1. Justified(e)
        BY <1>7, <1>a, <2>2, <2>3 DEF QueueInv
      <3>2. eventId[e] # None
        BY <1>m, <1>n, <1>7, <2>2, <2>3
      <3> QED  BY <1>j, <3>1, <3>2
    <2>4. ASSUME threadState # "TERMINATED", gameOpen, NEW e \in deleted'
          PROVE  Justified(e)'
      <3>1. e \in Events /\ Justified(e) /\ eventId[e] # None
        BY <1>7, <1>a, <1>d, <1>n, <2>4 DEF QueueInv
      <3> QED  BY <1>j, <3>1
    <2> QED  BY <1>7, <1>a, <1>2, <2>2, <2>3, <2>4 DEF QueueInv
  <1>8. ASSUME NEW i \in Ids, NEW e \in Events, InIo(e), eventId[e] = i, Waiting(i)
        PROVE  Justified(timerMap[i])
    <2>1. timerMap[i] \in Events /\ eventId[timerMap[i]] = eventId[e]
      BY <1>8, <1>m
    <2>2. timerMap[i] # e
      BY <1>8, <1>a DEF PlaceInv, OnePlace, InMap
    <2> QED  BY <1>8, <2>1, <2>2 DEF Justified
  <1>9. CASE HandleInsert
    <2>1. PICK e : /\ e = Head(ioQueue).event /\ e \in Events /\ InIo(e)
                   /\ eventId[e] \in Ids /\ ioQueue # <<>>
      BY <1>9, <1>a, IoHead DEF HandleInsert
    <2>2. ioQueue' = Tail(ioQueue) \o Aborted(eventId[e])
          /\ UNCHANGED <<threadState, gameOpen, deleted>>
      BY <1>9, <2>1 DEF HandleInsert, taskVars
    <2> QED  BY <1>7, <1>8, <2>1, <2>2
  <1>10. CASE HandleCancel
    <2>1. PICK i : /\ i = Head(ioQueue).event /\ i \in Ids /\ ioQueue # <<>>
                   /\ Head(ioQueue) = Handler("cancel", i)
      BY <1>10, <1>a, IoHead DEF HandleCancel
    <2>2. ioQueue' = Tail(ioQueue) \o Aborted(i)
          /\ UNCHANGED <<threadState, gameOpen, deleted>>
      BY <1>10, <2>1 DEF HandleCancel, taskVars
    <2>3. Has(ioQueue, {Handler("cancel", i)})
      BY <1>a, <2>1, <2>2, QueueTake
    <2>4. \E f \in stopped : handle[f] = i
      BY <1>a, <2>1, <2>3 DEF QueueInv
    <2>5. Waiting(i) => Justified(timerMap[i])
      BY <1>m, <2>1, <2>4 DEF Justified
    <2> QED  BY <1>7, <2>1, <2>2, <2>5
  <1>11. ASSUME NEW i \in Ids, Expire(i) PROVE QueueInv'
    <2>1. timerMap[i] \in Events
      BY <1>11, <1>m DEF Expire
    <2>2. ioQueue' = Append(ioQueue, Handler("expired", timerMap[i]))
          /\ UNCHANGED <<threadState, gameOpen, deleted>>
      BY <1>11 DEF Expire, taskVars
    <2>3. \A K : Has(ioQueue', K) => Has(ioQueue, K) \/ Handler("expired", timerMap[i]) \in K
      <3>1. Handler("expired", timerMap[i]) \in Handlers
        BY <2>1 DEF Handler, Handlers
      <3> QED  BY <1>a, <2>2, <3>1, IoPost
    <2>4. /\ \A j \in Ids : Has(ioQueue', {Handler("cancel", j)}) => Has(ioQueue, {Handler("cancel", j)})
          /\ Has(ioQueue', {Handler("shutdown", None)}) => Has(ioQueue, {Handler("shutdown", None)})
          /\ \A f \in Events : Has(ioQueue', {Handler("aborted", f)})
                                    => Has(ioQueue, {Handler("aborted", f)})
      BY <1>h, <2>3
    <2> QED  BY <1>a, <1>1, <1>2, <2>2, <2>4 DEF QueueInv
  <1>12. CASE HandleWait
    <2>1. PICK kind \in {"expired", "aborted"} : IoReady(kind)
      BY <1>12 DEF HandleWait
    <2>2. PICK e : /\ e = Head(ioQueue).event /\ e \in Events /\ InIo(e)
                   /\ eventId[e] \in Ids /\ ioQueue # <<>> /\ Head(ioQueue) = Handler(kind, e)
                   /\ Head(ioQueue).kind = kind
      BY <2>1, <1>a, IoHead
    <2>3. ioQueue' = Tail(ioQueue) \o Aborted(eventId[e]) /\ UNCHANGED <<threadState, gameOpen>>
      BY <1>12, <2>2 DEF HandleWait
    <2>4. gameOpen /\ threadState # "TERMINATED" =>
             \A f \in deleted' : f \in deleted \/ (f = e /\ kind = "aborted")
      BY <1>12, <2>2 DEF HandleWait, Dispose, Cancelled
    <2>5. kind = "aborted" => Has(ioQueue, {Handler("aborted", e)})
      BY <1>a, <2>2, <2>3, QueueTake
    <2> QED  BY <1>7, <1>8, <2>2, <2>3, <2>4, <2>5
  <1>13. CASE HandleShutdown
    <2> DEFINE A == {Handler("aborted", timerMap[i]) : i \in {j \in Ids : Waiting(j)}}
    <2>1. PICK w \in SetToSeqs(A) : ioQueue' = Tail(ioQueue) \o w
      BY <1>13 DEF HandleShutdown
    <2>2. /\ w \in Seq(Handlers)
          /\ \A K : Has(w, K) <=> \E i \in Ids : Waiting(i) /\ Handler("aborted", timerMap[i]) \in K
      BY <1>a, WaitsTypes
    <2> HIDE DEF A
    <2>3. PICK x : Head(ioQueue) = Handler("shutdown", x) /\ ioQueue # <<>>
      BY <1>13, <1>a, IoHead DEF HandleShutdown
    <2>4. x = None
      BY <1>13, <1>a, <1>h, <2>3, IoHead DEF IoReady, Handlers, HandleShutdown, Handler
    <2>5. \A K : /\ Has(ioQueue, K) <=> Head(ioQueue) \in K \/ Has(Tail(ioQueue), K)
                 /\ Has(ioQueue', K) <=> Has(Tail(ioQueue), K) \/ Has(w, K)
      BY <1>a, <2>1, <2>2, <2>3, IoTake
    <2>6. threadState = "TERMINATED"
      BY <1>a, <2>3, <2>4, <2>5 DEF QueueInv
    <2>7. UNCHANGED <<threadState, gameOpen>>
      BY <1>13 DEF HandleShutdown
    <2>8. \A j \in Ids : Has(ioQueue', {Handler("cancel", j)}) => Has(ioQueue, {Handler("cancel", j)})
      BY <1>h, <2>2, <2>5
    <2> QED  BY <1>a, <1>2, <2>6, <2>7, <2>8 DEF QueueInv
  <1> QED
    BY <1>3, <1>4, <1>5, <1>6, <1>9, <1>10, <1>11, <1>12, <1>13 DEF Next, IoThread

LEMMA LossStep == LossInv /\ [Next]_vars => LossInv'
  <1> SUFFICES ASSUME LossInv, [Next]_vars PROVE LossInv'
    OBVIOUS
  <1>1. TypeInv'
    BY TypeStep DEF LossInv
  <1> QED  BY <1>1, ClientInvStep, QueueInvStep DEF LossInv

\* While the server runs a task is lost only to its own stopEvent, to another
\* task of the same id, or to a stopEvent with that id.
THEOREM SchedulerLosesNothing == Spec => []LostOnlyByStopOrReuse
  BY LossInit, LossStep, LossHolds, PTL DEF Spec

\* The id that addEvent returns to the game thread is read from a live task,
\* unless the counter wrapped or somebody stopped an id that was not his.
THEOREM SchedulerReadsLive == Spec => []GameReadsLiveTask
  BY LossInit, LossStep, LossHolds, PTL DEF Spec

=============================================================================
