------------------------------ MODULE Scheduler ------------------------------
(***************************************************************************)
(* src/scheduler.cpp: delayed tasks.  Any thread adds and stops events; a  *)
(* single thread runs the handlers of an io_context, one after the other,  *)
(* and hands the expired tasks to the dispatcher.  Times are abstracted: a *)
(* timer that is waited on may expire at any moment.                       *)
(*                                                                         *)
(* Event ids come from a counter of fixed width, so a long run reuses      *)
(* them; IdMax is the last id (2^32 - 1 in the code).                      *)
(***************************************************************************)
EXTENDS Naturals, Sequences, FiniteSets, SequencesExt

CONSTANTS
    Game, Net,     \* the threads that add events
    MaxEvents,     \* bound on the SchedulerTask objects; each is added once
    IdMax,         \* the counter is taken modulo IdMax + 1
    Absent, Fired, \* map entries without a wait: none at all, or one whose
                   \* timer expired or was cancelled, its handler queued
    None

Clients == {Game, Net}
Ids == 0 .. IdMax
Events == 1 .. MaxEvents     \* numbered as they are added

ASSUME SchedulerAssumption ==
    /\ IdMax \in Nat \ {0}
    /\ MaxEvents \in Nat
    /\ {None, Absent, Fired} \cap (Events \cup Ids) = {} /\ Absent # Fired
    /\ Game # Net

VARIABLES
    mode,         \* "signal" or "offline", as for the dispatcher
    threadState,
    lastEventId,
    eventId,      \* id written in each task, None before addEvent
    handle,       \* id the client got back, None before addEvent returned
    adding,       \* task each client has posted and will read the id of
    stopped,      \* tasks whose client called stopEvent with their handle
    ioQueue,      \* handlers waiting for the io thread
    timerMap,     \* eventIdTimerMap: Absent, a waiting task, or Fired
    ioStopped,    \* io_context.stop() was called
    gameOpen,     \* g_dispatcher is RUNNING
    gameQueue,    \* tasks given to the dispatcher and not run yet
    ran, deleted  \* what became of the tasks: both free the object

clientVars == <<lastEventId, eventId, handle, adding, stopped>>
taskVars == <<gameQueue, ran, deleted>>
vars == <<mode, threadState, lastEventId, eventId, handle, adding, stopped,
          ioQueue, timerMap, ioStopped, gameOpen, gameQueue, ran, deleted>>

Waiting(i) == timerMap[i] \notin {Absent, Fired}

Handler(kind, e) == [kind |-> kind, event |-> e]

Init ==
    /\ mode \in {"signal", "offline"}
    /\ threadState = "RUNNING"
    /\ lastEventId = 0
    /\ eventId = [e \in Events |-> None]
    /\ handle = [e \in Events |-> None]
    /\ adding = [c \in Clients |-> None]
    /\ stopped = {}
    /\ ioQueue = <<>>
    /\ timerMap = [i \in Ids |-> Absent]
    /\ ioStopped = FALSE
    /\ gameOpen = TRUE
    /\ gameQueue = <<>>
    /\ ran = {}
    /\ deleted = {}

-----------------------------------------------------------------------------
(* The clients.                                                             *)

\* ++lastEventId on an unsigned integer.
NextId == (lastEventId + 1) % (IdMax + 1)

AddEvent(c, e) ==
    /\ adding[c] = None
    /\ {f \in Events : eventId[f] # None} = 1 .. e - 1
    /\ lastEventId' = NextId
    /\ eventId' = [eventId EXCEPT ![e] = NextId]
    /\ ioQueue' = Append(ioQueue, Handler("insert", e))
    /\ adding' = [adding EXCEPT ![c] = e]
    /\ UNCHANGED <<mode, threadState, handle, stopped, timerMap, ioStopped,
                   gameOpen, taskVars>>

Freed == ran \cup deleted

\* addEvent reads the id from the task after it posted the task: the task
\* may be gone, and then any value comes back.
ReturnId(c) ==
    LET e == adding[c] IN
    /\ e # None
    /\ \E i \in Ids :
          /\ e \notin Freed => i = eventId[e]
          /\ handle' = [handle EXCEPT ![e] = i]
    /\ adding' = [adding EXCEPT ![c] = None]
    /\ UNCHANGED <<mode, threadState, lastEventId, eventId, stopped, ioQueue,
                   timerMap, ioStopped, gameOpen, taskVars>>

\* stopEvent does nothing for id 0.
StopEvent(e) ==
    /\ handle[e] # None
    /\ e \notin stopped
    /\ stopped' = stopped \cup {e}
    /\ ioQueue' = IF handle[e] = 0 THEN ioQueue
                  ELSE Append(ioQueue, Handler("cancel", handle[e]))
    /\ UNCHANGED <<mode, threadState, lastEventId, eventId, handle, adding,
                   timerMap, ioStopped, gameOpen, taskVars>>

\* setGameState(SHUTDOWN) on the game thread: g_scheduler.stop(), and then
\* g_dispatcher.stop().
Stop ==
    /\ mode = "signal"
    /\ adding[Game] = None
    /\ threadState = "RUNNING"
    /\ threadState' = "CLOSING"
    /\ UNCHANGED <<mode, clientVars, ioQueue, timerMap, ioStopped, gameOpen,
                   taskVars>>

StopDispatcher ==
    /\ threadState = "CLOSING"
    /\ adding[Game] = None
    /\ gameOpen
    /\ gameOpen' = FALSE
    /\ UNCHANGED <<mode, threadState, clientVars, ioQueue, timerMap, ioStopped,
                   taskVars>>

\* Game::shutdown, which the dispatcher runs with no addEvent in progress on
\* its thread; or main(), offline, from its own thread.
Shutdown ==
    /\ threadState # "TERMINATED"
    /\ \/ mode = "signal" /\ ~gameOpen /\ adding[Game] = None
       \/ mode = "offline"
    /\ threadState' = "TERMINATED"
    /\ ioQueue' = Append(ioQueue, Handler("shutdown", None))
    /\ UNCHANGED <<mode, clientVars, timerMap, ioStopped, gameOpen, taskVars>>

\* The game thread runs the tasks one at a time, never inside addEvent.
RunTask ==
    /\ adding[Game] = None
    /\ gameQueue # <<>>
    /\ ran' = ran \cup {Head(gameQueue)}
    /\ gameQueue' = Tail(gameQueue)
    /\ UNCHANGED <<mode, threadState, clientVars, ioQueue, timerMap, ioStopped,
                   gameOpen, deleted>>

-----------------------------------------------------------------------------
(* The io thread.                                                           *)

\* A wait that is pending on a timer completes with operation_aborted when
\* the timer is cancelled, set again or destroyed.
Aborted(i) ==
    IF Waiting(i) THEN <<Handler("aborted", timerMap[i])>> ELSE <<>>

IoReady(kind) ==
    /\ ~ioStopped
    /\ ioQueue # <<>>
    /\ Head(ioQueue).kind = kind

\* emplace keeps the timer of an id that is present; expires_after cancels
\* whatever waited on it.
HandleInsert ==
    /\ IoReady("insert")
    /\ LET e == Head(ioQueue).event
           i == eventId[e]
       IN /\ timerMap' = [timerMap EXCEPT ![i] = e]
          /\ ioQueue' = Tail(ioQueue) \o Aborted(i)
    /\ UNCHANGED <<mode, threadState, clientVars, ioStopped, gameOpen, taskVars>>

HandleCancel ==
    /\ IoReady("cancel")
    /\ LET i == Head(ioQueue).event
       IN /\ timerMap' = IF Waiting(i) THEN [timerMap EXCEPT ![i] = Fired] ELSE timerMap
          /\ ioQueue' = Tail(ioQueue) \o Aborted(i)
    /\ UNCHANGED <<mode, threadState, clientVars, ioStopped, gameOpen, taskVars>>

\* Time passes: the wait of a timer completes.
Expire(i) ==
    /\ ~ioStopped
    /\ Waiting(i)
    /\ ioQueue' = Append(ioQueue, Handler("expired", timerMap[i]))
    /\ timerMap' = [timerMap EXCEPT ![i] = Fired]
    /\ UNCHANGED <<mode, threadState, clientVars, ioStopped, gameOpen, taskVars>>

InvertedAbortMutant(h) == h.kind # "aborted" \/ threadState = "TERMINATED"

\* Who is told not to run: an aborted wait, or any wait after shutdown().
Cancelled(h) == h.kind = "aborted" \/ threadState = "TERMINATED"

\* Erasing the entry destroys the timer, whoever waits on it by now.
Erase(i) == [timerMap EXCEPT ![i] = Absent]

MissingReturnMutant(h) ==
    /\ gameQueue' = IF gameOpen THEN Append(gameQueue, h.event) ELSE gameQueue
    /\ deleted' = IF Cancelled(h) \/ ~gameOpen THEN deleted \cup {h.event} ELSE deleted

RunInPlaceMutant(h) ==
    /\ deleted' = deleted \cup {h.event}
    /\ UNCHANGED gameQueue

LeakMutant(h) ==
    /\ gameQueue' = IF ~Cancelled(h) /\ gameOpen THEN Append(gameQueue, h.event) ELSE gameQueue
    /\ deleted' = IF Cancelled(h) THEN deleted \cup {h.event} ELSE deleted

\* A dispatcher that is not RUNNING deletes the task it is given.
Dispose(h) ==
    IF ~Cancelled(h) /\ gameOpen
    THEN gameQueue' = Append(gameQueue, h.event) /\ UNCHANGED deleted
    ELSE deleted' = deleted \cup {h.event} /\ UNCHANGED gameQueue

\* The completion handler of a wait.
HandleWait ==
    /\ IoReady("expired") \/ IoReady("aborted")
    /\ LET i == eventId[Head(ioQueue).event]
       IN /\ timerMap' = Erase(i)
          /\ ioQueue' = Tail(ioQueue) \o Aborted(i)
    /\ Dispose(Head(ioQueue))
    /\ UNCHANGED <<mode, threadState, clientVars, ioStopped, gameOpen, ran>>

\* The shutdown handler cancels every timer, in the order of the map, and
\* stops the context before any of the aborted waits is handled.
HandleShutdown ==
    /\ IoReady("shutdown")
    /\ \E waits \in SetToSeqs({Handler("aborted", timerMap[i]) : i \in {j \in Ids : Waiting(j)}}) :
          ioQueue' = Tail(ioQueue) \o waits
    /\ timerMap' = [i \in Ids |-> IF Waiting(i) THEN Fired ELSE timerMap[i]]
    /\ ioStopped' = TRUE
    /\ UNCHANGED <<mode, threadState, clientVars, gameOpen, taskVars>>

-----------------------------------------------------------------------------
IoThread ==
    \/ HandleInsert \/ HandleCancel \/ HandleWait \/ HandleShutdown

Next ==
    \/ \E c \in Clients : (\E e \in Events : AddEvent(c, e)) \/ ReturnId(c)
    \/ \E e \in Events : StopEvent(e)
    \/ Stop \/ StopDispatcher \/ Shutdown
    \/ RunTask
    \/ IoThread
    \/ \E i \in Ids : Expire(i)

Spec == Init /\ [][Next]_vars

\* Both threads run, addEvent returns, and every timer expires in the end.
Fairness ==
    /\ WF_vars(IoThread)
    /\ WF_vars(RunTask)
    /\ \A c \in Clients : WF_vars(ReturnId(c))
    /\ \A i \in Ids : WF_vars(Expire(i))

FairSpec == Spec /\ Fairness

-----------------------------------------------------------------------------
Queued(kind, e) == \E n \in 1 .. Len(ioQueue) : ioQueue[n] = Handler(kind, e)

Handlers ==
    [kind : {"shutdown"}, event : {None}]
    \cup [kind : {"cancel"}, event : Ids]
    \cup [kind : {"insert", "expired", "aborted"}, event : Events]

TypeOK ==
    /\ mode \in {"signal", "offline"}
    /\ threadState \in {"RUNNING", "CLOSING", "TERMINATED"}
    /\ lastEventId \in Ids
    /\ eventId \in [Events -> Ids \cup {None}]
    /\ handle \in [Events -> Ids \cup {None}]
    /\ adding \in [Clients -> Events \cup {None}]
    /\ stopped \subseteq Events
    /\ ioQueue \in Seq(Handlers)
    /\ timerMap \in [Ids -> Events \cup {Absent, Fired}]
    /\ ioStopped \in BOOLEAN /\ gameOpen \in BOOLEAN
    /\ gameQueue \in Seq(Events)
    /\ ran \subseteq Events /\ deleted \subseteq Events

\* A raw SchedulerTask pointer has one owner at any time: the handler that
\* will insert it, its timer, the handler of its wait, the dispatcher, or
\* nobody once it is freed.  No task is freed twice, run twice, run after it
\* was cancelled, or forgotten while the io thread runs.
Places(e) ==
    {p \in {"insert", "expired", "aborted", "timer", "game", "ran", "deleted"} :
        CASE p = "timer"   -> \E i \in Ids : timerMap[i] = e
          [] p = "game"    -> \E n \in 1 .. Len(gameQueue) : gameQueue[n] = e
          [] p = "ran"     -> e \in ran
          [] p = "deleted" -> e \in deleted
          [] OTHER         -> Queued(p, e)}

OneOwner ==
    \A e \in Events : eventId[e] # None => Cardinality(Places(e)) = 1

\* An entry of the map without a wait is about to be erased by a handler in
\* the queue: the map does not grow with events that are over.
NoStaleEntry ==
    \A i \in Ids : timerMap[i] = Fired =>
        \E e \in Events : eventId[e] = i /\ (Queued("expired", e) \/ Queued("aborted", e))

\* Every task has its owner, and every entry of the map its task.
Owned == OneOwner /\ NoStaleEntry

\* While the server runs, an event is lost only to its own stopEvent, or to
\* another event that was given the same id by the wrapped counter, or to a
\* stopEvent with an id read from a freed task.
LostOnlyByStopOrReuse ==
    threadState = "RUNNING" =>
        \A e \in deleted :
            \/ e \in stopped
            \/ \E f \in Events \ {e} : eventId[f] = eventId[e]
            \/ \E f \in stopped : handle[f] = eventId[e]

\* While both threads run, the game thread reads the id of a live task when
\* addEvent returns: a task is freed on the game thread itself, or after a
\* stopEvent with its id, which nobody has yet.  (A network thread has no
\* such luck, nor has the game thread once the dispatcher deletes tasks.)
GameReadsLiveTask ==
    (gameOpen /\ threadState # "TERMINATED" /\ adding[Game] \in Freed) =>
        \/ \E f \in Events \ {adding[Game]} : eventId[f] = eventId[adding[Game]]
        \/ \E f \in stopped : handle[f] = eventId[adding[Game]]

\* Every event that was added runs, or is deleted, or dies with the io_context.
EventSettles ==
    \A e \in Events : (eventId[e] # None) ~> (e \in Freed \/ ioStopped)
=============================================================================
