------------------------------ MODULE Connection ------------------------------
(***************************************************************************)
(* src/connection.cpp: one client connection.  Its handlers run one after  *)
(* the other on a strand of the network thread; the game thread sends and  *)
(* closes by posting to that strand.  The object lives as long as somebody *)
(* holds a shared_ptr to it, and its destructor closes the socket.         *)
(*                                                                         *)
(* The connection is a record, because a handler that closes or sends does *)
(* so inline: dispatch() on the own strand is a call.                      *)
(***************************************************************************)
EXTENDS Naturals, Sequences, FiniteSets, SequencesExt

CONSTANTS
    MaxMessages,  \* bound on the messages the server sends
    MaxPackets    \* bound on the packets received from the client

ASSUME ConnectionAssumption == MaxMessages \in Nat /\ MaxPackets \in Nat

Messages == 1 .. MaxMessages    \* numbered as they are handed over

VARIABLES
    conn,         \* the Connection
    strand,       \* handlers queued on the strand
    peerGone,     \* a write has failed: reads fail too
    packets,      \* packets received
    posted,       \* tasks given to the dispatcher for the protocol
    sent,         \* how many messages have been handed to send()
    queued,       \* history: messages put into messageQueue, in order
    written       \* history: messages written to the socket, in order

vars == <<conn, strand, peerGone, packets, posted, sent, queued, written>>

\* One socket operation of each kind is outstanding at most; "none" for reads.
Reads == {"none", "header", "body"}

Init ==
    /\ conn = [closed |-> FALSE,        \* close() has run
               socketOpen |-> TRUE,     \* closeSocket() has not
               managed |-> TRUE,        \* in ConnectionManager::connections
               accepted |-> FALSE,      \* accept() has run
               protocol |-> FALSE,      \* there is a protocol
               reading |-> "none",
               writing |-> FALSE,
               readTimer |-> FALSE,     \* waited on
               writeTimer |-> FALSE,
               messageQueue |-> <<>>]
    /\ strand = <<>>
    /\ peerGone = FALSE
    /\ packets = 0
    /\ posted = <<>>
    /\ sent = 0
    /\ queued = <<>>
    /\ written = <<>>

-----------------------------------------------------------------------------
(* What the handlers do to the connection.                                  *)

CloseSocket(c) ==
    IF c.socketOpen
    THEN [c EXCEPT !.socketOpen = FALSE, !.readTimer = FALSE, !.writeTimer = FALSE]
    ELSE c

ForgetQueueMutant(c, force) ==
    CloseSocket([c EXCEPT !.closed = TRUE, !.managed = FALSE])

\* close, after the test of closed.
CloseNow(c, force) ==
    LET d == [c EXCEPT !.closed = TRUE, !.managed = FALSE] IN
    IF c.messageQueue = <<>> \/ force THEN CloseSocket(d) ELSE d

InternalSend(c) == [c EXCEPT !.writing = TRUE, !.writeTimer = TRUE]

NoTimerMutant(c, what) == [c EXCEPT !.reading = what]
ReadNext(c, what) == [c EXCEPT !.reading = what, !.readTimer = TRUE]

CloseAgainMutant(c) == TRUE
MayClose(c) == ~c.closed

\* close() on the strand: the protocol is released by the dispatcher.
Close(c, force) ==
    IF MayClose(c)
    THEN /\ conn' = CloseNow(c, force)
         /\ posted' = IF c.protocol THEN Append(posted, "release") ELSE posted
    ELSE /\ conn' = c
         /\ UNCHANGED posted

-----------------------------------------------------------------------------
(* The strand and the lifetime of the object.                               *)

\* Timers hold a weak_ptr.
Holding(h) == h.kind # "timeout"

Alive ==
    \/ ~conn.accepted \/ conn.managed \/ conn.writing \/ conn.reading # "none"
    \/ \E n \in 1 .. Len(strand) : Holding(strand[n])

\* The destructor closes the socket too.
SocketOpen == conn.socketOpen /\ Alive

\* A handler, its error code if it has one, and the message of a send.
Handler(kind, what, m) == [kind |-> kind, what |-> what, message |-> m]

OnStrand(kind, what) ==
    /\ strand # <<>>
    /\ Head(strand).kind = kind
    /\ Head(strand).what = what
    /\ strand' = Tail(strand)

-----------------------------------------------------------------------------
(* ServicePort::onAccept.                                                   *)

\* A service that speaks first has its protocol at once.
Accept(first) ==
    /\ ~conn.accepted /\ conn.socketOpen
    /\ conn' = ReadNext([conn EXCEPT !.accepted = TRUE, !.protocol = first], "header")
    /\ posted' = IF first THEN Append(posted, "connect") ELSE posted
    /\ UNCHANGED <<strand, peerGone, packets, sent, queued, written>>

\* The address is banned, or cannot be read.
Refuse ==
    /\ ~conn.accepted
    /\ Close([conn EXCEPT !.accepted = TRUE], TRUE)
    /\ UNCHANGED <<strand, peerGone, packets, sent, queued, written>>

-----------------------------------------------------------------------------
(* The handlers of the strand.                                              *)

ParseHeaderError ==
    /\ OnStrand("header", "error")
    /\ Close([conn EXCEPT !.readTimer = FALSE], TRUE)
    /\ UNCHANGED <<peerGone, packets, sent, queued, written>>

\* The client sends too fast (force is FALSE), or a bad size; or the body is
\* read next.
ParseHeader ==
    /\ OnStrand("header", "ok")
    /\ LET c == [conn EXCEPT !.readTimer = FALSE] IN
          \/ c.closed /\ conn' = c /\ UNCHANGED posted
          \/ ~c.closed /\ \E force \in BOOLEAN : Close(c, force)
          \/ ~c.closed /\ conn' = ReadNext(c, "body") /\ UNCHANGED posted
    /\ UNCHANGED <<peerGone, packets, sent, queued, written>>

ParsePacketError ==
    /\ OnStrand("body", "error")
    /\ Close([conn EXCEPT !.readTimer = FALSE], TRUE)
    /\ UNCHANGED <<peerGone, packets, sent, queued, written>>

MayDeliver == ~conn.closed

\* closed: the packet is dropped, and nothing is read any more.
DropPacket ==
    /\ OnStrand("body", "ok")
    /\ ~MayDeliver
    /\ conn' = [conn EXCEPT !.readTimer = FALSE]
    /\ UNCHANGED <<peerGone, packets, posted, sent, queued, written>>

\* No protocol for the first packet.
NoProtocol ==
    /\ OnStrand("body", "ok")
    /\ MayDeliver /\ ~conn.protocol
    /\ Close([conn EXCEPT !.readTimer = FALSE], TRUE)
    /\ UNCHANGED <<peerGone, packets, sent, queued, written>>

\* The protocol gets the packet and may post a task for it; then the next
\* header is awaited.
ParsePacket ==
    /\ OnStrand("body", "ok")
    /\ MayDeliver
    /\ conn' = ReadNext([conn EXCEPT !.protocol = TRUE], "header")
    /\ posted' \in {posted, Append(posted, "packet")}
    /\ UNCHANGED <<peerGone, packets, sent, queued, written>>

SendAtOnceMutant(c, m) == InternalSend([c EXCEPT !.messageQueue = Append(@, m)])

\* send: a message that finds others waits for onWriteOperation.
Enqueue(c, m) ==
    LET d == [c EXCEPT !.messageQueue = Append(@, m)] IN
    IF c.messageQueue = <<>> THEN InternalSend(d) ELSE d

\* The protocol answers with a message and disconnects, within its handler:
\* the read of the next header is started all the same.
RefusePacket(m) ==
    /\ OnStrand("body", "ok")
    /\ MayDeliver
    /\ m = sent + 1
    /\ sent' = m
    /\ queued' = Append(queued, m)
    /\ conn' = ReadNext(CloseNow(Enqueue([conn EXCEPT !.protocol = TRUE], m), FALSE), "header")
    /\ posted' = Append(posted, "release")
    /\ UNCHANGED <<peerGone, packets, written>>

\* It disconnects without a message.
RefuseSilently ==
    /\ OnStrand("body", "ok")
    /\ MayDeliver
    /\ conn' = ReadNext(CloseNow([conn EXCEPT !.protocol = TRUE], FALSE), "header")
    /\ posted' = Append(posted, "release")
    /\ UNCHANGED <<peerGone, packets, sent, queued, written>>

Send(m) ==
    /\ OnStrand("send", "")
    /\ m = Head(strand).message
    /\ IF conn.closed
       THEN UNCHANGED <<conn, queued>>
       ELSE conn' = Enqueue(conn, m) /\ queued' = Append(queued, m)
    /\ UNCHANGED <<peerGone, packets, posted, sent, written>>

OnClose ==
    /\ OnStrand("close", "")
    /\ Close(conn, FALSE)
    /\ UNCHANGED <<peerGone, packets, sent, queued, written>>

SkipLastMutant(c) == c

\* After the last message of a closed connection.
Drained(c) == IF c.closed THEN CloseSocket(c) ELSE c

OnWriteOperation ==
    /\ OnStrand("written", "ok")
    /\ LET c == [conn EXCEPT !.writeTimer = FALSE, !.messageQueue = Tail(@)] IN
          conn' = IF c.messageQueue # <<>> THEN InternalSend(c) ELSE Drained(c)
    /\ UNCHANGED <<peerGone, packets, posted, sent, queued, written>>

OnWriteError ==
    /\ OnStrand("written", "error")
    /\ Close([conn EXCEPT !.writeTimer = FALSE, !.messageQueue = <<>>], TRUE)
    /\ UNCHANGED <<peerGone, packets, sent, queued, written>>

\* handleTimeout: close(FORCE_CLOSE), which does nothing once closed.
HandleTimeout ==
    /\ OnStrand("timeout", "")
    /\ IF Alive THEN Close(conn, TRUE) ELSE UNCHANGED <<conn, posted>>
    /\ UNCHANGED <<peerGone, packets, sent, queued, written>>

-----------------------------------------------------------------------------
(* Sockets and timers: completions are queued on the strand.                *)

Complete(kind, what) == strand' = Append(strand, Handler(kind, what, 0))

ReadSucceeds ==
    /\ conn.reading # "none"
    /\ conn.socketOpen /\ ~peerGone
    /\ conn.reading = "body" => packets < MaxPackets
    /\ Complete(conn.reading, "ok")
    /\ packets' = IF conn.reading = "body" THEN packets + 1 ELSE packets
    /\ conn' = [conn EXCEPT !.reading = "none"]
    /\ UNCHANGED <<peerGone, posted, sent, queued, written>>

\* End of file, a reset, or the socket was closed.
ReadFails ==
    /\ conn.reading # "none"
    /\ Complete(conn.reading, "error")
    /\ conn' = [conn EXCEPT !.reading = "none"]
    /\ UNCHANGED <<peerGone, packets, posted, sent, queued, written>>

WriteSucceeds ==
    /\ conn.writing
    /\ conn.socketOpen /\ ~peerGone
    /\ Complete("written", "ok")
    /\ written' = Append(written, Head(conn.messageQueue))
    /\ conn' = [conn EXCEPT !.writing = FALSE]
    /\ UNCHANGED <<peerGone, packets, posted, sent, queued>>

WriteFails ==
    /\ conn.writing
    /\ Complete("written", "error")
    /\ peerGone' = TRUE
    /\ conn' = [conn EXCEPT !.writing = FALSE]
    /\ UNCHANGED <<packets, posted, sent, queued, written>>

ReadTimeout ==
    /\ conn.readTimer
    /\ Complete("timeout", "")
    /\ conn' = [conn EXCEPT !.readTimer = FALSE]
    /\ UNCHANGED <<peerGone, packets, posted, sent, queued, written>>

WriteTimeout ==
    /\ conn.writeTimer
    /\ Complete("timeout", "")
    /\ conn' = [conn EXCEPT !.writeTimer = FALSE]
    /\ UNCHANGED <<peerGone, packets, posted, sent, queued, written>>

-----------------------------------------------------------------------------
(* The game thread.  The protocol has a weak_ptr to its connection.         *)

GameSend(m) ==
    /\ conn.protocol /\ Alive
    /\ m = sent + 1
    /\ sent' = m
    /\ strand' = Append(strand, Handler("send", "", m))
    /\ UNCHANGED <<conn, peerGone, packets, posted, queued, written>>

\* disconnect() may be called again and again; one pending call is enough.
GameDisconnect ==
    /\ conn.protocol /\ Alive
    /\ \A n \in 1 .. Len(strand) : strand[n].kind # "close"
    /\ ~conn.closed
    /\ Complete("close", "")
    /\ UNCHANGED <<conn, peerGone, packets, posted, sent, queued, written>>

\* ConnectionManager::closeAll at the shutdown, not on the strand.
CloseAll ==
    /\ conn.managed
    /\ conn' = [conn EXCEPT !.managed = FALSE, !.socketOpen = FALSE]
    /\ UNCHANGED <<strand, peerGone, packets, posted, sent, queued, written>>

-----------------------------------------------------------------------------
StrandStep ==
    \/ ParseHeaderError \/ ParseHeader
    \/ ParsePacketError \/ DropPacket \/ NoProtocol \/ ParsePacket
    \/ \E m \in Messages : RefusePacket(m) \/ Send(m)
    \/ RefuseSilently \/ OnClose \/ OnWriteOperation \/ OnWriteError \/ HandleTimeout

Network ==
    ReadSucceeds \/ ReadFails \/ WriteSucceeds \/ WriteFails

Next ==
    \/ \E first \in BOOLEAN : Accept(first)
    \/ Refuse
    \/ StrandStep
    \/ Network
    \/ ReadTimeout \/ WriteTimeout
    \/ \E m \in Messages : GameSend(m)
    \/ GameDisconnect
    \/ CloseAll

Spec == Init /\ [][Next]_vars

Broken == ~conn.socketOpen \/ peerGone

\* The network thread runs the handlers and the timers.  An operation on a
\* closed or broken socket fails; on a healthy one a read waits for a client
\* that may stay silent, and a write for one that may never read.
Fairness ==
    /\ WF_vars(StrandStep)
    /\ WF_vars(ReadTimeout) /\ WF_vars(WriteTimeout)
    /\ WF_vars(ReadFails /\ Broken)
    /\ WF_vars(WriteFails /\ Broken)

FairSpec == Spec /\ Fairness

-----------------------------------------------------------------------------
Handlers ==
    [kind : {"header", "body", "written"}, what : {"ok", "error"}, message : {0}]
    \cup [kind : {"send"}, what : {""}, message : Messages]
    \cup [kind : {"close", "timeout"}, what : {""}, message : {0}]

TypeOK ==
    /\ conn \in [closed : BOOLEAN, socketOpen : BOOLEAN, managed : BOOLEAN,
                 accepted : BOOLEAN, protocol : BOOLEAN, reading : Reads,
                 writing : BOOLEAN, readTimer : BOOLEAN, writeTimer : BOOLEAN,
                 messageQueue : Seq(Messages)]
    /\ strand \in Seq(Handlers)
    /\ peerGone \in BOOLEAN
    /\ packets \in 0 .. MaxPackets
    /\ posted \in Seq({"connect", "packet", "release"})
    /\ sent \in 0 .. MaxMessages
    /\ queued \in Seq(Messages)
    /\ written \in Seq(Messages)

Count(kind) ==
    Cardinality({n \in 1 .. Len(strand) : strand[n].kind = kind})

\* async_write and async_read must not overlap: one write is outstanding,
\* or its handler is queued, exactly while there are messages, and never
\* more than one read, although close, timeouts and sends come in between.
OneOperation ==
    /\ Count("written") + (IF conn.writing THEN 1 ELSE 0)
          = (IF conn.messageQueue = <<>> THEN 0 ELSE 1)
    /\ Count("header") + Count("body") + (IF conn.reading = "none" THEN 0 ELSE 1) <= 1

\* The client gets the messages in the order they were queued, none twice,
\* and none is skipped.
WrittenInOrder == IsPrefix(written, queued)

\* One write at a time, and the messages in turn.
WritesInTurn == OneOperation /\ WrittenInOrder

\* A protocol is released once, after everything else it was asked to do, and
\* it is released if its connection has been closed.
ReleasedLast ==
    /\ \A n \in 1 .. Len(posted) : posted[n] = "release" => n = Len(posted)
    /\ conn.closed /\ conn.protocol <=> "release" \in ToSet(posted)

\* A graceful close does not cut off the messages that were sent before it:
\* disconnect(), a refusal by the protocol or a completed write close the
\* socket only when no message is left.
GracefulClose ==
    [][ (OnClose \/ OnWriteOperation \/ RefuseSilently
           \/ \E m \in Messages : RefusePacket(m))
          /\ conn.socketOpen /\ ~conn'.socketOpen => conn'.messageQueue = <<>> ]_vars

\* A connection that is closed ends: its socket is closed and the object is
\* freed, whatever was being read or written, unless a client that never
\* reads holds up the last write for ever (its timeout calls close(), which
\* does nothing by then).
ClosedEnds ==
    \/ conn.closed ~> ~Alive
    \/ <>[](conn.closed /\ conn.writing /\ ~Broken)

\* A client that stays silent is dropped, and so is one that does not read.
SilentDropped ==
    /\ conn.reading # "none" ~> (conn.reading = "none" \/ conn.closed)
    /\ conn.writing ~> (~conn.writing \/ conn.closed)

=============================================================================
