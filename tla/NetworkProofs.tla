---------------------------- MODULE NetworkProofs ----------------------------
(***************************************************************************)
(* Theorems about connections, for any number of messages and packets, and *)
(* about the game sessions that use them, for every set of protocols and   *)
(* characters and every waiting list.                                      *)
(***************************************************************************)
EXTENDS Connection, Session, FiniteSetTheorems, SequenceTheorems, TLAPS

-----------------------------------------------------------------------------
(* Connection.                                                              *)

(* What a queue holds: whether an element of K is in it, and whether there  *)
(* is at most one.                                                          *)
Has(st, K) == \E n \in 1 .. Len(st) : st[n] \in K
Single(st, K) == \A n, m \in 1 .. Len(st) : st[n] \in K /\ st[m] \in K => n = m

LEMMA TailHas ==
  ASSUME NEW K, NEW S, NEW st \in Seq(S), st # <<>>, Single(st, K)
  PROVE  /\ Single(Tail(st), K)
         /\ Has(Tail(st), K) <=> Has(st, K) /\ Head(st) \notin K
  <1>1. /\ Len(st) \in Nat \ {0} /\ Len(Tail(st)) = Len(st) - 1 /\ Head(st) = st[1]
        /\ \A n \in 1 .. Len(Tail(st)) : Tail(st)[n] = st[n + 1]
    OBVIOUS
  <1>2. Single(Tail(st), K)
    BY <1>1 DEF Single
  <1>3. ASSUME Has(Tail(st), K) PROVE Has(st, K) /\ Head(st) \notin K
    BY <1>1, <1>3 DEF Has, Single
  <1>4. ASSUME Has(st, K), Head(st) \notin K PROVE Has(Tail(st), K)
    <2>1. PICK n \in 1 .. Len(st) : st[n] \in K
      BY <1>4 DEF Has
    <2>2. n # 1 /\ n - 1 \in 1 .. Len(Tail(st)) /\ Tail(st)[n - 1] = st[n]
      BY <1>1, <1>4, <2>1
    <2> QED  BY <2>1, <2>2 DEF Has
  <1> QED  BY <1>2, <1>3, <1>4

LEMMA AppendHas ==
  ASSUME NEW K, NEW S, NEW st \in Seq(S), NEW h \in S, Single(st, K), h \in K => ~Has(st, K)
  PROVE  /\ Single(Append(st, h), K)
         /\ Has(Append(st, h), K) <=> Has(st, K) \/ h \in K
  <1>1. /\ Len(st) \in Nat /\ Len(Append(st, h)) = Len(st) + 1 /\ Append(st, h)[Len(st) + 1] = h
        /\ \A n \in 1 .. Len(st) : Append(st, h)[n] = st[n]
    OBVIOUS
  <1>2. Single(Append(st, h), K)
    BY <1>1 DEF Single, Has
  <1>3. Has(Append(st, h), K) => Has(st, K) \/ h \in K
    BY <1>1 DEF Has
  <1>4. ASSUME Has(st, K) PROVE Has(Append(st, h), K)
    BY <1>1, <1>4 DEF Has
  <1>5. ASSUME h \in K PROVE Has(Append(st, h), K)
    <2>1. Len(st) + 1 \in 1 .. Len(Append(st, h))
      BY <1>1
    <2> QED  BY <1>1, <1>5, <2>1 DEF Has
  <1> QED  BY <1>2, <1>3, <1>4, <1>5

-----------------------------------------------------------------------------
\* The completions of a write, of a write that succeeded, and of a read.
W == {h \in Handlers : h.kind = "written"}
Ok == {h \in Handlers : h.kind = "written" /\ h.what = "ok"}
R == {h \in Handlers : h.kind \in {"header", "body"}}

\* Before accept() nothing is under way.
FreshInv ==
    ~conn.accepted =>
        /\ strand = <<>> /\ conn.reading = "none" /\ ~conn.writing
        /\ ~conn.readTimer /\ ~conn.writeTimer /\ ~conn.protocol /\ ~conn.closed

\* What is outstanding, or completed and not handled.
PendingInv ==
    /\ Single(strand, W) /\ Single(strand, R)
    /\ Has(strand, W) => ~conn.writing
    /\ conn.messageQueue # <<>> <=> conn.writing \/ Has(strand, W)
    /\ Has(strand, R) => conn.reading = "none"

TypeInv == TypeOK /\ FreshInv /\ PendingInv

\* A handler of the strand leaves the rest of it.
LEMMA StrandTail ==
  ASSUME TypeInv, NEW kind, strand # <<>>, Head(strand).kind = kind, strand' = Tail(strand)
  PROVE  /\ strand' \in Seq(Handlers) /\ Head(strand) \in Handlers
         /\ conn.accepted
         /\ Single(strand', W) /\ Single(strand', R)
         /\ Has(strand', W) <=> Has(strand, W) /\ kind # "written"
         /\ Has(strand', R) <=> Has(strand, R) /\ kind \notin {"header", "body"}
         /\ kind = "written" => Has(strand, W)
         /\ kind \in {"header", "body"} => Has(strand, R)
  <1>1. strand # <<>> /\ strand \in Seq(Handlers) /\ strand' = Tail(strand) /\ Head(strand).kind = kind
    BY DEF TypeInv, TypeOK
  <1>2. Head(strand) \in Handlers /\ Tail(strand) \in Seq(Handlers) /\ Head(strand) = strand[1] /\ 1 \in 1 .. Len(strand)
    BY <1>1
  <1>3. conn.accepted
    BY <1>1 DEF TypeInv, FreshInv
  <1>4. Head(strand) \in W <=> kind = "written"
    BY <1>1, <1>2 DEF W
  <1>5. Head(strand) \in R <=> kind \in {"header", "body"}
    BY <1>1, <1>2 DEF R
  <1>6. /\ Single(Tail(strand), W)
        /\ Has(Tail(strand), W) <=> Has(strand, W) /\ Head(strand) \notin W
    BY <1>1, TailHas DEF TypeInv, PendingInv
  <1>7. /\ Single(Tail(strand), R)
        /\ Has(Tail(strand), R) <=> Has(strand, R) /\ Head(strand) \notin R
    BY <1>1, TailHas DEF TypeInv, PendingInv
  <1>8. Head(strand) \in W => Has(strand, W)
    BY <1>2 DEF Has
  <1>9. Head(strand) \in R => Has(strand, R)
    BY <1>2 DEF Has
  <1> QED  BY <1>1, <1>2, <1>3, <1>4, <1>5, <1>6, <1>7, <1>8, <1>9

\* A handler that is queued comes last.
LEMMA StrandAppend ==
  ASSUME TypeInv, NEW h \in Handlers, strand' = Append(strand, h),
         h \in W => ~Has(strand, W), h \in R => ~Has(strand, R)
  PROVE  /\ strand' \in Seq(Handlers)
         /\ Single(strand', W) /\ Single(strand', R)
         /\ Has(strand', W) <=> Has(strand, W) \/ h \in W
         /\ Has(strand', R) <=> Has(strand, R) \/ h \in R
  BY AppendHas DEF TypeInv, TypeOK, PendingInv

-----------------------------------------------------------------------------
ConnType ==
    [closed : BOOLEAN, socketOpen : BOOLEAN, managed : BOOLEAN,
     accepted : BOOLEAN, protocol : BOOLEAN, reading : Reads,
     writing : BOOLEAN, readTimer : BOOLEAN, writeTimer : BOOLEAN,
     messageQueue : Seq(Messages)]

\* What close() leaves as it is.
LEMMA CloseKeeps ==
  ASSUME TypeOK, NEW c \in ConnType, NEW force \in BOOLEAN, Close(c, force)
  PROVE  /\ conn' \in ConnType /\ posted' \in Seq({"connect", "packet", "release"})
         /\ conn'.messageQueue = c.messageQueue /\ conn'.writing = c.writing
         /\ conn'.reading = c.reading /\ conn'.protocol = c.protocol
         /\ conn'.accepted = c.accepted /\ conn'.closed = TRUE
         /\ posted' = IF c.protocol /\ ~c.closed THEN Append(posted, "release") ELSE posted
  <1>1. CASE ~c.closed
    <2> DEFINE d == [c EXCEPT !.closed = TRUE, !.managed = FALSE]
    <2>1. /\ conn' = IF c.messageQueue = <<>> \/ force THEN CloseSocket(d) ELSE d
          /\ posted' = IF c.protocol THEN Append(posted, "release") ELSE posted
      BY <1>1 DEF Close, MayClose, CloseNow
    <2>2. /\ d \in ConnType /\ d.closed
          /\ d.messageQueue = c.messageQueue /\ d.writing = c.writing /\ d.reading = c.reading
          /\ d.protocol = c.protocol /\ d.accepted = c.accepted
      BY DEF ConnType
    <2> HIDE DEF d
    <2>3. /\ CloseSocket(d) \in ConnType /\ CloseSocket(d).closed = d.closed
          /\ CloseSocket(d).messageQueue = d.messageQueue /\ CloseSocket(d).writing = d.writing
          /\ CloseSocket(d).reading = d.reading /\ CloseSocket(d).protocol = d.protocol
          /\ CloseSocket(d).accepted = d.accepted
      BY <2>2 DEF CloseSocket, ConnType
    <2>4. posted' \in Seq({"connect", "packet", "release"})
      BY <2>1 DEF TypeOK
    <2> QED  BY <1>1, <2>1, <2>2, <2>3, <2>4
  <1>2. CASE c.closed
    BY <1>2 DEF Close, MayClose, TypeOK, ConnType
  <1> QED  BY <1>1, <1>2

LEMMA EnqueueTypes ==
  ASSUME NEW c \in ConnType, NEW m \in Messages
  PROVE  /\ Enqueue(c, m) \in ConnType
         /\ Enqueue(c, m).messageQueue = Append(c.messageQueue, m)
         /\ Enqueue(c, m).messageQueue # <<>>
         /\ Enqueue(c, m).writing = IF c.messageQueue = <<>> THEN TRUE ELSE c.writing
         /\ Enqueue(c, m).reading = c.reading /\ Enqueue(c, m).protocol = c.protocol
         /\ Enqueue(c, m).accepted = c.accepted /\ Enqueue(c, m).closed = c.closed
  <1> DEFINE d == [c EXCEPT !.messageQueue = Append(@, m)]
  <1>1. /\ d \in ConnType /\ d.messageQueue = Append(c.messageQueue, m) /\ d.writing = c.writing
        /\ d.reading = c.reading /\ d.protocol = c.protocol
        /\ d.accepted = c.accepted /\ d.closed = c.closed
    BY DEF ConnType
  <1>2. Append(c.messageQueue, m) # <<>>
    BY DEF ConnType
  <1>3. Enqueue(c, m) = IF c.messageQueue = <<>> THEN InternalSend(d) ELSE d
    BY DEF Enqueue
  <1> HIDE DEF d
  <1>4. /\ InternalSend(d) \in ConnType /\ InternalSend(d).messageQueue = d.messageQueue
        /\ InternalSend(d).writing /\ InternalSend(d).reading = d.reading
        /\ InternalSend(d).protocol = d.protocol /\ InternalSend(d).accepted = d.accepted
        /\ InternalSend(d).closed = d.closed
    BY <1>1 DEF InternalSend, ConnType
  <1> QED  BY <1>1, <1>2, <1>3, <1>4

LEMMA TypeInit == Init => TypeInv
  <1> SUFFICES ASSUME Init PROVE TypeInv
    OBVIOUS
  <1>1. conn \in ConnType
    BY DEF Init, ConnType, Reads
  <1>2. TypeOK
    <2>1. /\ strand = <<>> /\ posted = <<>> /\ queued = <<>> /\ written = <<>>
          /\ peerGone \in BOOLEAN /\ packets = 0 /\ sent = 0
      BY DEF Init
    <2> QED  BY <1>1, <2>1, ConnectionAssumption DEF TypeOK, ConnType
  <1>3. \A K : ~Has(strand, K) /\ Single(strand, K)
    BY DEF Init, Has, Single
  <1> QED  BY <1>2, <1>3 DEF Init, TypeInv, FreshInv, PendingInv

\* The handlers that close, whatever they have just changed of the timers and
\* the reads.
LEMMA CloseStep ==
  ASSUME TypeInv, NEW c \in ConnType, NEW force \in BOOLEAN, Close(c, force),
         c.accepted, c.messageQueue # <<>> <=> c.writing \/ Has(strand', W),
         strand' \in Seq(Handlers), Single(strand', W), Single(strand', R),
         Has(strand', W) => ~c.writing, Has(strand', R) => c.reading = "none",
         peerGone' \in BOOLEAN, UNCHANGED <<packets, sent, queued, written>>
  PROVE  TypeInv'
  <1>1. /\ conn' \in ConnType /\ posted' \in Seq({"connect", "packet", "release"})
        /\ conn'.messageQueue = c.messageQueue /\ conn'.writing = c.writing
        /\ conn'.reading = c.reading /\ conn'.accepted = c.accepted
    BY CloseKeeps DEF TypeInv
  <1>2. TypeOK'
    BY <1>1 DEF TypeInv, TypeOK, ConnType
  <1> QED  BY <1>1, <1>2 DEF TypeInv, FreshInv, PendingInv

\* The read timer is cancelled first.
LEMMA QuietConn ==
  ASSUME TypeInv, NEW c, c = [conn EXCEPT !.readTimer = FALSE]
  PROVE  /\ c \in ConnType /\ c.accepted = conn.accepted /\ c.messageQueue = conn.messageQueue
         /\ c.writing = conn.writing /\ c.reading = conn.reading
         /\ c.protocol = conn.protocol /\ c.closed = conn.closed
  BY DEF TypeInv, TypeOK, ConnType

LEMMA ReadNextTypes ==
  ASSUME NEW c \in ConnType, NEW what \in Reads
  PROVE  /\ ReadNext(c, what) \in ConnType /\ ReadNext(c, what).accepted = c.accepted
         /\ ReadNext(c, what).messageQueue = c.messageQueue
         /\ ReadNext(c, what).writing = c.writing /\ ReadNext(c, what).reading = what
         /\ ReadNext(c, what).protocol = c.protocol /\ ReadNext(c, what).closed = c.closed
  BY DEF ReadNext, ConnType

\* The steps of the strand that do not close.
LEMMA PlainStep ==
  ASSUME TypeInv, conn' \in ConnType, conn'.accepted,
         conn'.messageQueue # <<>> <=> conn'.writing \/ Has(strand', W),
         strand' \in Seq(Handlers), Single(strand', W), Single(strand', R),
         Has(strand', W) => ~conn'.writing, Has(strand', R) => conn'.reading = "none",
         posted' \in Seq({"connect", "packet", "release"}), sent' \in 0 .. MaxMessages,
         queued' \in Seq(Messages), UNCHANGED <<peerGone, packets, written>>
  PROVE  TypeInv'
  BY DEF TypeInv, TypeOK, ConnType, FreshInv, PendingInv

\* A refusal without a message closes and changes nothing of the writes.
LEMMA RefusedConn ==
  ASSUME TypeInv, RefuseSilently
  PROVE  /\ OnStrand("body", "ok") /\ ~conn.closed /\ posted' = Append(posted, "release")
         /\ UNCHANGED <<peerGone, packets, sent, queued, written>>
         /\ conn' \in ConnType /\ conn'.accepted = conn.accepted
         /\ conn'.messageQueue = conn.messageQueue /\ conn'.writing = conn.writing
         /\ conn'.closed /\ conn'.protocol
         /\ conn.socketOpen /\ ~conn'.socketOpen => conn'.messageQueue = <<>>
  <1> DEFINE d == [conn EXCEPT !.protocol = TRUE]
             e == [d EXCEPT !.closed = TRUE, !.managed = FALSE]
             f == CloseNow(d, FALSE)
  <1>1. /\ OnStrand("body", "ok") /\ ~conn.closed /\ posted' = Append(posted, "release")
        /\ conn' = ReadNext(f, "header")
        /\ UNCHANGED <<peerGone, packets, sent, queued, written>>
    BY DEF RefuseSilently, MayDeliver
  <1>2. conn \in ConnType
    BY DEF TypeInv, TypeOK, ConnType
  <1>3. /\ e \in ConnType /\ e.accepted = conn.accepted /\ e.messageQueue = conn.messageQueue
        /\ e.writing = conn.writing /\ e.closed /\ e.protocol
        /\ e.socketOpen = conn.socketOpen /\ d.messageQueue = conn.messageQueue
    BY <1>2 DEF ConnType
  <1>4. f = IF d.messageQueue = <<>> THEN CloseSocket(e) ELSE e
    BY DEF CloseNow
  <1> HIDE DEF f, e, d
  <1>5. /\ f \in ConnType /\ f.accepted = conn.accepted /\ f.messageQueue = conn.messageQueue
        /\ f.writing = conn.writing /\ f.closed /\ f.protocol
        /\ conn.socketOpen /\ ~f.socketOpen => f.messageQueue = <<>>
    BY <1>3, <1>4 DEF CloseSocket, ConnType
  <1>6. conn'.socketOpen = f.socketOpen
    BY <1>1, <1>5 DEF ReadNext, ConnType
  <1> QED  BY <1>1, <1>5, <1>6, ReadNextTypes DEF Reads

LEMMA HandlerStep ==
  ASSUME TypeInv, StrandStep
  PROVE  TypeInv'
  <1> DEFINE c == [conn EXCEPT !.readTimer = FALSE]
  <1>a. conn \in ConnType /\ TypeOK /\ PendingInv /\ FreshInv
    BY DEF TypeInv, TypeOK, ConnType
  <1>c. /\ c \in ConnType /\ c.accepted = conn.accepted /\ c.messageQueue = conn.messageQueue
        /\ c.writing = conn.writing /\ c.reading = conn.reading
        /\ c.protocol = conn.protocol /\ c.closed = conn.closed
    BY QuietConn
  <1> HIDE DEF c
  <1>1. CASE ParseHeaderError
    <2>1. OnStrand("header", "error") /\ Close(c, TRUE)
          /\ UNCHANGED <<peerGone, packets, sent, queued, written>>
      BY <1>1 DEF ParseHeaderError, c
    <2> QED  BY <1>a, <1>c, <2>1, StrandTail, CloseStep DEF OnStrand, PendingInv, TypeOK
  <1>2. CASE ParseHeader
    <2>1. OnStrand("header", "ok") /\ UNCHANGED <<peerGone, packets, sent, queued, written>>
      BY <1>2 DEF ParseHeader
    <2>2. /\ strand' \in Seq(Handlers) /\ c.accepted /\ Single(strand', W) /\ Single(strand', R)
          /\ Has(strand', W) <=> Has(strand, W)
          /\ ~Has(strand', R) /\ c.reading = "none"
      BY <1>a, <1>c, <2>1, StrandTail DEF OnStrand, PendingInv
    <2>3. CASE conn' = c /\ UNCHANGED posted
      BY <1>a, <1>c, <2>1, <2>2, <2>3, PlainStep DEF PendingInv, TypeOK
    <2>4. ASSUME NEW force \in BOOLEAN, Close(c, force) PROVE TypeInv'
      BY <1>a, <1>c, <2>1, <2>2, <2>4, CloseStep DEF PendingInv, TypeOK
    <2>5. CASE conn' = ReadNext(c, "body") /\ UNCHANGED posted
      BY <1>a, <1>c, <2>1, <2>2, <2>5, PlainStep, ReadNextTypes DEF PendingInv, TypeOK, Reads
    <2> QED  BY <1>2, <2>3, <2>4, <2>5 DEF ParseHeader, c
  <1>3. CASE ParsePacketError
    <2>1. OnStrand("body", "error") /\ Close(c, TRUE)
          /\ UNCHANGED <<peerGone, packets, sent, queued, written>>
      BY <1>3 DEF ParsePacketError, c
    <2> QED  BY <1>a, <1>c, <2>1, StrandTail, CloseStep DEF OnStrand, PendingInv, TypeOK
  <1>4. CASE DropPacket
    <2>1. OnStrand("body", "ok") /\ conn' = c
          /\ UNCHANGED <<peerGone, packets, posted, sent, queued, written>>
      BY <1>4 DEF DropPacket, c
    <2> QED  BY <1>a, <1>c, <2>1, StrandTail, PlainStep DEF OnStrand, PendingInv, TypeOK
  <1>5. CASE NoProtocol
    <2>1. OnStrand("body", "ok") /\ Close(c, TRUE)
          /\ UNCHANGED <<peerGone, packets, sent, queued, written>>
      BY <1>5 DEF NoProtocol, c
    <2> QED  BY <1>a, <1>c, <2>1, StrandTail, CloseStep DEF OnStrand, PendingInv, TypeOK
  <1>6. CASE ParsePacket
    <2> DEFINE d == [conn EXCEPT !.protocol = TRUE]
    <2>1. OnStrand("body", "ok") /\ conn' = ReadNext(d, "header")
          /\ posted' \in {posted, Append(posted, "packet")}
          /\ UNCHANGED <<peerGone, packets, sent, queued, written>>
      BY <1>6 DEF ParsePacket
    <2>2. d \in ConnType /\ d.accepted = conn.accepted /\ d.messageQueue = conn.messageQueue
          /\ d.writing = conn.writing
      BY <1>a DEF ConnType
    <2> HIDE DEF d
    <2>3. posted' \in Seq({"connect", "packet", "release"})
      <3>1. CASE posted' = posted
        BY <1>a, <3>1 DEF TypeOK
      <3>2. CASE posted' = Append(posted, "packet")
        BY <1>a, <3>2 DEF TypeOK
      <3> QED  BY <2>1, <3>1, <3>2
    <2>4. conn' \in ConnType /\ conn'.accepted = conn.accepted
          /\ conn'.messageQueue = conn.messageQueue
          /\ conn'.writing = conn.writing
      BY <2>1, <2>2, ReadNextTypes DEF Reads
    <2> QED  BY <1>a, <2>1, <2>3, <2>4, StrandTail, PlainStep DEF OnStrand, PendingInv, TypeOK
  <1>7. ASSUME NEW m \in Messages, RefusePacket(m) PROVE TypeInv'
    <2> DEFINE d == [conn EXCEPT !.protocol = TRUE]
               e == Enqueue(d, m)
               f == CloseNow(e, FALSE)
    <2>1. OnStrand("body", "ok") /\ conn' = ReadNext(f, "header")
          /\ posted' = Append(posted, "release") /\ queued' = Append(queued, m) /\ sent' = m
          /\ UNCHANGED <<peerGone, packets, written>>
      BY <1>7 DEF RefusePacket
    <2>2. d \in ConnType /\ d.accepted = conn.accepted /\ d.messageQueue = conn.messageQueue
          /\ d.writing = conn.writing
      BY <1>a DEF ConnType
    <2> HIDE DEF d
    <2>3. e \in ConnType /\ e.messageQueue # <<>> /\ e.accepted = conn.accepted
          /\ e.writing = IF conn.messageQueue = <<>> THEN TRUE ELSE conn.writing
      BY <2>2, EnqueueTypes
    <2> HIDE DEF e
    <2>4. f \in ConnType /\ f.accepted = conn.accepted /\ f.messageQueue # <<>>
          /\ f.writing = e.writing
      BY <2>3 DEF CloseNow, ConnType
    <2> HIDE DEF f
    <2>5. posted' \in Seq({"connect", "packet", "release"}) /\ queued' \in Seq(Messages)
      BY <1>a, <2>1 DEF TypeOK
    <2>6. sent' \in 0 .. MaxMessages
      BY <2>1, ConnectionAssumption DEF Messages
    <2>7. conn' \in ConnType /\ conn'.accepted = conn.accepted /\ conn'.messageQueue # <<>>
          /\ conn'.writing = IF conn.messageQueue = <<>> THEN TRUE ELSE conn.writing
      BY <2>1, <2>3, <2>4, ReadNextTypes DEF Reads
    <2> QED  BY <1>a, <2>1, <2>5, <2>6, <2>7, StrandTail, PlainStep DEF OnStrand, PendingInv
  <1>8. ASSUME NEW m \in Messages, Send(m) PROVE TypeInv'
    <2>1. OnStrand("send", "") /\ UNCHANGED <<peerGone, packets, posted, sent, written>>
      BY <1>8 DEF Send
    <2>t. /\ strand' \in Seq(Handlers) /\ conn.accepted /\ Single(strand', W) /\ Single(strand', R)
          /\ Has(strand', W) <=> Has(strand, W)
          /\ Has(strand', R) <=> Has(strand, R)
      <3>1. strand # <<>> /\ Head(strand).kind = "send" /\ strand' = Tail(strand)
        BY <2>1, Zenon DEF OnStrand
      <3> QED  BY <3>1, StrandTail
    <2>2. CASE conn.closed
      BY <1>8, <1>a, <2>1, <2>2, <2>t, PlainStep DEF PendingInv, TypeOK, Send
    <2>3. CASE ~conn.closed
      <3>1. conn' = Enqueue(conn, m) /\ queued' = Append(queued, m)
        BY <1>8, <2>3 DEF Send
      <3>2. queued' \in Seq(Messages)
        BY <1>a, <3>1 DEF TypeOK
      <3> QED  BY <1>a, <2>1, <3>1, <3>2, <2>t, PlainStep, EnqueueTypes
               DEF PendingInv, TypeOK
    <2> QED  BY <2>2, <2>3
  <1>9. CASE OnClose
    <2>1. OnStrand("close", "") /\ Close(conn, FALSE)
          /\ UNCHANGED <<peerGone, packets, sent, queued, written>>
      BY <1>9 DEF OnClose
    <2>t. /\ strand' \in Seq(Handlers) /\ conn.accepted /\ Single(strand', W) /\ Single(strand', R)
          /\ Has(strand', W) <=> Has(strand, W)
          /\ Has(strand', R) <=> Has(strand, R)
      <3>1. strand # <<>> /\ Head(strand).kind = "close" /\ strand' = Tail(strand)
        BY <2>1, Zenon DEF OnStrand
      <3> QED  BY <3>1, StrandTail
    <2> QED  BY <1>a, <2>1, <2>t, CloseStep DEF PendingInv, TypeOK
  <1>10. CASE OnWriteOperation
    <2> DEFINE d == [conn EXCEPT !.writeTimer = FALSE, !.messageQueue = Tail(@)]
    <2>1. OnStrand("written", "ok")
          /\ conn' = (IF d.messageQueue # <<>> THEN InternalSend(d) ELSE Drained(d))
          /\ UNCHANGED <<peerGone, packets, posted, sent, queued, written>>
      BY <1>10 DEF OnWriteOperation
    <2>2. Has(strand, W) /\ conn.messageQueue # <<>> /\ ~conn.writing
      BY <1>a, <2>1, StrandTail DEF OnStrand, PendingInv
    <2>3. d \in ConnType /\ d.accepted = conn.accepted /\ d.writing = conn.writing
          /\ d.reading = conn.reading
      <3> DEFINE g == [conn EXCEPT !.writeTimer = FALSE]
      <3>1. g \in ConnType /\ g.accepted = conn.accepted /\ g.writing = conn.writing
            /\ g.reading = conn.reading /\ d = [g EXCEPT !.messageQueue = Tail(conn.messageQueue)]
        BY <1>a DEF ConnType
      <3> HIDE DEF g
      <3>2. Tail(conn.messageQueue) \in Seq(Messages)
        BY <1>a, <2>2 DEF ConnType
      <3> QED  BY <3>1, <3>2 DEF ConnType
    <2> HIDE DEF d
    <2>4. CASE d.messageQueue # <<>>
      <3>1. conn' \in ConnType /\ conn'.accepted = conn.accepted /\ conn'.reading = conn.reading
            /\ conn'.writing /\ conn'.messageQueue = d.messageQueue
        BY <2>1, <2>3, <2>4 DEF InternalSend, ConnType
      <3> QED  BY <1>a, <2>1, <2>4, <3>1, StrandTail, PlainStep DEF OnStrand, PendingInv, TypeOK
    <2>5. CASE d.messageQueue = <<>>
      <3>1. conn' \in ConnType /\ conn'.accepted = conn.accepted /\ conn'.reading = conn.reading
            /\ ~conn'.writing /\ conn'.messageQueue = <<>>
        BY <2>1, <2>2, <2>3, <2>5 DEF Drained, CloseSocket, ConnType
      <3> QED  BY <1>a, <2>1, <3>1, StrandTail, PlainStep DEF OnStrand, PendingInv, TypeOK
    <2> QED  BY <2>4, <2>5
  <1>11. CASE OnWriteError
    <2> DEFINE d == [conn EXCEPT !.writeTimer = FALSE, !.messageQueue = <<>>]
    <2>1. OnStrand("written", "error") /\ Close(d, TRUE)
          /\ UNCHANGED <<peerGone, packets, sent, queued, written>>
      BY <1>11 DEF OnWriteError
    <2>2. d \in ConnType /\ d.accepted = conn.accepted /\ d.writing = conn.writing
          /\ d.reading = conn.reading /\ d.messageQueue = <<>>
      <3> DEFINE g == [conn EXCEPT !.writeTimer = FALSE]
      <3>1. g \in ConnType /\ g.accepted = conn.accepted /\ g.writing = conn.writing
            /\ g.reading = conn.reading /\ d = [g EXCEPT !.messageQueue = <<>>]
        BY <1>a DEF ConnType
      <3> HIDE DEF g
      <3>2. <<>> \in Seq(Messages)
        OBVIOUS
      <3> QED  BY <3>1, <3>2 DEF ConnType
    <2> HIDE DEF d
    <2> QED  BY <1>a, <2>1, <2>2, StrandTail, CloseStep DEF OnStrand, PendingInv, TypeOK
  <1>12. CASE HandleTimeout
    <2>1. OnStrand("timeout", "") /\ UNCHANGED <<peerGone, packets, sent, queued, written>>
      BY <1>12 DEF HandleTimeout
    <2>t. /\ strand' \in Seq(Handlers) /\ conn.accepted /\ Single(strand', W) /\ Single(strand', R)
          /\ Has(strand', W) <=> Has(strand, W)
          /\ Has(strand', R) <=> Has(strand, R)
      <3>1. strand # <<>> /\ Head(strand).kind = "timeout" /\ strand' = Tail(strand)
        BY <2>1, Zenon DEF OnStrand
      <3> QED  BY <3>1, StrandTail
    <2>2. CASE Close(conn, TRUE)
      BY <1>a, <2>1, <2>2, <2>t, CloseStep DEF PendingInv, TypeOK
    <2>3. CASE UNCHANGED <<conn, posted>>
      BY <1>a, <2>1, <2>3, <2>t, PlainStep DEF PendingInv, TypeOK
    <2> QED  BY <1>12, <2>2, <2>3 DEF HandleTimeout
  <1>13. CASE RefuseSilently
    <2>0. posted' = Append(posted, "release")
      BY <1>13, RefusedConn
    <2>1. posted' \in Seq({"connect", "packet", "release"})
      BY <1>a, <2>0 DEF TypeOK
    <2> QED  BY <1>a, <1>13, <2>1, RefusedConn, StrandTail, PlainStep
             DEF OnStrand, PendingInv, TypeOK
  <1> QED  BY <1>1, <1>2, <1>3, <1>4, <1>5, <1>6, <1>7, <1>8, <1>9, <1>10, <1>11, <1>12, <1>13
           DEF StrandStep

\* An operation or a timer that completes.
LEMMA CompleteStep ==
  ASSUME TypeInv, NEW kind, NEW what, Complete(kind, what), Handler(kind, what, 0) \in Handlers,
         kind = "written" => conn.writing, kind \in {"header", "body"} => conn.reading # "none"
  PROVE  /\ strand' \in Seq(Handlers) /\ strand' # <<>>
         /\ Single(strand', W) /\ Single(strand', R)
         /\ Has(strand', W) <=> Has(strand, W) \/ kind = "written"
         /\ Has(strand', R) <=> Has(strand, R) \/ kind \in {"header", "body"}
  <1> DEFINE h == Handler(kind, what, 0)
  <1>1. h \in Handlers /\ h.kind = kind /\ strand' = Append(strand, h)
    BY DEF Complete, Handler
  <1> HIDE DEF h
  <1>2. (h \in W <=> kind = "written") /\ (h \in R <=> kind \in {"header", "body"})
    BY <1>1 DEF W, R
  <1>3. (h \in W => ~Has(strand, W)) /\ (h \in R => ~Has(strand, R))
    BY <1>2 DEF TypeInv, PendingInv
  <1>4. strand' # <<>>
    BY <1>1 DEF TypeInv, TypeOK
  <1> QED  BY <1>1, <1>2, <1>3, <1>4, StrandAppend

LEMMA NetworkStep ==
  ASSUME TypeInv, Network \/ ReadTimeout \/ WriteTimeout
  PROVE  TypeInv'
  <1>a. /\ conn \in ConnType /\ TypeOK /\ PendingInv /\ FreshInv
        /\ packets \in 0 .. MaxPackets /\ MaxPackets \in Nat
    BY ConnectionAssumption DEF TypeInv, TypeOK, ConnType
  <1>1. ASSUME NEW what \in {"ok", "error"}, conn.reading # "none", Complete(conn.reading, what),
               conn' = [conn EXCEPT !.reading = "none"], packets' \in 0 .. MaxPackets,
               UNCHANGED <<peerGone, posted, sent, queued, written>>
        PROVE  TypeInv'
    <2>1. conn.reading \in {"header", "body"} /\ Handler(conn.reading, what, 0) \in Handlers
      BY <1>a, <1>1 DEF ConnType, Reads, Handler, Handlers
    <2>2. /\ strand' \in Seq(Handlers) /\ Single(strand', W) /\ Single(strand', R)
          /\ Has(strand', W) <=> Has(strand, W)
      BY <1>1, <2>1, CompleteStep
    <2>3. /\ conn' \in ConnType /\ conn'.accepted = conn.accepted /\ conn'.reading = "none"
          /\ conn'.writing = conn.writing /\ conn'.messageQueue = conn.messageQueue
      BY <1>a, <1>1 DEF ConnType, Reads
    <2>4. conn.accepted
      BY <1>a, <1>1 DEF FreshInv
    <2> QED  BY <1>a, <1>1, <2>2, <2>3, <2>4 DEF TypeInv, TypeOK, ConnType, PendingInv, FreshInv
  <1>2. CASE ReadSucceeds
    <2>1. conn.reading = "body" => packets < MaxPackets
      BY <1>2 DEF ReadSucceeds
    <2>2. packets' = IF conn.reading = "body" THEN packets + 1 ELSE packets
      BY <1>2 DEF ReadSucceeds
    <2>3. packets' \in 0 .. MaxPackets
      BY <1>a, <2>1, <2>2
    <2> QED  BY <1>1, <1>2, <2>3 DEF ReadSucceeds
  <1>3. CASE ReadFails
    BY <1>a, <1>1, <1>3 DEF ReadFails
  <1>4. ASSUME NEW what \in {"ok", "error"}, conn.writing, Complete("written", what),
               conn' = [conn EXCEPT !.writing = FALSE], written' \in Seq(Messages),
               peerGone' \in BOOLEAN, UNCHANGED <<packets, posted, sent, queued>>
        PROVE  TypeInv'
    <2>1. Handler("written", what, 0) \in Handlers
      BY <1>4 DEF Handler, Handlers
    <2>2. /\ strand' \in Seq(Handlers) /\ Single(strand', W) /\ Single(strand', R)
          /\ Has(strand', W) /\ (Has(strand', R) <=> Has(strand, R))
      BY <1>4, <2>1, CompleteStep
    <2>3. /\ conn' \in ConnType /\ conn'.accepted = conn.accepted /\ ~conn'.writing
          /\ conn'.reading = conn.reading /\ conn'.messageQueue = conn.messageQueue
      BY <1>a, <1>4 DEF ConnType
    <2>4. conn.accepted
      BY <1>a, <1>4 DEF FreshInv
    <2> QED  BY <1>a, <1>4, <2>2, <2>3, <2>4 DEF TypeInv, TypeOK, ConnType, PendingInv, FreshInv
  <1>5. CASE WriteSucceeds
    <2>1. conn.messageQueue \in Seq(Messages) /\ conn.messageQueue # <<>>
      BY <1>a, <1>5 DEF WriteSucceeds, PendingInv, ConnType
    <2>2. written' = Append(written, Head(conn.messageQueue))
      BY <1>5 DEF WriteSucceeds
    <2>3. written' \in Seq(Messages)
      BY <1>a, <2>1, <2>2 DEF TypeOK
    <2> QED  BY <1>a, <1>4, <1>5, <2>3 DEF WriteSucceeds, TypeOK
  <1>6. CASE WriteFails
    BY <1>a, <1>4, <1>6 DEF WriteFails, TypeOK
  <1>7. ASSUME Complete("timeout", ""), conn.accepted,
               \/ conn' = [conn EXCEPT !.readTimer = FALSE]
               \/ conn' = [conn EXCEPT !.writeTimer = FALSE],
               UNCHANGED <<peerGone, packets, posted, sent, queued, written>>
        PROVE  TypeInv'
    <2>1. Handler("timeout", "", 0) \in Handlers
      BY Zenon DEF Handler, Handlers
    <2>2. /\ strand' \in Seq(Handlers) /\ Single(strand', W) /\ Single(strand', R)
          /\ (Has(strand', W) <=> Has(strand, W)) /\ (Has(strand', R) <=> Has(strand, R))
      BY <1>7, <2>1, CompleteStep
    <2>3. /\ conn' \in ConnType /\ conn'.accepted = conn.accepted /\ conn'.writing = conn.writing
          /\ conn'.reading = conn.reading /\ conn'.messageQueue = conn.messageQueue
      BY <1>a, <1>7 DEF ConnType
    <2> QED  BY <1>a, <1>7, <2>2, <2>3 DEF TypeInv, TypeOK, ConnType, PendingInv, FreshInv
  <1>8. CASE ReadTimeout
    BY <1>a, <1>7, <1>8 DEF ReadTimeout, FreshInv
  <1>9. CASE WriteTimeout
    BY <1>a, <1>7, <1>9 DEF WriteTimeout, FreshInv
  <1> QED  BY <1>2, <1>3, <1>5, <1>6, <1>8, <1>9 DEF Network

LEMMA OtherStep ==
  ASSUME TypeInv,
         \/ \E first \in BOOLEAN : Accept(first)
         \/ Refuse
         \/ \E m \in Messages : GameSend(m)
         \/ GameDisconnect
         \/ CloseAll
  PROVE  TypeInv'
  <1>a. conn \in ConnType /\ TypeOK /\ PendingInv /\ FreshInv
    BY DEF TypeInv, TypeOK, ConnType
  <1>b. ASSUME ~conn.accepted
        PROVE  /\ ~Has(strand, W) /\ ~Has(strand, R) /\ ~conn.writing
               /\ conn.reading = "none" /\ conn.messageQueue = <<>>
    BY <1>a, <1>b DEF FreshInv, PendingInv, Has
  <1>1. ASSUME NEW first \in BOOLEAN, Accept(first) PROVE TypeInv'
    <2> DEFINE d == [conn EXCEPT !.accepted = TRUE, !.protocol = first]
    <2>1. ~conn.accepted /\ conn' = ReadNext(d, "header")
          /\ posted' = (IF first THEN Append(posted, "connect") ELSE posted)
          /\ UNCHANGED <<strand, peerGone, packets, sent, queued, written>>
      BY <1>1 DEF Accept
    <2>2. d \in ConnType /\ d.accepted /\ d.messageQueue = conn.messageQueue
          /\ d.writing = conn.writing
      BY <1>a DEF ConnType
    <2> HIDE DEF d
    <2>3. posted' \in Seq({"connect", "packet", "release"})
      BY <1>a, <2>1 DEF TypeOK
    <2>4. conn' \in ConnType /\ conn'.accepted /\ conn'.messageQueue = conn.messageQueue
          /\ conn'.writing = conn.writing
      BY <2>1, <2>2, ReadNextTypes DEF Reads
    <2> QED  BY <1>a, <1>b, <2>1, <2>3, <2>4, PlainStep DEF PendingInv, TypeOK
  <1>2. CASE Refuse
    <2> DEFINE d == [conn EXCEPT !.accepted = TRUE]
    <2>1. ~conn.accepted /\ Close(d, TRUE)
          /\ UNCHANGED <<strand, peerGone, packets, sent, queued, written>>
      BY <1>2 DEF Refuse
    <2>2. d \in ConnType /\ d.accepted /\ d.messageQueue = conn.messageQueue
          /\ d.writing = conn.writing /\ d.reading = conn.reading
      BY <1>a DEF ConnType
    <2> HIDE DEF d
    <2> QED  BY <1>a, <1>b, <2>1, <2>2, CloseStep DEF PendingInv, TypeOK
  <1>3. ASSUME NEW m \in Messages, GameSend(m) PROVE TypeInv'
    <2> DEFINE h == Handler("send", "", m)
    <2>1. conn.protocol /\ strand' = Append(strand, h) /\ sent' = m
          /\ UNCHANGED <<conn, peerGone, packets, posted, queued, written>>
      BY <1>3 DEF GameSend
    <2>2. h \in Handlers /\ h.kind = "send"
      <3>1. [kind |-> "send", what |-> "", message |-> m]
               \in [kind : {"send"}, what : {""}, message : Messages]
        BY Zenon
      <3> QED  BY <3>1, Zenon DEF Handler, Handlers
    <2> HIDE DEF h
    <2>3. h \notin W /\ h \notin R
      BY <2>2 DEF W, R
    <2>4. /\ strand' \in Seq(Handlers) /\ Single(strand', W) /\ Single(strand', R)
          /\ (Has(strand', W) <=> Has(strand, W)) /\ (Has(strand', R) <=> Has(strand, R))
      BY <2>1, <2>2, <2>3, StrandAppend
    <2>5. conn.accepted /\ sent' \in 0 .. MaxMessages
      BY <1>a, <2>1, ConnectionAssumption DEF FreshInv, Messages
    <2> QED  BY <1>a, <2>1, <2>4, <2>5, PlainStep DEF PendingInv, TypeOK
  <1>4. CASE GameDisconnect
    <2>1. conn.protocol /\ Complete("close", "")
          /\ UNCHANGED <<conn, peerGone, packets, posted, sent, queued, written>>
      BY <1>4 DEF GameDisconnect
    <2>2. Handler("close", "", 0) \in Handlers
      BY Zenon DEF Handler, Handlers
    <2>3. /\ strand' \in Seq(Handlers) /\ Single(strand', W) /\ Single(strand', R)
          /\ (Has(strand', W) <=> Has(strand, W)) /\ (Has(strand', R) <=> Has(strand, R))
      <3>1. Complete("close", "")
        BY <2>1
      <3>2. "close" # "written" /\ "close" \notin {"header", "body"}
        OBVIOUS
      <3> QED  BY <2>2, <3>1, <3>2, CompleteStep, Zenon
    <2>4. conn.accepted
      BY <1>a, <2>1 DEF FreshInv
    <2> QED  BY <1>a, <2>1, <2>3, <2>4, PlainStep DEF PendingInv, TypeOK
  <1>5. CASE CloseAll
    <2>1. /\ conn' = [conn EXCEPT !.managed = FALSE, !.socketOpen = FALSE]
          /\ UNCHANGED <<strand, peerGone, packets, posted, sent, queued, written>>
      BY <1>5 DEF CloseAll
    <2>2. /\ conn' \in ConnType /\ conn'.accepted = conn.accepted /\ conn'.writing = conn.writing
          /\ conn'.reading = conn.reading /\ conn'.messageQueue = conn.messageQueue
          /\ conn'.readTimer = conn.readTimer /\ conn'.writeTimer = conn.writeTimer
          /\ conn'.protocol = conn.protocol /\ conn'.closed = conn.closed
      BY <1>a, <2>1 DEF ConnType
    <2> QED  BY <1>a, <2>1, <2>2 DEF TypeInv, TypeOK, ConnType, PendingInv, FreshInv
  <1> QED  BY <1>1, <1>2, <1>3, <1>4, <1>5

LEMMA TypeStep ==
  ASSUME TypeInv, [Next]_vars
  PROVE  TypeInv'
  <1>1. CASE UNCHANGED vars
    BY <1>1 DEF vars, TypeInv, TypeOK, FreshInv, PendingInv
  <1> QED  BY <1>1, HandlerStep, NetworkStep, OtherStep DEF Next

\* Type correctness of a connection: in particular it never takes a message
\* off an empty queue, whatever a close or an error has done to it.
THEOREM ConnectionTypes == Spec => []TypeOK
  <1>1. TypeInv /\ [Next]_vars => TypeInv'
    BY TypeStep
  <1> QED  BY TypeInit, <1>1, PTL DEF Spec, TypeInv

-----------------------------------------------------------------------------
\* The tasks of the protocol change in one of three ways.
NothingPosted == UNCHANGED posted /\ (conn'.closed /\ conn'.protocol <=> conn.closed /\ conn.protocol)
WorkPosted ==
    /\ ~conn.closed /\ ~conn'.closed
    /\ \E x \in {"connect", "packet"} : posted' = Append(posted, x)
ReleasePosted ==
    /\ ~(conn.closed /\ conn.protocol) /\ conn'.closed /\ conn'.protocol
    /\ posted' = Append(posted, "release")

LEMMA ReleaseCases ==
  ASSUME TypeOK, ReleasedLast, NothingPosted \/ WorkPosted \/ ReleasePosted
  PROVE  ReleasedLast'
  <1>a. posted \in Seq({"connect", "packet", "release"})
    BY DEF TypeOK
  <1>1. CASE NothingPosted
    BY <1>1 DEF NothingPosted, ReleasedLast
  <1>2. ASSUME NEW x \in {"connect", "packet", "release"}, posted' = Append(posted, x),
               ~(conn.closed /\ conn.protocol),
               conn'.closed /\ conn'.protocol <=> x = "release"
        PROVE  ReleasedLast'
    <2>1. /\ Len(posted) \in Nat /\ Len(posted') = Len(posted) + 1 /\ posted'[Len(posted) + 1] = x
          /\ \A n \in 1 .. Len(posted) : posted'[n] = posted[n]
      BY <1>a, <1>2
    <2>2. \A n \in 1 .. Len(posted) : posted[n] # "release"
      BY <1>a, <1>2 DEF ReleasedLast, ToSet
    <2>3. \A n \in 1 .. Len(posted') : posted'[n] = "release" => n = Len(posted')
      BY <2>1, <2>2
    <2>4. "release" \in ToSet(posted') <=> x = "release"
      BY <2>1, <2>2 DEF ToSet
    <2> QED  BY <1>2, <2>3, <2>4 DEF ReleasedLast
  <1>3. CASE WorkPosted
    BY <1>2, <1>3 DEF WorkPosted
  <1>4. CASE ReleasePosted
    BY <1>2, <1>4 DEF ReleasePosted
  <1> QED  BY <1>1, <1>3, <1>4

\* A close posts the release if there is a protocol and it is the first.
LEMMA CloseReleases ==
  ASSUME TypeOK, NEW c \in ConnType, NEW force \in BOOLEAN, Close(c, force),
         c.protocol = conn.protocol, c.closed = conn.closed
  PROVE  NothingPosted \/ ReleasePosted
  BY CloseKeeps DEF NothingPosted, ReleasePosted

LEMMA ReleaseStep ==
  ASSUME TypeInv, ReleasedLast, [Next]_vars
  PROVE  ReleasedLast'
  <1> DEFINE c == [conn EXCEPT !.readTimer = FALSE]
  <1>a. conn \in ConnType /\ TypeOK /\ FreshInv
    BY DEF TypeInv, TypeOK, ConnType
  <1>c. c \in ConnType /\ c.protocol = conn.protocol /\ c.closed = conn.closed
    BY QuietConn
  <1> HIDE DEF c
  <1>1. CASE StrandStep
    <2>1. CASE ParseHeaderError \/ ParsePacketError \/ NoProtocol
      <3>1. Close(c, TRUE)
        BY <2>1 DEF ParseHeaderError, ParsePacketError, NoProtocol, c
      <3> QED  BY <1>a, <1>c, <3>1, CloseReleases, ReleaseCases
    <2>2. CASE ParseHeader
      <3>1. CASE conn' = c /\ UNCHANGED posted
        BY <1>a, <1>c, <3>1, ReleaseCases DEF NothingPosted
      <3>2. ASSUME NEW force \in BOOLEAN, Close(c, force) PROVE ReleasedLast'
        BY <1>a, <1>c, <3>2, CloseReleases, ReleaseCases
      <3>3. CASE conn' = ReadNext(c, "body") /\ UNCHANGED posted
        BY <1>a, <1>c, <3>3, ReadNextTypes, ReleaseCases DEF NothingPosted, Reads
      <3> QED  BY <2>2, <3>1, <3>2, <3>3 DEF ParseHeader, c
    <2>3. CASE DropPacket
      BY <1>a, <1>c, <2>3, ReleaseCases DEF DropPacket, NothingPosted, c
    <2>4. CASE ParsePacket
      <3> DEFINE d == [conn EXCEPT !.protocol = TRUE]
      <3>1. ~conn.closed /\ conn' = ReadNext(d, "header")
            /\ posted' \in {posted, Append(posted, "packet")}
        BY <2>4 DEF ParsePacket, MayDeliver
      <3>2. d \in ConnType /\ d.closed = conn.closed
        BY <1>a DEF ConnType
      <3> HIDE DEF d
      <3>3. ~conn'.closed
        BY <3>1, <3>2, ReadNextTypes DEF Reads
      <3> QED  BY <1>a, <3>1, <3>3, ReleaseCases DEF NothingPosted, WorkPosted
    <2>5. ASSUME NEW m \in Messages, RefusePacket(m) PROVE ReleasedLast'
      <3> DEFINE d == [conn EXCEPT !.protocol = TRUE]
                 e == Enqueue(d, m)
                 f == CloseNow(e, FALSE)
      <3>1. ~conn.closed /\ conn' = ReadNext(f, "header") /\ posted' = Append(posted, "release")
        BY <2>5 DEF RefusePacket, MayDeliver
      <3>2. d \in ConnType /\ d.protocol
        BY <1>a DEF ConnType
      <3> HIDE DEF d
      <3>3. e \in ConnType /\ e.protocol
        BY <3>2, EnqueueTypes
      <3> HIDE DEF e
      <3>4. f \in ConnType /\ f.protocol /\ f.closed
        BY <3>3 DEF CloseNow, CloseSocket, ConnType
      <3> HIDE DEF f
      <3>5. conn'.closed /\ conn'.protocol
        BY <3>1, <3>4, ReadNextTypes DEF Reads
      <3> QED  BY <1>a, <3>1, <3>5, ReleaseCases DEF ReleasePosted
    <2>6. ASSUME NEW m \in Messages, Send(m) PROVE ReleasedLast'
      <3>1. conn' \in {conn, Enqueue(conn, m)} /\ UNCHANGED posted
        BY <2>6 DEF Send
      <3>2. conn'.protocol = conn.protocol /\ conn'.closed = conn.closed
        <4>1. Enqueue(conn, m).protocol = conn.protocol /\ Enqueue(conn, m).closed = conn.closed
          BY <1>a, EnqueueTypes
        <4> QED  BY <3>1, <4>1
      <3> QED  BY <1>a, <3>1, <3>2, ReleaseCases DEF NothingPosted
    <2>7. CASE OnClose
      BY <1>a, <2>7, CloseReleases, ReleaseCases DEF OnClose
    <2>8. CASE OnWriteOperation
      <3> DEFINE d == [conn EXCEPT !.writeTimer = FALSE, !.messageQueue = Tail(@)]
      <3>1. conn' \in {d, InternalSend(d), CloseSocket(d)} /\ UNCHANGED posted
        BY <2>8 DEF OnWriteOperation, Drained
      <3>2. d.protocol = conn.protocol /\ d.closed = conn.closed
        BY <1>a DEF ConnType
      <3>3. conn'.protocol = conn.protocol /\ conn'.closed = conn.closed
        BY <1>a, <3>1, <3>2 DEF InternalSend, CloseSocket, ConnType
      <3> QED  BY <1>a, <3>1, <3>3, ReleaseCases DEF NothingPosted
    <2>9. CASE OnWriteError
      <3> DEFINE d == [conn EXCEPT !.writeTimer = FALSE, !.messageQueue = <<>>]
      <3>1. Close(d, TRUE)
        BY <2>9 DEF OnWriteError
      <3>2. d \in ConnType /\ d.protocol = conn.protocol /\ d.closed = conn.closed
        <4> DEFINE g == [conn EXCEPT !.writeTimer = FALSE]
        <4>1. g \in ConnType /\ g.protocol = conn.protocol /\ g.closed = conn.closed
              /\ d = [g EXCEPT !.messageQueue = <<>>]
          BY <1>a DEF ConnType
        <4> HIDE DEF g
        <4>2. <<>> \in Seq(Messages)
          OBVIOUS
        <4> QED  BY <4>1, <4>2 DEF ConnType
      <3> HIDE DEF d
      <3> QED  BY <1>a, <3>1, <3>2, CloseReleases, ReleaseCases
    <2>10. CASE HandleTimeout
      <3>1. CASE Close(conn, TRUE)
        BY <1>a, <3>1, CloseReleases, ReleaseCases
      <3>2. CASE UNCHANGED <<conn, posted>>
        BY <1>a, <3>2, ReleaseCases DEF NothingPosted
      <3> QED  BY <2>10, <3>1, <3>2 DEF HandleTimeout
    <2>11. CASE RefuseSilently
      BY <1>a, <2>11, RefusedConn, ReleaseCases DEF ReleasePosted
    <2> QED  BY <1>1, <2>1, <2>2, <2>3, <2>4, <2>5, <2>6, <2>7, <2>8, <2>9, <2>10,
               <2>11 DEF StrandStep
  <1>2. CASE Network \/ ReadTimeout \/ WriteTimeout \/ CloseAll \/ GameDisconnect \/ UNCHANGED vars
    <2>1. conn'.protocol = conn.protocol /\ conn'.closed = conn.closed /\ UNCHANGED posted
      BY <1>a, <1>2 DEF Network, ReadSucceeds, ReadFails, WriteSucceeds, WriteFails, ReadTimeout,
                        WriteTimeout, CloseAll, GameDisconnect, vars, ConnType
    <2> QED  BY <1>a, <2>1, ReleaseCases DEF NothingPosted
  <1>3. ASSUME NEW first \in BOOLEAN, Accept(first) PROVE ReleasedLast'
    <2> DEFINE d == [conn EXCEPT !.accepted = TRUE, !.protocol = first]
    <2>1. ~conn.accepted /\ conn' = ReadNext(d, "header")
          /\ posted' = (IF first THEN Append(posted, "connect") ELSE posted)
      BY <1>3 DEF Accept
    <2>2. d \in ConnType /\ d.closed = conn.closed
      BY <1>a DEF ConnType
    <2> HIDE DEF d
    <2>3. ~conn.closed /\ ~conn'.closed
      BY <1>a, <2>1, <2>2, ReadNextTypes DEF FreshInv, Reads
    <2> QED  BY <1>a, <2>1, <2>3, ReleaseCases DEF NothingPosted, WorkPosted
  <1>4. CASE Refuse
    <2> DEFINE d == [conn EXCEPT !.accepted = TRUE]
    <2>1. Close(d, TRUE)
      BY <1>4 DEF Refuse
    <2>2. d \in ConnType /\ d.protocol = conn.protocol /\ d.closed = conn.closed
      BY <1>a DEF ConnType
    <2> HIDE DEF d
    <2> QED  BY <1>a, <2>1, <2>2, CloseReleases, ReleaseCases
  <1>5. ASSUME NEW m \in Messages, GameSend(m) PROVE ReleasedLast'
    BY <1>a, <1>5, ReleaseCases DEF GameSend, NothingPosted
  <1> QED  BY <1>1, <1>2, <1>3, <1>4, <1>5 DEF Next

\* A protocol is released once, when its connection is closed, and it is
\* asked for nothing after that: the release is the last task posted for it.
THEOREM ConnectionReleasedLast == Spec => []ReleasedLast
  <1>1. Init => ReleasedLast
    BY DEF Init, ReleasedLast, ToSet
  <1>2. TypeInv /\ ReleasedLast /\ [Next]_vars => TypeInv' /\ ReleasedLast'
    BY TypeStep, ReleaseStep
  <1> QED  BY TypeInit, <1>1, <1>2, PTL DEF Spec

-----------------------------------------------------------------------------
\* What has been queued and neither written nor dropped.
Unwritten == IF Has(strand, Ok) THEN Tail(conn.messageQueue) ELSE conn.messageQueue

HistoryInv ==
    \/ queued = written \o Unwritten
    \/ conn.closed /\ conn.messageQueue = <<>> /\ IsPrefix(written, queued)

LEMMA OkTail ==
  ASSUME TypeInv, strand # <<>>, strand' = Tail(strand)
  PROVE  /\ Has(strand', Ok) <=> Has(strand, Ok) /\ Head(strand) \notin Ok
         /\ Head(strand) \in Ok => Has(strand, Ok)
         /\ Head(strand) \in Ok <=> Head(strand).kind = "written" /\ Head(strand).what = "ok"
         /\ Head(strand).kind = "written" /\ Head(strand) \notin Ok => ~Has(strand, Ok)
  <1>1. strand \in Seq(Handlers) /\ Single(strand, W)
    BY DEF TypeInv, TypeOK, PendingInv
  <1>2. Ok \subseteq W
    BY DEF Ok, W
  <1>3. Single(strand, Ok)
    BY <1>1, <1>2 DEF Single
  <1>4. Has(Tail(strand), Ok) <=> Has(strand, Ok) /\ Head(strand) \notin Ok
    BY <1>1, <1>3, TailHas
  <1>5. Head(strand) \in Handlers /\ Head(strand) = strand[1] /\ 1 \in 1 .. Len(strand)
    BY <1>1
  <1>6. ASSUME Head(strand) \in W, Has(strand, Ok) PROVE Head(strand) \in Ok
    BY <1>1, <1>2, <1>5, <1>6 DEF Has, Single
  <1> QED  BY <1>4, <1>5, <1>6 DEF Has, Ok, W

LEMMA OkAppend ==
  ASSUME TypeInv, NEW h \in Handlers, strand' = Append(strand, h), h \in Ok => ~Has(strand, W)
  PROVE  Has(strand', Ok) <=> Has(strand, Ok) \/ h \in Ok
  <1>1. strand \in Seq(Handlers) /\ Single(strand, W)
    BY DEF TypeInv, TypeOK, PendingInv
  <1>2. Ok \subseteq W
    BY DEF Ok, W
  <1>3. Single(strand, Ok) /\ (h \in Ok => ~Has(strand, Ok))
    BY <1>1, <1>2 DEF Single, Has
  <1> QED  BY <1>1, <1>3, AppendHas

LEMMA ConcatPrefix ==
  ASSUME NEW s \in Seq(Messages), NEW t \in Seq(Messages)
  PROVE  IsPrefix(s, s \o t)
  <1>1. Len(s) <= Len(s \o t) /\ \A n \in 1 .. Len(s) : (s \o t)[n] = s[n]
    OBVIOUS
  <1>2. SubSeq(s, 1, Len(s)) = SubSeq(s \o t, 1, Len(s))
    BY <1>1
  <1> QED  BY <1>1, <1>2 DEF IsPrefix

LEMMA HistoryPrefix ==
  ASSUME TypeInv, HistoryInv
  PROVE  WrittenInOrder
  <1>1. CASE queued = written \o Unwritten
    <2>1. written \in Seq(Messages) /\ conn.messageQueue \in Seq(Messages)
      BY DEF TypeInv, TypeOK
    <2>2. Has(strand, Ok) => conn.messageQueue # <<>>
      BY DEF TypeInv, PendingInv, Has, Ok, W
    <2>3. Unwritten \in Seq(Messages)
      BY <2>1, <2>2 DEF Unwritten
    <2> QED  BY <1>1, <2>1, <2>3, ConcatPrefix DEF WrittenInOrder
  <1>2. CASE conn.closed /\ conn.messageQueue = <<>> /\ IsPrefix(written, queued)
    BY <1>2 DEF WrittenInOrder
  <1> QED  BY <1>1, <1>2 DEF HistoryInv

\* Most steps leave the messages alone.
LEMMA HistoryKept ==
  ASSUME HistoryInv, conn'.messageQueue = conn.messageQueue, Has(strand', Ok) <=> Has(strand, Ok),
         conn.closed => conn'.closed, UNCHANGED <<queued, written>>
  PROVE  HistoryInv'
  BY DEF HistoryInv, Unwritten

\* A message that is queued.
LEMMA HistoryQueued ==
  ASSUME TypeInv, HistoryInv, NEW m \in Messages, ~conn.closed,
         conn'.messageQueue = Append(conn.messageQueue, m), queued' = Append(queued, m),
         Has(strand', Ok) <=> Has(strand, Ok), UNCHANGED written
  PROVE  HistoryInv'
  <1>1. queued = written \o Unwritten
    BY DEF HistoryInv
  <1>2. /\ written \in Seq(Messages) /\ conn.messageQueue \in Seq(Messages)
        /\ Has(strand, Ok) => conn.messageQueue # <<>>
    BY DEF TypeInv, TypeOK, PendingInv, Has, Ok, W
  <1>3. Unwritten \in Seq(Messages) /\ Unwritten' = Append(Unwritten, m)
    BY <1>2 DEF Unwritten
  <1>4. written \o Append(Unwritten, m) = Append(written \o Unwritten, m)
    BY <1>2, <1>3
  <1> QED  BY <1>1, <1>3, <1>4 DEF HistoryInv

\* The first of what waits becomes the last of what is written.
LEMMA FirstMoves ==
  ASSUME NEW s \in Seq(Messages), NEW t \in Seq(Messages), t # <<>>
  PROVE  s \o t = Append(s, Head(t)) \o Tail(t)
  <1>1. Head(t) \in Messages /\ Tail(t) \in Seq(Messages) /\ <<Head(t)>> \in Seq(Messages)
    OBVIOUS
  <1>2. t = <<Head(t)>> \o Tail(t)
    <2>1. 1 \in 1 .. Len(t) /\ Len(t) \in 1 .. Len(t) /\ Head(t) = t[1]
      OBVIOUS
    <2>2. SubSeq(t, 1, Len(t)) = <<t[1]>> \o SubSeq(t, 1 + 1, Len(t))
      BY <2>1, SubSeqRecursiveFirst
    <2>3. SubSeq(t, 1, Len(t)) = t /\ Tail(t) = SubSeq(t, 2, Len(t))
      BY SubSeqFull, TailIsSubSeq
    <2> QED  BY <2>1, <2>2, <2>3
  <1>3. Append(s, Head(t)) = s \o <<Head(t)>>
    BY <1>1, AppendIsConcat
  <1>4. (s \o <<Head(t)>>) \o Tail(t) = s \o (<<Head(t)>> \o Tail(t))
    BY <1>1, ConcatAssociative
  <1> QED  BY <1>2, <1>3, <1>4

LEMMA HistoryStep ==
  ASSUME TypeInv, HistoryInv, [Next]_vars
  PROVE  HistoryInv'
  <1> DEFINE c == [conn EXCEPT !.readTimer = FALSE]
  <1>a. conn \in ConnType /\ TypeOK /\ FreshInv /\ PendingInv
    BY DEF TypeInv, TypeOK, ConnType
  <1>c. c \in ConnType /\ c.messageQueue = conn.messageQueue /\ c.closed = conn.closed
    BY QuietConn
  <1>k. ASSUME NEW kind, NEW what, OnStrand(kind, what), kind # "written"
        PROVE  Has(strand', Ok) <=> Has(strand, Ok)
    BY <1>k, OkTail DEF OnStrand
  <1>h. ASSUME NEW h \in Handlers, strand' = Append(strand, h), h.kind # "written"
        PROVE  Has(strand', Ok) <=> Has(strand, Ok)
    BY <1>h, OkAppend DEF Ok
  <1> HIDE DEF c
  <1>1. CASE StrandStep
    <2>1. CASE ParseHeaderError \/ ParsePacketError \/ NoProtocol
      <3>1. Close(c, TRUE) /\ (\E kind \in {"header", "body"}, what \in {"ok", "error"} :
                                  OnStrand(kind, what))
            /\ UNCHANGED <<queued, written>>
        BY <2>1 DEF ParseHeaderError, ParsePacketError, NoProtocol, c
      <3>2. Has(strand', Ok) <=> Has(strand, Ok)
        BY <1>k, <3>1
      <3> QED  BY <1>a, <1>c, <3>1, <3>2, CloseKeeps, HistoryKept
    <2>2. CASE ParseHeader
      <3>1. OnStrand("header", "ok") /\ UNCHANGED <<queued, written>>
        BY <2>2 DEF ParseHeader
      <3>2. Has(strand', Ok) <=> Has(strand, Ok)
        BY <1>k, <3>1
      <3>3. CASE conn' = c
        BY <1>a, <1>c, <3>1, <3>2, <3>3, HistoryKept
      <3>4. ASSUME NEW force \in BOOLEAN, Close(c, force) PROVE HistoryInv'
        BY <1>a, <1>c, <3>1, <3>2, <3>4, CloseKeeps, HistoryKept
      <3>5. CASE conn' = ReadNext(c, "body")
        BY <1>a, <1>c, <3>1, <3>2, <3>5, ReadNextTypes, HistoryKept DEF Reads
      <3> QED  BY <2>2, <3>3, <3>4, <3>5 DEF ParseHeader, c
    <2>3. CASE DropPacket
      <3>1. OnStrand("body", "ok") /\ conn' = c /\ UNCHANGED <<queued, written>>
        BY <2>3 DEF DropPacket, c
      <3>2. Has(strand', Ok) <=> Has(strand, Ok)
        BY <1>k, <3>1
      <3> QED  BY <1>c, <3>1, <3>2, HistoryKept
    <2>4. CASE ParsePacket
      <3> DEFINE d == [conn EXCEPT !.protocol = TRUE]
      <3>1. OnStrand("body", "ok") /\ conn' = ReadNext(d, "header") /\ UNCHANGED <<queued, written>>
        BY <2>4 DEF ParsePacket
      <3>2. d \in ConnType /\ d.messageQueue = conn.messageQueue /\ d.closed = conn.closed
        BY <1>a DEF ConnType
      <3> HIDE DEF d
      <3>3. Has(strand', Ok) <=> Has(strand, Ok)
        BY <1>k, <3>1
      <3>4. conn'.messageQueue = conn.messageQueue /\ conn'.closed = conn.closed
        BY <3>1, <3>2, ReadNextTypes DEF Reads
      <3> QED  BY <3>1, <3>3, <3>4, HistoryKept
    <2>5. ASSUME NEW m \in Messages, RefusePacket(m) PROVE HistoryInv'
      <3> DEFINE d == [conn EXCEPT !.protocol = TRUE]
                 e == Enqueue(d, m)
                 f == CloseNow(e, FALSE)
      <3>1. OnStrand("body", "ok") /\ ~conn.closed /\ conn' = ReadNext(f, "header")
            /\ queued' = Append(queued, m) /\ UNCHANGED written
        BY <2>5 DEF RefusePacket, MayDeliver
      <3>2. d \in ConnType /\ d.messageQueue = conn.messageQueue
        BY <1>a DEF ConnType
      <3> HIDE DEF d
      <3>3. e \in ConnType /\ e.messageQueue = Append(conn.messageQueue, m)
        <4>1. Enqueue(d, m) \in ConnType /\ Enqueue(d, m).messageQueue = Append(d.messageQueue, m)
          BY <3>2, EnqueueTypes
        <4> QED  BY <3>2, <4>1
      <3> HIDE DEF e
      <3>4. f \in ConnType /\ f.messageQueue = e.messageQueue
        BY <3>3 DEF CloseNow, CloseSocket, ConnType
      <3> HIDE DEF f
      <3>5. conn'.messageQueue = Append(conn.messageQueue, m)
        BY <3>1, <3>3, <3>4, ReadNextTypes DEF Reads
      <3>6. Has(strand', Ok) <=> Has(strand, Ok)
        BY <1>k, <3>1
      <3> QED  BY <3>1, <3>5, <3>6, HistoryQueued
    <2>6. ASSUME NEW m \in Messages, Send(m) PROVE HistoryInv'
      <3>1. OnStrand("send", "") /\ UNCHANGED written
        BY <2>6 DEF Send
      <3>2. Has(strand', Ok) <=> Has(strand, Ok)
        <4>1. "send" # "written"
          OBVIOUS
        <4> QED  BY <1>k, <3>1, <4>1, Zenon
      <3>3. CASE conn.closed
        <4>1. UNCHANGED <<conn, queued>>
          BY <2>6, <3>3 DEF Send
        <4> QED  BY <3>1, <3>2, <4>1, HistoryKept
      <3>4. CASE ~conn.closed
        <4>1. conn' = Enqueue(conn, m) /\ queued' = Append(queued, m)
          BY <2>6, <3>4 DEF Send
        <4>2. conn'.messageQueue = Append(conn.messageQueue, m)
          BY <1>a, <4>1, EnqueueTypes
        <4> QED  BY <3>1, <3>2, <3>4, <4>1, <4>2, HistoryQueued
      <3> QED  BY <3>3, <3>4
    <2>7. CASE OnClose
      <3>1. OnStrand("close", "") /\ Close(conn, FALSE) /\ UNCHANGED <<queued, written>>
        BY <2>7 DEF OnClose
      <3>2. Has(strand', Ok) <=> Has(strand, Ok)
        <4>1. "close" # "written"
          OBVIOUS
        <4> QED  BY <1>k, <3>1, <4>1, Zenon
      <3>3. conn'.messageQueue = conn.messageQueue /\ conn'.closed = TRUE
        BY <1>a, <3>1, CloseKeeps
      <3> QED  BY <3>1, <3>2, <3>3, HistoryKept
    <2>8. CASE OnWriteOperation
      <3> DEFINE d == [conn EXCEPT !.writeTimer = FALSE, !.messageQueue = Tail(@)]
      <3>1. OnStrand("written", "ok")
            /\ conn' \in {d, InternalSend(d), CloseSocket(d)} /\ UNCHANGED <<queued, written>>
        BY <2>8 DEF OnWriteOperation, Drained
      <3>2. d.messageQueue = Tail(conn.messageQueue)
        BY <1>a DEF ConnType
      <3>3. conn'.messageQueue = Tail(conn.messageQueue)
        BY <1>a, <3>1, <3>2 DEF InternalSend, CloseSocket, ConnType
      <3>4. Has(strand, Ok) /\ ~Has(strand', Ok)
        BY <3>1, OkTail DEF OnStrand
      <3>5. conn.messageQueue # <<>>
        BY <1>a, <3>4 DEF PendingInv, Has, Ok, W
      <3>6. queued = written \o Tail(conn.messageQueue)
        BY <3>4, <3>5 DEF HistoryInv, Unwritten
      <3> QED  BY <3>1, <3>3, <3>4, <3>6 DEF HistoryInv, Unwritten
    <2>9. CASE OnWriteError
      <3> DEFINE d == [conn EXCEPT !.writeTimer = FALSE, !.messageQueue = <<>>]
      <3>1. Close(d, TRUE) /\ UNCHANGED <<queued, written>>
        BY <2>9 DEF OnWriteError
      <3>2. d \in ConnType /\ d.messageQueue = <<>>
        <4> DEFINE g == [conn EXCEPT !.writeTimer = FALSE]
        <4>1. g \in ConnType /\ d = [g EXCEPT !.messageQueue = <<>>]
          BY <1>a DEF ConnType
        <4> HIDE DEF g
        <4>2. <<>> \in Seq(Messages)
          OBVIOUS
        <4> QED  BY <4>1, <4>2 DEF ConnType
      <3> HIDE DEF d
      <3>3. conn'.messageQueue = <<>> /\ conn'.closed = TRUE
        BY <1>a, <3>1, <3>2, CloseKeeps
      <3>4. IsPrefix(written, queued)
        BY HistoryPrefix DEF WrittenInOrder
      <3> QED  BY <3>1, <3>3, <3>4 DEF HistoryInv
    <2>10. CASE HandleTimeout
      <3>1. OnStrand("timeout", "") /\ UNCHANGED <<queued, written>>
        BY <2>10 DEF HandleTimeout
      <3>2. Has(strand', Ok) <=> Has(strand, Ok)
        <4>1. "timeout" # "written"
          OBVIOUS
        <4> QED  BY <1>k, <3>1, <4>1, Zenon
      <3>3. CASE Close(conn, TRUE)
        <4>1. conn'.messageQueue = conn.messageQueue /\ conn'.closed = TRUE
          BY <1>a, <3>3, CloseKeeps
        <4> QED  BY <3>1, <3>2, <4>1, HistoryKept
      <3>4. CASE UNCHANGED <<conn, posted>>
        BY <3>1, <3>2, <3>4, HistoryKept
      <3> QED  BY <2>10, <3>3, <3>4 DEF HandleTimeout
    <2>11. CASE RefuseSilently
      <3>1. Has(strand', Ok) <=> Has(strand, Ok)
        BY <1>k, <2>11, RefusedConn
      <3> QED  BY <2>11, <3>1, RefusedConn, HistoryKept
    <2> QED  BY <1>1, <2>1, <2>2, <2>3, <2>4, <2>5, <2>6, <2>7, <2>8, <2>9, <2>10,
               <2>11 DEF StrandStep
  <1>2. CASE Network
    <2>1. CASE ReadSucceeds \/ ReadFails
      <3>1. PICK what \in {"ok", "error"} :
               /\ conn.reading # "none" /\ Complete(conn.reading, what)
               /\ conn' = [conn EXCEPT !.reading = "none"] /\ UNCHANGED <<queued, written>>
        BY <2>1 DEF ReadSucceeds, ReadFails
      <3>2. /\ Handler(conn.reading, what, 0) \in Handlers
            /\ Handler(conn.reading, what, 0).kind # "written"
        BY <1>a, <3>1 DEF ConnType, Reads, Handler, Handlers
      <3>3. Has(strand', Ok) <=> Has(strand, Ok)
        BY <1>h, <3>1, <3>2 DEF Complete
      <3>4. conn'.messageQueue = conn.messageQueue /\ conn'.closed = conn.closed
        BY <1>a, <3>1 DEF ConnType
      <3> QED  BY <3>1, <3>3, <3>4, HistoryKept
    <2>2. CASE WriteSucceeds
      <3> DEFINE h == Handler("written", "ok", 0)
      <3>1. conn.writing /\ strand' = Append(strand, h) /\ conn' = [conn EXCEPT !.writing = FALSE]
            /\ written' = Append(written, Head(conn.messageQueue)) /\ UNCHANGED queued
        BY <2>2 DEF WriteSucceeds, Complete
      <3>2. h \in Handlers /\ h \in Ok
        BY DEF Handler, Handlers, Ok
      <3> HIDE DEF h
      <3>3. ~Has(strand, W) /\ conn.messageQueue # <<>>
        BY <1>a, <3>1 DEF PendingInv
      <3>4. Has(strand', Ok) /\ ~Has(strand, Ok)
        BY <3>1, <3>2, <3>3, OkAppend DEF Has, Ok, W
      <3>5. conn'.messageQueue = conn.messageQueue
        BY <1>a, <3>1 DEF ConnType
      <3>6. written \in Seq(Messages) /\ conn.messageQueue \in Seq(Messages)
        BY <1>a DEF TypeOK
      <3>7. queued = written \o conn.messageQueue
        BY <3>3, <3>4 DEF HistoryInv, Unwritten
      <3>8. written \o conn.messageQueue
               = Append(written, Head(conn.messageQueue)) \o Tail(conn.messageQueue)
        BY <3>3, <3>6, FirstMoves
      <3> QED  BY <3>1, <3>4, <3>5, <3>7, <3>8 DEF HistoryInv, Unwritten
    <2>3. CASE WriteFails
      <3> DEFINE h == Handler("written", "error", 0)
      <3>1. strand' = Append(strand, h) /\ conn' = [conn EXCEPT !.writing = FALSE]
            /\ UNCHANGED <<queued, written>>
        BY <2>3 DEF WriteFails, Complete
      <3>2. h \in Handlers /\ h \notin Ok
        BY DEF Handler, Handlers, Ok
      <3> HIDE DEF h
      <3>3. Has(strand', Ok) <=> Has(strand, Ok)
        BY <3>1, <3>2, OkAppend
      <3>4. conn'.messageQueue = conn.messageQueue /\ conn'.closed = conn.closed
        BY <1>a, <3>1 DEF ConnType
      <3> QED  BY <3>1, <3>3, <3>4, HistoryKept
    <2> QED  BY <1>2, <2>1, <2>2, <2>3 DEF Network
  <1>3. CASE ReadTimeout \/ WriteTimeout
    <2>1. strand' = Append(strand, Handler("timeout", "", 0)) /\ UNCHANGED <<queued, written>>
      BY <1>3 DEF ReadTimeout, WriteTimeout, Complete
    <2>2. Handler("timeout", "", 0) \in Handlers /\ Handler("timeout", "", 0).kind = "timeout"
      BY Zenon DEF Handler, Handlers
    <2>3. Has(strand', Ok) <=> Has(strand, Ok)
      <3>1. "timeout" # "written"
        OBVIOUS
      <3> QED  BY <1>h, <2>1, <2>2, <3>1, Zenon
    <2>4. conn'.messageQueue = conn.messageQueue /\ conn'.closed = conn.closed
      BY <1>a, <1>3 DEF ReadTimeout, WriteTimeout, ConnType
    <2> QED  BY <2>1, <2>3, <2>4, HistoryKept
  <1>4. CASE GameDisconnect
    <2>1. strand' = Append(strand, Handler("close", "", 0)) /\ UNCHANGED <<conn, queued, written>>
      BY <1>4 DEF GameDisconnect, Complete
    <2>2. Handler("close", "", 0) \in Handlers /\ Handler("close", "", 0).kind = "close"
      BY Zenon DEF Handler, Handlers
    <2>3. Has(strand', Ok) <=> Has(strand, Ok)
      <3>1. "close" # "written"
        OBVIOUS
      <3> QED  BY <1>h, <2>1, <2>2, <3>1, Zenon
    <2> QED  BY <2>1, <2>3, HistoryKept
  <1>5. ASSUME NEW m \in Messages, GameSend(m) PROVE HistoryInv'
    <2>1. strand' = Append(strand, Handler("send", "", m)) /\ UNCHANGED <<conn, queued, written>>
      BY <1>5 DEF GameSend
    <2>2. Handler("send", "", m) \in Handlers /\ Handler("send", "", m).kind = "send"
      <3>1. [kind |-> "send", what |-> "", message |-> m]
               \in [kind : {"send"}, what : {""}, message : Messages]
        BY <1>5, Zenon
      <3> QED  BY <3>1, Zenon DEF Handler, Handlers
    <2>3. Has(strand', Ok) <=> Has(strand, Ok)
      <3>1. "send" # "written"
        OBVIOUS
      <3> QED  BY <1>h, <2>1, <2>2, <3>1, Zenon
    <2> QED  BY <2>1, <2>3, HistoryKept
  <1>6. ASSUME NEW first \in BOOLEAN, Accept(first) PROVE HistoryInv'
    <2> DEFINE d == [conn EXCEPT !.accepted = TRUE, !.protocol = first]
    <2>1. conn' = ReadNext(d, "header") /\ UNCHANGED <<strand, queued, written>>
      BY <1>6 DEF Accept
    <2>2. d \in ConnType /\ d.messageQueue = conn.messageQueue /\ d.closed = conn.closed
      BY <1>a, <1>6 DEF ConnType
    <2> HIDE DEF d
    <2>3. conn'.messageQueue = conn.messageQueue /\ conn'.closed = conn.closed
      BY <2>1, <2>2, ReadNextTypes DEF Reads
    <2> QED  BY <2>1, <2>3, HistoryKept
  <1>7. CASE Refuse
    <2> DEFINE d == [conn EXCEPT !.accepted = TRUE]
    <2>1. Close(d, TRUE) /\ UNCHANGED <<strand, queued, written>>
      BY <1>7 DEF Refuse
    <2>2. d \in ConnType /\ d.messageQueue = conn.messageQueue
      BY <1>a DEF ConnType
    <2> HIDE DEF d
    <2>3. conn'.messageQueue = conn.messageQueue /\ conn'.closed = TRUE
      BY <1>a, <2>1, <2>2, CloseKeeps
    <2> QED  BY <2>1, <2>3, HistoryKept
  <1>8. CASE CloseAll \/ UNCHANGED vars
    <2>1. conn'.messageQueue = conn.messageQueue /\ conn'.closed = conn.closed
          /\ UNCHANGED <<strand, queued, written>>
      BY <1>a, <1>8 DEF CloseAll, vars, ConnType
    <2> QED  BY <2>1, HistoryKept
  <1> QED  BY <1>1, <1>2, <1>3, <1>4, <1>5, <1>6, <1>7, <1>8 DEF Next

\* The counts of OneOperation are those of what is pending.
LEMMA OneOperationHolds == TypeInv => OneOperation
  <1> SUFFICES ASSUME TypeInv PROVE OneOperation
    OBVIOUS
  <1>a. strand \in Seq(Handlers) /\ PendingInv
    BY DEF TypeInv, TypeOK
  <1>1. \A n \in 1 .. Len(strand) : strand[n] \in W <=> strand[n].kind = "written"
    BY <1>a DEF W
  <1>2. \A n \in 1 .. Len(strand) : strand[n] \in R <=> strand[n].kind \in {"header", "body"}
    BY <1>a DEF R
  <1>3. ASSUME NEW kind, \A n, m \in 1 .. Len(strand) :
                  strand[n].kind = kind /\ strand[m].kind = kind => n = m
        PROVE  Count(kind) = IF \E n \in 1 .. Len(strand) : strand[n].kind = kind THEN 1 ELSE 0
    <2> DEFINE N == {n \in 1 .. Len(strand) : strand[n].kind = kind}
    <2>1. CASE \E n \in 1 .. Len(strand) : strand[n].kind = kind
      <3>1. PICK n \in 1 .. Len(strand) : strand[n].kind = kind
        BY <2>1
      <3>2. N = {n}
        BY <1>3, <3>1
      <3> QED  BY <2>1, <3>2, FS_Singleton DEF Count
    <2>2. CASE ~\E n \in 1 .. Len(strand) : strand[n].kind = kind
      <3>1. N = {}
        BY <2>2
      <3> QED  BY <2>2, <3>1, FS_EmptySet DEF Count
    <2> QED  BY <2>1, <2>2
  <1>4. Count("written") = IF Has(strand, W) THEN 1 ELSE 0
    BY <1>a, <1>1, <1>3 DEF PendingInv, Single, Has
  <1>5. /\ Count("header") = IF \E n \in 1 .. Len(strand) : strand[n].kind = "header" THEN 1 ELSE 0
        /\ Count("body") = IF \E n \in 1 .. Len(strand) : strand[n].kind = "body" THEN 1 ELSE 0
    BY <1>a, <1>2, <1>3 DEF PendingInv, Single
  <1>6. Count("header") + Count("body") = IF Has(strand, R) THEN 1 ELSE 0
    <2>1. \A n, m \in 1 .. Len(strand) : ~(strand[n].kind = "header" /\ strand[m].kind = "body")
      BY <1>a, <1>2 DEF PendingInv, Single
    <2>2. Has(strand, R) <=> \/ \E n \in 1 .. Len(strand) : strand[n].kind = "header"
                             \/ \E n \in 1 .. Len(strand) : strand[n].kind = "body"
      BY <1>2 DEF Has
    <2> QED  BY <1>5, <2>1, <2>2
  <1> QED  BY <1>a, <1>4, <1>6 DEF OneOperation, PendingInv

\* Reads and writes never overlap on the socket, and the client gets the
\* messages in the order they were queued, without a gap, for any number of
\* them and whatever closes and timeouts come in between.
THEOREM ConnectionWritesInTurn == Spec => []WritesInTurn
  <1>1. Init => HistoryInv
    <2> SUFFICES ASSUME Init PROVE HistoryInv
      OBVIOUS
    <2>1. queued = <<>> /\ written = <<>> /\ conn.messageQueue = <<>> /\ ~Has(strand, Ok)
      BY DEF Init, Has
    <2>2. <<>> = <<>> \o <<>>
      OBVIOUS
    <2> QED  BY <2>1, <2>2 DEF HistoryInv, Unwritten
  <1>2. TypeInv /\ HistoryInv /\ [Next]_vars => TypeInv' /\ HistoryInv'
    BY TypeStep, HistoryStep
  <1>3. TypeInv /\ HistoryInv => WritesInTurn
    BY OneOperationHolds, HistoryPrefix DEF WritesInTurn
  <1> QED  BY TypeInit, <1>1, <1>2, <1>3, PTL DEF Spec

LEMMA CloseNowDrained ==
  ASSUME NEW c \in ConnType, c.socketOpen, ~CloseNow(c, FALSE).socketOpen
  PROVE  CloseNow(c, FALSE).messageQueue = <<>>
  BY DEF CloseNow, CloseSocket, ConnType

LEMMA GracefulStep ==
  ASSUME TypeInv,
         OnClose \/ OnWriteOperation \/ RefuseSilently \/ \E m \in Messages : RefusePacket(m),
         conn.socketOpen, ~conn'.socketOpen
  PROVE  conn'.messageQueue = <<>>
  <1>1. conn \in ConnType
    BY DEF TypeInv, TypeOK, ConnType
  <1>2. CASE OnClose
    <2>1. conn' = CloseNow(conn, FALSE)
      BY <1>2 DEF OnClose, Close
    <2> QED  BY <1>1, <2>1, CloseNowDrained
  <1>3. CASE OnWriteOperation
    <2> DEFINE c == [conn EXCEPT !.writeTimer = FALSE, !.messageQueue = Tail(@)]
    <2>1. conn' = IF c.messageQueue # <<>> THEN InternalSend(c) ELSE Drained(c)
      BY <1>3 DEF OnWriteOperation
    <2>2. c.socketOpen /\ InternalSend(c).socketOpen
      BY <1>1 DEF ConnType, InternalSend
    <2>3. Drained(c).messageQueue = c.messageQueue
      BY <1>1 DEF ConnType, Drained, CloseSocket
    <2> QED  BY <2>1, <2>2, <2>3
  <1>4. CASE \E m \in Messages : RefusePacket(m)
    <2>1. PICK m \in Messages : RefusePacket(m)
      BY <1>4
    <2> DEFINE c == Enqueue([conn EXCEPT !.protocol = TRUE], m)
    <2>2. [conn EXCEPT !.protocol = TRUE] \in ConnType
      BY <1>1 DEF ConnType
    <2>3. c \in ConnType /\ c.socketOpen
      <3>1. ASSUME NEW d \in ConnType, d.socketOpen
            PROVE  Enqueue(d, m) \in ConnType /\ Enqueue(d, m).socketOpen
        <4>1. Enqueue(d, m) \in ConnType
          BY EnqueueTypes
        <4>2. Enqueue(d, m).socketOpen
          BY <3>1 DEF ConnType, Enqueue, InternalSend
        <4> QED  BY <4>1, <4>2
      <3>2. [conn EXCEPT !.protocol = TRUE].socketOpen
        BY <1>1 DEF ConnType
      <3> QED  BY <2>2, <3>1, <3>2
    <2>4. conn' = ReadNext(CloseNow(c, FALSE), "header")
      BY <2>1 DEF RefusePacket
    <2> HIDE DEF c
    <2>5. CloseNow(c, FALSE) \in ConnType
      BY <2>3 DEF CloseNow, CloseSocket, ConnType
    <2>6. /\ conn'.socketOpen = CloseNow(c, FALSE).socketOpen
          /\ conn'.messageQueue = CloseNow(c, FALSE).messageQueue
      BY <2>4, <2>5 DEF ReadNext, ConnType
    <2> QED  BY <2>3, <2>6, CloseNowDrained
  <1>5. CASE RefuseSilently
    BY <1>5, RefusedConn
  <1> QED  BY <1>2, <1>3, <1>4, <1>5

\* A close that is not forced, by the game, by a refused packet or after the
\* last write, closes the socket only when no message is left to write.
THEOREM ConnectionGracefulClose == Spec => GracefulClose
  <1>1. TypeInv /\ [Next]_vars =>
          [ (OnClose \/ OnWriteOperation \/ RefuseSilently
               \/ \E m \in Messages : RefusePacket(m))
              /\ conn.socketOpen /\ ~conn'.socketOpen => conn'.messageQueue = <<>> ]_vars
    BY GracefulStep
  <1> QED  BY TypeInit, TypeStep, <1>1, PTL DEF Spec, GracefulClose

-----------------------------------------------------------------------------
(***************************************************************************)
(* Session.  The inductive invariant adds to the two properties what a     *)
(* pending task says of the objects it is for: a login finds its protocol  *)
(* and the player named after it untouched, and a release is the last task *)
(* of a closed connection.                                                 *)
(***************************************************************************)
\* The part of SessionTypeOK the proof needs: the waiting list plays no role in it.
LinkTypes ==
    /\ conns \in [Protocols -> {"open", "asked", "closed", "expired"}]
    /\ player \in [Protocols -> Players \cup {None}]
    /\ event \in [Protocols -> Players \cup {None}]
    /\ client \in [Players -> Protocols \cup {None}]
    /\ body \in [Players -> Guids \cup {None}]

\* What a connection may have posted: at most a login or a logout before the
\* release, and the release only once it is closed.
PostedInOrder ==
    /\ tasks \in [Protocols -> {<<>>, <<"login">>, <<"logout">>, <<"release">>,
                                <<"login", "release">>, <<"logout", "release">>}]
    /\ \A p \in Protocols :
          conns[p] \in {"open", "asked"} => tasks[p] \in {<<>>, <<"login">>, <<"logout">>}

\* A protocol whose login is pending has no player, and none was made for it.
FreshLogin ==
    \A p \in Protocols : NextTask(p, "login") =>
        player[p] = None /\ client[p] = None /\ event[p] = None /\ body[p] = None

\* A protocol that waits for its connect event has no player yet.
FreshEvent == \A p \in Protocols : event[p] # None => player[p] = None

LinkInv ==
    /\ LinkTypes
    /\ PostedInOrder
    /\ FreshLogin
    /\ FreshEvent
    /\ LinkedBothWays
    /\ NobodyForgotten

USE DEF Players

-----------------------------------------------------------------------------
LEMMA AppendOne == ASSUME NEW a, NEW b PROVE Append(<<a>>, b) = <<a, b>>
  <1> DEFINE S == {a, b}
  <1>1. <<a>> \in Seq(S) /\ b \in S /\ Len(<<a>>) = 1 /\ <<a>>[1] = a
    OBVIOUS
  <1>2. <<a, b>> \in Seq(S) /\ Len(<<a, b>>) = 2 /\ <<a, b>>[1] = a /\ <<a, b>>[2] = b
    OBVIOUS
  <1>3. /\ Append(<<a>>, b) \in Seq(S) /\ Len(Append(<<a>>, b)) = 2
        /\ Append(<<a>>, b)[1] = a /\ Append(<<a>>, b)[2] = b
    BY <1>1, AppendProperties
  <1>4. \A i \in 1 .. 2 : Append(<<a>>, b)[i] = <<a, b>>[i]
    BY <1>2, <1>3
  <1> HIDE DEF S
  <1> QED BY <1>2, <1>3, <1>4, SeqEqual

LEMMA TailOne == ASSUME NEW a, NEW b PROVE Tail(<<a, b>>) = <<b>>
  <1>1. Append(<<a>>, b) = <<a, b>>
    BY AppendOne
  <1>2. Tail(Append(<<a>>, b)) = Append(Tail(<<a>>), b)
    BY HeadTailAppend, <<a>> \in Seq({a}), <<a>> # <<>>
  <1>3. Tail(<<a>>) = <<>> /\ Append(<<>>, b) = <<b>>
    OBVIOUS
  <1> QED BY <1>1, <1>2, <1>3

LEMMA ShortSequences ==
    /\ Tail(<<"login">>) = <<>> /\ Tail(<<"login", "release">>) = <<"release">>
    /\ Tail(<<"logout">>) = <<>> /\ Tail(<<"logout", "release">>) = <<"release">>
    /\ Tail(<<"release">>) = <<>>
    /\ Append(<<>>, "release") = <<"release">>
    /\ Append(<<"login">>, "release") = <<"login", "release">>
    /\ Append(<<"logout">>, "release") = <<"logout", "release">>
  <1>1. Tail(<<"login">>) = <<>> /\ Tail(<<"logout">>) = <<>> /\ Tail(<<"release">>) = <<>>
    OBVIOUS
  <1>2. Append(<<>>, "release") = <<"release">>
    OBVIOUS
  <1> QED BY <1>1, <1>2, AppendOne, TailOne

\* Before the first connection there is nothing to link.
LEMMA LinkInit == SessionInit => LinkInv
  BY SessionAssumption
  DEF SessionInit, LinkInv, LinkTypes, PostedInOrder, FreshLogin, FreshEvent,
      LinkedBothWays, NobodyForgotten, NextTask

\* Steps that leave protocols, players and events alone: what the network
\* thread does, leaving the game, and the pool.
LEMMA LinkKept ==
    ASSUME LinkInv,
           \/ \E p \in Protocols : FirstMessage(p) \/ AskLogout(p) \/ CloseConnection(p)
                                   \/ ConnectionGone(p) \/ Logout(p)
           \/ \E o \in Players : KickNoPong(o) \/ KickIdle(o) \/ Die(o)
           \/ SendAll
           \/ UNCHANGED sessionVars
    PROVE  LinkInv'
  <1> USE SessionAssumption
           DEF LinkInv, LinkTypes, PostedInOrder, FreshLogin, FreshEvent,
               LinkedBothWays, NobodyForgotten, NextTask, Attached
  <1>1. ASSUME NEW p \in Protocols, FirstMessage(p) PROVE LinkInv'
    BY <1>1 DEF FirstMessage, Unused, linkVars, gameVars, poolVars, online
  <1>2. ASSUME NEW p \in Protocols, AskLogout(p) PROVE LinkInv'
    BY <1>2 DEF AskLogout, Listening, linkVars, gameVars, poolVars
  <1>3. ASSUME NEW p \in Protocols, CloseConnection(p) PROVE LinkInv'
    <2> USE <1>3 DEF CloseConnection, Listening, linkVars, gameVars, poolVars
    <2>1. tasks[p] \in {<<>>, <<"login">>, <<"logout">>}
      OBVIOUS
    <2>2. tasks' = [tasks EXCEPT ![p] = tasks'[p]] /\ tasks'[p] = Append(tasks[p], "release")
      OBVIOUS
    <2>3. PostedInOrder'
      <3>1. tasks'[p] \in {<<"release">>, <<"login", "release">>, <<"logout", "release">>}
        BY <2>1, <2>2, ShortSequences
      <3>2. /\ \A q \in Protocols \ {p} : conns'[q] = conns[q] /\ tasks'[q] = tasks[q]
            /\ conns'[p] = "closed"
        BY <2>2
      <3> QED  BY <2>2, <3>1, <3>2
    <2>4. \A q \in Protocols : NextTask(q, "login")' <=> NextTask(q, "login")
      BY <2>1, <2>2, ShortSequences
    <2> QED BY <2>3, <2>4
  <1>4. ASSUME NEW p \in Protocols, ConnectionGone(p) PROVE LinkInv'
    BY <1>4 DEF ConnectionGone, linkVars, gameVars, poolVars
  <1>5. ASSUME NEW p \in Protocols, Logout(p) PROVE LinkInv'
    <2> USE <1>5 DEF Logout, Done
    <2>1. /\ tasks[p] \in {<<"logout">>, <<"logout", "release">>}
          /\ tasks' = [tasks EXCEPT ![p] = Tail(@)]
      OBVIOUS
    <2>2. /\ tasks' = [tasks EXCEPT ![p] = tasks'[p]]
          /\ tasks[p] = <<"logout">> => tasks'[p] = <<>>
          /\ tasks[p] = <<"logout", "release">> => tasks'[p] = <<"release">>
      <3>1. tasks' = [tasks EXCEPT ![p] = tasks'[p]] /\ tasks'[p] = Tail(tasks[p])
        BY <2>1
      <3> QED BY <3>1, ShortSequences
    <2>3. /\ \A q \in Protocols : NextTask(q, "login")' <=> NextTask(q, "login")
          /\ UNCHANGED <<event, player, client>>
      BY <2>1, <2>2 DEF linkVars
    <2>4. /\ body' \in [Players -> Guids \cup {None}]
          /\ \A o \in Players : body'[o] \in {body[o], None}
          /\ conns' \in [Protocols -> {"open", "asked", "closed", "expired"}]
          /\ \A q \in Protocols : conns'[q] = "open" => conns[q] = "open"
          /\ \A q \in Protocols : conns'[q] \in {"open", "asked"} => conns[q] \in {"open", "asked"}
      BY DEF ForcedLogout, RemoveCreatures, Asked, gameVars
    <2>5. PostedInOrder'
      BY <2>1, <2>2, <2>4
    <2> QED BY <2>3, <2>4, <2>5
  <1>6. ASSUME NEW o \in Players, KickNoPong(o) PROVE LinkInv'
    BY <1>6 DEF KickNoPong, RemoveCreatures, Asked, linkVars, poolVars, online
  <1>7. ASSUME NEW o \in Players, KickIdle(o) PROVE LinkInv'
    BY <1>7 DEF KickIdle, ForcedLogout, RemoveCreatures, Asked, linkVars, poolVars, online
  <1>8. ASSUME NEW o \in Players, Die(o) PROVE LinkInv'
    BY <1>8 DEF Die, RemoveCreatures, linkVars, poolVars, online
  <1>9. CASE SendAll
    BY <1>9 DEF SendAll, linkVars, gameVars
  <1>10. CASE UNCHANGED sessionVars
    BY <1>10 DEF sessionVars
  <1> QED BY <1>1, <1>2, <1>3, <1>4, <1>5, <1>6, <1>7, <1>8, <1>9, <1>10

-----------------------------------------------------------------------------
\* A pending login is the last of its connection but for the release.
LEMMA LoginTask ==
    ASSUME PostedInOrder, NEW p \in Protocols, NextTask(p, "login"), Done(p)
    PROVE  /\ tasks'[p] \in {<<>>, <<"release">>}
           /\ tasks' = [tasks EXCEPT ![p] = tasks'[p]]
           /\ conns[p] \in {"open", "asked"} => tasks'[p] = <<>>
           /\ \A q \in Protocols : NextTask(q, "login")' <=> q # p /\ NextTask(q, "login")
  <1>1. tasks[p] \in {<<"login">>, <<"login", "release">>}
    BY DEF PostedInOrder, NextTask
  <1>2. /\ tasks' = [tasks EXCEPT ![p] = tasks'[p]]
        /\ tasks[p] = <<"login">> => tasks'[p] = <<>>
        /\ tasks[p] = <<"login", "release">> => tasks'[p] = <<"release">>
    BY <1>1, ShortSequences DEF PostedInOrder, Done
  <1>3. Head(<<"release">>) # "login" /\ Head(<<"login">>) = "login"
        /\ Head(<<"login", "release">>) = "login"
    OBVIOUS
  <1>4. tasks'[p] \in {<<>>, <<"release">>}
    BY <1>1, <1>2
  <1>5. conns[p] \in {"open", "asked"} => tasks[p] = <<"login">>
    BY <1>1 DEF PostedInOrder
  <1>6. \A q \in Protocols : NextTask(q, "login")' <=> q # p /\ NextTask(q, "login")
    BY <1>2, <1>3, <1>4 DEF PostedInOrder, NextTask
  <1> QED BY <1>2, <1>4, <1>5, <1>6

\* Asking for a connection to be closed is no news to the others.
LEMMA AskedTypes ==
    ASSUME LinkTypes, NEW P \in SUBSET Protocols
    PROVE  /\ Asked(P) \in [Protocols -> {"open", "asked", "closed", "expired"}]
           /\ \A q \in Protocols : /\ Asked(P)[q] = "open" => conns[q] = "open" /\ q \notin P
                                   /\ Asked(P)[q] \in {"open", "asked"}
                                         <=> conns[q] \in {"open", "asked"}
  BY DEF LinkTypes, Asked

\* A login that fails, waits or comes in makes a player that belongs to it.
LEMMA LinkMade ==
    ASSUME LinkInv, NEW p \in Protocols, NEW g \in Guids,
           LoginFails(p, g) \/ LoginWaits(p, g) \/ EnterGame(p, g)
    PROVE  LinkInv'
  <1> USE DEF LinkInv
  <1>1. MakePlayer(p, g)
    BY DEF LoginFails, LoginWaits, EnterGame
  <1>2. conns' \in {conns, Asked({p})}
    BY DEF LoginFails, LoginWaits, EnterGame
  <1>3. body' \in {body, [body EXCEPT ![p] = g]}
    BY DEF LoginFails, LoginWaits, EnterGame
  <1>4. /\ tasks'[p] \in {<<>>, <<"release">>}
        /\ tasks' = [tasks EXCEPT ![p] = tasks'[p]]
        /\ conns[p] \in {"open", "asked"} => tasks'[p] = <<>>
        /\ \A q \in Protocols : NextTask(q, "login")' <=> q # p /\ NextTask(q, "login")
    BY <1>1, LoginTask DEF MakePlayer
  <1>5. player[p] = None /\ client[p] = None /\ event[p] = None
    BY <1>1 DEF FreshLogin, MakePlayer
  <1>6. /\ player' = [player EXCEPT ![p] = p]
        /\ client' = [client EXCEPT ![p] = p]
        /\ event' = event
    BY <1>1 DEF MakePlayer
  <1>7. LinkTypes'
    BY <1>2, <1>3, <1>6, AskedTypes DEF LinkTypes
  <1>8. PostedInOrder'
    BY <1>2, <1>4, AskedTypes DEF PostedInOrder, LinkTypes
  <1>9. FreshLogin' /\ FreshEvent'
    BY <1>3, <1>4, <1>5, <1>6 DEF FreshLogin, FreshEvent, LinkTypes
  <1>10. LinkedBothWays'
    BY <1>5, <1>6, SessionAssumption DEF LinkedBothWays, LinkTypes
  <1>11. NobodyForgotten'
    BY <1>2, <1>4, <1>5, <1>6, AskedTypes, SessionAssumption
    DEF NobodyForgotten, LinkTypes, Attached, LinkedBothWays
  <1> QED BY <1>7, <1>8, <1>9, <1>10, <1>11

\* connect(), from a login or from an event: it links both sides or neither,
\* and a connection it does not link is asked to close or gone.
LEMMA LinkConnected ==
    ASSUME LinkInv, NEW p \in Protocols, NEW o \in Players,
           player[p] = None, Connect(p, o)
    PROVE  /\ conns' \in {conns, Asked({p})}
           /\ \/ UNCHANGED linkVars /\ conns'[p] # "open"
              \/ /\ o \in online /\ client[o] = None
                 /\ player' = [player EXCEPT ![p] = o]
                 /\ client' = [client EXCEPT ![o] = p]
  BY DEF LinkInv, LinkTypes, Connect, Asked

LEMMA LinkReconnect ==
    ASSUME LinkInv, NEW p \in Protocols, NEW o \in Players,
           Reconnect(p, o) \/ (event[p] = o /\ ConnectEvent(p))
    PROVE  LinkInv'
  <1> USE DEF LinkInv
  <1>1. /\ Connect(p, o) /\ body' = body /\ player[p] = None
        /\ event' = [event EXCEPT ![p] = None]
    BY SessionAssumption
    DEF Reconnect, ConnectEvent, FreshLogin, FreshEvent, LinkTypes
  <1>2. /\ conns' \in {conns, Asked({p})}
        /\ \/ UNCHANGED linkVars /\ conns'[p] # "open"
           \/ /\ o \in online /\ client[o] = None
              /\ player' = [player EXCEPT ![p] = o]
              /\ client' = [client EXCEPT ![o] = p]
    BY <1>1, LinkConnected
  <1>3. /\ tasks' = [tasks EXCEPT ![p] = tasks'[p]]
        /\ tasks'[p] = tasks[p] \/ tasks'[p] \in {<<>>, <<"release">>}
        /\ conns[p] \in {"open", "asked"} =>
              tasks'[p] \in {<<>>, <<"login">>, <<"logout">>}
        /\ \A q \in Protocols : NextTask(q, "login")' =>
              NextTask(q, "login") /\ (q # p \/ tasks' = tasks)
        /\ \A q \in Protocols \ {p} : NextTask(q, "login") => NextTask(q, "login")'
    <2>1. CASE Reconnect(p, o)
      BY <2>1, LoginTask DEF Reconnect
    <2>2. CASE event[p] = o /\ ConnectEvent(p)
      BY <2>2 DEF ConnectEvent, PostedInOrder, NextTask
    <2> QED BY <2>1, <2>2
  <1>4. LinkTypes'
    BY <1>1, <1>2, AskedTypes DEF LinkTypes, linkVars
  <1>5. PostedInOrder'
    BY <1>2, <1>3, AskedTypes DEF PostedInOrder, LinkTypes
  <1>6. FreshLogin' /\ FreshEvent'
    <2>1. ~ NextTask(p, "login")'
      BY <1>3 DEF Reconnect, ConnectEvent, FreshLogin, NextTask, Done, PostedInOrder
    <2> QED BY <2>1, <1>1, <1>2, <1>3 DEF FreshLogin, FreshEvent, LinkTypes, linkVars, online
  <1>7. LinkedBothWays'
    BY <1>1, <1>2, SessionAssumption DEF LinkedBothWays, LinkTypes, linkVars
  <1>8. NobodyForgotten'
    BY <1>1, <1>2, <1>3, <1>7, AskedTypes, SessionAssumption
    DEF NobodyForgotten, LinkTypes, Attached, LinkedBothWays, linkVars
  <1> QED BY <1>4, <1>5, <1>6, <1>7, <1>8

\* A login that is refused before there is a player, or that takes a
\* character over: nothing is linked yet.
LEMMA LinkWaits ==
    ASSUME LinkInv, NEW p \in Protocols,
           RefuseLogin(p) \/ \E o \in Players : TakeOver(p, o)
    PROVE  LinkInv'
  <1> USE DEF LinkInv
  <1>1. NextTask(p, "login") /\ Done(p) /\ UNCHANGED <<player, client, body>>
    BY DEF RefuseLogin, TakeOver, linkVars, gameVars
  <1>2. /\ player[p] = None /\ client[p] = None /\ event[p] = None
        /\ \E P \in SUBSET Protocols :
              /\ conns' = Asked(P)
              /\ \/ event' = event /\ p \in P
                 \/ \E o \in Players : event' = [event EXCEPT ![p] = o]
    <2>1. player[p] = None /\ client[p] = None /\ event[p] = None
      BY <1>1 DEF FreshLogin
    <2>2. CASE RefuseLogin(p)
      BY <2>1, <2>2 DEF RefuseLogin
    <2>3. ASSUME NEW o \in Players, TakeOver(p, o) PROVE <1>2!2
      <3>1. {client[o]} \in SUBSET Protocols
        BY <2>3 DEF TakeOver, LinkTypes
      <3> QED BY <3>1, <2>3 DEF TakeOver
    <2> QED BY <2>1, <2>2, <2>3
  <1>3. /\ tasks'[p] \in {<<>>, <<"release">>}
        /\ tasks' = [tasks EXCEPT ![p] = tasks'[p]]
        /\ conns[p] \in {"open", "asked"} => tasks'[p] = <<>>
        /\ \A q \in Protocols : NextTask(q, "login")' <=> q # p /\ NextTask(q, "login")
    BY <1>1, LoginTask
  <1>4. LinkTypes'
    BY <1>1, <1>2, AskedTypes DEF LinkTypes, online
  <1>5. PostedInOrder'
    BY <1>2, <1>3, AskedTypes DEF PostedInOrder, LinkTypes
  <1>6. FreshLogin' /\ FreshEvent'
    BY <1>1, <1>2, <1>3 DEF FreshLogin, FreshEvent, LinkTypes
  <1>7. LinkedBothWays'
    BY <1>1 DEF LinkedBothWays
  <1>8. NobodyForgotten'
    BY <1>1, <1>2, <1>3, AskedTypes, SessionAssumption
    DEF NobodyForgotten, LinkTypes, Attached, online
  <1> QED BY <1>4, <1>5, <1>6, <1>7, <1>8

\* release() unlinks both sides of a closed connection.
LEMMA LinkReleased ==
    ASSUME LinkInv, NEW p \in Protocols, Release(p)
    PROVE  LinkInv'
  <1> USE DEF LinkInv
  <1>1. tasks[p] = <<"release">> /\ tasks' = [tasks EXCEPT ![p] = <<>>]
    <2>1. tasks[p] = <<"release">>
      BY DEF Release, NextTask, PostedInOrder
    <2>2. tasks' = [tasks EXCEPT ![p] = Tail(<<"release">>)]
      BY <2>1 DEF Release, Done
    <2> QED BY <2>1, <2>2, ShortSequences
  <1>2. /\ conns' = conns /\ event' = event /\ body' = body
        /\ conns[p] \notin {"open", "asked"}
    BY <1>1 DEF Release, PostedInOrder, gameVars
  <1>3. \/ UNCHANGED linkVars
        \/ /\ player[p] \in Players
           /\ client' = [client EXCEPT ![player[p]] = None]
           /\ player' = [player EXCEPT ![p] = None]
    BY DEF Release, Attached, LinkTypes
  <1>4. LinkTypes'
    BY <1>2, <1>3 DEF LinkTypes, linkVars
  <1>5. PostedInOrder' /\ \A q \in Protocols : NextTask(q, "login")' <=> NextTask(q, "login")
    BY <1>1, <1>2 DEF PostedInOrder, NextTask
  <1>6. FreshLogin' /\ FreshEvent'
    BY <1>2, <1>3, <1>5 DEF FreshLogin, FreshEvent, LinkTypes, linkVars
  <1>7. LinkedBothWays'
    BY <1>3, SessionAssumption DEF LinkedBothWays, LinkTypes, linkVars
  <1>8. NobodyForgotten'
    BY <1>2, <1>3, <1>5, <1>7, SessionAssumption
    DEF NobodyForgotten, LinkTypes, Attached, LinkedBothWays, linkVars
  <1> QED BY <1>4, <1>5, <1>6, <1>7, <1>8

LEMMA LinkStep == LinkInv /\ [SessionNext]_sessionVars => LinkInv'
  <1> SUFFICES ASSUME LinkInv, [SessionNext]_sessionVars PROVE LinkInv'
    OBVIOUS
  <1>1. ASSUME NEW p \in Protocols, RunTask(p) PROVE LinkInv'
    BY <1>1, LinkKept, LinkMade, LinkReconnect, LinkWaits, LinkReleased DEF RunTask, Login
  <1>2. ASSUME NEW p \in Protocols, ConnectEvent(p) PROVE LinkInv'
    BY <1>2, LinkReconnect DEF ConnectEvent, LinkInv, LinkTypes
  <1> QED BY <1>1, <1>2, LinkKept DEF SessionNext

-----------------------------------------------------------------------------
\* The pool: whoever may be served, now or after the connect event, is in it
\* from the login on, and a chain of sendAll goes on as long as anybody is.
PoolInv ==
    /\ chains \in Nat
    /\ buffered # {} => chains > 0
    /\ \A p \in Protocols :
          conns[p] = "open" /\ (event[p] # None \/ player[p] # None) => p \in buffered

\* Once a connection is not open it stays so, until it serves another client.
LEMMA StaysClosed ==
    ASSUME LinkInv, [SessionNext]_sessionVars, NEW p \in Protocols, conns'[p] = "open", ~FirstMessage(p)
    PROVE  conns[p] = "open"
  <1> USE DEF LinkInv, LinkTypes, Asked
  <1>1. ASSUME NEW q \in Protocols, FirstMessage(q) PROVE conns[p] = "open"
    BY <1>1 DEF FirstMessage
  <1>2. ASSUME NEW q \in Protocols, AskLogout(q) \/ CloseConnection(q) \/ ConnectionGone(q)
        PROVE  conns[p] = "open"
    BY <1>2 DEF AskLogout, CloseConnection, ConnectionGone
  <1>3. ASSUME NEW q \in Protocols, Logout(q) \/ Release(q) \/ RefuseLogin(q)
        PROVE  conns[p] = "open"
    BY <1>3 DEF Logout, ForcedLogout, Release, RefuseLogin
  <1>4. ASSUME NEW q \in Protocols, NEW g \in Guids,
               LoginFails(q, g) \/ LoginWaits(q, g) \/ EnterGame(q, g)
        PROVE  conns[p] = "open"
    BY <1>4 DEF LoginFails, LoginWaits, EnterGame
  <1>5. ASSUME NEW q \in Protocols, NEW o \in Players,
               Reconnect(q, o) \/ TakeOver(q, o)
        PROVE  conns[p] = "open"
    BY <1>5 DEF Reconnect, TakeOver, Connect
  <1>6. ASSUME NEW q \in Protocols, ConnectEvent(q) PROVE conns[p] = "open"
    BY <1>6 DEF ConnectEvent, Connect
  <1>7. ASSUME NEW o \in Players, KickNoPong(o) \/ KickIdle(o) \/ Die(o)
        PROVE  conns[p] = "open"
    BY <1>7 DEF KickNoPong, KickIdle, ForcedLogout, Die
  <1>8. CASE SendAll \/ UNCHANGED sessionVars
    BY <1>8 DEF SendAll, sessionVars
  <1> QED
    BY <1>1, <1>2, <1>3, <1>4, <1>5, <1>6, <1>7, <1>8 DEF SessionNext, RunTask, Login

LEMMA PoolJoined ==
    ASSUME PoolInv, NEW p \in Protocols, AddProtocolToAutosend(p)
    PROVE  /\ chains' \in Nat /\ (buffered' # {} => chains' > 0)
           /\ buffered' = buffered \cup {p}
  BY DEF PoolInv, AddProtocolToAutosend

LEMMA PoolStep == LinkInv /\ PoolInv /\ [SessionNext]_sessionVars => PoolInv'
  <1> SUFFICES ASSUME LinkInv, PoolInv, [SessionNext]_sessionVars PROVE PoolInv'
    OBVIOUS
  <1>1. ASSUME NEW p \in Protocols, FirstMessage(p) PROVE PoolInv'
    <2>1. /\ UNCHANGED <<event, player, buffered, chains>>
          /\ event[p] = None /\ player[p] = None
          /\ \A q \in Protocols \ {p} : conns'[q] = conns[q]
      BY <1>1 DEF FirstMessage, Unused, linkVars, poolVars, LinkInv, LinkTypes
    <2> QED BY <2>1 DEF PoolInv
  <1>2. ASSUME NEW p \in Protocols, NEW g \in Guids,
               LoginFails(p, g) \/ LoginWaits(p, g)
        PROVE  PoolInv'
    <2>1. /\ UNCHANGED <<event, buffered, chains>>
          /\ player' = [player EXCEPT ![p] = p]
          /\ conns' = Asked({p})
      BY <1>2 DEF LoginFails, LoginWaits, MakePlayer, poolVars
    <2>2. \A q \in Protocols : conns'[q] = "open" => q # p /\ conns[q] = "open"
      BY <2>1 DEF Asked
    <2> QED BY <2>1, <2>2 DEF PoolInv, LinkInv, LinkTypes
  <1>3. ASSUME NEW p \in Protocols, AddProtocolToAutosend(p),
               \A q \in Protocols \ {p} : event'[q] = event[q] /\ player'[q] = player[q],
               ~ \E q \in Protocols : FirstMessage(q)
        PROVE  PoolInv'
    <2>1. \A q \in Protocols : conns'[q] = "open" => conns[q] = "open"
      BY <1>3, StaysClosed
    <2> QED BY <1>3, <2>1, PoolJoined DEF PoolInv
  <1>4. ASSUME NEW p \in Protocols,
               \/ \E g \in Guids : EnterGame(p, g)
               \/ \E o \in Players : Reconnect(p, o) \/ TakeOver(p, o)
        PROVE  PoolInv'
    <2>1. /\ AddProtocolToAutosend(p)
          /\ \A q \in Protocols \ {p} : event'[q] = event[q] /\ player'[q] = player[q]
          /\ NextTask(p, "login") /\ Done(p)
      BY <1>4
      DEF EnterGame, MakePlayer, Reconnect, TakeOver, Connect, linkVars, LinkInv, LinkTypes
    <2>2. ~ \E q \in Protocols : FirstMessage(q)
      <3>1. \A q \in Protocols : FirstMessage(q) => NextTask(q, "login")' /\ tasks[q] = <<>>
        BY DEF FirstMessage, Unused, NextTask, LinkInv, PostedInOrder
      <3>2. \A q \in Protocols : NextTask(q, "login")' => NextTask(q, "login")
        BY <2>1, LoginTask DEF LinkInv
      <3> QED BY <3>1, <3>2 DEF NextTask
    <2> QED BY <2>1, <2>2, <1>3
  <1>5. ASSUME NEW p \in Protocols, ConnectEvent(p) PROVE PoolInv'
    <2>1. /\ UNCHANGED poolVars /\ event[p] # None /\ event' = [event EXCEPT ![p] = None]
          /\ \A q \in Protocols \ {p} : player'[q] = player[q]
          /\ \A q \in Protocols : conns'[q] = "open" => conns[q] = "open"
      BY <1>5 DEF ConnectEvent, Connect, Asked, linkVars, LinkInv, LinkTypes
    <2> QED BY <2>1 DEF PoolInv, LinkInv, LinkTypes, poolVars
  <1>6. ASSUME NEW p \in Protocols, Release(p) PROVE PoolInv'
    <2>1. conns[p] # "open"
      BY <1>6 DEF Release, NextTask, LinkInv, PostedInOrder
    <2>2. /\ UNCHANGED <<conns, event, chains>> /\ buffered' = buffered \ {p}
          /\ \A q \in Protocols \ {p} : player'[q] = player[q]
      BY <1>6 DEF Release, linkVars, LinkInv, LinkTypes
    <2> QED BY <2>1, <2>2 DEF PoolInv
  <1>7. CASE \/ \E p \in Protocols : AskLogout(p) \/ CloseConnection(p) \/ ConnectionGone(p)
                                     \/ Logout(p) \/ RefuseLogin(p)
             \/ \E o \in Players : KickNoPong(o) \/ KickIdle(o) \/ Die(o)
             \/ SendAll \/ UNCHANGED sessionVars
    <2>1. /\ UNCHANGED <<event, player, buffered>> /\ (chains' = chains \/ SendAll)
          /\ \A q \in Protocols : conns'[q] = "open" => conns[q] = "open"
      BY <1>7
      DEF AskLogout, CloseConnection, ConnectionGone, Logout, ForcedLogout, RefuseLogin, KickNoPong,
          KickIdle, Die, SendAll, Asked, sessionVars, linkVars, poolVars, LinkInv, LinkTypes
    <2> QED BY <2>1 DEF PoolInv, SendAll
  <1> QED
    BY <1>1, <1>2, <1>4, <1>5, <1>6, <1>7 DEF SessionNext, RunTask, Login

-----------------------------------------------------------------------------
\* A protocol and its player name each other or neither does, for every
\* number of connections and through every order of login, take-over, kick,
\* logout and release (protocolgame.cpp release, login, connect, logout).
THEOREM SessionLinkedBothWays == SessionSpec => []LinkedBothWays
  <1>1. SessionSpec => []LinkInv
    BY LinkInit, LinkStep, PTL DEF SessionSpec
  <1>2. LinkInv => LinkedBothWays
    BY DEF LinkInv
  <1> QED BY <1>1, <1>2, PTL

\* An open connection without a character always has its login or its connect
\* event ahead of it (protocolgame.cpp login, connect).
THEOREM SessionNobodyForgotten == SessionSpec => []NobodyForgotten
  <1>1. SessionSpec => []LinkInv
    BY LinkInit, LinkStep, PTL DEF SessionSpec
  <1>2. LinkInv => NobodyForgotten
    BY DEF LinkInv
  <1> QED BY <1>1, <1>2, PTL

\* Whoever plays over an open connection is in the autosend pool, and a pool
\* that is not empty has a sendAll event pending, whoever joins and leaves it
\* in between (outputmessage.cpp addProtocolToAutosend, sendAll).
THEOREM SessionAutosendServed == SessionSpec => []AutosendServed
  <1>1. SessionInit => PoolInv
    BY SessionAssumption DEF SessionInit, PoolInv
  <1>2. SessionSpec => [](LinkInv /\ PoolInv)
    BY LinkInit, LinkStep, PoolStep, <1>1, PTL DEF SessionSpec
  <1>3. LinkInv /\ PoolInv => AutosendServed
    BY SessionAssumption
    DEF LinkInv, LinkTypes, LinkedBothWays, PoolInv, AutosendServed, Live
  <1> QED BY <1>2, <1>3, PTL
=============================================================================
