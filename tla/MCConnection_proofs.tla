------------------------- MODULE MCConnection_proofs -------------------------
(***************************************************************************)
(* What is proved of the event loops: one connection and the buffers that  *)
(* feed it, the timers of the scheduler and the listening ports, each from *)
(* an inductive invariant of its component.  The parts of a behaviour of   *)
(* MCConnection are independent, so each invariant holds of all of them.   *)
(***************************************************************************)
EXTENDS MCConnection, CollectionFacts, SequenceTheorems, FiniteSetTheorems, TLAPS

-----------------------------------------------------------------------------
(* Connection: the invariant.                                              *)
ConnRecord == [exists : BOOLEAN, tracked : BOOLEAN, open : BOOLEAN,
               closed : BOOLEAN, started : BOOLEAN, protocol : BOOLEAN,
               queue : Seq(Message), read : Read,
               posted : 0 .. 1, write : Write,
               readTimer : Timer, writeTimer : Timer]

Flight(c) ==
    c.posted + (IF c.write = "none" THEN 0 ELSE 1) = IF c.queue = <<>> THEN 0 ELSE 1

Watched(c) ==
    ~c.closed =>
        /\ c.read \in {"header", "body"} => c.readTimer # {}
        /\ c.write = "writing" => c.writeTimer # {}

(* A connection that lost a message is closed.                             *)
ConnInv ==
    TypeOK /\ WriteInFlight /\ InOrder /\ ReleasedOnce /\ Guarded /\ (lost => conn.closed)

-----------------------------------------------------------------------------
(* Connection: what the member functions do to a state of it.              *)
LEMMA CloseSocketEffect ==
  ASSUME NEW c \in ConnRecord, NEW d, d = CloseSocket(c)
  PROVE  /\ d \in ConnRecord
         /\ d.closed = c.closed /\ d.protocol = c.protocol /\ d.queue = c.queue
         /\ d.posted = c.posted /\ d.read = c.read /\ d.write = c.write
         /\ d.open = FALSE
BY DEF CloseSocket, CancelReadTimer, CancelWriteTimer, ConnRecord, Timer

(* Connection::close: what it leaves alone, and that it closes.            *)
LEMMA CloseEffect ==
  ASSUME NEW c \in ConnRecord, NEW force \in BOOLEAN, NEW d, d = Close(c, force)
  PROVE  /\ d \in ConnRecord
         /\ d.closed = TRUE /\ d.protocol = c.protocol /\ d.queue = c.queue
         /\ d.posted = c.posted /\ d.read = c.read /\ d.write = c.write
<1> DEFINE marked == [c EXCEPT !.tracked = FALSE, !.closed = TRUE]
<1>1. /\ marked \in ConnRecord
      /\ marked.closed = TRUE /\ marked.protocol = c.protocol /\ marked.queue = c.queue
      /\ marked.posted = c.posted /\ marked.read = c.read /\ marked.write = c.write
  BY DEF ConnRecord
<1>2. CASE c.closed
  <2>1. d = [c EXCEPT !.tracked = FALSE]
    BY <1>2 DEF Close
  <2> QED
    BY <1>2, <2>1 DEF ConnRecord
<1>3. CASE ~c.closed
  <2>1. d = CloseSocket(marked) \/ d = marked
    BY <1>3 DEF Close
  <2> HIDE DEF marked
  <2> QED
    BY <1>1, <2>1, CloseSocketEffect
<1> QED
  BY <1>2, <1>3

(* The next read is started.                                               *)
LEMMA StartReadEffect ==
  ASSUME NEW c \in ConnRecord, NEW next \in Read, NEW d, d = StartRead(c, next)
  PROVE  /\ d \in ConnRecord /\ d.readTimer # {} /\ d.writeTimer = c.writeTimer
         /\ d.closed = c.closed /\ d.protocol = c.protocol /\ d.queue = c.queue
         /\ d.posted = c.posted /\ d.read = next /\ d.write = c.write
BY DEF StartRead, ConnRecord, Timer

(* The end of a read stops its timer.                                      *)
LEMMA ReadHandledEffect ==
  ASSUME TypeOK
  PROVE  /\ ReadHandled \in ConnRecord /\ ReadHandled.writeTimer = conn.writeTimer
         /\ ReadHandled.closed = conn.closed /\ ReadHandled.protocol = conn.protocol
         /\ ReadHandled.queue = conn.queue /\ ReadHandled.posted = conn.posted
         /\ ReadHandled.read = "none" /\ ReadHandled.write = conn.write
BY DEF ReadHandled, CancelReadTimer, TypeOK, ConnRecord, Read, Timer

(* The first message of the queue is written.                              *)
LEMMA InternalSendEffect ==
  ASSUME NEW c \in ConnRecord, NEW d, d = InternalSend(c)
  PROVE  /\ d \in ConnRecord /\ d.writeTimer # {} /\ d.readTimer = c.readTimer
         /\ d.closed = c.closed /\ d.protocol = c.protocol /\ d.queue = c.queue
         /\ d.posted = c.posted /\ d.read = c.read /\ d.write = "writing"
BY DEF InternalSend, ConnRecord, Write, Timer

(* A message is queued, and written if it is the first one.                *)
LEMMA SendEffect ==
  ASSUME NEW c \in ConnRecord, NEW m \in Message, ~c.closed, Flight(c),
         NEW d, d = Send(c, m)
  PROVE  /\ d \in ConnRecord /\ Flight(d)
         /\ d.writeTimer = c.writeTimer /\ d.readTimer = c.readTimer
         /\ d.closed = c.closed /\ d.protocol = c.protocol
         /\ d.queue = Append(c.queue, m) /\ d.read = c.read /\ d.write = c.write
<1>1. /\ c.queue \in Seq(Message) /\ c.posted \in 0 .. 1 /\ c.write \in Write
  BY DEF ConnRecord
<1>2. Append(c.queue, m) \in Seq(Message) /\ Append(c.queue, m) # <<>>
  BY <1>1, AppendProperties
<1>3. d = [c EXCEPT !.queue = Append(@, m),
                    !.posted = IF c.queue = <<>> THEN @ + 1 ELSE @]
  BY DEF Send
<1>4. (IF c.queue = <<>> THEN c.posted + 1 ELSE c.posted) \in 0 .. 1
  BY <1>1 DEF Flight
<1>5. /\ d \in ConnRecord /\ d.queue = Append(c.queue, m) /\ d.write = c.write
      /\ d.posted = IF c.queue = <<>> THEN c.posted + 1 ELSE c.posted
      /\ d.writeTimer = c.writeTimer /\ d.readTimer = c.readTimer
      /\ d.closed = c.closed /\ d.protocol = c.protocol /\ d.read = c.read
  BY <1>2, <1>3, <1>4 DEF ConnRecord
<1>6. Flight(d)
  BY <1>1, <1>2, <1>5 DEF Flight
<1> QED
  BY <1>5, <1>6

-----------------------------------------------------------------------------
(* Connection: the invariant is inductive.                                 *)
LEMMA ConnTyped ==
  ASSUME ConnInv
  PROVE  /\ conn \in ConnRecord /\ Flight(conn) /\ Watched(conn)
         /\ conn.queue \in Seq(Message) /\ accepted \in Seq(Message)
         /\ delivered \in Seq(Message) /\ releases \in Nat
BY DEF ConnInv, TypeOK, ConnRecord, WriteInFlight, Guarded, Flight, Watched

(* A step that ends in state c, having accepted the messages ms.           *)
LEMMA BecomesKeeps ==
  ASSUME ConnInv, NEW c \in ConnRecord, NEW ms \in Seq(Message), Becomes(c, ms),
         Flight(c), Watched(c),
         conn.closed => c.closed /\ c.protocol = conn.protocol,
         peer' \in BOOLEAN, packets' \in 0 .. MaxPackets,
         delivered' \in Seq(Message), lost' \in BOOLEAN,
         lost' => c.closed,
         IF lost'
         THEN delivered' = SubSeq(accepted', 1, Len(delivered')) /\ c.queue = <<>>
         ELSE accepted' = delivered' \o c.queue
  PROVE  ConnInv'
<1>1. /\ conn' = c /\ accepted' = accepted \o ms
      /\ releases' = releases + (IF c.closed /\ ~conn.closed /\ c.protocol THEN 1 ELSE 0)
  BY DEF Becomes
<1>2. accepted' \in Seq(Message)
  BY <1>1, ConnTyped, ConcatProperties
<1>3. ReleasedOnce' /\ releases' \in Nat
  <2>1. /\ releases = IF conn.closed /\ conn.protocol THEN 1 ELSE 0
        /\ c.closed \in BOOLEAN /\ c.protocol \in BOOLEAN
        /\ conn.closed \in BOOLEAN /\ conn.protocol \in BOOLEAN
    BY ConnTyped DEF ConnInv, ReleasedOnce, ConnRecord
  <2> QED
    BY <1>1, <2>1 DEF ReleasedOnce
<1>4. TypeOK'
  BY <1>1, <1>2, <1>3 DEF TypeOK, ConnRecord
<1>5. WriteInFlight' /\ Guarded' /\ InOrder'
  BY <1>1 DEF WriteInFlight, Guarded, InOrder, Flight, Watched
<1> QED
  BY <1>1, <1>3, <1>4, <1>5 DEF ConnInv

(* Most steps leave the messages alone.                                    *)
LEMMA QuietKeeps ==
  ASSUME ConnInv, NEW c \in ConnRecord, Becomes(c, <<>>), Flight(c), Watched(c),
         conn.closed => c.closed /\ c.protocol = conn.protocol, c.queue = conn.queue,
         UNCHANGED <<peer, packets, delivered, lost>>
  PROVE  ConnInv'
<1>1. <<>> \in Seq(Message)
  OBVIOUS
<1>2. accepted' = accepted
  BY ConnTyped, ConcatEmptySeq DEF Becomes
<1> QED
  BY <1>1, <1>2, BecomesKeeps DEF ConnInv, TypeOK, InOrder

(* A connection starts without reads, writes and timers.                   *)
LEMMA ConnInit == Init => ConnInv
<1> SUFFICES ASSUME Init PROVE ConnInv
  OBVIOUS
<1>1. <<>> \in Seq(Message) /\ <<>> = <<>> \o <<>>
  BY EmptySeq, ConcatEmptySeq
<1>2. TypeOK
  <2>1. conn \in ConnRecord
    BY <1>1 DEF Init, ConnRecord, Read, Write, Timer
  <2>2. packets \in 0 .. MaxPackets /\ releases \in Nat
    BY ConnectionAssumption DEF Init
  <2>3. peer \in BOOLEAN /\ lost \in BOOLEAN
    BY DEF Init
  <2>4. delivered \in Seq(Message) /\ accepted \in Seq(Message)
    BY <1>1 DEF Init
  <2> QED
    BY <2>1, <2>2, <2>3, <2>4, Zenon DEF TypeOK, ConnRecord
<1>3. WriteInFlight /\ InOrder /\ ReleasedOnce /\ Guarded /\ ~lost
  BY <1>1 DEF Init, WriteInFlight, InOrder, ReleasedOnce, Guarded
<1> QED
  BY <1>2, <1>3 DEF ConnInv

(* The io thread accepts the connection or reads a part of a packet.       *)
LEMMA AcceptKeeps == ConnInv /\ Accept => ConnInv'
<1> SUFFICES ASSUME ConnInv, Accept PROVE ConnInv'
  OBVIOUS
<1>1. /\ conn \in ConnRecord /\ Flight(conn) /\ Watched(conn) /\ ~conn.closed
      /\ UNCHANGED <<peer, packets, delivered, lost>>
  BY ConnTyped DEF Accept
<1>2. ASSUME NEW single \in BOOLEAN,
             Becomes(StartRead([conn EXCEPT !.started = TRUE, !.protocol = single], "header"), <<>>)
      PROVE  ConnInv'
  <2> DEFINE c == [conn EXCEPT !.started = TRUE, !.protocol = single]
             d == StartRead(c, "header")
  <2>1. /\ c \in ConnRecord /\ c.queue = conn.queue /\ c.posted = conn.posted
        /\ c.write = conn.write /\ c.writeTimer = conn.writeTimer /\ c.closed = conn.closed
    BY <1>1 DEF ConnRecord
  <2> HIDE DEF c
  <2>2. /\ d \in ConnRecord /\ d.readTimer # {} /\ d.writeTimer = c.writeTimer
        /\ d.queue = c.queue /\ d.posted = c.posted /\ d.write = c.write
    BY <2>1, StartReadEffect DEF Read
  <2>3. Flight(d) /\ Watched(d)
    BY <1>1, <2>1, <2>2 DEF Flight, Watched
  <2>4. Becomes(d, <<>>)
    BY <1>2 DEF c
  <2> HIDE DEF d
  <2> QED
    BY <1>1, <2>1, <2>2, <2>3, <2>4, QuietKeeps
<1>3. CASE Becomes(Close([conn EXCEPT !.started = TRUE], TRUE), <<>>)
  <2> DEFINE c == [conn EXCEPT !.started = TRUE]
             d == Close(c, TRUE)
  <2>1. /\ c \in ConnRecord /\ c.queue = conn.queue /\ c.posted = conn.posted
        /\ c.write = conn.write
    BY <1>1 DEF ConnRecord
  <2> HIDE DEF c
  <2>2. /\ d \in ConnRecord /\ d.closed = TRUE /\ d.queue = c.queue
        /\ d.posted = c.posted /\ d.write = c.write
    BY <2>1, CloseEffect
  <2>3. Flight(d) /\ Watched(d)
    BY <1>1, <2>1, <2>2 DEF Flight, Watched
  <2>4. Becomes(d, <<>>)
    BY <1>3 DEF c
  <2> HIDE DEF d
  <2> QED
    BY <1>1, <2>1, <2>2, <2>3, <2>4, QuietKeeps
<1> QED
  BY <1>2, <1>3 DEF Accept

(* A connection closed with nothing else changed.                          *)
LEMMA ClosedKeeps ==
  ASSUME ConnInv, NEW c \in ConnRecord, NEW force \in BOOLEAN, Becomes(Close(c, force), <<>>),
         c.queue = conn.queue, c.posted = conn.posted, c.write = conn.write,
         conn.closed => c.protocol = conn.protocol,
         UNCHANGED <<peer, packets, delivered, lost>>
  PROVE  ConnInv'
<1> DEFINE d == Close(c, force)
<1>1. /\ d \in ConnRecord /\ d.closed = TRUE /\ d.queue = c.queue
      /\ d.posted = c.posted /\ d.write = c.write /\ d.protocol = c.protocol
  BY ZenonT(60), CloseEffect
<1>2. Flight(d) /\ Watched(d) /\ Becomes(d, <<>>)
  BY <1>1, ConnTyped DEF Flight, Watched
<1> HIDE DEF d
<1> QED
  BY <1>1, <1>2, QuietKeeps

(* The next part of a packet is waited for, with a timer.                  *)
LEMMA ReadKeeps ==
  ASSUME ConnInv, NEW c \in ConnRecord, NEW next \in Read, Becomes(StartRead(c, next), <<>>),
         c.queue = conn.queue, c.posted = conn.posted, c.write = conn.write,
         c.writeTimer = conn.writeTimer, c.closed = conn.closed,
         conn.closed => c.protocol = conn.protocol,
         UNCHANGED <<peer, packets, delivered, lost>>
  PROVE  ConnInv'
<1> DEFINE d == StartRead(c, next)
<1>1. /\ d \in ConnRecord /\ d.readTimer # {} /\ d.writeTimer = c.writeTimer
      /\ d.queue = c.queue /\ d.posted = c.posted /\ d.write = c.write
      /\ d.closed = c.closed /\ d.protocol = c.protocol
  BY StartReadEffect
<1>2. Flight(d) /\ Watched(d) /\ Becomes(d, <<>>)
  BY <1>1, ConnTyped DEF Flight, Watched
<1> HIDE DEF d
<1> QED
  BY <1>1, <1>2, QuietKeeps

(* A read completes.                                                       *)
LEMMA ReadsKeep == ConnInv /\ (ReadFailed \/ ParseHeader) => ConnInv'
<1> SUFFICES ASSUME ConnInv, ReadFailed \/ ParseHeader PROVE ConnInv'
  OBVIOUS
<1> DEFINE c == ReadHandled
<1>1. /\ c \in ConnRecord /\ c.writeTimer = conn.writeTimer
      /\ c.closed = conn.closed /\ c.protocol = conn.protocol
      /\ c.queue = conn.queue /\ c.posted = conn.posted
      /\ c.read = "none" /\ c.write = conn.write
  BY ReadHandledEffect DEF ConnInv
<1>2. /\ UNCHANGED <<peer, packets, delivered, lost>>
      /\ \/ Becomes(c, <<>>)
         \/ \E force \in BOOLEAN : Becomes(Close(c, force), <<>>)
         \/ Becomes(StartRead(c, "body"), <<>>)
  BY DEF ReadFailed, ParseHeader
<1> HIDE DEF c
<1>3. CASE Becomes(c, <<>>)
  <2>1. Flight(c) /\ Watched(c)
    BY <1>1, ConnTyped DEF Flight, Watched
  <2> QED
    BY <1>1, <1>2, <1>3, <2>1, QuietKeeps
<1>4. ASSUME NEW force \in BOOLEAN, Becomes(Close(c, force), <<>>) PROVE ConnInv'
  BY <1>1, <1>2, <1>4, ClosedKeeps
<1>5. CASE Becomes(StartRead(c, "body"), <<>>)
  <2>1. PICK next \in Read : next = "body"
    BY DEF Read
  <2> QED
    BY <1>1, <1>2, <1>5, <2>1, ReadKeeps
<1> QED
  BY <1>2, <1>3, <1>4, <1>5

(* What is added behind the queue is added behind all that was accepted.   *)
LEMMA AppendLater ==
  ASSUME NEW V, NEW s \in Seq(V), NEW t \in Seq(V), NEW e \in V
  PROVE  (s \o t) \o <<e>> = s \o (t \o <<e>>)
<1>1. <<e>> \in Seq(V)
  OBVIOUS
<1>2. PICK u \in Seq(V) : u = <<e>>
  BY <1>1
<1>3. (s \o t) \o u = s \o (t \o u)
  BY ConcatAssociative
<1> QED
  BY <1>2, <1>3

(* The packet goes to the protocol, which may answer and disconnect.       *)
LEMMA ParsePacketKeeps == ConnInv /\ ParsePacket => ConnInv'
<1> SUFFICES ASSUME ConnInv, ParsePacket PROVE ConnInv'
  OBVIOUS
<1> DEFINE c == ReadHandled
           made == [c EXCEPT !.protocol = TRUE]
           m == NextMessage
<1>1. /\ c \in ConnRecord /\ c.writeTimer = conn.writeTimer
      /\ c.closed = conn.closed /\ c.protocol = conn.protocol
      /\ c.queue = conn.queue /\ c.posted = conn.posted
      /\ c.read = "none" /\ c.write = conn.write
  BY ReadHandledEffect DEF ConnInv
<1>2. /\ UNCHANGED <<peer, packets, delivered, lost>>
      /\ \/ Becomes(c, <<>>)
         \/ Becomes(Close(c, TRUE), <<>>)
         \/ /\ ~conn.closed
            /\ \/ Becomes(StartRead(made, "header"), <<>>)
               \/ /\ m <= MaxMessages
                  /\ Becomes(StartRead(Close(Send(made, m), FALSE), "header"), <<m>>)
  BY DEF ParsePacket
<1> HIDE DEF c
<1>3. /\ made \in ConnRecord /\ made.writeTimer = c.writeTimer /\ made.closed = c.closed
      /\ made.queue = c.queue /\ made.posted = c.posted /\ made.write = c.write
  BY <1>1 DEF ConnRecord
<1>4. PICK next \in Read : next = "header"
  BY DEF Read
<1> HIDE DEF made, m
<1>5. CASE Becomes(c, <<>>)
  <2>1. Flight(c) /\ Watched(c)
    BY <1>1, ConnTyped DEF Flight, Watched
  <2> QED
    BY <1>1, <1>2, <1>5, <2>1, QuietKeeps
<1>6. CASE Becomes(Close(c, TRUE), <<>>)
  <2>1. PICK force \in BOOLEAN : force = TRUE
    OBVIOUS
  <2> QED
    BY <1>1, <1>2, <1>6, <2>1, ClosedKeeps
<1>7. CASE ~conn.closed /\ Becomes(StartRead(made, "header"), <<>>)
  BY <1>1, <1>2, <1>3, <1>4, <1>7, ReadKeeps
<1>8. CASE /\ ~conn.closed /\ m <= MaxMessages
           /\ Becomes(StartRead(Close(Send(made, m), FALSE), "header"), <<m>>)
  <2> DEFINE s == Send(made, m)
             d == Close(s, FALSE)
             e == StartRead(d, next)
  <2>1. m \in Message
    BY <1>8, ConnTyped, ConnectionAssumption DEF m, NextMessage, Message
  <2>2. Flight(made) /\ ~made.closed
    BY <1>1, <1>3, <1>8, ConnTyped DEF Flight
  <2>3. /\ s \in ConnRecord /\ Flight(s)
        /\ s.queue = Append(conn.queue, m) /\ s.write = conn.write
    BY <1>1, <1>3, <2>1, <2>2, SendEffect
  <2> HIDE DEF s
  <2>4. /\ d \in ConnRecord /\ d.closed = TRUE
        /\ d.queue = s.queue /\ d.posted = s.posted /\ d.write = s.write
    BY <2>3, CloseEffect
  <2> HIDE DEF d
  <2>5. /\ e \in ConnRecord /\ e.closed = TRUE
        /\ e.queue = d.queue /\ e.posted = d.posted /\ e.write = d.write
    BY <2>4, StartReadEffect
  <2>6. Becomes(e, <<m>>)
    BY <1>4, <1>8 DEF s, d, e
  <2> HIDE DEF e
  <2>7. Flight(e) /\ Watched(e)
    BY <2>3, <2>4, <2>5 DEF Flight, Watched
  <2>8. accepted' = delivered' \o e.queue
    <3>1. accepted = delivered \o conn.queue /\ conn.queue \in Seq(Message)
          /\ delivered \in Seq(Message) /\ <<m>> \in Seq(Message)
      BY <1>8, <2>1, ConnTyped DEF ConnInv, InOrder
    <3>2. accepted' = (delivered \o conn.queue) \o <<m>>
      BY <2>6, <3>1 DEF Becomes
    <3>3. accepted' = delivered \o (conn.queue \o <<m>>)
      <4>1. PICK q \in Seq(Message) : q = conn.queue
        BY <3>1
      <4>2. (delivered \o q) \o <<m>> = delivered \o (q \o <<m>>)
        BY <2>1, <3>1, AppendLater
      <4> QED
        BY <3>2, <4>1, <4>2
    <3>4. e.queue = conn.queue \o <<m>>
      BY <2>1, <2>3, <2>4, <2>5, <3>1, AppendIsConcat
    <3> QED
      BY <1>2, <3>3, <3>4
  <2>9. <<m>> \in Seq(Message) /\ ~lost
    BY <1>8, <2>1 DEF ConnInv
  <2> QED
    BY <1>2, <1>8, <2>5, <2>6, <2>7, <2>8, <2>9, BecomesKeeps DEF ConnInv, TypeOK
<1> QED
  BY <1>2, <1>5, <1>6, <1>7, <1>8

(* The game sends a message.                                               *)
LEMMA ProtocolSendKeeps == ConnInv /\ ProtocolSend => ConnInv'
<1> SUFFICES ASSUME ConnInv, ProtocolSend PROVE ConnInv'
  OBVIOUS
<1> DEFINE m == NextMessage
           e == Send(conn, m)
<1>1. /\ m <= MaxMessages /\ ~conn.closed /\ Becomes(e, <<m>>)
      /\ UNCHANGED <<peer, packets, delivered, lost>>
  BY DEF ProtocolSend
<1>2. m \in Message /\ <<m>> \in Seq(Message) /\ ~lost
  BY <1>1, ConnTyped, ConnectionAssumption DEF NextMessage, Message, ConnInv
<1> HIDE DEF m
<1>3. /\ e \in ConnRecord /\ Flight(e)
      /\ e.writeTimer = conn.writeTimer /\ e.readTimer = conn.readTimer
      /\ e.closed = conn.closed /\ e.protocol = conn.protocol
      /\ e.queue = Append(conn.queue, m) /\ e.read = conn.read /\ e.write = conn.write
  BY <1>1, <1>2, ConnTyped, SendEffect
<1> HIDE DEF e
<1>4. Watched(e)
  BY <1>3, ConnTyped DEF Watched
<1>5. accepted' = delivered' \o e.queue
  <2>1. accepted = delivered \o conn.queue /\ conn.queue \in Seq(Message)
        /\ delivered \in Seq(Message)
    BY <1>2, ConnTyped DEF ConnInv, InOrder
  <2>2. accepted' = (delivered \o conn.queue) \o <<m>>
    BY <1>1, <2>1 DEF Becomes
  <2>3. accepted' = delivered \o (conn.queue \o <<m>>)
    <3>1. PICK q \in Seq(Message) : q = conn.queue
      BY <2>1
    <3>2. (delivered \o q) \o <<m>> = delivered \o (q \o <<m>>)
      BY <1>2, <2>1, AppendLater
    <3> QED
      BY <2>2, <3>1, <3>2
  <2>4. e.queue = conn.queue \o <<m>>
    BY <1>2, <1>3, <2>1, AppendIsConcat
  <2> QED
    BY <1>1, <2>3, <2>4
<1> QED
  BY <1>1, <1>2, <1>3, <1>4, <1>5, BecomesKeeps DEF ConnInv, TypeOK

(* A write begins, completes or fails.                                     *)
LEMMA RunPostedSendKeeps == ConnInv /\ RunPostedSend => ConnInv'
<1> SUFFICES ASSUME ConnInv, RunPostedSend PROVE ConnInv'
  OBVIOUS
<1> DEFINE c == [conn EXCEPT !.posted = @ - 1]
           e == InternalSend(c)
<1>1. /\ conn.posted > 0 /\ Becomes(e, <<>>) /\ UNCHANGED <<peer, packets, delivered, lost>>
  BY DEF RunPostedSend
<1>2. conn.posted = 1 /\ conn.queue # <<>>
  BY <1>1, ConnTyped DEF ConnRecord, Flight
<1>3. /\ c \in ConnRecord /\ c.queue = conn.queue /\ c.posted = 0 /\ c.read = conn.read
      /\ c.readTimer = conn.readTimer /\ c.closed = conn.closed /\ c.protocol = conn.protocol
  BY <1>2, ConnTyped DEF ConnRecord
<1> HIDE DEF c
<1>4. /\ e \in ConnRecord /\ e.writeTimer # {} /\ e.readTimer = c.readTimer
      /\ e.closed = c.closed /\ e.protocol = c.protocol /\ e.queue = c.queue
      /\ e.posted = c.posted /\ e.read = c.read /\ e.write = "writing"
  BY <1>3, InternalSendEffect
<1> HIDE DEF e
<1>5. Flight(e) /\ Watched(e)
  BY <1>2, <1>3, <1>4, ConnTyped DEF Flight, Watched
<1> QED
  BY <1>1, <1>3, <1>4, <1>5, QuietKeeps

(* The handler of a write starts the next one or closes.                   *)
LEMMA OnWriteOperationKeeps == ConnInv /\ OnWriteOperation => ConnInv'
<1> SUFFICES ASSUME ConnInv, OnWriteOperation PROVE ConnInv'
  OBVIOUS
<1> DEFINE c == [CancelWriteTimer(conn) EXCEPT !.write = "none", !.queue = Tail(@)]
           e == IF c.queue # <<>> THEN InternalSend(c)
                ELSE IF c.closed THEN CloseSocket(c) ELSE c
<1>1. /\ conn.write = "written" /\ delivered' = Append(delivered, Head(conn.queue))
      /\ Becomes(e, <<>>) /\ UNCHANGED <<peer, packets, lost>>
  BY DEF OnWriteOperation
<1>2. conn.posted = 0 /\ conn.queue # <<>>
  BY <1>1, ConnTyped DEF ConnRecord, Flight
<1>3. Tail(conn.queue) \in Seq(Message) /\ Head(conn.queue) \in Message
  BY <1>2, ConnTyped, HeadTailProperties
<1>4. /\ c \in ConnRecord /\ c.queue = Tail(conn.queue) /\ c.posted = 0 /\ c.write = "none"
      /\ c.read = conn.read /\ c.readTimer = conn.readTimer
      /\ c.closed = conn.closed /\ c.protocol = conn.protocol
  BY <1>2, <1>3, ConnTyped DEF CancelWriteTimer, ConnRecord, Write, Timer
<1> HIDE DEF c
<1>5. /\ e \in ConnRecord /\ e.queue = c.queue /\ e.closed = c.closed
      /\ e.protocol = c.protocol /\ Flight(e) /\ Watched(e)
  <2>1. CASE c.queue # <<>>
    <3>1. e = InternalSend(c)
      BY <2>1
    <3> HIDE DEF e
    <3>2. /\ e \in ConnRecord /\ e.writeTimer # {} /\ e.readTimer = c.readTimer
          /\ e.closed = c.closed /\ e.protocol = c.protocol /\ e.queue = c.queue
          /\ e.posted = c.posted /\ e.read = c.read /\ e.write = "writing"
      BY <1>4, <3>1, InternalSendEffect
    <3> QED
      BY <1>4, <2>1, <3>2, ConnTyped DEF Flight, Watched
  <2>2. CASE c.queue = <<>> /\ c.closed
    <3>1. e = CloseSocket(c)
      BY <2>2
    <3> HIDE DEF e
    <3>2. /\ e \in ConnRecord /\ e.closed = c.closed /\ e.protocol = c.protocol
          /\ e.queue = c.queue /\ e.posted = c.posted /\ e.write = c.write
      BY <1>4, <3>1, CloseSocketEffect
    <3>3. Flight(e)
      BY <1>4, <2>2, <3>2 DEF Flight
    <3>4. Watched(e)
      BY <2>2, <3>2 DEF Watched
    <3> QED
      BY <3>2, <3>3, <3>4
  <2>3. CASE c.queue = <<>> /\ ~c.closed
    <3>1. e = c
      BY <2>3
    <3> HIDE DEF e
    <3> QED
      BY <1>4, <2>3, <3>1, ConnTyped DEF Flight, Watched
  <2> QED
    BY <2>1, <2>2, <2>3
<1> HIDE DEF e
<1>6. delivered' \in Seq(Message) /\ ~lost
  BY <1>1, <1>2, <1>3, ConnTyped, AppendProperties DEF ConnInv, InOrder
<1>7. accepted' = delivered' \o e.queue
  <2> DEFINE first == <<Head(conn.queue)>>
             rest == Tail(conn.queue)
  <2>1. /\ accepted = delivered \o conn.queue /\ delivered \in Seq(Message)
        /\ conn.queue \in Seq(Message) /\ first \in Seq(Message) /\ rest \in Seq(Message)
    BY <1>3, <1>6, ConnTyped DEF ConnInv, InOrder
  <2>2. conn.queue = first \o rest
    BY <1>2, <2>1
  <2>3. delivered' = delivered \o first
    BY <1>1, <1>3, <2>1, AppendIsConcat
  <2> HIDE DEF first, rest
  <2>4. (delivered \o first) \o rest = delivered \o (first \o rest)
    BY <2>1, ConcatAssociative
  <2>5. accepted' = accepted
    BY <1>1, <2>1, ConnTyped, ConcatEmptySeq DEF Becomes
  <2> QED
    BY <1>4, <1>5, <2>1, <2>2, <2>3, <2>4, <2>5 DEF rest
<1>8. <<>> \in Seq(Message)
  BY EmptySeq
<1> QED
  BY <1>1, <1>4, <1>5, <1>6, <1>7, <1>8, BecomesKeeps DEF ConnInv, TypeOK

(* A write that failed closes the connection.                              *)
LEMMA WriteFailedKeeps == ConnInv /\ WriteFailed => ConnInv'
<1> SUFFICES ASSUME ConnInv, WriteFailed PROVE ConnInv'
  OBVIOUS
<1> DEFINE c == [CancelWriteTimer(conn) EXCEPT !.write = "none", !.queue = <<>>]
           e == Close(c, TRUE)
<1>1. /\ conn.write = "failed" /\ Becomes(e, <<>>) /\ lost' = TRUE
      /\ UNCHANGED <<peer, packets, delivered>>
  BY DEF WriteFailed
<1>2. <<>> \in Seq(Message)
  BY EmptySeq
<1>3. conn.posted = 0 /\ conn.queue # <<>>
  BY <1>1, ConnTyped DEF ConnRecord, Flight
<1>4. /\ c \in ConnRecord /\ c.queue = <<>> /\ c.posted = 0 /\ c.write = "none"
      /\ c.closed = conn.closed /\ c.protocol = conn.protocol
  BY <1>2, <1>3, ConnTyped DEF CancelWriteTimer, ConnRecord, Write, Timer
<1> HIDE DEF c
<1>5. /\ e \in ConnRecord /\ e.closed = TRUE /\ e.protocol = c.protocol
      /\ e.queue = c.queue /\ e.posted = c.posted /\ e.write = c.write
  BY <1>4, CloseEffect
<1> HIDE DEF e
<1>6. Flight(e) /\ Watched(e)
  BY <1>4, <1>5 DEF Flight, Watched
<1>7. delivered' = SubSeq(accepted', 1, Len(delivered'))
  <2>1. /\ accepted = delivered \o conn.queue /\ delivered \in Seq(Message)
        /\ conn.queue \in Seq(Message) /\ accepted' = accepted
    <3>1. ~lost
      BY <1>3 DEF ConnInv, InOrder
    <3> QED
      BY <1>1, <3>1, ConnTyped, ConcatEmptySeq DEF ConnInv, InOrder, Becomes
  <2>2. SubSeq(delivered \o conn.queue, 1, Len(delivered)) = delivered
    BY <2>1
  <2> QED
    BY <1>1, <2>1, <2>2
<1> QED
  BY <1>1, <1>2, <1>4, <1>5, <1>6, <1>7, BecomesKeeps DEF ConnInv, TypeOK

(* A timer fires, the connection is destroyed, the game disconnects it or  *)
(* the server closes them all.                                             *)
LEMMA ClosingsKeep ==
  ConnInv /\ (HandleTimeout \/ Destroy \/ ProtocolDisconnect \/ CloseAll) => ConnInv'
<1> SUFFICES ASSUME ConnInv, HandleTimeout \/ Destroy \/ ProtocolDisconnect \/ CloseAll
             PROVE  ConnInv'
  OBVIOUS
<1>1. UNCHANGED <<peer, packets, delivered, lost>>
  BY DEF HandleTimeout, Destroy, ProtocolDisconnect, CloseAll
<1>2. PICK force \in BOOLEAN : force = TRUE
  OBVIOUS
<1>3. PICK gentle \in BOOLEAN : gentle = FALSE
  OBVIOUS
<1>4. CASE HandleTimeout
  <2>1. ASSUME NEW c \in {[conn EXCEPT !.readTimer = @ \ {"fired"}],
                          [conn EXCEPT !.writeTimer = @ \ {"fired"}]},
               Becomes(Close(c, TRUE), <<>>)
        PROVE  ConnInv'
    <3>1. /\ c \in ConnRecord /\ c.queue = conn.queue /\ c.posted = conn.posted
          /\ c.write = conn.write /\ c.protocol = conn.protocol
      BY ConnTyped DEF ConnRecord, Timer
    <3> QED
      BY <1>1, <1>2, <2>1, <3>1, ClosedKeeps
  <2> QED
    BY <1>4, <2>1 DEF HandleTimeout
<1>5. CASE ProtocolDisconnect
  BY <1>1, <1>3, <1>5, ConnTyped, ClosedKeeps DEF ProtocolDisconnect
<1>6. CASE CloseAll
  <2> DEFINE c == [conn EXCEPT !.tracked = FALSE, !.open = FALSE]
  <2>1. /\ c \in ConnRecord /\ c.queue = conn.queue /\ c.posted = conn.posted
        /\ c.write = conn.write /\ c.protocol = conn.protocol /\ c.closed = conn.closed
        /\ c.read = conn.read /\ c.readTimer = conn.readTimer
        /\ c.writeTimer = conn.writeTimer
    BY ConnTyped DEF ConnRecord
  <2>2. Becomes(c, <<>>)
    BY <1>6 DEF CloseAll
  <2> HIDE DEF c
  <2>3. Flight(c) /\ Watched(c)
    BY <2>1, ConnTyped DEF Flight, Watched
  <2> QED
    BY <1>1, <2>1, <2>2, <2>3, QuietKeeps
<1>7. CASE Destroy
  <2> DEFINE d == CloseSocket(conn)
             c == [d EXCEPT !.exists = FALSE]
  <2>1. /\ d \in ConnRecord /\ d.closed = conn.closed /\ d.protocol = conn.protocol
        /\ d.queue = conn.queue /\ d.posted = conn.posted /\ d.read = conn.read
        /\ d.write = conn.write
    BY ConnTyped, CloseSocketEffect
  <2>2. conn.read = "none" /\ conn.write = "none" /\ Becomes(c, <<>>)
    BY <1>7 DEF Destroy
  <2> HIDE DEF d
  <2>3. /\ c \in ConnRecord /\ c.closed = conn.closed /\ c.protocol = conn.protocol
        /\ c.queue = conn.queue /\ c.posted = conn.posted /\ c.read = conn.read
        /\ c.write = conn.write
    BY <2>1 DEF ConnRecord
  <2> HIDE DEF c
  <2>4. Flight(c) /\ Watched(c)
    BY <2>2, <2>3, ConnTyped DEF Flight, Watched
  <2> QED
    BY <1>1, <2>2, <2>3, <2>4, QuietKeeps
<1> QED
  BY <1>4, <1>5, <1>6, <1>7

(* The network and the clock.                                              *)
LEMMA EnvironmentKeeps == ConnInv /\ Environment => ConnInv'
<1> SUFFICES ASSUME ConnInv, Environment PROVE ConnInv'
  OBVIOUS
<1>1. CASE PeerHangsUp
  BY <1>1 DEF PeerHangsUp, ConnInv, TypeOK, WriteInFlight, InOrder, ReleasedOnce, Guarded
<1>2. ASSUME NEW c \in ConnRecord, conn' = c, peer' = peer, packets' \in 0 .. MaxPackets,
             UNCHANGED <<delivered, accepted, releases, lost>>,
             c.queue = conn.queue, c.posted = conn.posted, c.closed = conn.closed,
             c.protocol = conn.protocol, Flight(c), Watched(c)
      PROVE  ConnInv'
  <2>1. TypeOK'
    BY <1>2 DEF ConnInv, TypeOK, ConnRecord
  <2>2. WriteInFlight' /\ Guarded' /\ InOrder' /\ ReleasedOnce' /\ (lost' => conn'.closed)
    BY <1>2 DEF ConnInv, WriteInFlight, InOrder, ReleasedOnce, Guarded, Flight, Watched
  <2> QED
    BY <2>1, <2>2 DEF ConnInv
<1>3. CASE PeerSends \/ PeerReads \/ OperationFails \/ TimerExpires
  <2>1. PICK c : conn' = c
    OBVIOUS
  <2>2. /\ peer' = peer /\ UNCHANGED <<delivered, accepted, releases, lost>>
        /\ \/ /\ conn.read \in {"header", "body"}
              /\ \E r \in {"headerDone", "bodyDone", "failed"} : c = [conn EXCEPT !.read = r]
           \/ /\ conn.write = "writing"
              /\ \E w \in {"written", "failed"} : c = [conn EXCEPT !.write = w]
           \/ c = [conn EXCEPT !.readTimer = {"fired"}]
           \/ c = [conn EXCEPT !.writeTimer = {"fired"}]
    BY <1>3, <2>1 DEF PeerSends, PeerReads, OperationFails, TimerExpires
  <2>3. packets' \in 0 .. MaxPackets
    BY <1>3, ConnectionAssumption
       DEF PeerSends, PeerReads, OperationFails, TimerExpires, ConnInv, TypeOK
  <2>4. /\ c \in ConnRecord /\ c.queue = conn.queue /\ c.posted = conn.posted
        /\ c.closed = conn.closed /\ c.protocol = conn.protocol
    BY SMTT(40), <2>2, ConnTyped DEF ConnRecord, Read, Write, Timer
  <2>5. Flight(c)
    BY <2>2, ConnTyped DEF ConnRecord, Flight
  <2>6. Watched(c)
    BY ZenonT(60), <2>2, ConnTyped DEF ConnRecord, Watched
  <2> QED
    BY <1>2, <2>1, <2>2, <2>3, <2>4, <2>5, <2>6
<1> QED
  BY <1>1, <1>3 DEF Environment

(* Every step of a connection, and those of the other parts.               *)
LEMMA ConnNext == ConnInv /\ [Next]_vars => ConnInv'
<1> SUFFICES ASSUME ConnInv, [Next]_vars PROVE ConnInv'
  OBVIOUS
<1>1. CASE UNCHANGED vars
  BY <1>1 DEF vars, ConnInv, TypeOK, WriteInFlight, InOrder, ReleasedOnce, Guarded
<1>2. CASE Next
  BY <1>2, AcceptKeeps, ReadsKeep, ParsePacketKeeps, ProtocolSendKeeps, RunPostedSendKeeps,
     OnWriteOperationKeeps, WriteFailedKeeps, ClosingsKeep, EnvironmentKeeps
     DEF Next, IoThread, GameThread
<1> QED
  BY <1>1, <1>2

-----------------------------------------------------------------------------
(* The buffers: what was written is what was sent and what is buffered.    *)
BuffersInv ==
    /\ wrote \in [Clients -> Nat] /\ chains \in Nat
    /\ outputBuffer \in [Clients -> Seq(Nat)] /\ sent \in [Clients -> Seq(Nat)]
    /\ A!BufferedInOrder /\ A!ChainRuns

(* The packets written to a client are numbered from 1.                    *)
LEMMA CountingUp ==
  ASSUME NEW w \in Nat
  PROVE  /\ [n \in 1 .. w |-> n] \in Seq(Nat)
         /\ [n \in 1 .. w |-> n] \o <<w + 1>> = [n \in 1 .. w + 1 |-> n]
<1> DEFINE s == [n \in 1 .. w |-> n]
           t == [n \in 1 .. w + 1 |-> n]
           e == w + 1
<1>1. s \in [1 .. w -> Nat] /\ t \in [1 .. w + 1 -> Nat] /\ e \in Nat
  OBVIOUS
<1>2. \A n \in 1 .. w : s[n] = n
  OBVIOUS
<1>3. \A n \in 1 .. w + 1 : t[n] = n
  OBVIOUS
<1> HIDE DEF s, t
<1>4. s \in Seq(Nat) /\ t \in Seq(Nat) /\ Len(s) = w /\ Len(t) = w + 1
  BY <1>1, SeqDef
<1>5. /\ Append(s, e) \in Seq(Nat) /\ Len(Append(s, e)) = w + 1
      /\ \A n \in 1 .. w : Append(s, e)[n] = n
      /\ Append(s, e)[w + 1] = w + 1
  BY <1>1, <1>2, <1>4, AppendProperties
<1>6. Append(s, e) = t
  <2>1. \A n \in 1 .. w + 1 : n \in 1 .. w \/ n = w + 1
    OBVIOUS
  <2>2. \A n \in 1 .. Len(t) : Append(s, e)[n] = t[n]
    BY <1>3, <1>4, <1>5, <2>1
  <2> QED
    BY <1>4, <1>5, <2>2, SeqEqual
<1>7. Append(s, e) = s \o <<e>>
  BY <1>1, <1>4, AppendIsConcat
<1> QED
  BY <1>4, <1>6, <1>7 DEF s, t

(* Nobody sends at first, and no event is pending.                         *)
LEMMA BuffersInit == A!AutoInit => BuffersInv
<1> SUFFICES ASSUME A!AutoInit PROVE BuffersInv
  OBVIOUS
<1>1. <<>> \in Seq(Nat) /\ <<>> \o <<>> = <<>>
  BY EmptySeq, ConcatEmptySeq
<1>2. [n \in 1 .. 0 |-> n] = <<>>
  <2>1. [n \in 1 .. 0 |-> n] \in Seq(Nat) /\ Len([n \in 1 .. 0 |-> n]) = 0
    BY CountingUp
  <2> QED
    BY <2>1, EmptySeq
<1> QED
  BY <1>1, <1>2 DEF A!AutoInit, BuffersInv, A!BufferedInOrder, A!ChainRuns

(* A packet is written.                                                    *)
LEMMA WriteKeeps ==
  ASSUME BuffersInv, NEW p \in Clients, A!WriteToOutputBuffer(p)
  PROVE  BuffersInv'
<1> DEFINE w == wrote[p]
<1>1. /\ w \in Nat /\ sent[p] \in Seq(Nat) /\ outputBuffer[p] \in Seq(Nat)
      /\ sent[p] \o outputBuffer[p] = [n \in 1 .. w |-> n]
  BY DEF BuffersInv, A!BufferedInOrder
<1>2. /\ wrote' = [wrote EXCEPT ![p] = @ + 1] /\ UNCHANGED <<bufferedProtocols, chains>>
      /\ wrote'[p] = w + 1 /\ wrote' \in [Clients -> Nat]
      /\ \A q \in Clients \ {p} : wrote'[q] = wrote[q]
  BY <1>1 DEF A!WriteToOutputBuffer, BuffersInv
<1>3. PICK e \in Nat : e = w + 1
  BY <1>1
<1>4. <<e>> \in Seq(Nat)
  OBVIOUS
<1> HIDE DEF w
<1>5. (sent[p] \o outputBuffer[p]) \o <<e>> = [n \in 1 .. w + 1 |-> n]
  BY <1>1, <1>3, CountingUp
<1>6. ASSUME outputBuffer' = [outputBuffer EXCEPT ![p] = Append(@, e)], sent' = sent
      PROVE  BuffersInv'
  <2>1. Append(outputBuffer[p], e) \in Seq(Nat)
    BY <1>1, AppendProperties
  <2>2. /\ outputBuffer' \in [Clients -> Seq(Nat)]
        /\ outputBuffer'[p] = Append(outputBuffer[p], e)
        /\ \A q \in Clients \ {p} : outputBuffer'[q] = outputBuffer[q]
    BY <1>6, <2>1 DEF BuffersInv
  <2>3. sent[p] \o Append(outputBuffer[p], e) = [n \in 1 .. w + 1 |-> n]
    <3>1. Append(outputBuffer[p], e) = outputBuffer[p] \o <<e>>
      BY <1>1, AppendIsConcat
    <3>2. (sent[p] \o outputBuffer[p]) \o <<e>> = sent[p] \o (outputBuffer[p] \o <<e>>)
      <4>1. PICK a \in Seq(Nat), b \in Seq(Nat) : a = sent[p] /\ b = outputBuffer[p]
        BY <1>1
      <4>2. (a \o b) \o <<e>> = a \o (b \o <<e>>)
        BY AppendLater
      <4> QED
        BY <4>1, <4>2
    <3> QED
      BY <1>5, <3>1, <3>2
  <2>4. A!BufferedInOrder'
    BY <1>2, <1>6, <2>2, <2>3 DEF BuffersInv, A!BufferedInOrder
  <2> QED
    BY <1>2, <1>6, <2>2, <2>4 DEF BuffersInv, A!ChainRuns
<1>7. ASSUME sent' = [sent EXCEPT ![p] = @ \o outputBuffer[p]],
             outputBuffer' = [outputBuffer EXCEPT ![p] = <<e>>]
      PROVE  BuffersInv'
  <2>1. sent[p] \o outputBuffer[p] \in Seq(Nat)
    BY <1>1, ConcatProperties
  <2>2. /\ outputBuffer' \in [Clients -> Seq(Nat)] /\ sent' \in [Clients -> Seq(Nat)]
        /\ outputBuffer'[p] = <<e>> /\ sent'[p] = sent[p] \o outputBuffer[p]
        /\ \A q \in Clients \ {p} : outputBuffer'[q] = outputBuffer[q] /\ sent'[q] = sent[q]
    BY <1>4, <1>7, <2>1 DEF BuffersInv
  <2>3. A!BufferedInOrder'
    BY <1>2, <1>5, <2>2 DEF BuffersInv, A!BufferedInOrder
  <2> QED
    BY <1>2, <2>2, <2>3 DEF BuffersInv, A!ChainRuns
<1> QED
  BY <1>2, <1>3, <1>6, <1>7 DEF A!WriteToOutputBuffer, w

(* Every step of the buffers, and those of the other parts.                *)
LEMMA BuffersNext == BuffersInv /\ [A!AutoNext]_buffers => BuffersInv'
<1> SUFFICES ASSUME BuffersInv, [A!AutoNext]_buffers PROVE BuffersInv'
  OBVIOUS
<1>1. CASE UNCHANGED buffers
  BY <1>1 DEF buffers, BuffersInv, A!BufferedInOrder, A!ChainRuns
<1>2. ASSUME NEW p \in Clients, A!Login(p) \/ A!Release(p) PROVE BuffersInv'
  <2>1. UNCHANGED <<outputBuffer, wrote, sent>>
    BY <1>2 DEF A!Login, A!Release
  <2>2. chains' \in Nat /\ A!ChainRuns'
    BY <1>2 DEF A!Login, A!Insert, A!Release, BuffersInv, A!ChainRuns
  <2> QED
    BY <2>1, <2>2 DEF BuffersInv, A!BufferedInOrder
<1>3. CASE A!SendAll
  <2>1. /\ sent' = [p \in Clients |->
                     IF p \in bufferedProtocols THEN sent[p] \o outputBuffer[p] ELSE sent[p]]
        /\ outputBuffer' = [p \in Clients |->
                     IF p \in bufferedProtocols THEN <<>> ELSE outputBuffer[p]]
        /\ chains > 0 /\ chains' = IF bufferedProtocols = {} THEN chains - 1 ELSE chains
        /\ UNCHANGED <<bufferedProtocols, wrote>>
    BY <1>3 DEF A!SendAll
  <2>2. ASSUME NEW p \in Clients
        PROVE  /\ sent'[p] \in Seq(Nat) /\ outputBuffer'[p] \in Seq(Nat)
               /\ sent'[p] \o outputBuffer'[p] = [n \in 1 .. wrote'[p] |-> n]
    <3>1. /\ sent[p] \in Seq(Nat) /\ outputBuffer[p] \in Seq(Nat)
          /\ sent[p] \o outputBuffer[p] = [n \in 1 .. wrote[p] |-> n]
      BY DEF BuffersInv, A!BufferedInOrder
    <3>2. CASE p \in bufferedProtocols
      <4>1. sent'[p] = sent[p] \o outputBuffer[p] /\ outputBuffer'[p] = <<>>
        BY <2>1, <3>2
      <4>2. sent[p] \o outputBuffer[p] \in Seq(Nat)
        BY <3>1, ConcatProperties
      <4> QED
        BY <2>1, <3>1, <4>1, <4>2, EmptySeq, ConcatEmptySeq
    <3>3. CASE p \notin bufferedProtocols
      BY <2>1, <3>1, <3>3
    <3> QED
      BY <3>2, <3>3
  <2>3. /\ DOMAIN sent' = Clients /\ sent' = [p \in DOMAIN sent' |-> sent'[p]]
        /\ DOMAIN outputBuffer' = Clients
        /\ outputBuffer' = [p \in DOMAIN outputBuffer' |-> outputBuffer'[p]]
    BY <2>1
  <2>4. chains' \in Nat /\ A!ChainRuns'
    BY <2>1 DEF BuffersInv, A!ChainRuns
  <2> QED
    BY <2>1, <2>2, <2>3, <2>4 DEF BuffersInv, A!BufferedInOrder
<1> QED
  BY <1>1, <1>2, <1>3, WriteKeeps DEF A!AutoNext

(* However many messages and packets there are and in whatever order sends *)
(* of the game, completions, timeouts and closings come: one write is      *)
(* under way while there is something to write, the peer gets the messages *)
(* in order, the protocol is released once, and no read or write of an     *)
(* open connection is without a timer; the buffers of all clients keep the *)
(* order of their packets.                                                 *)
THEOREM MessagesStayInOrder == MCSpec => []MessagesInOrder
<1> DEFINE Inv == ConnInv /\ BuffersInv
<1>1. MCInit => Inv
  BY ConnInit, BuffersInit DEF MCInit
<1>2. Inv /\ [MCNext]_<<vars, part, buffers, server, waiting, timers>> => Inv'
  <2> SUFFICES ASSUME Inv, [MCNext]_<<vars, part, buffers, server, waiting, timers>>
               PROVE  Inv'
    OBVIOUS
  <2>1. [Next]_vars /\ [A!AutoNext]_buffers
    BY DEF MCNext
  <2> QED
    BY <2>1, ConnNext, BuffersNext
<1>3. Inv => MessagesInOrder
  BY DEF ConnInv, BuffersInv, MessagesInOrder
<1> QED
  BY <1>1, <1>2, <1>3, PTL DEF MCSpec

-----------------------------------------------------------------------------
(* The ports: the invariant.  A port of the manager's map has an accept at *)
(* asio, or one whose handler has not run, or an event to open it; in the  *)
(* first two cases it listens, and nothing is planned.                     *)
Accepting(s) == s.pending /\ s.done = {} /\ s.reopen = 0
Completed(s) == ~s.pending /\ s.done \in {{"client"}, {"failed"}} /\ s.reopen = 0
Waiting(s) == ~s.pending /\ s.done = {} /\ s.reopen = 1
Listening(s) == s.acceptor = "open" /\ ~s.pendingStart

HeldPort(s) ==
    \/ Accepting(s) /\ Listening(s)
    \/ Completed(s) /\ Listening(s)
    \/ Waiting(s)

IsPort(s) ==
    /\ DOMAIN s = {"held", "acceptor", "pending", "done", "pendingStart", "reopen",
                   "linked", "stopPosted", "stopped", "late"}
    /\ s.acceptor \in {"none", "open", "closed"} /\ s.reopen \in Nat
    /\ s.held \in BOOLEAN /\ s.pending \in BOOLEAN /\ s.pendingStart \in BOOLEAN
    /\ s.linked \in BOOLEAN /\ s.stopPosted \in BOOLEAN /\ s.stopped \in BOOLEAN
    /\ s.late \in BOOLEAN /\ s.done \subseteq {"client", "failed", "aborted"}

(* What a port may be when the manager is in state m.                      *)
PortInv(s, m) ==
    /\ s.held => m # "stopped" /\ HeldPort(s)
    /\ m = "loading" /\ ~s.held =>
          /\ s.acceptor = "none" /\ ~s.pending /\ s.done = {} /\ s.reopen = 0
    /\ s.stopPosted \/ s.stopped \/ s.late => m = "stopped"
    /\ m = "stopped" /\ ~s.late => s.reopen = 0
    /\ s.stopped /\ ~s.late => s.acceptor # "open"

IsBlock(b) ==
    /\ DOMAIN b = {"seen", "count", "wait", "since", "refused", "burst", "ended"}
    /\ b.seen \in BOOLEAN /\ b.count \in 0 .. 5 /\ b.wait \in Nat /\ b.since \in Nat
    /\ b.refused \in Nat /\ b.burst \in Nat /\ b.ended \in BOOLEAN

(* The attempts counted since the last reset are all of the burst.         *)
BlockInv ==
    /\ IsBlock(block)
    /\ block.count <= block.burst
    /\ block.ended => block.count = 0
    /\ ~block.seen => block.wait = 0
    /\ block.wait > 0 => block.burst >= 6 /\ block.wait <= 12 + block.refused

PortsInv ==
    /\ port = [p \in Ports |-> port[p]]
    /\ \A p \in Ports : IsPort(port[p]) /\ PortInv(port[p], manager)

(* No port is open at first.                                               *)
LEMMA PortsInit == S!ServicesInit => PortsInv /\ BlockInv
<1> SUFFICES ASSUME S!ServicesInit PROVE PortsInv /\ BlockInv
  OBVIOUS
<1>1. /\ port = [p \in Ports |-> port[p]]
      /\ \A p \in Ports : IsPort(port[p]) /\ PortInv(port[p], manager)
  BY DEF S!ServicesInit, IsPort, PortInv, HeldPort
<1>2. BlockInv
  BY DEF S!ServicesInit, BlockInv, IsBlock
<1> QED
  BY <1>1, <1>2 DEF PortsInv

(* A client connects after a gap.                                          *)
LEMMA AttemptKeeps ==
  ASSUME BlockInv, NEW gap \in Gaps, S!Attempt(gap)
  PROVE  BlockInv'
<1> DEFINE b == S!Passed(block, gap)
           d == S!Counted(b)
<1> USE DEF IsBlock
<1>1. gap \in Nat /\ IsBlock(block)
  BY MCConnectionAssumption DEF BlockInv
<1>2. /\ IsBlock(b) /\ b.wait <= block.wait /\ b.seen = block.seen /\ b.count = block.count
      /\ b.burst = block.burst /\ b.refused = block.refused /\ b.ended = block.ended
  <2>1. (IF block.wait > gap THEN block.wait - gap ELSE 0) \in 0 .. block.wait
    BY <1>1
  <2>2. (IF block.since + gap > 20 THEN 21 ELSE block.since + gap) \in Nat
    BY <1>1
  <2>3. b = [block EXCEPT !.wait = IF @ > gap THEN @ - gap ELSE 0,
                          !.since = IF @ + gap > 20 THEN 21 ELSE @ + gap]
    BY DEF S!Passed
  <2> HIDE DEF b
  <2>4. /\ b.wait = (IF block.wait > gap THEN block.wait - gap ELSE 0)
        /\ IsBlock(b)
    BY <1>1, <2>1, <2>2, <2>3
  <2> QED
    BY <1>1, <2>1, <2>3, <2>4
<1>3. block' = S!Throttle(block, gap)
  BY DEF S!Attempt
<1> HIDE DEF b
<1>4. /\ IsBlock(d) /\ d.since = 0 /\ d.refused = 0 /\ d.ended = FALSE
      /\ d.seen = b.seen /\ d.count = b.count /\ d.wait = b.wait
      /\ d.burst >= 1 /\ (b.since <= 20 => d.burst > b.count)
  <2> DEFINE n == IF b.since > 20 \/ b.ended THEN 1 ELSE IF b.burst < 7 THEN b.burst + 1 ELSE b.burst
  <2>1. d = [b EXCEPT !.since = 0, !.refused = 0, !.burst = n, !.ended = FALSE]
    BY DEF S!Counted
  <2>2. n \in Nat
    BY <1>2
  <2> HIDE DEF d, n
  <2>3. /\ IsBlock(d) /\ d.since = 0 /\ d.refused = 0 /\ d.ended = FALSE
        /\ d.seen = b.seen /\ d.count = b.count /\ d.wait = b.wait /\ d.burst = n
    BY <1>2, <2>1, <2>2
  <2>4. d.burst >= 1 /\ (b.since <= 20 => d.burst > b.count)
    BY <1>1, <1>2, <2>3 DEF BlockInv, n
  <2> QED
    BY <2>3, <2>4
<1> HIDE DEF d
<1>5. /\ block.count <= block.burst /\ (block.ended => block.count = 0)
      /\ (~block.seen => block.wait = 0)
      /\ (block.wait > 0 => block.burst >= 6 /\ block.wait <= 12 + block.refused)
  BY DEF BlockInv
<1>6. CASE ~b.seen
  <2>1. block' = [d EXCEPT !.seen = TRUE, !.count = 1] /\ b.wait = 0
    BY <1>2, <1>3, <1>5, <1>6 DEF S!Throttle, b, d
  <2>2. /\ IsBlock(block') /\ block'.seen = TRUE /\ block'.count = 1 /\ block'.wait = 0
        /\ block'.burst = d.burst /\ block'.ended = FALSE
    BY <1>4, <2>1
  <2> QED
    BY <1>4, <2>2 DEF BlockInv
<1>7. CASE b.seen /\ b.wait > 0
  <2>1. block' = [b EXCEPT !.wait = @ + 1, !.refused = @ + 1]
    BY <1>3, <1>7 DEF S!Throttle, b
  <2>2. /\ IsBlock(block') /\ block'.seen = b.seen /\ block'.count = b.count
        /\ block'.wait = b.wait + 1 /\ block'.refused = b.refused + 1
        /\ block'.burst = b.burst /\ block'.ended = b.ended
    BY <1>2, <2>1
  <2>3. block'.wait <= 12 + block'.refused /\ block'.burst >= 6
    BY <1>1, <1>2, <1>5, <1>7, <2>2
  <2> QED
    BY <1>2, <1>5, <1>7, <2>2, <2>3 DEF BlockInv
<1>8. CASE b.seen /\ b.wait = 0
  <2>1. \/ b.since > 20 /\ block' = [d EXCEPT !.count = 1]
        \/ b.since <= 20 /\ b.count < 5 /\ block' = [d EXCEPT !.count = @ + 1]
        \/ /\ b.since <= 20 /\ b.count >= 5
           /\ block' = [d EXCEPT !.count = 0, !.wait = 12, !.ended = TRUE]
        \/ block' = [d EXCEPT !.count = 0]
    BY <1>2, <1>3, <1>8 DEF S!Throttle, b, d
  <2>0. d.seen = TRUE /\ d.wait = 0 /\ b.count \in Nat /\ d.burst \in Nat
    BY <1>2, <1>4, <1>8
  <2>2. CASE b.since > 20 /\ block' = [d EXCEPT !.count = 1]
    <3>1. /\ IsBlock(block') /\ block'.seen = d.seen /\ block'.count = 1 /\ block'.wait = 0
          /\ block'.burst = d.burst /\ block'.ended = FALSE
      BY <1>4, <2>0, <2>2
    <3> QED
      BY <1>4, <3>1 DEF BlockInv
  <2>3. CASE b.since <= 20 /\ b.count < 5 /\ block' = [d EXCEPT !.count = @ + 1]
    <3>1. /\ IsBlock(block') /\ block'.seen = d.seen /\ block'.count = b.count + 1
          /\ block'.wait = 0 /\ block'.burst = d.burst /\ block'.ended = FALSE
      BY <1>2, <1>4, <2>0, <2>3
    <3> QED
      BY <1>2, <1>4, <2>3, <3>1 DEF BlockInv
  <2>4. CASE /\ b.since <= 20 /\ b.count >= 5
             /\ block' = [d EXCEPT !.count = 0, !.wait = 12, !.ended = TRUE]
    <3>1. /\ IsBlock(block') /\ block'.seen = d.seen /\ block'.count = 0
          /\ block'.wait = 12 /\ block'.burst = d.burst /\ block'.refused = 0
      BY <1>4, <2>4
    <3>2. block'.burst >= 6
      BY <1>4, <2>0, <2>4, <3>1
    <3> QED
      BY <2>0, <3>1, <3>2 DEF BlockInv
  <2>5. CASE block' = [d EXCEPT !.count = 0]
    <3>1. /\ IsBlock(block') /\ block'.seen = d.seen /\ block'.count = 0 /\ block'.wait = 0
          /\ block'.burst = d.burst /\ block'.ended = FALSE
      BY <1>4, <2>0, <2>5
    <3> QED
      BY <1>4, <3>1 DEF BlockInv
  <2> QED
    BY <2>1, <2>2, <2>3, <2>4, <2>5
<1> QED
  BY <1>2, <1>6, <1>7, <1>8

(* A step of one port.                                                     *)
LEMMA OnePort ==
  ASSUME PortsInv, NEW p \in Ports, NEW s, port' = [port EXCEPT ![p] = s],
         manager' = manager, IsPort(s), PortInv(s, manager)
  PROVE  PortsInv'
<1>1. /\ port' = [q \in Ports |-> port'[q]]
      /\ \A q \in Ports : port'[q] = IF q = p THEN s ELSE port[q]
  BY DEF PortsInv
<1>2. ASSUME NEW q \in Ports PROVE IsPort(port'[q]) /\ PortInv(port'[q], manager')
  <2>1. CASE q = p
    BY <1>1, <2>1
  <2>2. CASE q # p
    BY <1>1, <2>2 DEF PortsInv
  <2> QED
    BY <2>1, <2>2
<1> QED
  BY <1>1, <1>2 DEF PortsInv

(* Closing the acceptor of a port.                                         *)
LEMMA AcceptorCloses ==
  ASSUME NEW s, IsPort(s), NEW c, c = S!Close(s)
  PROVE  /\ IsPort(c) /\ c.acceptor # "open"
         /\ c.held = s.held /\ c.pendingStart = s.pendingStart /\ c.reopen = s.reopen
         /\ c.linked = s.linked /\ c.stopPosted = s.stopPosted
         /\ c.stopped = s.stopped /\ c.late = s.late
         /\ s.acceptor # "open" => c = s
         /\ ~s.pending => c.done = s.done /\ ~c.pending
<1>1. CASE s.acceptor = "open"
  <2> DEFINE d == IF s.pending THEN s.done \cup {"aborted"} ELSE s.done
  <2>1. c = [s EXCEPT !.acceptor = "closed", !.done = d, !.pending = FALSE]
    BY <1>1 DEF S!Close
  <2>2. (~s.pending => d = s.done) /\ d \subseteq {"client", "failed", "aborted"}
    BY DEF IsPort
  <2> HIDE DEF d
  <2> QED
    BY <1>1, <2>1, <2>2 DEF IsPort
<1>2. CASE s.acceptor # "open"
  BY <1>2 DEF S!Close, IsPort
<1> QED
  BY <1>1, <1>2

(* ServicePort::open; a port of the manager has no accept under way then.  *)
LEMMA OpenKeeps ==
  ASSUME PortsInv, NEW p \in Ports, NEW s, IsPort(s), PortInv(port[p], manager),
         S!Open(p, s), manager' = manager,
         s.held => manager # "stopped" /\ ~s.pending /\ s.done = {} /\ s.reopen = 0,
         s.held \/ manager # "loading",
         s.stopPosted \/ s.stopped \/ s.late => manager = "stopped",
         manager = "stopped" => s.late
  PROVE  PortsInv'
<1> DEFINE c == S!Close(s)
<1>1. /\ IsPort(c) /\ c.acceptor # "open"
      /\ c.held = s.held /\ c.pendingStart = s.pendingStart /\ c.reopen = s.reopen
      /\ c.linked = s.linked /\ c.stopPosted = s.stopPosted
      /\ c.stopped = s.stopped /\ c.late = s.late
      /\ s.held => c.done = {} /\ ~c.pending
  BY AcceptorCloses
<1>2. CASE port' = [port EXCEPT ![p] = S!Opened(s)]
  <2> DEFINE t == S!Opened(s)
  <2>1. t = [c EXCEPT !.pendingStart = FALSE, !.acceptor = "open", !.pending = TRUE]
    BY DEF S!Opened
  <2> HIDE DEF c, t
  <2>2. /\ IsPort(t) /\ t.held = s.held /\ t.acceptor = "open" /\ t.pending
        /\ (s.held => t.done = {}) /\ ~t.pendingStart /\ t.reopen = s.reopen
        /\ t.stopPosted = s.stopPosted /\ t.stopped = s.stopped /\ t.late = s.late
    BY <1>1, <2>1 DEF IsPort
  <2>3. PortInv(t, manager)
    BY <2>2 DEF PortInv, HeldPort, Accepting, Listening
  <2>4. port' = [port EXCEPT ![p] = t]
    BY <1>2 DEF t
  <2> QED
    BY <2>2, <2>3, <2>4, OnePort
<1>3. CASE \E t \in S!OpenFailed(s) : port' = [port EXCEPT ![p] = t]
  <2>1. PICK t \in S!OpenFailed(s) : port' = [port EXCEPT ![p] = t]
    BY <1>3
  <2>2. PICK a \in {c.acceptor, "open"} : t = [S!Planned(c) EXCEPT !.acceptor = a]
    BY <2>1 DEF S!OpenFailed
  <2> DEFINE n == IF manager = "stopped" THEN c.reopen ELSE c.reopen + 1
             u == S!Planned(c)
  <2>3. u = [c EXCEPT !.pendingStart = TRUE, !.reopen = n]
    BY DEF S!Planned
  <2>4. n \in Nat /\ (manager # "stopped" => n = s.reopen + 1)
    BY <1>1 DEF IsPort
  <2>5. a \in {"none", "open", "closed"} /\ t = [u EXCEPT !.acceptor = a]
    BY <1>1, <2>2 DEF IsPort
  <2> HIDE DEF c, n, u
  <2>6. /\ IsPort(u) /\ u.held = s.held /\ (s.held => u.done = {} /\ ~u.pending)
        /\ u.reopen = n /\ u.stopPosted = s.stopPosted /\ u.stopped = s.stopped
        /\ u.late = s.late
    BY <1>1, <2>3, <2>4 DEF IsPort
  <2>7. /\ IsPort(t) /\ t.held = s.held /\ (s.held => t.done = {} /\ ~t.pending)
        /\ t.reopen = n /\ t.stopPosted = s.stopPosted /\ t.stopped = s.stopped
        /\ t.late = s.late
    BY <2>5, <2>6 DEF IsPort
  <2>8. PortInv(t, manager)
    BY <2>4, <2>7 DEF PortInv, HeldPort, Waiting, IsPort
  <2> QED
    BY <2>1, <2>7, <2>8, OnePort
<1> QED
  BY <1>2, <1>3 DEF S!Open

(* The game thread adds a service and opens its port.                      *)
LEMMA AddKeeps ==
  ASSUME PortsInv, NEW p \in Ports, S!Add(p) PROVE PortsInv'
<1> DEFINE s == [port[p] EXCEPT !.held = TRUE]
<1>1. /\ IsPort(port[p]) /\ PortInv(port[p], manager) /\ manager' = manager
      /\ manager = "loading" /\ ~port[p].held /\ S!Open(p, s)
  BY DEF PortsInv, S!Add
<1>2. /\ IsPort(s) /\ s.held /\ s.pending = port[p].pending /\ s.done = port[p].done
      /\ s.reopen = port[p].reopen /\ s.stopPosted = port[p].stopPosted
      /\ s.stopped = port[p].stopped /\ s.late = port[p].late
  BY <1>1 DEF IsPort
<1> HIDE DEF s
<1>3. /\ ~s.pending /\ s.done = {} /\ s.reopen = 0
      /\ (s.stopPosted \/ s.stopped \/ s.late => manager = "stopped")
  BY <1>1, <1>2 DEF PortInv
<1> QED
  BY <1>1, <1>2, <1>3, OpenKeeps

(* The event to open a port runs.                                          *)
LEMMA OpenAcceptorKeeps ==
  ASSUME PortsInv, NEW p \in Ports, S!OpenAcceptor(p) PROVE PortsInv'
<1> DEFINE s == [port[p] EXCEPT !.reopen = @ - 1]
<1>1. /\ IsPort(port[p]) /\ PortInv(port[p], manager) /\ manager' = manager
      /\ port[p].reopen > 0
      /\ S!Open(p, s) \/ port' = [port EXCEPT ![p] = s]
      /\ S!Alive(s) => S!Open(p, s)
      /\ ~S!Alive(s) => port' = [port EXCEPT ![p] = s]
  BY DEF PortsInv, S!OpenAcceptor
<1>2. port[p].reopen \in Nat /\ port[p].reopen - 1 \in Nat
  BY <1>1 DEF IsPort
<1>3. /\ IsPort(s) /\ s.held = port[p].held /\ s.pending = port[p].pending
      /\ s.done = port[p].done /\ s.acceptor = port[p].acceptor
      /\ s.reopen = port[p].reopen - 1 /\ s.stopPosted = port[p].stopPosted
      /\ s.stopped = port[p].stopped /\ s.late = port[p].late
      /\ s.pendingStart = port[p].pendingStart
  BY <1>1, <1>2 DEF IsPort
<1> HIDE DEF s
<1>4. /\ s.held => manager # "stopped" /\ ~s.pending /\ s.done = {} /\ s.reopen = 0
      /\ s.held \/ manager # "loading"
      /\ s.stopPosted \/ s.stopped \/ s.late => manager = "stopped"
      /\ manager = "stopped" => s.late
  BY <1>1, <1>2, <1>3 DEF PortInv, HeldPort, Accepting, Completed, Waiting
<1>5. CASE ~S!Alive(s)
  <2>1. ~s.held /\ PortInv(s, manager)
    BY <1>1, <1>3, <1>4, <1>5 DEF S!Alive, PortInv, IsPort
  <2> QED
    BY <1>1, <1>3, <1>5, <2>1, OnePort
<1>6. CASE S!Alive(s)
  BY <1>1, <1>3, <1>4, <1>6, OpenKeeps
<1> QED
  BY <1>5, <1>6

(* ServiceManager::stop.                                                   *)
LEMMA StopKeeps ==
  ASSUME PortsInv, S!Stop PROVE PortsInv'
<1>1. PICK late \in SUBSET {p \in Ports : port[p].reopen > 0} :
        port' = [p \in Ports |-> S!Stopped(port[p], p \in late)]
  BY DEF S!Stop
<1>2. manager = "running" /\ manager' = "stopped"
  BY DEF S!Stop
<1>3. ASSUME NEW p \in Ports PROVE IsPort(port'[p]) /\ PortInv(port'[p], manager')
  <2>1. PICK l \in BOOLEAN : l <=> p \in late
    <3>1. CASE p \in late
      BY <3>1
    <3>2. CASE p \notin late
      BY <3>2
    <3> QED
      BY <3>1, <3>2
  <2>2. port'[p] = S!Stopped(port[p], l)
    BY <1>1, <2>1
  <2> DEFINE n == IF l THEN 1 ELSE 0
             s == port[p]
             t == port'[p]
  <2>3. t = [s EXCEPT !.held = FALSE, !.stopPosted = TRUE, !.late = l, !.reopen = n]
    BY <2>2 DEF S!Stopped
  <2>4. IsPort(s) /\ PortInv(s, manager) /\ n \in Nat /\ (~l => n = 0)
    BY DEF PortsInv
  <2> HIDE DEF s, n, t
  <2>5. IsPort(t) /\ ~t.held /\ t.late = l /\ t.reopen = n /\ t.stopped = s.stopped
    BY <2>3, <2>4 DEF IsPort
  <2>6. PortInv(t, "stopped")
    BY <1>2, <2>4, <2>5 DEF PortInv
  <2> QED
    BY <1>2, <2>5, <2>6 DEF t
<1> QED
  BY <1>1, <1>3 DEF PortsInv

(* The handler of a stopped port closes its acceptor.                      *)
LEMMA OnStopServerKeeps ==
  ASSUME PortsInv, NEW p \in Ports, S!OnStopServer(p) PROVE PortsInv'
<1> DEFINE s == port[p]
           c == S!Close(s)
           t == [c EXCEPT !.stopPosted = FALSE, !.stopped = TRUE]
<1>1. /\ port' = [port EXCEPT ![p] = t] /\ manager' = manager /\ s.stopPosted
      /\ IsPort(s) /\ PortInv(s, manager)
  BY DEF PortsInv, S!OnStopServer
<1>2. /\ IsPort(c) /\ c.acceptor # "open" /\ c.held = s.held /\ c.reopen = s.reopen
      /\ c.late = s.late
  BY <1>1, AcceptorCloses
<1> HIDE DEF s, c
<1>3. /\ IsPort(t) /\ t.acceptor # "open" /\ t.held = s.held /\ t.reopen = s.reopen
      /\ t.late = s.late
  BY <1>2 DEF IsPort
<1> HIDE DEF t
<1>4. manager = "stopped" /\ ~s.held
  BY <1>1 DEF PortInv
<1>5. PortInv(t, manager)
  BY <1>1, <1>3, <1>4 DEF PortInv
<1> QED
  BY <1>1, <1>3, <1>5, OnePort

(* asio completes an accept.                                               *)
LEMMA CompletesKeeps ==
  ASSUME PortsInv, NEW p \in Ports, S!Completes(p) PROVE PortsInv'
<1>1. PICK r \in {"client", "failed"} :
        port' = [port EXCEPT ![p].pending = FALSE, ![p].done = @ \cup {r}]
  BY DEF S!Completes
<1> DEFINE s == port[p]
           d == s.done \cup {r}
           t == [s EXCEPT !.pending = FALSE, !.done = d]
<1>2. /\ manager' = manager /\ s.pending /\ IsPort(s) /\ PortInv(s, manager)
      /\ port' = [port EXCEPT ![p] = t]
  BY <1>1 DEF PortsInv, S!Completes
<1>3. (s.done = {} => d = {r}) /\ d \subseteq {"client", "failed", "aborted"}
  BY <1>2 DEF IsPort
<1> HIDE DEF s, d
<1>4. /\ IsPort(t) /\ ~t.pending /\ t.done = d /\ t.held = s.held
      /\ t.acceptor = s.acceptor /\ t.reopen = s.reopen /\ t.late = s.late
      /\ t.stopped = s.stopped /\ t.stopPosted = s.stopPosted
      /\ t.pendingStart = s.pendingStart
  BY <1>2, <1>3 DEF IsPort
<1> HIDE DEF t
<1>5. s.held => Accepting(s) /\ Listening(s)
  BY <1>2 DEF PortInv, HeldPort, Completed, Waiting
<1>6. t.held => Completed(t) /\ Listening(t)
  BY <1>1, <1>3, <1>4, <1>5 DEF Accepting, Completed, Listening
<1>7. PortInv(t, manager)
  BY <1>2, <1>4, <1>6 DEF PortInv, HeldPort
<1> QED
  BY <1>2, <1>4, <1>7, OnePort

(* The connections of a port are gone.                                     *)
LEMMA UnlinkedKeeps ==
  ASSUME PortsInv, NEW p \in Ports, S!Unlinked(p) PROVE PortsInv'
<1> DEFINE s == port[p]
           t == [s EXCEPT !.linked = FALSE]
<1>1. /\ manager' = manager /\ IsPort(s) /\ PortInv(s, manager)
      /\ port' = [port EXCEPT ![p] = t]
  BY DEF PortsInv, S!Unlinked
<1> HIDE DEF s
<1>2. /\ IsPort(t) /\ t.pending = s.pending /\ t.done = s.done /\ t.held = s.held
      /\ t.acceptor = s.acceptor /\ t.reopen = s.reopen /\ t.late = s.late
      /\ t.stopped = s.stopped /\ t.stopPosted = s.stopPosted
      /\ t.pendingStart = s.pendingStart
  BY <1>1 DEF IsPort
<1> HIDE DEF t
<1>3. PortInv(t, manager)
  BY <1>1, <1>2 DEF PortInv, HeldPort, Accepting, Completed, Waiting, Listening
<1> QED
  BY <1>1, <1>2, <1>3, OnePort

(* ServicePort::onAccept.                                                  *)
LEMMA OnAcceptKeeps ==
  ASSUME PortsInv, NEW p \in Ports, S!OnAccept(p) PROVE PortsInv'
<1> DEFINE o == port[p]
<1>1. PICK r \in o.done :
        LET s == [o EXCEPT !.done = @ \ {r}]
        IN  CASE r = "client" -> S!OnClient(p, s)
              [] r = "failed" -> S!OnFailure(p, s)
              [] r = "aborted" -> port' = [port EXCEPT ![p] = s]
  BY DEF S!OnAccept
<1> DEFINE d == o.done \ {r}
           s == [o EXCEPT !.done = d]
<1>2. /\ manager' = manager /\ IsPort(o) /\ PortInv(o, manager)
      /\ d \subseteq {"client", "failed", "aborted"}
      /\ r \in {"client", "failed", "aborted"}
  BY DEF PortsInv, S!OnAccept, IsPort
<1>3. /\ r = "client" => S!OnClient(p, s)
      /\ r = "failed" => S!OnFailure(p, s)
      /\ r = "aborted" => port' = [port EXCEPT ![p] = s]
  BY <1>1, <1>2
<1> HIDE DEF o
<1>4. o.held => Completed(o) /\ Listening(o) /\ r # "aborted" /\ d = {}
  BY <1>2 DEF PortInv, HeldPort, Accepting, Completed, Waiting
<1>5. o.held \/ manager # "loading"
  BY <1>2 DEF PortInv
<1> HIDE DEF d
<1>6. /\ IsPort(s) /\ s.pending = o.pending /\ s.done = d /\ s.held = o.held
      /\ s.acceptor = o.acceptor /\ s.reopen = o.reopen /\ s.late = o.late
      /\ s.stopped = o.stopped /\ s.stopPosted = o.stopPosted
      /\ s.pendingStart = o.pendingStart /\ s.linked = o.linked
  BY <1>2 DEF IsPort
<1> HIDE DEF s
<1>7. /\ s.held => /\ manager # "stopped" /\ ~s.pending /\ s.done = {} /\ s.reopen = 0
                   /\ Listening(s) /\ r # "aborted"
      /\ s.held \/ manager # "loading"
      /\ s.stopPosted \/ s.stopped \/ s.late => manager = "stopped"
      /\ manager = "stopped" /\ ~s.late => s.reopen = 0
      /\ s.stopped /\ ~s.late => s.acceptor # "open"
  BY <1>2, <1>4, <1>5, <1>6 DEF PortInv, Completed, Listening
<1>8. CASE r = "client"
  <2> DEFINE n == S!AcceptNext(s)
  <2>1. PICK kept \in BOOLEAN :
          port' = [port EXCEPT ![p] = [n EXCEPT !.linked = @ \/ kept]]
    BY <1>3, <1>8 DEF S!OnClient
  <2>2. /\ IsPort(n) /\ n.acceptor = s.acceptor /\ n.held = s.held
        /\ n.reopen = s.reopen /\ n.late = s.late /\ n.stopped = s.stopped
        /\ n.stopPosted = s.stopPosted /\ n.pendingStart = s.pendingStart
        /\ s.acceptor = "open" => n.pending /\ n.done = s.done
    <3>1. CASE s.acceptor = "open"
      <4>1. n = [s EXCEPT !.pending = TRUE]
        BY <3>1 DEF S!AcceptNext
      <4> HIDE DEF n
      <4> QED
        BY <1>6, <4>1 DEF IsPort
    <3>2. CASE s.acceptor # "open"
      <4> DEFINE e == s.done \cup {"aborted"}
      <4>1. n = [s EXCEPT !.done = e]
        BY <3>2 DEF S!AcceptNext
      <4>2. e \subseteq {"client", "failed", "aborted"}
        BY <1>6 DEF IsPort
      <4> HIDE DEF n, e
      <4> QED
        BY <1>6, <3>2, <4>1, <4>2 DEF IsPort
    <3> QED
      BY <3>1, <3>2
  <2> DEFINE l == n.linked \/ kept
             t == [n EXCEPT !.linked = l]
  <2>3. l \in BOOLEAN /\ port' = [port EXCEPT ![p] = t]
    BY <2>1, <2>2
  <2> HIDE DEF n, l
  <2>4. /\ IsPort(t) /\ t.acceptor = n.acceptor /\ t.held = n.held
        /\ t.reopen = n.reopen /\ t.late = n.late /\ t.stopped = n.stopped
        /\ t.stopPosted = n.stopPosted /\ t.pendingStart = n.pendingStart
        /\ t.pending = n.pending /\ t.done = n.done
    BY <2>2, <2>3 DEF IsPort
  <2> HIDE DEF t
  <2>5. t.held => manager # "stopped" /\ Accepting(t) /\ Listening(t)
    BY <1>7, <2>2, <2>4 DEF Accepting, Listening
  <2>6. PortInv(t, manager)
    BY <1>7, <2>2, <2>4, <2>5 DEF PortInv, HeldPort
  <2> QED
    BY <1>2, <2>3, <2>4, <2>6, OnePort
<1>9. CASE r = "failed"
  <2>1. CASE s.pendingStart
    <3>1. port' = [port EXCEPT ![p] = s]
      BY <1>3, <1>9, <2>1 DEF S!OnFailure
    <3>2. PortInv(s, manager)
      BY <1>7, <2>1 DEF PortInv, Listening
    <3> QED
      BY <1>2, <1>6, <3>1, <3>2, OnePort
  <2>2. CASE ~s.pendingStart
    <3> DEFINE c == S!Close(s)
               n == IF manager = "stopped" THEN c.reopen ELSE c.reopen + 1
               u == S!Planned(c)
               t == [u EXCEPT !.linked = TRUE]
    <3>1. port' = [port EXCEPT ![p] = t]
      BY <1>3, <1>9, <2>2 DEF S!OnFailure
    <3>2. u = [c EXCEPT !.pendingStart = TRUE, !.reopen = n]
      BY DEF S!Planned
    <3>3. /\ IsPort(c) /\ c.acceptor # "open"
          /\ c.held = s.held /\ c.reopen = s.reopen
          /\ c.stopPosted = s.stopPosted /\ c.stopped = s.stopped /\ c.late = s.late
          /\ ~s.pending => c.done = s.done /\ ~c.pending
      BY <1>6, AcceptorCloses
    <3>4. n \in Nat /\ (manager # "stopped" => n = s.reopen + 1)
                  /\ (manager = "stopped" => n = s.reopen)
      BY <3>3 DEF IsPort
    <3> HIDE DEF c, n, u
    <3>5. /\ IsPort(u) /\ u.acceptor = c.acceptor /\ u.held = c.held /\ u.reopen = n
          /\ u.stopPosted = c.stopPosted /\ u.stopped = c.stopped /\ u.late = c.late
          /\ u.done = c.done /\ u.pending = c.pending
      BY <3>2, <3>3, <3>4 DEF IsPort
    <3>6. /\ IsPort(t) /\ t.acceptor = c.acceptor /\ t.held = c.held /\ t.reopen = n
          /\ t.stopPosted = c.stopPosted /\ t.stopped = c.stopped /\ t.late = c.late
          /\ t.done = c.done /\ t.pending = c.pending
      BY <3>5 DEF IsPort
    <3> HIDE DEF t
    <3>7. t.held => manager # "stopped" /\ Waiting(t)
      BY <1>7, <3>3, <3>4, <3>6 DEF Waiting
    <3>8. PortInv(t, manager)
      BY <1>7, <3>3, <3>4, <3>6, <3>7 DEF PortInv, HeldPort
    <3> QED
      BY <1>2, <3>1, <3>6, <3>8, OnePort
  <2> QED
    BY <2>1, <2>2
<1>10. CASE r = "aborted"
  <2>1. PortInv(s, manager)
    BY <1>7, <1>10 DEF PortInv
  <2> QED
    BY <1>2, <1>3, <1>6, <1>10, <2>1, OnePort
<1> QED
  BY <1>2, <1>8, <1>9, <1>10

(* Every step of the ports and of their clients' attempts.                 *)
LEMMA PortsNext ==
  ASSUME PortsInv, BlockInv,
         S!ServicesNext \/ (\E gap \in Gaps : S!Attempt(gap)) \/ UNCHANGED server
  PROVE  PortsInv' /\ BlockInv'
<1>1. CASE UNCHANGED server
  BY <1>1 DEF server, PortsInv, BlockInv
<1>2. CASE \E gap \in Gaps : S!Attempt(gap)
  <2>1. manager' = manager /\ port' = port
    BY <1>2 DEF S!Attempt
  <2> QED
    BY <1>2, <2>1, AttemptKeeps DEF PortsInv
<1>3. CASE S!ServicesNext
  <2>1. block' = block
    BY <1>3 DEF S!ServicesNext, S!Loaded, S!Stop, S!Run, S!Die, S!Add, S!OpenAcceptor,
      S!OnStopServer, S!Completes, S!OnAccept, S!Unlinked
  <2>2. BlockInv'
    BY <2>1 DEF BlockInv
  <2>3. CASE S!Loaded
    <3>1. manager' = "ready" /\ manager = "loading" /\ port' = port
      BY <2>3 DEF S!Loaded
    <3>2. ASSUME NEW p \in Ports PROVE IsPort(port[p]) /\ PortInv(port[p], "ready")
      BY <3>1 DEF PortsInv, PortInv
    <3> QED
      BY <2>2, <3>1, <3>2 DEF PortsInv
  <2>4. CASE S!Run
    <3>1. manager' = "running" /\ manager = "ready" /\ port' = port
      BY <2>4 DEF S!Run
    <3>2. ASSUME NEW p \in Ports PROVE IsPort(port[p]) /\ PortInv(port[p], "running")
      BY <3>1 DEF PortsInv, PortInv
    <3> QED
      BY <2>2, <3>1, <3>2 DEF PortsInv
  <2>5. CASE S!Die
    BY <2>2, <2>5 DEF S!Die, PortsInv
  <2> QED
    BY <1>3, <2>2, <2>3, <2>4, <2>5, StopKeeps, AddKeeps, OpenAcceptorKeeps,
      OnStopServerKeeps, CompletesKeeps, OnAcceptKeeps, UnlinkedKeeps
      DEF S!ServicesNext
<1> QED
  BY <1>1, <1>2, <1>3

(* A port of a server that runs has one accept under way or one event that *)
(* will open it again, a stopped one stays closed, and the clients are     *)
(* refused for a burst only (server.cpp:37, :155, :181, :217).             *)
THEOREM PortsStayKept == MCSpec => []PortsKept
<1>1. MCInit => PortsInv /\ BlockInv
  BY PortsInit DEF MCInit
<1>2. PortsInv /\ BlockInv /\ [MCNext]_<<vars, part, buffers, server, waiting, timers>>
        => PortsInv' /\ BlockInv'
  <2>1. MCNext => S!ServicesNext \/ (\E gap \in Gaps : S!Attempt(gap)) \/ UNCHANGED server
    BY DEF MCNext, server
  <2> QED
    BY <2>1, PortsNext
<1>3. PortsInv /\ BlockInv => PortsKept
  <2> SUFFICES ASSUME PortsInv, BlockInv PROVE PortsKept
    OBVIOUS
  <2>1. S!StoppedIsClosed
    BY DEF PortsInv, PortInv, S!StoppedIsClosed
  <2>2. S!FairlyBlocked
    BY DEF BlockInv, S!FairlyBlocked
  <2>3. S!OneAccept
    <3> SUFFICES ASSUME NEW p \in Ports, port[p].held
                 PROVE  (IF port[p].pending THEN 1 ELSE 0) + S!Cardinality(port[p].done)
                          + port[p].reopen = 1
      BY DEF S!OneAccept
    <3>1. HeldPort(port[p])
      BY DEF PortsInv, PortInv
    <3>2. S!Cardinality({}) = 0 /\ S!Cardinality({"client"}) = 1
          /\ S!Cardinality({"failed"}) = 1
      <4>1. Cardinality({}) = 0 /\ Cardinality({"client"}) = 1 /\ Cardinality({"failed"}) = 1
        BY FS_EmptySet, FS_Singleton
      <4> QED
        BY <4>1 DEF Cardinality, S!Cardinality
    <3> QED
      BY <3>1, <3>2 DEF HeldPort, Accepting, Completed, Waiting
  <2> QED
    BY <2>1, <2>2, <2>3 DEF PortsKept
<1> QED
  BY <1>1, <1>2, <1>3, PTL DEF MCSpec

-----------------------------------------------------------------------------
(* The timers: the invariant.  Every event that was added is counted once. *)
One(b) == IF b THEN 1 ELSE 0

Owners(id) ==
    One(id \in T!BeingInserted) + One(id \in armed) + One(id \in timedOut)
      + One(id \in aborted) + One(id \in Elements(inbox)) + One(id \in ran)
      + One(id \in deleted)

Inserts == {T!Insert(id) : id \in T!EventId}

TimersInv ==
    /\ T!TypeOK
    /\ \A id \in T!EventId : Owners(id) = One(id <= lastEventId)
    /\ OnceIn(inbox, T!EventId) /\ OnceIn(handlers, Inserts)
    /\ stoppedInTime \subseteq aborted \cup deleted

(* The events being inserted, as elements of the queue of handlers.        *)
LEMMA InsertedElements ==
  /\ T!BeingInserted = {id \in T!EventId : T!Insert(id) \in Elements(handlers)}
  /\ T!BeingInserted' = {id \in T!EventId : T!Insert(id) \in Elements(handlers')}
<1>1. ASSUME NEW s, NEW x PROVE (\E i \in DOMAIN s : s[i] = x) <=> x \in Elements(s)
  BY DEF Elements
<1>2. \A id \in T!EventId : (\E i \in DOMAIN handlers : handlers[i] = T!Insert(id))
                             <=> T!Insert(id) \in Elements(handlers)
  BY <1>1
<1>3. \A id \in T!EventId : (\E i \in DOMAIN handlers' : handlers'[i] = T!Insert(id))
                             <=> T!Insert(id) \in Elements(handlers')
  BY <1>1
<1> QED
  BY <1>2, <1>3 DEF T!BeingInserted

(* Handlers are told apart by what they do and by their event.             *)
LEMMA InsertIsInjective ==
  /\ \A id, e \in T!EventId : T!Insert(id) = T!Insert(e) => id = e
  /\ \A id, e \in T!EventId : T!Insert(id) # T!Cancel(e)
  /\ \A id \in T!EventId : T!Insert(id) # T!Shutdown
  /\ \A id \in T!EventId : /\ T!Insert(id) \in T!Handler /\ T!Cancel(id) \in T!Handler
                           /\ T!Cancel(id) \notin Inserts /\ T!Insert(id) \in Inserts
  /\ T!Shutdown \in T!Handler /\ T!Shutdown \notin Inserts
<1>1. \A id, e \in T!EventId : /\ T!Insert(id).op = "insert" /\ T!Insert(id).id = id
                              /\ T!Cancel(e).op = "cancel" /\ T!Shutdown.op = "shutdown"
  BY DEF T!Insert, T!Cancel, T!Shutdown
<1>2. T!Shutdown.op = "shutdown"
  BY DEF T!Shutdown
<1> QED
  BY <1>1, <1>2 DEF T!Handler, Inserts

(* No event has been added at first.                                       *)
LEMMA TimersInit == T!SchedInit => TimersInv
<1> SUFFICES ASSUME T!SchedInit PROVE TimersInv
  OBVIOUS
<1>1. Elements(<<>>) = {} /\ OnceIn(<<>>, T!EventId) /\ OnceIn(<<>>, Inserts)
  BY DEF Elements, OnceIn
<1>2. T!TypeOK
  <2>1. 0 \in 0 .. MaxEvents
    BY MCConnectionAssumption
  <2>2. <<>> \in Seq(T!Handler) /\ <<>> \in Seq(T!EventId)
    OBVIOUS
  <2> QED
    BY <2>1, <2>2 DEF T!SchedInit, T!TypeOK
<1>3. T!BeingInserted = {}
  BY <1>1, InsertedElements DEF T!SchedInit
<1>4. ASSUME NEW id \in T!EventId PROVE Owners(id) = One(id <= lastEventId)
  BY <1>1, <1>3, <1>4, MCConnectionAssumption DEF T!SchedInit, Owners, One, T!EventId
<1> QED
  BY <1>1, <1>2, <1>4 DEF TimersInv, T!SchedInit

(* A handler is posted.                                                    *)
LEMMA HandlerPosted ==
  ASSUME TimersInv, NEW h \in T!Handler, handlers' = handlers \o <<h>>,
         h \in Inserts => \E id \in T!EventId : h = T!Insert(id) /\ id \notin T!BeingInserted
  PROVE  /\ handlers' \in Seq(T!Handler) /\ OnceIn(handlers', Inserts)
         /\ \A id \in T!EventId :
               id \in T!BeingInserted' <=> id \in T!BeingInserted \/ T!Insert(id) = h
<1>1. handlers \in Seq(T!Handler) /\ OnceIn(handlers, Inserts)
  BY DEF TimersInv, T!TypeOK
<1>2. handlers' = Append(handlers, h)
  BY <1>1, AppendIsConcat
<1>3. h \in Inserts => h \notin Elements(handlers)
  BY InsertedElements
<1>4. /\ handlers' \in Seq(T!Handler) /\ OnceIn(handlers', Inserts)
      /\ Elements(handlers') = Elements(handlers) \cup {h}
  <2> DEFINE a == Append(handlers, h)
  <2>1. /\ a \in Seq(T!Handler) /\ Elements(a) = Elements(handlers) \cup {h}
        /\ OnceIn(handlers, Inserts) /\ (h \in Inserts => h \notin Elements(handlers))
             => OnceIn(a, Inserts)
    BY <1>1, ElementsAppend
  <2>2. handlers' = a
    BY <1>2
  <2> HIDE DEF a
  <2> QED
    BY <1>1, <1>3, <2>1, <2>2
<1> QED
  BY <1>4, InsertedElements

(* The game thread adds and stops events, and shuts the scheduler down.    *)
LEMMA GameThreadKeeps ==
  ASSUME TimersInv,
         T!AddEvent \/ (\E id \in T!EventId : T!StopEvent(id)) \/ T!ShutdownScheduler
  PROVE  TimersInv'
<1>1. /\ T!TypeOK /\ MaxEvents \in Nat
      /\ \A id \in T!EventId : Owners(id) = One(id <= lastEventId)
  BY MCConnectionAssumption DEF TimersInv
<1>2. UNCHANGED <<armed, timedOut, aborted, stopped, inbox, ran, deleted, stoppedInTime>>
  BY DEF T!AddEvent, T!StopEvent, T!ShutdownScheduler, T!Post
<1>3. CASE T!AddEvent
  <2>1. PICK n \in T!EventId : n = lastEventId + 1
    BY <1>1, <1>3 DEF T!AddEvent, T!TypeOK, T!EventId
  <2>2. /\ handlers' = handlers \o <<T!Insert(n)>> /\ lastEventId' = n /\ running' = running
    BY <1>3, <2>1 DEF T!AddEvent, T!Post
  <2>3. Owners(n) = 0 /\ lastEventId \in 0 .. MaxEvents
    BY <1>1, <2>1 DEF One, T!TypeOK, T!EventId
  <2>4. n \notin T!BeingInserted
    BY <2>3 DEF Owners, One
  <2>5. /\ handlers' \in Seq(T!Handler) /\ OnceIn(handlers', Inserts)
        /\ \A id \in T!EventId : id \in T!BeingInserted' <=> id \in T!BeingInserted \/ id = n
    <3>1. T!Insert(n) \in T!Handler
      BY InsertIsInjective
    <3> QED
      BY <2>2, <2>4, <3>1, HandlerPosted, InsertIsInjective
  <2>6. T!TypeOK'
    BY <1>1, <1>2, <2>1, <2>2, <2>5 DEF T!TypeOK, T!EventId
  <2>7. ASSUME NEW id \in T!EventId PROVE Owners(id)' = One(id <= lastEventId)'
    <3>1. CASE id = n
      BY <1>2, <2>2, <2>3, <2>5, <3>1 DEF Owners, One, T!EventId
    <3>2. CASE id # n
      <4>1. id <= n <=> id <= lastEventId
        BY <2>1, <2>3, <3>2 DEF T!EventId
      <4>2. Owners(id) = One(id <= lastEventId)
        BY <1>1
      <4> QED
        BY <1>2, <2>2, <2>5, <3>2, <4>1, <4>2 DEF Owners, One
    <3> QED
      BY <3>1, <3>2
  <2> QED
    BY <1>2, <2>5, <2>6, <2>7 DEF TimersInv
<1>4. CASE (\E id \in T!EventId : T!StopEvent(id)) \/ T!ShutdownScheduler
  <2>1. PICK h \in {T!Cancel(id) : id \in T!EventId} \cup {T!Shutdown} :
          handlers' = handlers \o <<h>>
    <3>1. CASE T!ShutdownScheduler
      <4>1. handlers \in Seq(T!Handler) /\ T!Shutdown \in T!Handler
        BY <1>1, InsertIsInjective DEF T!TypeOK
      <4>2. handlers' = handlers \o <<T!Shutdown>>
        BY <3>1, <4>1, AppendIsConcat DEF T!ShutdownScheduler
      <4> QED
        BY <4>2
    <3>2. CASE \E id \in T!EventId : T!StopEvent(id)
      BY <3>2 DEF T!StopEvent, T!Post
    <3> QED
      BY <1>4, <3>1, <3>2
  <2>2. lastEventId' = lastEventId /\ running' \in BOOLEAN
    <3>1. lastEventId \in Nat /\ lastEventId + 0 = lastEventId /\ running \in BOOLEAN
      BY <1>1 DEF T!TypeOK
    <3> QED
      BY <1>4, <3>1 DEF T!StopEvent, T!ShutdownScheduler, T!Post
  <2>3. h \in T!Handler /\ h \notin Inserts /\ \A id \in T!EventId : T!Insert(id) # h
    BY InsertIsInjective
  <2>4. /\ handlers' \in Seq(T!Handler) /\ OnceIn(handlers', Inserts)
        /\ \A id \in T!EventId : id \in T!BeingInserted' <=> id \in T!BeingInserted
    BY <2>1, <2>3, HandlerPosted
  <2>5. T!TypeOK'
    BY <1>1, <1>2, <2>2, <2>4 DEF T!TypeOK
  <2>6. ASSUME NEW id \in T!EventId PROVE Owners(id)' = One(id <= lastEventId)'
    BY <1>1, <1>2, <2>2, <2>4 DEF Owners, One
  <2> QED
    BY <1>2, <2>4, <2>5, <2>6 DEF TimersInv
<1> QED
  BY <1>3, <1>4

(* The scheduler's thread runs the oldest handler.                         *)
LEMMA RunPostedKeeps == TimersInv /\ T!RunPosted => TimersInv'
<1> SUFFICES ASSUME TimersInv, T!RunPosted PROVE TimersInv'
  OBVIOUS
<1> DEFINE h == Head(handlers)
<1>1. /\ T!TypeOK /\ handlers \in Seq(T!Handler) /\ OnceIn(handlers, Inserts)
      /\ \A id \in T!EventId : Owners(id) = One(id <= lastEventId)
      /\ stoppedInTime \subseteq aborted \cup deleted
  BY DEF TimersInv, T!TypeOK
<1>2. /\ handlers # <<>> /\ handlers' = Tail(handlers)
      /\ UNCHANGED <<lastEventId, timedOut, running, inbox, ran, deleted>>
  BY DEF T!RunPosted
<1>3. /\ h \in T!Handler /\ handlers' \in Seq(T!Handler) /\ OnceIn(handlers', Inserts)
      /\ Elements(handlers) = Elements(handlers') \cup {h}
      /\ h \in Inserts => h \notin Elements(handlers')
  <2> DEFINE t == Tail(handlers)
  <2>1. /\ h \in T!Handler /\ t \in Seq(T!Handler)
        /\ Elements(handlers) = Elements(t) \cup {h}
        /\ OnceIn(handlers, Inserts) => OnceIn(t, Inserts) /\ (h \in Inserts => h \notin Elements(t))
    BY <1>1, <1>2, ElementsTail
  <2>2. handlers' = t
    BY <1>2
  <2> HIDE DEF t, h
  <2> QED
    BY <1>1, <2>1, <2>2
<1>4. /\ h.op = "insert" => T!RunInsert
      /\ h.op # "insert" /\ h.op = "cancel" => T!RunCancel
      /\ h.op # "insert" /\ h.op # "cancel" /\ h.op = "shutdown" => T!RunShutdown
  BY DEF T!RunPosted
<1> HIDE DEF h
<1>5. CASE \E id \in T!EventId : h = T!Insert(id)
  <2>1. PICK n \in T!EventId : h = T!Insert(n)
    BY <1>5
  <2>2. h.op = "insert" /\ h.id = n
    BY <2>1 DEF T!Insert
  <2>3. armed' = armed \cup {n} /\ UNCHANGED <<aborted, stopped, stoppedInTime>>
    BY <1>4, <2>2 DEF T!RunInsert, h
  <2>4. n \in T!BeingInserted
    BY <1>3, <2>1, InsertedElements
  <2>5. n \notin T!BeingInserted'
    BY <1>3, <2>1, InsertedElements, InsertIsInjective
  <2>6. \A id \in T!EventId : id # n => (id \in T!BeingInserted' <=> id \in T!BeingInserted)
    BY <1>3, <2>1, InsertedElements, InsertIsInjective
  <2>7. T!TypeOK'
    BY <1>1, <1>2, <1>3, <2>3 DEF T!TypeOK
  <2>8. ASSUME NEW id \in T!EventId PROVE Owners(id)' = One(id <= lastEventId)'
    <3>1. Owners(id) = One(id <= lastEventId)
      BY <1>1
    <3>2. CASE id = n
      BY <1>2, <2>3, <2>4, <2>5, <3>1, <3>2 DEF Owners, One
    <3>3. CASE id # n
      BY <1>2, <2>3, <2>6, <3>1, <3>3 DEF Owners, One
    <3> QED
      BY <3>2, <3>3
  <2> QED
    BY <1>1, <1>2, <1>3, <2>3, <2>7, <2>8 DEF TimersInv
<1>6. ASSUME \A id \in T!EventId : h # T!Insert(id)
      PROVE  \A id \in T!EventId : id \in T!BeingInserted' <=> id \in T!BeingInserted
  BY <1>3, <1>6, InsertedElements
<1>7. ASSUME \A id \in T!EventId : h # T!Insert(id), NEW F \in SUBSET armed,
             armed' = armed \ F, aborted' = aborted \cup F,
             stoppedInTime' \subseteq stoppedInTime \cup F, stopped' \in BOOLEAN
      PROVE  TimersInv'
  <2>1. T!TypeOK'
    BY <1>1, <1>2, <1>3, <1>7 DEF T!TypeOK
  <2>2. ASSUME NEW id \in T!EventId PROVE Owners(id)' = One(id <= lastEventId)'
    <3>1. Owners(id) = One(id <= lastEventId)
      BY <1>1
    <3>2. id \in T!BeingInserted' <=> id \in T!BeingInserted
      BY <1>6, <1>7
    <3>3. CASE id \in F
      <4>1. id \in armed /\ id \notin armed' /\ id \in aborted'
        BY <1>7, <3>3
      <4>2. id \notin aborted
        BY <3>1, <4>1 DEF Owners, One
      <4> QED
        BY <1>2, <3>1, <3>2, <4>1, <4>2 DEF Owners, One
    <3>4. CASE id \notin F
      <4>1. (id \in armed' <=> id \in armed) /\ (id \in aborted' <=> id \in aborted)
        BY <1>7, <3>4
      <4> QED
        BY <1>2, <3>1, <3>2, <4>1 DEF Owners, One
    <3> QED
      BY <3>3, <3>4
  <2>3. stoppedInTime' \subseteq aborted' \cup deleted'
    BY <1>1, <1>2, <1>7
  <2>4. OnceIn(inbox', T!EventId)
    BY <1>2 DEF TimersInv
  <2> QED
    BY <1>3, <2>1, <2>2, <2>3, <2>4 DEF TimersInv
<1>8. CASE \E id \in T!EventId : h = T!Cancel(id)
  <2>1. PICK n \in T!EventId : h = T!Cancel(n)
    BY <1>8
  <2>2. h.op = "cancel" /\ h.id = n
    BY <2>1 DEF T!Cancel
  <2>3. /\ armed' = armed \ (armed \cap {n}) /\ aborted' = aborted \cup (armed \cap {n})
        /\ stoppedInTime' = stoppedInTime \cup (armed \cap {n}) /\ stopped' = stopped
    BY <1>4, <2>2 DEF T!RunCancel, h
  <2>4. \A id \in T!EventId : h # T!Insert(id)
    BY <2>1, InsertIsInjective
  <2>5. stopped \in BOOLEAN
    BY <1>1 DEF T!TypeOK
  <2> QED
    BY <1>7, <2>3, <2>4, <2>5
<1>9. CASE h = T!Shutdown
  <2>1. h.op = "shutdown"
    BY <1>9 DEF T!Shutdown
  <2>2. /\ armed' = armed \ armed /\ aborted' = aborted \cup armed
        /\ stoppedInTime' = stoppedInTime /\ stopped' = TRUE
    BY <1>4, <2>1 DEF T!RunShutdown
  <2>3. \A id \in T!EventId : h # T!Insert(id)
    BY <1>9, InsertIsInjective
  <2> QED
    BY <1>7, <2>2, <2>3
<1> QED
  BY <1>3, <1>5, <1>8, <1>9 DEF T!Handler

(* A timer expires.                                                        *)
LEMMA ExpireKeeps ==
  ASSUME TimersInv, NEW n \in T!EventId, T!Expire(n) PROVE TimersInv'
<1>1. /\ n \in armed /\ armed' = armed \ {n} /\ timedOut' = timedOut \cup {n}
      /\ UNCHANGED <<lastEventId, handlers, aborted, running, stopped, inbox, ran,
                     deleted, stoppedInTime>>
  BY DEF T!Expire
<1>2. T!TypeOK'
  BY <1>1 DEF TimersInv, T!TypeOK
<1>3. T!BeingInserted' = T!BeingInserted
  BY <1>1, InsertedElements
<1>4. ASSUME NEW id \in T!EventId PROVE Owners(id)' = One(id <= lastEventId)'
  <2>1. Owners(id) = One(id <= lastEventId)
    BY DEF TimersInv
  <2>2. CASE id = n
    <3>1. id \notin timedOut
      BY <1>1, <2>1, <2>2 DEF Owners, One
    <3> QED
      BY <1>1, <1>3, <2>1, <2>2, <3>1 DEF Owners, One
  <2>3. CASE id # n
    BY <1>1, <1>3, <2>1, <2>3 DEF Owners, One
  <2> QED
    BY <2>2, <2>3
<1> QED
  BY <1>1, <1>2, <1>4 DEF TimersInv

(* The handler of a timer hands its task over or deletes it.               *)
LEMMA WaitDoneKeeps ==
  ASSUME TimersInv, NEW n \in T!EventId, T!WaitDone(n) PROVE TimersInv'
<1>1. /\ n \in timedOut \cup aborted
      /\ timedOut' = timedOut \ {n} /\ aborted' = aborted \ {n}
      /\ UNCHANGED <<lastEventId, handlers, armed, running, stopped, ran, stoppedInTime>>
      /\ \/ n \in timedOut /\ inbox' = Append(inbox, n) /\ deleted' = deleted
         \/ deleted' = deleted \cup {n} /\ inbox' = inbox
  BY DEF T!WaitDone
<1>2. T!BeingInserted' = T!BeingInserted
  BY <1>1, InsertedElements
<1>3. Owners(n) = One(n <= lastEventId) /\ inbox \in Seq(T!EventId)
  BY DEF TimersInv, T!TypeOK
<1>4. n \notin Elements(inbox) /\ n \notin deleted /\ ~(n \in timedOut /\ n \in aborted)
  BY <1>1, <1>3 DEF Owners, One
<1>5. CASE n \in timedOut /\ inbox' = Append(inbox, n) /\ deleted' = deleted
  <2>1. /\ inbox' \in Seq(T!EventId) /\ Elements(inbox') = Elements(inbox) \cup {n}
        /\ OnceIn(inbox', T!EventId)
    <3> DEFINE a == Append(inbox, n)
    <3>1. /\ a \in Seq(T!EventId) /\ Elements(a) = Elements(inbox) \cup {n}
          /\ OnceIn(inbox, T!EventId) /\ (n \in T!EventId => n \notin Elements(inbox))
               => OnceIn(a, T!EventId)
      BY <1>3, ElementsAppend
    <3>2. inbox' = a /\ OnceIn(inbox, T!EventId)
      BY <1>5 DEF TimersInv
    <3> HIDE DEF a
    <3> QED
      BY <1>4, <3>1, <3>2
  <2>2. T!TypeOK'
    BY <1>1, <1>5, <2>1 DEF TimersInv, T!TypeOK
  <2>3. ASSUME NEW id \in T!EventId PROVE Owners(id)' = One(id <= lastEventId)'
    <3>1. Owners(id) = One(id <= lastEventId)
      BY DEF TimersInv
    <3>2. CASE id = n
      BY <1>1, <1>2, <1>4, <1>5, <2>1, <3>1, <3>2 DEF Owners, One
    <3>3. CASE id # n
      BY <1>1, <1>2, <1>5, <2>1, <3>1, <3>3 DEF Owners, One
    <3> QED
      BY <3>2, <3>3
  <2>4. stoppedInTime' \subseteq aborted' \cup deleted'
    BY <1>1, <1>4, <1>5 DEF TimersInv
  <2>5. OnceIn(handlers', Inserts)
    BY <1>1 DEF TimersInv
  <2> QED
    BY <2>1, <2>2, <2>3, <2>4, <2>5 DEF TimersInv
<1>6. CASE deleted' = deleted \cup {n} /\ inbox' = inbox
  <2>1. T!TypeOK'
    BY <1>1, <1>6 DEF TimersInv, T!TypeOK
  <2>2. ASSUME NEW id \in T!EventId PROVE Owners(id)' = One(id <= lastEventId)'
    <3>1. Owners(id) = One(id <= lastEventId)
      BY DEF TimersInv
    <3>2. CASE id = n
      BY <1>1, <1>2, <1>4, <1>6, <3>1, <3>2 DEF Owners, One
    <3>3. CASE id # n
      BY <1>1, <1>2, <1>6, <3>1, <3>3 DEF Owners, One
    <3> QED
      BY <3>2, <3>3
  <2>3. stoppedInTime' \subseteq aborted' \cup deleted'
    BY <1>1, <1>6 DEF TimersInv
  <2>4. OnceIn(handlers', Inserts) /\ OnceIn(inbox', T!EventId)
    BY <1>1, <1>6 DEF TimersInv
  <2> QED
    BY <2>1, <2>2, <2>3, <2>4 DEF TimersInv
<1> QED
  BY <1>1, <1>5, <1>6

(* The dispatcher runs an expired task.                                    *)
LEMMA RunEventKeeps == TimersInv /\ T!RunEvent => TimersInv'
<1> SUFFICES ASSUME TimersInv, T!RunEvent PROVE TimersInv'
  OBVIOUS
<1>1. PICK n \in T!EventId : T!Take(n)
  BY DEF T!RunEvent
<1>2. /\ inbox # <<>> /\ n = Head(inbox) /\ inbox' = Tail(inbox) /\ ran' = ran \cup {n}
      /\ UNCHANGED <<lastEventId, handlers, armed, timedOut, aborted, running,
                     stopped, deleted, stoppedInTime>>
  BY <1>1 DEF T!Take, T!RunEvent
<1>3. T!BeingInserted' = T!BeingInserted
  BY <1>2, InsertedElements
<1>4. /\ inbox' \in Seq(T!EventId) /\ Elements(inbox) = Elements(inbox') \cup {n}
      /\ OnceIn(inbox', T!EventId) /\ n \notin Elements(inbox')
  <2> DEFINE t == Tail(inbox)
             h == Head(inbox)
  <2>1. inbox \in Seq(T!EventId) /\ OnceIn(inbox, T!EventId)
    BY DEF TimersInv, T!TypeOK
  <2>2. /\ t \in Seq(T!EventId) /\ Elements(inbox) = Elements(t) \cup {h}
        /\ OnceIn(inbox, T!EventId)
             => OnceIn(t, T!EventId) /\ (h \in T!EventId => h \notin Elements(t))
    BY <1>2, <2>1, ElementsTail
  <2>3. inbox' = t /\ n = h
    BY <1>2
  <2> HIDE DEF t, h
  <2> QED
    BY <2>1, <2>2, <2>3
<1>5. T!TypeOK'
  BY <1>2, <1>4 DEF TimersInv, T!TypeOK
<1>6. ASSUME NEW id \in T!EventId PROVE Owners(id)' = One(id <= lastEventId)'
  <2>1. Owners(id) = One(id <= lastEventId)
    BY DEF TimersInv
  <2>2. CASE id = n
    <3>1. id \in Elements(inbox) /\ id \notin Elements(inbox') /\ id \in ran'
      BY <1>2, <1>4, <2>2
    <3>2. id \notin ran
      BY <2>1, <3>1 DEF Owners, One
    <3> QED
      BY <1>2, <1>3, <2>1, <3>1, <3>2 DEF Owners, One
  <2>3. CASE id # n
    BY <1>2, <1>3, <1>4, <2>1, <2>3 DEF Owners, One
  <2> QED
    BY <2>2, <2>3
<1>7. OnceIn(handlers', Inserts) /\ stoppedInTime' \subseteq aborted' \cup deleted'
  BY <1>2 DEF TimersInv
<1> QED
  BY <1>4, <1>5, <1>6, <1>7 DEF TimersInv

(* Every step of the scheduler and its users.                              *)
LEMMA TimersNext == TimersInv /\ [T!SchedNext]_timers => TimersInv'
<1> SUFFICES ASSUME TimersInv, [T!SchedNext]_timers PROVE TimersInv'
  OBVIOUS
<1>1. CASE UNCHANGED timers
  <2>1. UNCHANGED <<lastEventId, handlers, armed, timedOut, aborted, running, stopped, inbox,
                    ran, deleted, stoppedInTime>>
    BY <1>1 DEF timers
  <2>2. T!TypeOK' /\ T!BeingInserted' = T!BeingInserted
    BY <2>1, InsertedElements DEF TimersInv, T!TypeOK
  <2>3. ASSUME NEW id \in T!EventId PROVE Owners(id)' = One(id <= lastEventId)'
    BY <2>1, <2>2 DEF TimersInv, Owners, One
  <2> QED
    BY <2>1, <2>2, <2>3 DEF TimersInv
<1>2. CASE T!SchedNext
  BY <1>2, GameThreadKeeps, RunPostedKeeps, ExpireKeeps, WaitDoneKeeps, RunEventKeeps
    DEF T!SchedNext, T!GameThread, T!SchedulerThread
<1> QED
  BY <1>1, <1>2

(* A sequence without repetitions is as long as its set of elements.       *)
LEMMA ElementsCounted ==
  ASSUME NEW V, NEW s \in Seq(V), OnceIn(s, V)
  PROVE  IsFiniteSet(Elements(s)) /\ Cardinality(Elements(s)) = Len(s)
<1>1. DOMAIN s = 1 .. Len(s) /\ Len(s) \in Nat /\ \A i \in DOMAIN s : s[i] \in V
  BY ElementOfSeq
<1> DEFINE f == [i \in 1 .. Len(s) |-> s[i]]
<1>2. \A i \in 1 .. Len(s) : f[i] = s[i] /\ s[i] \in Elements(s)
  BY <1>1 DEF Elements
<1>3. f \in Injection(1 .. Len(s), Elements(s))
  <2>1. f \in [1 .. Len(s) -> Elements(s)]
    BY <1>2
  <2>2. \A i, j \in 1 .. Len(s) : f[i] = f[j] => i = j
    BY <1>1, <1>2 DEF OnceIn
  <2> QED
    BY <2>1, <2>2 DEF Injection, IsInjective
<1>4. f \in Surjection(1 .. Len(s), Elements(s))
  <2>1. \A x \in Elements(s) : \E i \in 1 .. Len(s) : f[i] = x
    BY <1>1, <1>2 DEF Elements
  <2> QED
    BY <1>3, <2>1 DEF Surjection, Injection
<1>5. f \in Bijection(1 .. Len(s), Elements(s))
  BY <1>3, <1>4 DEF Bijection
<1>6. ExistsBijection(1 .. Len(s), Elements(s))
  BY <1>5 DEF ExistsBijection
<1>7. IsFiniteSet(1 .. Len(s)) /\ Cardinality(1 .. Len(s)) = Len(s)
  <2>1. /\ IsFiniteSet(1 .. Len(s))
        /\ Cardinality(1 .. Len(s)) = IF 1 > Len(s) THEN 0 ELSE Len(s) - 1 + 1
    BY <1>1, FS_Interval
  <2> QED
    BY <1>1, <2>1
<1> QED
  BY <1>6, <1>7, FS_Bijection

(* The invariant counts every event once, so the owners add up.            *)
LEMMA OwnersAddUp == TimersInv => TimersAreOwned
<1> SUFFICES ASSUME TimersInv PROVE TimersAreOwned
  OBVIOUS
<1>1. /\ T!TypeOK /\ lastEventId \in 0 .. MaxEvents /\ MaxEvents \in Nat
      /\ T!EventId = 1 .. MaxEvents
  BY MCConnectionAssumption DEF TimersInv, T!TypeOK, T!EventId
<1>2. ASSUME NEW id \in T!EventId
      PROVE  /\ Owners(id) = One(id <= lastEventId) /\ (id <= lastEventId <=> id \in 1 .. lastEventId)
  BY <1>1 DEF TimersInv
<1>3. /\ T!BeingInserted \subseteq T!EventId /\ armed \subseteq T!EventId
      /\ timedOut \subseteq T!EventId /\ aborted \subseteq T!EventId
      /\ Elements(inbox) \subseteq T!EventId /\ ran \subseteq T!EventId
      /\ deleted \subseteq T!EventId
  <2>1. Elements(inbox) \subseteq T!EventId
    BY <1>1, ElementOfSeq DEF T!TypeOK, Elements
  <2> QED
    BY <1>1, <2>1 DEF T!TypeOK, T!BeingInserted
<1> DEFINE U2 == T!BeingInserted \cup armed
           U3 == U2 \cup timedOut
           U4 == U3 \cup aborted
           U5 == U4 \cup Elements(inbox)
           U6 == U5 \cup ran
           U7 == U6 \cup deleted
<1>4. U7 = 1 .. lastEventId
  <2>1. ASSUME NEW id \in T!EventId PROVE id \in U7 <=> id \in 1 .. lastEventId
    BY <1>2 DEF Owners, One
  <2>2. 1 .. lastEventId \subseteq T!EventId
    BY <1>1
  <2> QED
    BY <1>3, <2>1, <2>2
<1>5. ASSUME NEW id \in T!EventId
      PROVE  /\ ~(id \in T!BeingInserted /\ id \in armed)
             /\ ~(id \in U2 /\ id \in timedOut) /\ ~(id \in U3 /\ id \in aborted)
             /\ ~(id \in U4 /\ id \in Elements(inbox))
             /\ ~(id \in U5 /\ id \in ran) /\ ~(id \in U6 /\ id \in deleted)
  BY <1>2 DEF Owners, One
<1>6. /\ T!BeingInserted \cap armed = {} /\ U2 \cap timedOut = {} /\ U3 \cap aborted = {}
      /\ U4 \cap Elements(inbox) = {} /\ U5 \cap ran = {} /\ U6 \cap deleted = {}
  BY <1>3, <1>5
<1>7. IsFiniteSet(T!EventId)
  BY <1>1, FS_Interval
<1>8. /\ IsFiniteSet(T!BeingInserted) /\ IsFiniteSet(armed) /\ IsFiniteSet(timedOut)
      /\ IsFiniteSet(aborted) /\ IsFiniteSet(Elements(inbox)) /\ IsFiniteSet(ran)
      /\ IsFiniteSet(deleted)
  BY <1>3, <1>7, FS_Subset
<1>9. IsFiniteSet(U2) /\ Cardinality(U2) = Cardinality(T!BeingInserted) + Cardinality(armed)
  BY <1>6, <1>8, CountedApart
<1> HIDE DEF U2
<1>10. IsFiniteSet(U3) /\ Cardinality(U3) = Cardinality(U2) + Cardinality(timedOut)
  BY <1>6, <1>8, <1>9, CountedApart
<1> HIDE DEF U3
<1>11. IsFiniteSet(U4) /\ Cardinality(U4) = Cardinality(U3) + Cardinality(aborted)
  BY <1>6, <1>8, <1>10, CountedApart
<1> HIDE DEF U4
<1>12. IsFiniteSet(U5) /\ Cardinality(U5) = Cardinality(U4) + Cardinality(Elements(inbox))
  BY <1>6, <1>8, <1>11, CountedApart
<1> HIDE DEF U5
<1>13. IsFiniteSet(U6) /\ Cardinality(U6) = Cardinality(U5) + Cardinality(ran)
  BY <1>6, <1>8, <1>12, CountedApart
<1> HIDE DEF U6
<1>14. Cardinality(U7) = Cardinality(U6) + Cardinality(deleted)
  BY <1>6, <1>8, <1>13, CountedApart
<1> HIDE DEF U7
<1>15. Cardinality(U7) = lastEventId
  <2>1. Cardinality(1 .. lastEventId) = IF 1 > lastEventId THEN 0 ELSE lastEventId - 1 + 1
    BY <1>1, FS_Interval
  <2> QED
    BY <1>1, <1>4, <2>1, SMT
<1>16. Cardinality(Elements(inbox)) = Len(inbox)
  BY ElementsCounted DEF TimersInv, T!TypeOK
<1>17. \A X : T!Cardinality(X) = Cardinality(X)
  BY DEF T!Cardinality, Cardinality
<1>18. T!InInbox = Elements(inbox)
  BY DEF T!InInbox, Elements
<1>19. Cardinality(T!BeingInserted) + Cardinality(armed) + Cardinality(timedOut)
         + Cardinality(aborted) + Len(inbox) + Cardinality(ran) + Cardinality(deleted)
           = lastEventId
  BY <1>9, <1>10, <1>11, <1>12, <1>13, <1>14, <1>15, <1>16
<1>20. T!OneOwner
  BY <1>4, <1>17, <1>18, <1>19 DEF T!OneOwner, U2, U3, U4, U5, U6, U7
<1>21. T!StoppedNeverRuns
  <2>1. ASSUME NEW id \in stoppedInTime PROVE id \notin ran /\ id \notin Elements(inbox)
    <3>1. id \in T!EventId /\ (id \in aborted \/ id \in deleted)
      BY <1>1 DEF TimersInv, T!TypeOK
    <3> QED
      BY <1>2, <3>1 DEF Owners, One
  <2> QED
    BY <1>18, <2>1 DEF T!StoppedNeverRuns
<1> QED
  BY <1>1, <1>20, <1>21 DEF TimersAreOwned

(* A timer has one owner at any time, whoever cancels it and whoever lets  *)
(* it expire, and one stopped in time never runs (scheduler.cpp:20, :45).  *)
THEOREM TimersStayOwned == MCSpec => []TimersAreOwned
<1>1. MCInit => TimersInv
  BY TimersInit DEF MCInit
<1>2. TimersInv /\ [MCNext]_<<vars, part, buffers, server, waiting, timers>> => TimersInv'
  <2>1. MCNext => [T!SchedNext]_timers
    BY DEF MCNext
  <2> QED
    BY <2>1, TimersNext
<1> QED
  BY <1>1, <1>2, OwnersAddUp, PTL DEF MCSpec

=============================================================================
