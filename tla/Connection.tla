------------------------------ MODULE Connection ------------------------------
(***************************************************************************)
(* One client connection: class Connection of src/src/connection.cpp.  The *)
(* io thread runs the completion handlers of one read, one write and two   *)
(* timers; the game thread sends and closes through the Protocol.  Both    *)
(* hold connectionLock, so an action is one critical section; what is      *)
(* interleaved is their order, and that of the completions already queued  *)
(* when a section runs.  Exceptions thrown by asio are not modelled.       *)
(***************************************************************************)
EXTENDS Naturals, Sequences

CONSTANTS
    MaxMessages,    \* bound on the messages the protocol sends
    MaxPackets      \* bound on the packets the peer sends

ASSUME ConnectionAssumption == MaxMessages \in Nat /\ MaxPackets \in Nat

VARIABLES
    conn,           \* the members of the Connection
    peer,           \* the remote end is connected
    packets,        \* packets the peer has begun to send
    delivered,      \* history: messages written to the socket
    accepted,       \* history: messages put into the queue
    releases,       \* history: Protocol::release tasks dispatched
    lost            \* history: a write failed

vars == <<conn, peer, packets, delivered, accepted, releases, lost>>

(* The read and the write under way.  "...Done" and "failed" are           *)
(* completions whose handler has not run yet.                              *)
Read == {"none", "header", "body", "headerDone", "bodyDone", "failed"}
Write == {"none", "writing", "written", "failed"}

(* A timer can be running again while the handler of its last expiry is    *)
(* still queued: cancel() does not reach that handler.                     *)
Timer == SUBSET {"running", "fired"}

Message == 1 .. MaxMessages

Init ==
    /\ conn = [exists |-> TRUE, tracked |-> TRUE, open |-> TRUE, closed |-> FALSE,
               started |-> FALSE, protocol |-> FALSE, queue |-> <<>>,
               read |-> "none", posted |-> 0, write |-> "none",
               readTimer |-> {}, writeTimer |-> {}]
    /\ peer = TRUE /\ packets = 0
    /\ delivered = <<>> /\ accepted = <<>>
    /\ releases = 0 /\ lost = FALSE

-----------------------------------------------------------------------------
(* The member functions, from a state of the connection to a state.        *)
CancelReadTimer(c) == [c EXCEPT !.readTimer = @ \ {"running"}]
CancelWriteTimer(c) == [c EXCEPT !.writeTimer = @ \ {"running"}]

CloseSocket(c) ==
    IF c.open
    THEN [CancelWriteTimer(CancelReadTimer(c)) EXCEPT !.open = FALSE]
    ELSE c

(* A second call of close does nothing, forced or not.                     *)
Close(c, force) ==
    LET marked == [c EXCEPT !.tracked = FALSE, !.closed = TRUE]
    IN  IF c.closed
        THEN [c EXCEPT !.tracked = FALSE]
        ELSE IF c.queue = <<>> \/ force THEN CloseSocket(marked) ELSE marked

SendLateMutant(c, m) ==          \* looks at the queue after the insertion
    IF c.closed
    THEN c
    ELSE [c EXCEPT !.queue = Append(@, m)]

Send(c, m) ==
    IF c.closed
    THEN c
    ELSE [c EXCEPT !.queue = Append(@, m),
                   !.posted = IF c.queue = <<>> THEN @ + 1 ELSE @]

InternalSend(c) ==
    [c EXCEPT !.write = "writing", !.writeTimer = @ \cup {"running"}]

StartReadMutant(c, part) ==      \* forgets the timer
    [c EXCEPT !.read = part]

StartRead(c, part) ==
    [c EXCEPT !.read = part, !.readTimer = @ \cup {"running"}]

(* The connection ends the step in state c, whose queue took the messages  *)
(* ms and whose closing dispatches the release of its protocol.            *)
Becomes(c, ms) ==
    /\ conn' = c
    /\ accepted' = accepted \o ms
    /\ releases' = releases + (IF c.closed /\ ~conn.closed /\ c.protocol THEN 1 ELSE 0)

Accepts(c, m) == IF c.closed THEN <<>> ELSE <<m>>
NextMessage == Len(accepted) + 1

-----------------------------------------------------------------------------
(* The io thread: the connection is accepted by the ServicePort, with its  *)
(* protocol when the port has a single one, or rejected for its rate.      *)
Accept ==
    /\ conn.exists /\ ~conn.started /\ ~conn.closed
    /\ \/ \E single \in BOOLEAN :
            LET c == [conn EXCEPT !.started = TRUE, !.protocol = single]
            IN  Becomes(StartRead(c, "header"), <<>>)
       \/ Becomes(Close([conn EXCEPT !.started = TRUE], TRUE), <<>>)
    /\ UNCHANGED <<peer, packets, delivered, lost>>

(* Header and body share the first lines: the timer is cancelled, an error *)
(* closes, a closed connection reads no more.                              *)
ReadHandled == [CancelReadTimer(conn) EXCEPT !.read = "none"]

ReadFailed ==
    /\ conn.read = "failed"
    /\ Becomes(Close(ReadHandled, TRUE), <<>>)
    /\ UNCHANGED <<peer, packets, delivered, lost>>

ParseHeader ==
    /\ conn.read = "headerDone"
    /\ IF conn.closed
       THEN Becomes(ReadHandled, <<>>)
       ELSE \/ Becomes(Close(ReadHandled, FALSE), <<>>)       \* too many packets
            \/ Becomes(Close(ReadHandled, TRUE), <<>>)        \* bad length
            \/ Becomes(StartRead(ReadHandled, "body"), <<>>)
    /\ UNCHANGED <<peer, packets, delivered, lost>>

(* The packet goes to the protocol, made by the first one unless the port  *)
(* has a single protocol; the protocol may answer and disconnect at once,  *)
(* and the next header is read even then.                                  *)
ParsePacketMutant ==             \* does not look at closed
    /\ conn.read = "bodyDone"
    /\ LET made == [ReadHandled EXCEPT !.protocol = TRUE]
       IN  \/ ~conn.protocol /\ Becomes(Close(ReadHandled, TRUE), <<>>)
           \/ Becomes(StartRead(made, "header"), <<>>)
    /\ UNCHANGED <<peer, packets, delivered, lost>>

ParsePacket ==
    /\ conn.read = "bodyDone"
    /\ IF conn.closed
       THEN Becomes(ReadHandled, <<>>)
       ELSE LET made == [ReadHandled EXCEPT !.protocol = TRUE]
                m == NextMessage
            IN  \/ ~conn.protocol /\ Becomes(Close(ReadHandled, TRUE), <<>>)
                \/ Becomes(StartRead(made, "header"), <<>>)
                \/ /\ m <= MaxMessages
                   /\ Becomes(StartRead(Close(Send(made, m), FALSE), "header"), <<m>>)
    /\ UNCHANGED <<peer, packets, delivered, lost>>

RunPostedSend ==
    /\ conn.posted > 0
    /\ Becomes(InternalSend([conn EXCEPT !.posted = @ - 1]), <<>>)
    /\ UNCHANGED <<peer, packets, delivered, lost>>

OnWriteOperationMutant ==        \* does not close after the last message
    /\ conn.write = "written"
    /\ delivered' = Append(delivered, Head(conn.queue))
    /\ LET c == [CancelWriteTimer(conn) EXCEPT !.write = "none", !.queue = Tail(@)]
       IN  Becomes(IF c.queue # <<>> THEN InternalSend(c) ELSE c, <<>>)
    /\ UNCHANGED <<peer, packets, lost>>

OnWriteOperation ==
    /\ conn.write = "written"
    /\ delivered' = Append(delivered, Head(conn.queue))
    /\ LET c == [CancelWriteTimer(conn) EXCEPT !.write = "none", !.queue = Tail(@)]
       IN  Becomes(IF c.queue # <<>> THEN InternalSend(c)
                   ELSE IF c.closed THEN CloseSocket(c) ELSE c, <<>>)
    /\ UNCHANGED <<peer, packets, lost>>

WriteFailedMutant ==             \* keeps the rest of the queue
    /\ conn.write = "failed"
    /\ LET c == [CancelWriteTimer(conn) EXCEPT !.write = "none", !.queue = Tail(@)]
       IN  Becomes(Close(c, TRUE), <<>>)
    /\ lost' = TRUE
    /\ UNCHANGED <<peer, packets, delivered>>

WriteFailed ==
    /\ conn.write = "failed"
    /\ LET c == [CancelWriteTimer(conn) EXCEPT !.write = "none", !.queue = <<>>]
       IN  Becomes(Close(c, TRUE), <<>>)
    /\ lost' = TRUE
    /\ UNCHANGED <<peer, packets, delivered>>

HandleTimeout ==
    /\ conn.exists
    /\ \/ /\ "fired" \in conn.readTimer
          /\ Becomes(Close([conn EXCEPT !.readTimer = @ \ {"fired"}], TRUE), <<>>)
       \/ /\ "fired" \in conn.writeTimer
          /\ Becomes(Close([conn EXCEPT !.writeTimer = @ \ {"fired"}], TRUE), <<>>)
    /\ UNCHANGED <<peer, packets, delivered, lost>>

(* The last reference is gone: the manager's, or that of a handler.        *)
Destroy ==
    /\ conn.exists /\ conn.started /\ ~conn.tracked
    /\ conn.read = "none" /\ conn.posted = 0 /\ conn.write = "none"
    /\ Becomes([CloseSocket(conn) EXCEPT !.exists = FALSE], <<>>)
    /\ UNCHANGED <<peer, packets, delivered, lost>>

-----------------------------------------------------------------------------
(* The game thread, through the protocol.                                  *)
ProtocolSend ==
    /\ conn.exists /\ conn.protocol /\ NextMessage <= MaxMessages /\ ~conn.closed
    /\ Becomes(Send(conn, NextMessage), <<NextMessage>>)
    /\ UNCHANGED <<peer, packets, delivered, lost>>

ProtocolDisconnect ==
    /\ conn.exists /\ conn.protocol /\ ~conn.closed
    /\ Becomes(Close(conn, FALSE), <<>>)
    /\ UNCHANGED <<peer, packets, delivered, lost>>

(* ConnectionManager::closeAll at shutdown: neither the lock nor the       *)
(* flag; the handlers find out by the errors of their operations.          *)
CloseAll ==
    /\ conn.tracked /\ conn.started
    /\ Becomes([conn EXCEPT !.tracked = FALSE, !.open = FALSE], <<>>)
    /\ UNCHANGED <<peer, packets, delivered, lost>>

-----------------------------------------------------------------------------
(* The network and the clock (external).  The peer sends, reads and hangs  *)
(* up when it wants.                                                       *)
PeerSends ==
    /\ peer /\ conn.open
    /\ \/ /\ conn.read = "header" /\ packets < MaxPackets
          /\ packets' = packets + 1
          /\ conn' = [conn EXCEPT !.read = "headerDone"]
       \/ /\ conn.read = "body"
          /\ packets' = packets
          /\ conn' = [conn EXCEPT !.read = "bodyDone"]
    /\ UNCHANGED <<peer, delivered, accepted, releases, lost>>

PeerReads ==
    /\ peer /\ conn.open /\ conn.write = "writing"
    /\ conn' = [conn EXCEPT !.write = "written"]
    /\ UNCHANGED <<peer, packets, delivered, accepted, releases, lost>>

PeerHangsUp ==
    /\ peer
    /\ peer' = FALSE
    /\ UNCHANGED <<conn, packets, delivered, accepted, releases, lost>>

(* On a socket that is closed, at either end, operations fail.             *)
OperationFails ==
    /\ ~conn.open \/ ~peer
    /\ \/ /\ conn.read \in {"header", "body"}
          /\ conn' = [conn EXCEPT !.read = "failed"]
       \/ /\ conn.write = "writing"
          /\ conn' = [conn EXCEPT !.write = "failed"]
    /\ UNCHANGED <<peer, packets, delivered, accepted, releases, lost>>

TimerExpires ==
    /\ conn.exists
    /\ \/ /\ "running" \in conn.readTimer
          /\ conn' = [conn EXCEPT !.readTimer = {"fired"}]
       \/ /\ "running" \in conn.writeTimer
          /\ conn' = [conn EXCEPT !.writeTimer = {"fired"}]
    /\ UNCHANGED <<peer, packets, delivered, accepted, releases, lost>>

-----------------------------------------------------------------------------
IoThread ==
    \/ Accept
    \/ ReadFailed
    \/ ParseHeader
    \/ ParsePacket
    \/ RunPostedSend
    \/ OnWriteOperation
    \/ WriteFailed
    \/ HandleTimeout
    \/ Destroy

GameThread ==
    \/ ProtocolSend
    \/ ProtocolDisconnect
    \/ CloseAll

Environment ==
    \/ PeerSends
    \/ PeerReads
    \/ PeerHangsUp
    \/ OperationFails
    \/ TimerExpires

Next == IoThread \/ GameThread \/ Environment

Spec == Init /\ [][Next]_vars

(* Queued handlers run, failed operations complete and time passes; the    *)
(* peer and the game owe nothing.                                          *)
Progress ==
    /\ WF_vars(ReadFailed) /\ WF_vars(ParseHeader)
    /\ WF_vars(ParsePacket) /\ WF_vars(RunPostedSend)
    /\ WF_vars(OnWriteOperation) /\ WF_vars(WriteFailed)
    /\ WF_vars(HandleTimeout) /\ WF_vars(Destroy)
    /\ WF_vars(OperationFails) /\ WF_vars(TimerExpires)

TimedSpec == Spec /\ WF_vars(Accept) /\ Progress

(* A peer that does read what it is sent.                                  *)
FairSpec == TimedSpec /\ WF_vars(PeerReads)

-----------------------------------------------------------------------------
TypeOK ==
    /\ conn \in [exists : BOOLEAN, tracked : BOOLEAN, open : BOOLEAN,
                 closed : BOOLEAN, started : BOOLEAN, protocol : BOOLEAN,
                 queue : Seq(Message), read : Read,
                 posted : 0 .. 1, write : Write,
                 readTimer : Timer, writeTimer : Timer]
    /\ peer \in BOOLEAN /\ packets \in 0 .. MaxPackets
    /\ delivered \in Seq(Message) /\ accepted \in Seq(Message)
    /\ releases \in Nat /\ lost \in BOOLEAN

(* There is one write posted or under way exactly while there are          *)
(* messages: never two at once on the socket, and never a message nobody   *)
(* will send, however sends of the game thread meet the completion of the  *)
(* last write.                                                             *)
WriteInFlight ==
    conn.posted + (IF conn.write = "none" THEN 0 ELSE 1)
        = IF conn.queue = <<>> THEN 0 ELSE 1

(* The peer gets the messages in the order they were accepted and none     *)
(* twice; one is missing only if a write failed.                           *)
InOrder ==
    IF lost
    THEN delivered = SubSeq(accepted, 1, Len(delivered)) /\ conn.queue = <<>>
    ELSE accepted = delivered \o conn.queue

(* The protocol of a connection that closed is released once, whoever and  *)
(* how many close it, and none is made after: a session that missed its    *)
(* release would keep its player in the game for ever.                     *)
ReleasedOnce ==
    releases = IF conn.closed /\ conn.protocol THEN 1 ELSE 0

(* While the connection is open, whatever it waits for from the peer has a *)
(* timer that will end the wait.                                           *)
Guarded ==
    ~conn.closed =>
        /\ conn.read \in {"header", "body"} => conn.readTimer # {}
        /\ conn.write = "writing" => conn.writeTimer # {}

(* A peer that stops sending is disconnected, in the end.                  *)
ConnectionsEnd == <>conn.closed

(* A closed connection closes its socket.                                  *)
SocketsClose == conn.closed ~> ~conn.open
=============================================================================
