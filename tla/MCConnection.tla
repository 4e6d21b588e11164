----------------------------- MODULE MCConnection -----------------------------
(* What the event loops of the server run, in six parts, each behaviour    *)
(* being of one of them: one connection with three messages (one being     *)
(* written, one queued behind it and one sent while the connection closes) *)
(* and two packets, the first of which makes the protocol; the output      *)
(* buffers of two clients; the listening ports; their clients' attempts;   *)
(* the wait list; and three timers of the scheduler, which anybody adds    *)
(* and stops until it is shut down.                                        *)
EXTENDS Connection

CONSTANTS c1, c2, game, status, o1, o2, o3, p1, gm

CONSTANTS
    Clients, BufferSize, MaxWrites,
    Ports, MaxFailures, Gaps, MaxRefused,
    Ordinary, Premium, Staff, MaxPlayers,
    MaxEvents

ASSUME MCConnectionAssumption == MaxEvents \in Nat /\ Gaps \subseteq Nat

VARIABLES
    part,
    session, bufferedProtocols, chains, outputBuffer, wrote, sent,
    manager, stopping, loop, deathTimer, port, failures, block,
    playing, waitList, stale, priorityEnd, tried,
    lastEventId, handlers, armed, timedOut, aborted, running, stopped, inbox, ran,
    deleted, stoppedInTime

buffers == <<session, bufferedProtocols, chains, outputBuffer, wrote, sent>>
server == <<manager, stopping, loop, deathTimer, port, failures, block>>
waiting == <<playing, waitList, stale, priorityEnd, tried>>
timers == <<lastEventId, handlers, armed, timedOut, aborted, running, stopped, inbox,
            ran, deleted, stoppedInTime>>

A == INSTANCE AutoSend
S == INSTANCE Services
W == INSTANCE WaitList
T == INSTANCE TaskScheduler WITH posted <- handlers, expired <- timedOut

MCInit ==
    /\ part \in {"connection", "buffers", "server", "throttle", "waiting",
                "timers"}
    /\ Init /\ A!AutoInit /\ S!ServicesInit /\ W!WaitInit /\ T!SchedInit

MCNext ==
    /\ UNCHANGED part
    /\ \/ part = "connection" /\ Next /\ UNCHANGED <<buffers, server, waiting, timers>>
       \/ part = "buffers" /\ A!AutoNext /\ UNCHANGED <<vars, server, waiting, timers>>
       \/ part = "server" /\ S!ServicesNext /\ UNCHANGED <<vars, buffers, waiting, timers>>
       \/ /\ part = "throttle" /\ \E gap \in Gaps : S!Attempt(gap)
          /\ UNCHANGED <<vars, buffers, waiting, timers>>
       \/ part = "waiting" /\ W!WaitNext /\ UNCHANGED <<vars, buffers, server, timers>>
       \/ /\ part = "timers" /\ T!SchedNext
          /\ UNCHANGED <<vars, buffers, server, waiting>>

MCSpec ==
    /\ MCInit /\ [][MCNext]_<<vars, part, buffers, server, waiting, timers>>
    /\ WF_vars(part = "connection" /\ Accept)
    /\ Progress /\ WF_vars(PeerReads)
    /\ A!AutoFairness
    /\ S!ServicesFairness
    /\ part = "timers" => T!SchedFairness

-----------------------------------------------------------------------------
(* One write at a time, no message or buffered packet left behind, all of    *)
(* them in order; a connection releases its protocol once and never waits     *)
(* unguarded for its peer (connection.cpp:43, :117, :217, outputmessage.cpp:53). *)
MessagesInOrder ==
    /\ TypeOK /\ WriteInFlight /\ InOrder /\ ReleasedOnce /\ Guarded
    /\ A!BufferedInOrder /\ A!ChainRuns

(* A silent peer is disconnected and a closed connection closes its socket    *)
(* (connection.cpp:252, :270).                                                *)
ConnectionsClose == part = "connection" => ConnectionsEnd /\ SocketsClose

(* Every packet is sent without another one, and the events end with the      *)
(* last session (outputmessage.cpp:40).                                       *)
BuffersAreSent == part = "buffers" => A!BufferIsSent /\ A!ChainsEnd

(* A port has one accept or one event to open it, is closed for good when     *)
(* it stops, and refuses clients for a burst only (server.cpp:157).           *)
PortsKept == S!OneAccept /\ S!StoppedIsClosed /\ S!FairlyBlocked

(* The loop of a stopped server ends, and a port that failed listens again    *)
(* (server.cpp:85, :185).                                                     *)
ServerGoesOn == part = "server" => S!LoopEnds /\ S!PortsListen

(* The login of an ordinary player takes no place of those who wait before    *)
(* him, and no player has two entries (protocolgame.cpp:62).                  *)
PlacesKept == [][W!NoPlaceTaken /\ W!OneEntry']_waiting

(* A timer has one owner at any time, and one that was stopped in time does   *)
(* not run (scheduler.cpp:20, :45).                                           *)
TimersAreOwned == T!TypeOK /\ T!OneOwner /\ T!StoppedNeverRuns

(* A timer that nobody stops runs (scheduler.cpp:19).                         *)
TimersRun == part = "timers" => T!EventuallyRuns
=============================================================================
