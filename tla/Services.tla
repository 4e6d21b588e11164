------------------------------- MODULE Services -------------------------------
(***************************************************************************)
(* The listening ports of the server and the loop that serves them:        *)
(* ServicePort and ServiceManager of src/src/server.cpp.  Three threads    *)
(* meet here.  The game thread loads the world, adds the services, runs    *)
(* the events that open a port again and stops the manager; the main       *)
(* thread waits for the loader, then is the io thread that runs the        *)
(* handlers of the acceptors; asio completes what they started.            *)
(***************************************************************************)
EXTENDS Naturals, FiniteSets

CONSTANTS
    Ports,
    MaxFailures,    \* bound on the accepts and openings that fail
    Gaps,           \* the times between two clients, in steps of 250 ms
    MaxRefused      \* bound on the attempts refused in a row

VARIABLES
    manager,        \* "loading", "ready", "running" or "stopped"
    stopping,       \* stop() was called while running was set
    loop,           \* io_context.run: "before", "running" or "ended"
    deathTimer,     \* it is running
    port,           \* the members of each ServicePort
    failures,
    block           \* the ConnectBlock the attempts are counted in

serviceVars == <<manager, stopping, loop, deathTimer, port, failures, block>>

(* "pending": an accept that asio has not completed; "done": completions   *)
(* whose handler has not run; "reopen": events to open the port again;     *)
(* "late": one of them was a task already when the server stopped.         *)
ServicesInit ==
    /\ manager = "loading" /\ loop = "before"
    /\ stopping = FALSE /\ deathTimer = FALSE
    /\ port = [p \in Ports |->
                 [held |-> FALSE, acceptor |-> "none", pending |-> FALSE, done |-> {},
                  pendingStart |-> FALSE, reopen |-> 0, linked |-> FALSE,
                  stopPosted |-> FALSE, stopped |-> FALSE, late |-> FALSE]]
    /\ failures = 0
    /\ block = [seen |-> FALSE, count |-> 0, wait |-> 0, since |-> 21,
                refused |-> 0, burst |-> 0, ended |-> FALSE]

(* The owners of a ServicePort: the manager's map, a posted handler, the   *)
(* handlers of its accepts and every connection made for it ("linked").    *)
(* Its destructor closes the acceptor.                                     *)
Alive(s) == s.held \/ s.stopPosted \/ s.pending \/ s.done # {} \/ s.linked

-----------------------------------------------------------------------------
(* Closing an acceptor completes its accept with operation_aborted.        *)
Close(s) ==
    IF s.acceptor = "open"
    THEN [s EXCEPT !.acceptor = "closed",
                   !.done = IF s.pending THEN @ \cup {"aborted"} ELSE @,
                   !.pending = FALSE]
    ELSE s

(* ServicePort::open.  It may fail before or after the acceptor is open.   *)
Planned(s) ==                    \* the scheduler takes no event after the stop
    [s EXCEPT !.pendingStart = TRUE,
              !.reopen = IF manager = "stopped" THEN @ ELSE @ + 1]

OpenFailedMutant(s) ==           \* gives up
    {[Close(s) EXCEPT !.pendingStart = TRUE, !.acceptor = a] : a \in {s.acceptor, "open"}}

OpenFailed(s) ==
    {[Planned(Close(s)) EXCEPT !.acceptor = a] : a \in {Close(s).acceptor, "open"}}

Opened(s) == [Close(s) EXCEPT !.pendingStart = FALSE, !.acceptor = "open", !.pending = TRUE]

Open(p, s) ==
    \/ port' = [port EXCEPT ![p] = Opened(s)] /\ UNCHANGED failures
    \/ /\ failures < MaxFailures
       /\ failures' = failures + 1
       /\ \E t \in OpenFailed(s) : port' = [port EXCEPT ![p] = t]

-----------------------------------------------------------------------------
(* The game thread.                                                        *)
Add(p) ==
    /\ manager = "loading" /\ ~ port[p].held
    /\ Open(p, [port[p] EXCEPT !.held = TRUE])
    /\ UNCHANGED <<manager, stopping, loop, deathTimer, block>>

Loaded ==
    /\ manager = "loading" /\ \A p \in Ports : port[p].held
    /\ manager' = "ready"
    /\ UNCHANGED <<stopping, loop, deathTimer, port, failures, block>>

(* The event runs; the port may be gone.                                   *)
OpenAcceptor(p) ==
    /\ port[p].reopen > 0
    /\ LET s == [port[p] EXCEPT !.reopen = @ - 1]
       IN  IF Alive(s)
           THEN Open(p, s)
           ELSE port' = [port EXCEPT ![p] = s] /\ UNCHANGED failures
    /\ UNCHANGED <<manager, stopping, loop, deathTimer, block>>

(* ServiceManager::stop, at the end of Game::shutdown: nothing happens     *)
(* before run() has set running.  The scheduler is shut down already: an   *)
(* event runs only if it is a task of the game thread by now.              *)
Stopped(s, late) ==
    [s EXCEPT !.held = FALSE, !.stopPosted = TRUE, !.late = late,
              !.reopen = IF late THEN 1 ELSE 0]

StopMutant ==                    \* sets no timer
    /\ manager = "running"
    /\ manager' = "stopped" /\ stopping' = TRUE
    /\ \E late \in SUBSET {p \in Ports : port[p].reopen > 0} :
         port' = [p \in Ports |-> Stopped(port[p], p \in late)]
    /\ UNCHANGED <<loop, failures, block, deathTimer>>

Stop ==
    /\ manager = "running"
    /\ manager' = "stopped" /\ stopping' = TRUE
    /\ \E late \in SUBSET {p \in Ports : port[p].reopen > 0} :
         port' = [p \in Ports |-> Stopped(port[p], p \in late)]
    /\ deathTimer' = TRUE
    /\ UNCHANGED <<loop, failures, block>>

-----------------------------------------------------------------------------
(* The main thread.                                                        *)
Run ==
    /\ manager = "ready"
    /\ manager' = "running" /\ loop' = "running"
    /\ UNCHANGED <<stopping, deathTimer, port, failures, block>>

OnStopServer(p) ==
    /\ loop = "running" /\ port[p].stopPosted
    /\ port' = [port EXCEPT ![p] = [Close(@) EXCEPT !.stopPosted = FALSE, !.stopped = TRUE]]
    /\ UNCHANGED <<manager, stopping, loop, deathTimer, failures, block>>

Die ==
    /\ loop = "running" /\ deathTimer
    /\ loop' = "ended" /\ deathTimer' = FALSE
    /\ UNCHANGED <<manager, stopping, port, failures, block>>

-----------------------------------------------------------------------------
(* acceptConnection.  Time goes in steps of 250 ms: the limits are 2 steps *)
(* (500 ms) and 20 (5 s), a block lasts 12 (3 s) and one more for every    *)
(* attempt refused.  The address is read before accept() has stored it, so *)
(* the attempts of all clients are counted together.                       *)
Passed(b, gap) ==
    [b EXCEPT !.wait = IF @ > gap THEN @ - gap ELSE 0,
              !.since = IF @ + gap > 20 THEN 21 ELSE @ + gap]

Counted(b) ==                    \* the history of the burst
    [b EXCEPT !.since = 0, !.refused = 0,
              !.burst = IF b.since > 20 \/ b.ended THEN 1 ELSE IF @ < 7 THEN @ + 1 ELSE @,
              !.ended = FALSE]

ThrottleMutant(old, gap) ==      \* goes on counting after a quiet time
    LET b == Passed(old, gap)
    IN  IF ~ b.seen
        THEN [Counted(b) EXCEPT !.seen = TRUE, !.count = 1]
        ELSE IF b.wait > 0
        THEN [b EXCEPT !.wait = @ + 1, !.refused = @ + 1]
        ELSE IF b.count < 5
        THEN [Counted(b) EXCEPT !.count = @ + 1]
        ELSE IF b.since <= 2
        THEN [Counted(b) EXCEPT !.count = 0, !.wait = 12, !.ended = TRUE]
        ELSE [Counted(b) EXCEPT !.count = 0]

Throttle(old, gap) ==
    LET b == Passed(old, gap)
    IN  IF ~ b.seen
        THEN [Counted(b) EXCEPT !.seen = TRUE, !.count = 1]
        ELSE IF b.wait > 0
        THEN [b EXCEPT !.wait = @ + 1, !.refused = @ + 1]
        ELSE IF b.since > 20
        THEN [Counted(b) EXCEPT !.count = 1]
        ELSE IF b.count < 5
        THEN [Counted(b) EXCEPT !.count = @ + 1]
        ELSE IF b.since <= 2
        THEN [Counted(b) EXCEPT !.count = 0, !.wait = 12, !.ended = TRUE]
        ELSE [Counted(b) EXCEPT !.count = 0]

-----------------------------------------------------------------------------
(* asio: a client connects, or the accept fails.                           *)
Completes(p) ==
    /\ loop = "running" /\ port[p].pending
    /\ \/ port' = [port EXCEPT ![p].pending = FALSE, ![p].done = @ \cup {"client"}]
          /\ UNCHANGED failures
       \/ /\ failures < MaxFailures
          /\ failures' = failures + 1
          /\ port' = [port EXCEPT ![p].pending = FALSE, ![p].done = @ \cup {"failed"}]
    /\ UNCHANGED <<manager, stopping, loop, deathTimer, block>>

(* ServicePort::onAccept.  An accept on a closed acceptor completes with   *)
(* operation_aborted at once.                                              *)
AcceptNextMutant(s) == s         \* stops after a client it refused

AcceptNext(s) ==
    IF s.acceptor = "open" THEN [s EXCEPT !.pending = TRUE] ELSE [s EXCEPT !.done = @ \cup {"aborted"}]

OnClient(p, s) ==
    \E kept \in BOOLEAN :            \* its connection goes on, or was refused
        port' = [port EXCEPT ![p] = [AcceptNext(s) EXCEPT !.linked = @ \/ kept]]

OnFailure(p, s) ==
    port' = [port EXCEPT ![p] =
               IF s.pendingStart
               THEN s
               ELSE [Planned(Close(s)) EXCEPT !.linked = TRUE]]

OnAccept(p) ==
    /\ loop = "running"
    /\ \E r \in port[p].done :
         LET s == [port[p] EXCEPT !.done = @ \ {r}]
         IN  CASE r = "client" -> OnClient(p, s)
               [] r = "failed" -> OnFailure(p, s)
               [] r = "aborted" -> port' = [port EXCEPT ![p] = s]
    /\ UNCHANGED <<manager, stopping, loop, deathTimer, failures, block>>

(* A client connects, alone; what the ports do with it is OnClient.        *)
Attempt(gap) ==
    /\ block' = Throttle(block, gap)
    /\ block'.refused <= MaxRefused
    /\ UNCHANGED <<manager, stopping, loop, deathTimer, port, failures>>

(* The connections of a port have all been destroyed.  One whose accept    *)
(* failed stays with the ConnectionManager until the server stops.         *)
Unlinked(p) ==
    /\ loop = "running" /\ port[p].linked
    /\ port' = [port EXCEPT ![p].linked = FALSE]
    /\ UNCHANGED <<manager, stopping, loop, deathTimer, failures, block>>

ServicesNext ==
    \/ Loaded \/ Stop \/ Run \/ Die
    \/ \E p \in Ports :
          Add(p) \/ OpenAcceptor(p) \/ OnStopServer(p) \/ Completes(p) \/ OnAccept(p)
          \/ Unlinked(p)

(* The io thread runs what is queued, timers expire, and the scheduler's   *)
(* events are run; nobody has to connect or to stop the server.            *)
ServicesFairness ==
    /\ WF_serviceVars(Die)
    /\ \A p \in Ports :
         /\ WF_serviceVars(OpenAcceptor(p))
         /\ WF_serviceVars(OnStopServer(p))
         /\ WF_serviceVars(OnAccept(p))

-----------------------------------------------------------------------------
(* A port of a server that runs has one accept under way, at asio or with  *)
(* its handler, or one event that will open it again, never both or two:   *)
(* else it is deaf or hears twice (server.cpp:155, :217).                  *)
OneAccept ==
    \A p \in Ports :
        port[p].held =>
            (IF port[p].pending THEN 1 ELSE 0) + Cardinality(port[p].done) + port[p].reopen = 1

(* A port whose onStopServer has run never listens again, unless the task  *)
(* to open it was queued behind the one that stopped the server            *)
(* (server.cpp:181, :63).                                                  *)
StoppedIsClosed ==
    \A p \in Ports :
        port[p].stopped /\ Alive(port[p]) /\ port[p].acceptor = "open" => port[p].late

(* The clients are refused only for six attempts in a burst, for three     *)
(* seconds and 250 ms more for each attempt refused (server.cpp:37).       *)
FairlyBlocked ==
    block.wait > 0 => block.burst >= 6 /\ block.wait <= 12 + block.refused

(* A server stopped while it runs leaves io_context.run, and a port that   *)
(* could not be opened listens in the end or the server stops.             *)
LoopEnds == stopping ~> loop = "ended"
PortsListen ==
    \A p \in Ports :
        port[p].held ~> (port[p].pending \/ port[p].done # {} \/ manager = "stopped")
=============================================================================
