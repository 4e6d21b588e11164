---------------------------- MODULE TaskScheduler ----------------------------
(***************************************************************************)
(* Delayed tasks: class Scheduler of src/src/scheduler.cpp.  addEvent and  *)
(* stopEvent are called by the game thread and only post a handler to the  *)
(* scheduler's io context; its thread inserts the timer, cancels it, or    *)
(* hands the expired task to the dispatcher.  Between the call and its     *)
(* effect the timer may expire: stopEvent is a request, not a guarantee.   *)
(***************************************************************************)
EXTENDS Naturals, Sequences, FiniteSets

CONSTANT MaxEvents       \* bound on the events added

EventId == 1 .. MaxEvents

(* Handlers posted to the io context.                                      *)
Insert(id) == [op |-> "insert", id |-> id]
Cancel(id) == [op |-> "cancel", id |-> id]
Shutdown == [op |-> "shutdown", id |-> 0]
Handler == {Insert(id) : id \in EventId} \cup {Cancel(id) : id \in EventId} \cup {Shutdown}

VARIABLES
    lastEventId,    \* Scheduler::lastEventId
    posted,         \* handlers posted and not yet run, oldest first
    armed,          \* timers of eventIdTimerMap that are running
    expired,        \* timers whose wait has completed without an error
    aborted,        \* timers whose wait was cancelled
    running,        \* the scheduler's state is not TERMINATED
    stopped,        \* io_context.stop() was called
    inbox,          \* expired tasks waiting in the dispatcher
    ran,            \* history: tasks run by the dispatcher
    deleted,        \* history: tasks deleted by the scheduler
    stoppedInTime \* history: cancelled while the timer was running

schedVars == <<lastEventId, posted, armed, expired, aborted, running, stopped,
               inbox, ran, deleted, stoppedInTime>>

SchedInit ==
    /\ lastEventId = 0
    /\ posted = <<>>
    /\ armed = {} /\ expired = {} /\ aborted = {}
    /\ running = TRUE
    /\ stopped = FALSE
    /\ inbox = <<>>
    /\ ran = {} /\ deleted = {} /\ stoppedInTime = {}

-----------------------------------------------------------------------------
(* The game thread.                                                        *)

(* A step of the game thread that stops some events and adds some others:  *)
(* its handlers are posted in this order.                                  *)
Post(handlers, added) ==
    /\ posted' = posted \o handlers
    /\ lastEventId' = lastEventId + added
    /\ UNCHANGED <<armed, expired, aborted, running, stopped, deleted,
                   stoppedInTime>>

AddEvent ==
    /\ lastEventId < MaxEvents
    /\ Post(<<Insert(lastEventId + 1)>>, 1)
    /\ UNCHANGED <<inbox, ran>>

StopEvent(id) ==
    /\ id <= lastEventId
    /\ Post(<<Cancel(id)>>, 0)
    /\ UNCHANGED <<inbox, ran>>

ShutdownScheduler ==
    /\ running
    /\ running' = FALSE
    /\ posted' = Append(posted, Shutdown)
    /\ UNCHANGED <<lastEventId, armed, expired, aborted, stopped, inbox, ran,
                   deleted, stoppedInTime>>

(* The dispatcher runs the oldest expired task.                            *)
Take(id) ==
    /\ inbox # <<>>
    /\ id = Head(inbox)
    /\ inbox' = Tail(inbox)
    /\ ran' = ran \cup {id}

RunEvent ==
    /\ \E id \in EventId : Take(id)
    /\ UNCHANGED <<lastEventId, posted, armed, expired, aborted, running,
                   stopped, deleted, stoppedInTime>>

-----------------------------------------------------------------------------
(* The scheduler's thread.                                                 *)
RunInsertMutant ==               \* forgets async_wait
    UNCHANGED <<armed, aborted, stopped, stoppedInTime>>

RunInsert ==
    /\ armed' = armed \cup {Head(posted).id}
    /\ UNCHANGED <<aborted, stopped, stoppedInTime>>

(* cancel() completes the wait with operation_aborted; it has no effect on *)
(* a timer that has expired, or whose entry is gone.                       *)
RunCancelMutant ==               \* forgets the timer: its handler never runs
    /\ armed' = armed \ {Head(posted).id}
    /\ stoppedInTime' = stoppedInTime \cup (armed \cap {Head(posted).id})
    /\ UNCHANGED <<aborted, stopped>>

RunCancel ==
    LET found == armed \cap {Head(posted).id}
    IN  /\ armed' = armed \ found
        /\ aborted' = aborted \cup found
        /\ stoppedInTime' = stoppedInTime \cup found
        /\ UNCHANGED stopped

RunShutdown ==
    /\ aborted' = aborted \cup armed
    /\ armed' = {}
    /\ stopped' = TRUE
    /\ UNCHANGED stoppedInTime

RunPosted ==
    /\ ~stopped
    /\ posted # <<>>
    /\ posted' = Tail(posted)
    /\ CASE Head(posted).op = "insert" -> RunInsert
         [] Head(posted).op = "cancel" -> RunCancel
         [] Head(posted).op = "shutdown" -> RunShutdown
    /\ UNCHANGED <<lastEventId, expired, running, inbox, ran, deleted>>

Expire(id) ==
    /\ id \in armed
    /\ armed' = armed \ {id}
    /\ expired' = expired \cup {id}
    /\ UNCHANGED <<lastEventId, posted, aborted, running, stopped, inbox, ran,
                   deleted, stoppedInTime>>

(* The handler of the timer: the task goes to the dispatcher, or is        *)
(* deleted if the timer was cancelled or the scheduler is terminated.      *)
WaitDone(id) ==
    /\ ~stopped
    /\ id \in expired \cup aborted
    /\ expired' = expired \ {id}
    /\ aborted' = aborted \ {id}
    /\ IF id \in expired /\ running
       THEN inbox' = Append(inbox, id) /\ UNCHANGED deleted
       ELSE deleted' = deleted \cup {id} /\ UNCHANGED inbox
    /\ UNCHANGED <<lastEventId, posted, armed, running, stopped, ran, stoppedInTime>>

SchedulerThread ==
    \/ RunPosted
    \/ \E id \in EventId : Expire(id) \/ WaitDone(id)

-----------------------------------------------------------------------------
(* The scheduler with any user: events are added and stopped at will, with *)
(* at most one request to stop an event waiting.                           *)
StopRequests(id) == Cardinality({i \in DOMAIN posted : posted[i] = Cancel(id)})

GameThread ==
    \/ AddEvent
    \/ \E id \in EventId : StopRequests(id) < 1 /\ StopEvent(id)
    \/ ShutdownScheduler
    \/ RunEvent

SchedNext == GameThread \/ SchedulerThread

SchedSpec == SchedInit /\ [][SchedNext]_schedVars
SchedFairness ==
    /\ WF_schedVars(RunPosted)
    /\ \A id \in EventId : WF_schedVars(Expire(id)) /\ WF_schedVars(WaitDone(id))
    /\ WF_schedVars(RunEvent)

-----------------------------------------------------------------------------
InInbox == {inbox[i] : i \in DOMAIN inbox}
BeingInserted == {id \in EventId : \E i \in DOMAIN posted : posted[i] = Insert(id)}

TypeOK ==
    /\ lastEventId \in 0 .. MaxEvents
    /\ posted \in Seq(Handler)
    /\ armed \subseteq EventId /\ expired \subseteq EventId /\ aborted \subseteq EventId
    /\ running \in BOOLEAN /\ stopped \in BOOLEAN
    /\ inbox \in Seq(EventId)
    /\ ran \subseteq EventId /\ deleted \subseteq EventId
    /\ stoppedInTime \subseteq EventId

(* Each task has one owner, whoever cancels and expires it at the same     *)
(* time: it is never both run and deleted, run twice or lost.              *)
OneOwner ==
    /\ Cardinality(BeingInserted) + Cardinality(armed) + Cardinality(expired)
         + Cardinality(aborted) + Len(inbox) + Cardinality(ran)
         + Cardinality(deleted) = lastEventId
    /\ BeingInserted \cup armed \cup expired \cup aborted \cup InInbox \cup ran
         \cup deleted = 1 .. lastEventId

(* A stopEvent that reaches the timer before it expires is final.          *)
StoppedNeverRuns == stoppedInTime \cap (ran \cup InInbox) = {}

(* A timer that nobody stops is run, unless the scheduler is shut down.    *)
EventuallyRuns ==
    \A id \in EventId :
        id <= lastEventId ~> id \in ran \cup stoppedInTime \/ ~running
=============================================================================
