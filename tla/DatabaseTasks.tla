---------------------------- MODULE DatabaseTasks ----------------------------
(***************************************************************************)
(* The asynchronous queries of the server: class DatabaseTasks of          *)
(* src/src/databasetasks.cpp, and its part in saving and in shutting down  *)
(* (game.cpp).                                                             *)
(*                                                                         *)
(* Only the game thread adds tasks.  Two threads take them out: threadMain *)
(* in the background, and the game thread itself when it calls flush().    *)
(* Both pop under taskLock and run the query with the lock released; the   *)
(* query itself is serialised by databaseLock; the callback is then handed *)
(* to the dispatcher, which refuses it when it is not RUNNING any more.    *)
(***************************************************************************)
EXTENDS Naturals, Sequences, FiniteSets

CONSTANT MaxTasks       \* bound on the queries issued

ASSUME MaxTasksAssumption == MaxTasks \in Nat \ {0}

(* A query is known by its rank among the accepted ones; 0 is none.        *)
TaskId == 1 .. MaxTasks
Taker == {"thread", "game"}

(* The closing lambda of setGameState, among the callbacks of the queue.   *)
CloseTask == 0

VARIABLES
    state,          \* ThreadHolder::threadState of g_databaseTasks
    tasks,          \* the list under taskLock
    withCallback,   \* the accepted queries that have a callback
    issued,         \* how many queries were accepted
    pc,             \* where each of the two threads is
    held,           \* the query each of them has popped, or 0
    purpose,        \* why the game thread flushes
    executed,       \* history: the queries the database has run, in order
    dispatcherOpen, \* g_dispatcher is RUNNING
    queue,          \* the callbacks (and CloseTask) waiting in the dispatcher
    called          \* history: the callbacks that have run

vars == <<state, tasks, withCallback, issued, pc, held, purpose, executed,
          dispatcherOpen, queue, called>>

Init ==
    /\ state = "RUNNING"
    /\ tasks = <<>>
    /\ withCallback = {}
    /\ issued = 0
    /\ pc = [thread |-> "test", game |-> "idle"]
    /\ held = [taker \in Taker |-> 0]
    /\ purpose = "none"
    /\ executed = <<>>
    /\ dispatcherOpen = TRUE
    /\ queue = <<>>
    /\ called = {}

Move(taker, to) == pc' = [pc EXCEPT ![taker] = to]

-----------------------------------------------------------------------------
(* addTask, called by a task of the game thread; notify_one follows after  *)
(* the unlock.  A query that comes too late is dropped.                    *)
AddTaskMutant ==                \* never notifies
    /\ pc.game = "idle"
    /\ state = "RUNNING"
    /\ issued < MaxTasks
    /\ issued' = issued + 1
    /\ tasks' = Append(tasks, issued + 1)
    /\ withCallback' \in {withCallback, withCallback \cup {issued + 1}}
    /\ UNCHANGED <<state, pc, held, purpose, executed, dispatcherOpen, queue, called>>

AddTask ==
    /\ pc.game = "idle"
    /\ state = "RUNNING"
    /\ issued < MaxTasks
    /\ issued' = issued + 1
    /\ tasks' = Append(tasks, issued + 1)
    /\ withCallback' \in {withCallback, withCallback \cup {issued + 1}}
    /\ Move("game", IF tasks = <<>> THEN "notify" ELSE "idle")
    /\ UNCHANGED <<state, held, purpose, executed, dispatcherOpen, queue, called>>

(* notify_one reaches threadMain only while it waits.                      *)
Signalled == IF pc.thread = "waiting" THEN "woken" ELSE pc.thread

Notify ==
    /\ pc.game = "notify"
    /\ pc' = [thread |-> Signalled, game |-> "idle"]
    /\ UNCHANGED <<state, tasks, withCallback, issued, held, purpose, executed,
                   dispatcherOpen, queue, called>>

-----------------------------------------------------------------------------
(* threadMain.  The state is read before the lock is taken.                *)
Test ==
    /\ pc.thread = "test"
    /\ Move("thread", IF state = "TERMINATED" THEN "ended" ELSE "lock")
    /\ UNCHANGED <<state, tasks, withCallback, issued, held, purpose, executed,
                   dispatcherOpen, queue, called>>

PopMutant(taker) ==             \* leaves the task in the list
    /\ held' = [held EXCEPT ![taker] = Head(tasks)]
    /\ tasks' = tasks
    /\ Move(taker, "run")

PopLastMutant(taker) ==         \* takes the newest task
    /\ held' = [held EXCEPT ![taker] = tasks[Len(tasks)]]
    /\ tasks' = SubSeq(tasks, 1, Len(tasks) - 1)
    /\ Move(taker, "run")

Pop(taker) ==
    /\ held' = [held EXCEPT ![taker] = Head(tasks)]
    /\ tasks' = Tail(tasks)
    /\ Move(taker, "run")

(* One critical section: an empty list sends the thread to sleep the first *)
(* time, and back to the test once it was woken.                           *)
Lock ==
    /\ pc.thread \in {"lock", "woken"}
    /\ IF tasks # <<>>
       THEN Pop("thread")
       ELSE /\ Move("thread", IF pc.thread = "lock" THEN "waiting" ELSE "test")
            /\ UNCHANGED <<tasks, held>>
    /\ UNCHANGED <<state, withCallback, issued, purpose, executed,
                   dispatcherOpen, queue, called>>

SpuriousWakeup ==
    /\ pc.thread = "waiting"
    /\ Move("thread", "woken")
    /\ UNCHANGED <<state, tasks, withCallback, issued, held, purpose, executed,
                   dispatcherOpen, queue, called>>

-----------------------------------------------------------------------------
(* runTask, by either thread: the query under databaseLock ...             *)
RunQuery(taker) ==
    /\ pc[taker] = "run"
    /\ executed' = Append(executed, held[taker])
    /\ Move(taker, "post")
    /\ UNCHANGED <<state, tasks, withCallback, issued, held, purpose,
                   dispatcherOpen, queue, called>>

(* Where each thread goes on after runTask.                                *)
After(taker) == IF taker = "thread" THEN "test" ELSE "flush"

(* ... and then g_dispatcher.addTask with the callback, if there is one.   *)
PostMutant(taker) ==            \* tests the state of the wrong thread
    /\ pc[taker] = "post"
    /\ queue' = IF held[taker] \in withCallback /\ state = "RUNNING"
                THEN Append(queue, held[taker])
                ELSE queue
    /\ held' = [held EXCEPT ![taker] = 0]
    /\ Move(taker, After(taker))
    /\ UNCHANGED <<state, tasks, withCallback, issued, purpose, executed,
                   dispatcherOpen, called>>

Post(taker) ==
    /\ pc[taker] = "post"
    /\ queue' = IF held[taker] \in withCallback /\ dispatcherOpen
                THEN Append(queue, held[taker])
                ELSE queue
    /\ held' = [held EXCEPT ![taker] = 0]
    /\ Move(taker, After(taker))
    /\ UNCHANGED <<state, tasks, withCallback, issued, purpose, executed,
                   dispatcherOpen, called>>

-----------------------------------------------------------------------------
(* The game thread.  saveGameState ends with flush(); so does the one that *)
(* setGameState(GAME_STATE_SHUTDOWN) calls before it stops the threads.    *)
BeginFlush(why) ==
    /\ Move("game", "flush")
    /\ purpose' = why

Save ==
    /\ pc.game = "idle"
    /\ state = "RUNNING"
    /\ \E why \in {"save", "stop"} : BeginFlush(why)
    /\ UNCHANGED <<state, tasks, withCallback, issued, held, executed,
                   dispatcherOpen, queue, called>>

(* The loop of flush(): test and pop under the lock.                       *)
FlushPop ==
    /\ pc.game = "flush"
    /\ tasks # <<>>
    /\ Pop("game")
    /\ UNCHANGED <<state, withCallback, issued, purpose, executed,
                   dispatcherOpen, queue, called>>

FlushReturnsMutant ==           \* runs one task instead of all of them
    /\ pc.game = "flush"
    /\ Move("game", CASE purpose = "save" -> "idle"
                      [] purpose = "stop" -> "stopping"
                      [] purpose = "shutdown" -> "flushed")
    /\ UNCHANGED <<state, tasks, withCallback, issued, held, purpose, executed,
                   dispatcherOpen, queue, called>>

FlushReturns ==
    /\ pc.game = "flush"
    /\ tasks = <<>>
    /\ Move("game", CASE purpose = "save" -> "idle"
                      [] purpose = "stop" -> "stopping"
                      [] purpose = "shutdown" -> "flushed")
    /\ UNCHANGED <<state, tasks, withCallback, issued, held, purpose, executed,
                   dispatcherOpen, queue, called>>

(* The closing task, then stop() on each holder: three steps that another  *)
(* thread can come between.                                                *)
QueueClose ==
    /\ pc.game = "stopping"
    /\ queue' = Append(queue, CloseTask)
    /\ Move("game", "stopDatabase")
    /\ UNCHANGED <<state, tasks, withCallback, issued, held, purpose, executed,
                   dispatcherOpen, called>>

StopDatabase ==
    /\ pc.game = "stopDatabase"
    /\ state' = "CLOSING"
    /\ Move("game", "stopDispatcher")
    /\ UNCHANGED <<tasks, withCallback, issued, held, purpose, executed,
                   dispatcherOpen, queue, called>>

StopDispatcher ==
    /\ pc.game = "stopDispatcher"
    /\ dispatcherOpen' = FALSE
    /\ Move("game", "idle")
    /\ UNCHANGED <<state, tasks, withCallback, issued, held, purpose, executed,
                   queue, called>>

(* The dispatcher runs a callback.                                         *)

Callback ==
    /\ pc.game = "idle"
    /\ queue # <<>>
    /\ Head(queue) # CloseTask
    /\ called' = called \cup {Head(queue)}
    /\ queue' = Tail(queue)
    /\ UNCHANGED <<state, tasks, withCallback, issued, pc, held, purpose,
                   executed, dispatcherOpen>>

(* Game::shutdown: DatabaseTasks::shutdown sets the state under the lock,  *)
(* flushes, and notifies.                                                  *)
Shutdown ==
    /\ pc.game = "idle"
    /\ queue # <<>>
    /\ Head(queue) = CloseTask
    /\ queue' = Tail(queue)
    /\ state' = "TERMINATED"
    /\ BeginFlush("shutdown")
    /\ UNCHANGED <<tasks, withCallback, issued, held, executed, dispatcherOpen,
                   called>>

ShutdownNotify ==
    /\ pc.game = "flushed"
    /\ pc' = [thread |-> Signalled, game |-> "done"]
    /\ UNCHANGED <<state, tasks, withCallback, issued, held, purpose, executed,
                   dispatcherOpen, queue, called>>

(* What is left in the dispatcher still runs before its thread ends.       *)
LateCallback ==
    /\ pc.game = "done"
    /\ queue # <<>>
    /\ called' = called \cup {Head(queue)}
    /\ queue' = Tail(queue)
    /\ UNCHANGED <<state, tasks, withCallback, issued, pc, held, purpose,
                   executed, dispatcherOpen>>

(* Game::shutdown has returned and nothing is queued: the dispatcher ends. *)
Ended ==
    /\ pc.game = "done"
    /\ queue = <<>>
    /\ UNCHANGED vars

ThreadMain == Test \/ Lock \/ RunQuery("thread") \/ Post("thread")

GameFlush == FlushPop \/ FlushReturns \/ RunQuery("game") \/ Post("game")

GameGoesOn ==
    \/ Notify
    \/ GameFlush
    \/ QueueClose
    \/ StopDatabase
    \/ StopDispatcher
    \/ Callback
    \/ Shutdown
    \/ ShutdownNotify
    \/ LateCallback

Next ==
    \/ AddTask
    \/ Save
    \/ ThreadMain
    \/ SpuriousWakeup
    \/ GameGoesOn
    \/ Ended

(* Both threads are scheduled; that a query is issued or a save begun is   *)
(* up to the game, that a wait returns by itself up to the platform.       *)
Spec == Init /\ [][Next]_vars
FairSpec == Spec /\ WF_vars(ThreadMain) /\ WF_vars(GameGoesOn)

-----------------------------------------------------------------------------
Ids(s) == {s[i] : i \in DOMAIN s}

TypeOK ==
    /\ state \in {"RUNNING", "CLOSING", "TERMINATED"}
    /\ tasks \in Seq(TaskId)
    /\ withCallback \subseteq TaskId
    /\ issued \in 0 .. MaxTasks
    /\ pc.thread \in {"test", "lock", "waiting", "woken", "run", "post", "ended"}
    /\ pc.game \in {"idle", "notify", "flush", "run", "post", "stopping",
                    "stopDatabase", "stopDispatcher", "flushed", "done"}
    /\ held \in [Taker -> 0 .. MaxTasks]
    /\ purpose \in {"none", "save", "stop", "shutdown"}
    /\ executed \in Seq(TaskId)
    /\ dispatcherOpen \in BOOLEAN
    /\ queue \in Seq(0 .. MaxTasks)
    /\ called \subseteq TaskId

InHand == {held[taker] : taker \in {t \in Taker : pc[t] = "run"}}

(* Every accepted query is in exactly one place: run once by the database, *)
(* in the hands of one of the two takers, or still in the list.            *)
RunOnce ==
    /\ Len(executed) + Cardinality(InHand) + Len(tasks) = issued
    /\ Ids(executed) \cup InHand \cup Ids(tasks) = 1 .. issued

(* The order the database sees: with two takers it is not the order of     *)
(* issue, but a query can only be overtaken while a taker holds it.        *)
OnlyHeldOvertaken ==
    \A early, late \in TaskId :
        early < late /\ late \in Ids(executed) =>
            early \in Ids(executed) \cup InHand

(* When a flush has returned, every query issued before it has been run,   *)
(* except one that threadMain had popped and was about to run.             *)
FlushedMeansRun ==
    pc.game \in {"stopping", "stopDatabase", "stopDispatcher", "flushed", "done"} =>
        \A id \in 1 .. issued :
            \/ id \in Ids(executed)
            \/ pc.thread = "run" /\ held.thread = id

(* A callback is lost only to a dispatcher that no longer accepts tasks.   *)
CallbackKept ==
    dispatcherOpen =>
        \A id \in withCallback \cap Ids(executed) :
            \/ id \in called \cup Ids(queue)
            \/ \E taker \in Taker : pc[taker] = "post" /\ held[taker] = id

(* A callback never runs before its query.                                 *)
CallbackAfterQuery == called \cup (Ids(queue) \ {CloseTask}) \subseteq Ids(executed)

(* Every accepted query is run, whatever the moment of the shutdown.       *)
EventuallyRun == \A id \in TaskId : issued >= id ~> id \in Ids(executed)
=============================================================================
