--------------------------- MODULE TaskDispatcher ---------------------------
(***************************************************************************)
(* The game thread of the server: class Dispatcher of src/src/tasks.cpp.   *)
(*                                                                         *)
(* Every thread of the server (network, scheduler, database) hands work to *)
(* the dispatcher with addTask; one thread, threadMain, waits on a         *)
(* condition variable, swaps the shared list for a private one and runs    *)
(* the private list with the lock released.  The model keeps the critical  *)
(* sections as single steps and splits everything the code does outside of *)
(* them: addTask notifies after it has unlocked, and the state the         *)
(* dispatcher is in (thread_holder_base.h) is an atomic of its own.        *)
(*                                                                         *)
(* The bodies of tasks are those that act on the dispatcher itself: the    *)
(* loader of otserv.cpp, the signal handler that starts the shutdown, the  *)
(* Game::shutdown lambda, the lambda of Dispatcher::shutdown, and any      *)
(* other body ("work"), which may call addTask once.                       *)
(***************************************************************************)
EXTENDS Naturals, Sequences, FiniteSets

CONSTANTS
    Threads,       \* the other threads that call addTask
    MaxTasks       \* bound on the tasks accepted while work still arrives

ASSUME ThreadsAssumption == Threads # {}
ASSUME MaxTasksAssumption == MaxTasks \in Nat \ {0}

Kind == {"load", "work", "signal", "close", "terminate"}
Task == [kind : Kind, timed : BOOLEAN]

(* A task made with DISPATCHER_TASK_EXPIRATION is timed; only work is.     *)
Plain(kind) == [kind |-> kind, timed |-> FALSE]
WorkTask == [kind : {"work"}, timed : BOOLEAN]

VARIABLES
    threadState,   \* ThreadHolder::threadState
    taskList,      \* the list shared under taskLock
    tmpTaskList,   \* the batch threadMain has swapped out
    pc,            \* where threadMain is
    signalling,    \* threads between taskLock.unlock() and notify_one()
    loader,        \* mainLoader: at work, or whether it added the services
    main,          \* where startServer, on the main thread, is
    gameShutdown,  \* Game::gameState = GAME_STATE_SHUTDOWN
    accepted,      \* history: every task put into taskList
    done           \* history: every task deleted by threadMain

vars == <<threadState, taskList, tmpTaskList, pc, signalling, loader,
          main, gameShutdown, accepted, done>>

(* startServer starts the thread and adds mainLoader as the first task.    *)
Init ==
    /\ threadState = "RUNNING"
    /\ taskList = <<Plain("load")>>
    /\ tmpTaskList = <<>>
    /\ pc = "loop"
    /\ signalling = {}
    /\ loader = "loading"
    /\ main = "starting"
    /\ gameShutdown = FALSE
    /\ accepted = <<Plain("load")>>
    /\ done = <<>>

(***************************************************************************)
(* Producers.                                                              *)
(***************************************************************************)
(* The critical section of addTask, except for who has to notify.          *)
PushMutant(task) ==          \* the newest task runs first
    /\ taskList' = <<task>> \o taskList
    /\ accepted' = Append(accepted, task)

Push(task) ==
    /\ taskList' = Append(taskList, task)
    /\ accepted' = Append(accepted, task)

(* addTask: accepted while RUNNING, otherwise deleted.                     *)
EnqueueMutant(task) ==       \* no test of the state
    Push(task)

Enqueue(task) ==
    IF threadState = "RUNNING" THEN Push(task) ELSE UNCHANGED <<taskList, accepted>>

(* The tasks the environment makes: work of any thread, and the handler    *)
(* of a signal, which only arrives once the main thread runs the io        *)
(* context (Signals::asyncWait).                                           *)
FromOutside ==
    WorkTask \cup (IF main = "serving" THEN {Plain("signal")} ELSE {})

AddTaskMutant(t) ==          \* emptiness tested after push_back
    /\ t \notin signalling
    /\ pc # "ended"
    /\ Len(accepted) < MaxTasks
    /\ \E task \in FromOutside : Enqueue(task)
    /\ UNCHANGED <<threadState, tmpTaskList, pc, signalling, loader, main,
                   gameShutdown, done>>

AddTask(t) ==
    /\ t \notin signalling
    /\ pc # "ended"
    /\ Len(accepted) < MaxTasks
    /\ \E task \in FromOutside : Enqueue(task)
    /\ signalling' = IF threadState = "RUNNING" /\ taskList = <<>>
                     THEN signalling \cup {t}
                     ELSE signalling
    /\ UNCHANGED <<threadState, tmpTaskList, pc, loader, main, gameShutdown, done>>

(* notify_one has an effect only if the dispatcher waits at that moment.   *)
Woken == IF pc = "waiting" THEN "woken" ELSE pc

Notify(t) ==
    /\ t \in signalling
    /\ signalling' = signalling \ {t}
    /\ pc' = Woken
    /\ UNCHANGED <<threadState, taskList, tmpTaskList, loader, main, gameShutdown,
                   accepted, done>>

(***************************************************************************)
(* The main thread, in startServer.  It waits for g_loaderSignal once, with *)
(* no test before or after, while the loader notifies without the lock.    *)
(***************************************************************************)
MainWait ==
    /\ main = "starting"
    /\ main' = "waiting"
    /\ UNCHANGED <<threadState, taskList, tmpTaskList, pc, signalling, loader,
                   gameShutdown, accepted, done>>

MainSpuriousWakeup ==
    /\ main = "waiting"
    /\ main' = "woken"
    /\ UNCHANGED <<threadState, taskList, tmpTaskList, pc, signalling, loader,
                   gameShutdown, accepted, done>>

(* is_running: the services are there.  After a spurious wakeup the loader *)
(* may be anywhere, before or after it added them.                         *)
Serve ==
    /\ main = "woken"
    /\ loader # "failed"
    /\ main' = "serving"
    /\ UNCHANGED <<threadState, taskList, tmpTaskList, pc, signalling, loader,
                   gameShutdown, accepted, done>>

(* No service is running: Dispatcher::shutdown from the main thread, with  *)
(* the dispatcher still RUNNING.  push_back and notify_one are both inside *)
(* the critical section.                                                   *)
OfflineShutdown ==
    /\ main = "woken"
    /\ loader # "online"
    /\ main' = "offline"
    /\ Push(Plain("terminate"))
    /\ pc' = Woken
    /\ UNCHANGED <<threadState, tmpTaskList, signalling, loader, gameShutdown, done>>

MainThread == MainWait \/ Serve \/ OfflineShutdown

(***************************************************************************)
(* threadMain.                                                             *)
(***************************************************************************)
(* The head of the loop and the critical section that follows it; the      *)
(* state it tests is TERMINATED only by a task of its own batch.           *)
LoopMutant ==                \* waits without testing the list
    /\ pc = "loop"
    /\ pc' = IF threadState = "TERMINATED" THEN "ended" ELSE "waiting"
    /\ UNCHANGED <<threadState, taskList, tmpTaskList, signalling, loader, main,
                   gameShutdown, accepted, done>>

Loop ==
    /\ pc = "loop"
    /\ IF threadState = "TERMINATED"
       THEN /\ pc' = "ended"
            /\ UNCHANGED <<taskList, tmpTaskList>>
       ELSE IF taskList = <<>>
       THEN /\ pc' = "waiting"
            /\ UNCHANGED <<taskList, tmpTaskList>>
       ELSE /\ pc' = "running"
            /\ tmpTaskList' = taskList
            /\ taskList' = <<>>
    /\ UNCHANGED <<threadState, signalling, loader, main, gameShutdown, accepted, done>>

(* A wait may also return without a notification.                          *)
SpuriousWakeup ==
    /\ pc = "waiting"
    /\ pc' = "woken"
    /\ UNCHANGED <<threadState, taskList, tmpTaskList, signalling, loader, main,
                   gameShutdown, accepted, done>>

(* The swap after a wait: the code does not test the list again.           *)
SwapAfterWaitMutant ==       \* copies the list instead of swapping it
    /\ pc = "woken"
    /\ pc' = "running"
    /\ tmpTaskList' = taskList
    /\ UNCHANGED <<threadState, taskList, signalling, loader, main, gameShutdown,
                   accepted, done>>

SwapAfterWait ==
    /\ pc = "woken"
    /\ pc' = "running"
    /\ tmpTaskList' = taskList
    /\ taskList' = <<>>
    /\ UNCHANGED <<threadState, signalling, loader, main, gameShutdown, accepted, done>>

BatchDone ==
    /\ pc = "running"
    /\ tmpTaskList = <<>>
    /\ pc' = "loop"
    /\ UNCHANGED <<threadState, taskList, tmpTaskList, signalling, loader, main,
                   gameShutdown, accepted, done>>

(* The common part of running the next task of the batch; a body that      *)
(* begins the shutdown (SetShutdown) is not finished in this step.         *)
Begin(kind) ==
    /\ pc = "running"
    /\ tmpTaskList # <<>>
    /\ Head(tmpTaskList).kind = kind
    /\ tmpTaskList' = Tail(tmpTaskList)
    /\ done' = Append(done, Head(tmpTaskList))
    /\ UNCHANGED signalling

Take(kind) == Begin(kind) /\ UNCHANGED pc

(* mainLoader: it leaves with an error, or adds the services and starts    *)
(* the game; either way it notifies g_loaderSignal before it returns.      *)
RunLoadMutant ==             \* an early return that forgets to notify
    /\ Take("load")
    /\ loader' \in {"online", "failed"}
    /\ UNCHANGED <<threadState, taskList, main, gameShutdown, accepted>>

RunLoad ==
    /\ Take("load")
    /\ loader' \in {"online", "failed"}
    /\ main' = IF main = "waiting" THEN "woken" ELSE main
    /\ UNCHANGED <<threadState, taskList, gameShutdown, accepted>>

(* A timed task that is too old is deleted without being run.              *)
ExpireTask ==
    /\ Take("work")
    /\ Head(tmpTaskList).timed
    /\ UNCHANGED <<threadState, taskList, loader, main, gameShutdown, accepted>>

(* Game::setGameState(GAME_STATE_SHUTDOWN), which returns early the second *)
(* time.  It adds the closing task, and only then, in a step of its own    *)
(* (Stop), the dispatcher leaves RUNNING: until then the other threads     *)
(* still get tasks accepted, behind the closing one.                       *)
SetShutdownMutant ==         \* stops the dispatcher before adding the task
    /\ gameShutdown' = TRUE
    /\ pc' = pc
    /\ IF gameShutdown
       THEN UNCHANGED <<threadState, taskList, accepted>>
       ELSE /\ threadState' = "CLOSING"
            /\ UNCHANGED <<taskList, accepted>>

SetShutdown ==
    /\ gameShutdown' = TRUE
    /\ IF gameShutdown
       THEN UNCHANGED <<pc, taskList, accepted>>
       ELSE Enqueue(Plain("close")) /\ pc' = "stopping"
    /\ UNCHANGED threadState

(* g_dispatcher.stop(), the last call of setGameState.                     *)
Stop ==
    /\ pc = "stopping"
    /\ pc' = "running"
    /\ threadState' = "CLOSING"
    /\ UNCHANGED <<taskList, tmpTaskList, signalling, loader, main, gameShutdown,
                   accepted, done>>

(* The body of any other task: it may add a task, or be a script that      *)
(* stops the server (luaGameSetGameState).                                 *)
RunWork ==
    /\ Begin("work")
    /\ \/ UNCHANGED <<threadState, pc, taskList, gameShutdown, accepted>>
       \/ /\ Len(accepted) < MaxTasks
          /\ \E task \in WorkTask : Enqueue(task)
          /\ UNCHANGED <<threadState, pc, gameShutdown>>
       \/ SetShutdown
    /\ UNCHANGED <<loader, main>>

(* sigtermHandler and sigintHandler.                                       *)
RunSignal ==
    /\ Begin("signal")
    /\ SetShutdown
    /\ UNCHANGED <<loader, main>>

(* Game::shutdown, as far as the dispatcher sees it: Dispatcher::shutdown  *)
(* pushes its task whatever the state is.                                  *)
RunClose ==
    /\ Take("close")
    /\ Push(Plain("terminate"))
    /\ UNCHANGED <<threadState, loader, main, gameShutdown>>

RunTerminate ==
    /\ Take("terminate")
    /\ threadState' = "TERMINATED"
    /\ UNCHANGED <<taskList, loader, main, gameShutdown, accepted>>

RunTask ==
    \/ RunLoad
    \/ ExpireTask
    \/ RunWork
    \/ RunSignal
    \/ RunClose
    \/ RunTerminate

ThreadMain == Loop \/ SwapAfterWait \/ BatchDone \/ RunTask \/ Stop

(* The server has stopped: thread::join has returned.                      *)
Ended ==
    /\ pc = "ended"
    /\ UNCHANGED vars

Next ==
    \/ \E t \in Threads : AddTask(t) \/ Notify(t)
    \/ MainThread
    \/ MainSpuriousWakeup
    \/ SpuriousWakeup
    \/ ThreadMain
    \/ Ended

(* Started threads are scheduled: the dispatcher thread goes on, a caller  *)
(* of addTask reaches its notify_one, and the main thread goes on.         *)
Fairness ==
    /\ WF_vars(ThreadMain)
    /\ \A t \in Threads : WF_vars(Notify(t))
    /\ WF_vars(MainThread)

Spec == Init /\ [][Next]_vars
FairSpec == Spec /\ Fairness

-----------------------------------------------------------------------------
TypeOK ==
    /\ threadState \in {"RUNNING", "CLOSING", "TERMINATED"}
    /\ taskList \in Seq(Task)
    /\ tmpTaskList \in Seq(Task)
    /\ pc \in {"loop", "waiting", "woken", "running", "stopping", "ended"}
    /\ signalling \subseteq Threads
    /\ loader \in {"loading", "online", "failed"}
    /\ main \in {"starting", "waiting", "woken", "serving", "offline"}
    /\ gameShutdown \in BOOLEAN
    /\ accepted \in Seq(Task)
    /\ done \in Seq(Task)

(* Double buffering neither loses, repeats nor reorders tasks: at any      *)
(* moment the accepted tasks are those deleted, then those of the batch,   *)
(* then those still shared, in this order (threadMain's swap).             *)
Conservation == accepted = done \o tmpTaskList \o taskList

(* No lost wakeup: if the dispatcher sleeps while the list is not empty,   *)
(* some thread still has its notify_one to do.  addTask only notifies      *)
(* when the list was empty, so the other callers rely on that thread.      *)
NoLostWakeup == pc = "waiting" /\ taskList # <<>> => signalling # {}

(* Orderly shutdown: once the dispatcher has stopped, every task that      *)
(* addTask accepted has been taken out: what slips in behind the closing   *)
(* task, before g_dispatcher.stop(), is in front of the task that ends the *)
(* thread, and nothing slips in behind that one.  Only startServer's own shutdown, *)
(* which does not call stop() first, makes no such promise.                *)
NothingLeftBehind ==
    pc = "ended" /\ main # "offline" => taskList = <<>> /\ tmpTaskList = <<>>

(* The dispatcher implements the abstract executor.                        *)
Executor == INSTANCE SerialExecutor WITH queue <- tmpTaskList \o taskList
ExecutorSpec == Executor!ExSpec

(* Every accepted task is eventually taken out, unless startServer gave up *)
(* and shut the dispatcher down without closing it first.                  *)
EventuallyDone ==
    \A n \in 1..MaxTasks :
        Len(accepted) >= n ~> Len(done) >= n \/ main = "offline"

(* A main thread that waits is told: every way out of mainLoader notifies. *)
MainLeavesWait == main = "waiting" /\ loader = "loading" ~> main \in {"serving", "offline"}

(* A shutdown that was started ends the thread, so that join returns.  The *)
(* two kinds exclude each other: a script that calls setGameState in the   *)
(* batch of startServer's terminate task puts CLOSING over TERMINATED, and *)
(* the dispatcher then sleeps for good.                                    *)
ShutdownEnds ==
    /\ gameShutdown ~> pc = "ended" \/ main = "offline"
    /\ main = "offline" ~> pc = "ended" \/ gameShutdown
=============================================================================
