--------------------------- MODULE SerialExecutor ---------------------------
(***************************************************************************)
(* What Dispatcher (src/src/tasks.cpp) promises to the rest of the server: *)
(* tasks handed over by any thread are taken out one at a time, each of    *)
(* them once, in the order in which they were accepted.  No thread, lock,  *)
(* condition variable or double buffer is visible at this level.           *)
(***************************************************************************)
EXTENDS Naturals, Sequences

CONSTANT Task          \* what can be submitted

VARIABLES
    queue,             \* accepted and not yet taken out
    done               \* taken out, oldest first

exVars == <<queue, done>>

ExInit ==
    \E first \in Task : queue = <<first>> /\ done = <<>>

(* One critical section of addTask or shutdown: the task goes to the end.  *)
Submit(task) ==
    /\ queue' = Append(queue, task)
    /\ UNCHANGED done

(* Taking a task out; its body may submit one task of its own.             *)
Execute ==
    /\ queue # <<>>
    /\ done' = Append(done, Head(queue))
    /\ \/ queue' = Tail(queue)
       \/ \E task \in Task : queue' = Append(Tail(queue), task)

ExNext ==
    \/ \E task \in Task : Submit(task)
    \/ Execute

ExSpec == ExInit /\ [][ExNext]_exVars
=============================================================================
