--------------------------- MODULE MCDatabase_proofs ---------------------------
(***************************************************************************)
(* Proofs about what lies around the database, for any number of queries,  *)
(* sessions and failures: DatabaseTasks, PlayerSave and GameSession, each  *)
(* by an inductive invariant, and the properties of MCDatabase from them.  *)
(***************************************************************************)
EXTENDS MCDatabase, SequenceTheorems, FiniteSetTheorems, TLAPS

-----------------------------------------------------------------------------
(* Queries: the invariant.                                                 *)

(* How many queries were taken out of the list.                            *)
Dequeued == issued - Len(tasks)

GamePhase == {"idle", "notify", "flush", "run", "post", "stopping", "stopDatabase",
              "stopDispatcher", "flushed", "done"}
ThreadPhase == {"test", "lock", "waiting", "woken", "run", "post", "ended"}

(* The two program counters and what the game thread does when: it flushes *)
(* for a reason, and the stages of the shutdown follow one another.        *)
Stages ==
    /\ DOMAIN pc = Taker
    /\ pc.game \in {"flush", "run", "post"} => purpose # "none"
    /\ state = "TERMINATED" <=>
          \/ pc.game \in {"flushed", "done"}
          \/ pc.game \in {"flush", "run", "post"} /\ purpose = "shutdown"
    /\ pc.game \in {"notify", "stopping", "stopDatabase"} => state = "RUNNING"
    /\ pc.game \in {"flush", "run", "post"} /\ purpose # "shutdown" => state = "RUNNING"
    /\ pc.game = "stopDispatcher" => state = "CLOSING"

(* The list holds the latest queries, in the order of issue.               *)
Contiguous ==
    /\ Dequeued \in 0 .. issued
    /\ \A i \in 1 .. Len(tasks) : tasks[i] = Dequeued + i

(* A thread holds a query exactly while it runs it and posts its callback, *)
(* and the two never hold the same.                                        *)
Hands ==
    /\ \A t \in Taker : held[t] # 0 <=> pc[t] \in {"run", "post"}
    /\ \A t \in Taker : held[t] <= Dequeued
    /\ held["thread"] # 0 => held["thread"] # held["game"]

(* What was taken out was run or is about to be, once.                     *)
Running(t) == IF pc[t] = "run" THEN 1 ELSE 0

Taken ==
    /\ Len(executed) + Running("thread") + Running("game") = Dequeued
    /\ \A id \in 1 .. Dequeued : id \in Ids(executed) \/ \E t \in Taker : pc[t] = "run" /\ held[t] = id
    /\ \A i \in 1 .. Len(executed) : executed[i] <= Dequeued
    /\ \A t \in Taker : pc[t] = "post" => held[t] \in Ids(executed)

(* Nothing is issued between the flush of a shutdown and its end.          *)
FlushedIsEmpty ==
    pc.game \in {"stopping", "stopDatabase", "stopDispatcher", "flushed", "done"} =>
        tasks = <<>>

(* The closing task is queued once.                                        *)
OneClose ==
    /\ state = "RUNNING" /\ pc.game # "stopDatabase" => CloseTask \notin Ids(queue)
    /\ state = "TERMINATED" => CloseTask \notin Ids(queue)
    /\ \A i, j \in 1 .. Len(queue) : queue[i] = CloseTask /\ queue[j] = CloseTask => i = j

QueryInv ==
    /\ TypeOK /\ Stages /\ Contiguous /\ Hands /\ Taken /\ FlushedIsEmpty /\ OneClose
    /\ withCallback \subseteq 1 .. issued
    /\ CallbackKept /\ CallbackAfterQuery

-----------------------------------------------------------------------------
(* Facts about sequences as sets.                                          *)

(* An element is added at the end.                                         *)
LEMMA IdsAppend ==
  ASSUME NEW V, NEW s \in Seq(V), NEW e \in V
  PROVE  /\ Append(s, e) \in Seq(V)
         /\ Ids(Append(s, e)) = Ids(s) \cup {e}
         /\ Len(Append(s, e)) = Len(s) + 1
<1>1. /\ Append(s, e) \in Seq(V)
      /\ Len(Append(s, e)) = Len(s) + 1
      /\ DOMAIN Append(s, e) = 1 .. Len(s) + 1
      /\ Append(s, e)[Len(s) + 1] = e
      /\ \A i \in 1 .. Len(s) : Append(s, e)[i] = s[i]
  BY AppendProperties
<1>2. DOMAIN s = 1 .. Len(s) /\ Len(s) \in Nat
  OBVIOUS
<1>3. \A i \in DOMAIN Append(s, e) : i = Len(s) + 1 \/ i \in DOMAIN s
  BY <1>1, <1>2
<1>4. \A i \in DOMAIN s : i \in DOMAIN Append(s, e) /\ Append(s, e)[i] = s[i]
  BY <1>1, <1>2
<1>5. Len(s) + 1 \in DOMAIN Append(s, e)
  BY <1>1, <1>2
<1>6. \A x : x \in Ids(Append(s, e)) <=> x \in Ids(s) \/ x = e
  BY <1>1, <1>3, <1>4, <1>5, Zenon DEF Ids
<1> QED
  BY <1>1, <1>6

(* An element is taken from the front.                                     *)
LEMMA IdsTail ==
  ASSUME NEW V, NEW s \in Seq(V), s # <<>>
  PROVE  /\ Head(s) \in V /\ Tail(s) \in Seq(V)
         /\ Len(Tail(s)) = Len(s) - 1 /\ Len(s) \in Nat \ {0}
         /\ Head(s) = s[1]
         /\ \A i \in 1 .. Len(Tail(s)) : Tail(s)[i] = s[i + 1]
         /\ Ids(s) = Ids(Tail(s)) \cup {Head(s)}
<1>1. /\ Head(s) \in V /\ Tail(s) \in Seq(V)
      /\ Len(Tail(s)) = Len(s) - 1 /\ Len(s) \in Nat \ {0}
      /\ Head(s) = s[1]
      /\ \A i \in 1 .. Len(Tail(s)) : Tail(s)[i] = s[i + 1]
  BY HeadTailProperties, EmptySeq
<1>2. DOMAIN s = 1 .. Len(s) /\ DOMAIN Tail(s) = 1 .. Len(s) - 1
  BY <1>1
<1>3. ASSUME NEW i \in DOMAIN s
      PROVE  i = 1 \/ (i - 1 \in DOMAIN Tail(s) /\ Tail(s)[i - 1] = s[i])
  <2>1. i \in Nat /\ i >= 1 /\ i <= Len(s)
    BY <1>1, <1>2
  <2>2. CASE i # 1
    <3>1. i - 1 \in 1 .. Len(Tail(s)) /\ (i - 1) + 1 = i
      BY <1>1, <2>1, <2>2
    <3> QED
      BY <1>1, <1>2, <3>1
  <2> QED
    BY <2>2
<1>4. \A i \in DOMAIN Tail(s) : i + 1 \in DOMAIN s /\ s[i + 1] = Tail(s)[i]
  BY <1>1, <1>2
<1>5. 1 \in DOMAIN s
  BY <1>1, <1>2
<1>6. ASSUME NEW x \in Ids(s) PROVE x \in Ids(Tail(s)) \/ x = Head(s)
  <2>1. PICK i \in DOMAIN s : x = s[i]
    BY <1>6 DEF Ids
  <2> QED
    BY <1>1, <1>3, <2>1 DEF Ids
<1>7. \A x : x \in Ids(Tail(s)) \/ x = Head(s) => x \in Ids(s)
  BY <1>1, <1>4, <1>5 DEF Ids
<1> QED
  BY <1>1, <1>6, <1>7

(* An empty sequence has none.                                             *)
LEMMA IdsEmpty == Ids(<<>>) = {}
BY DEF Ids

(* The members of a sequence are members of its type.                      *)
LEMMA IdsIn ==
  ASSUME NEW V, NEW s \in Seq(V)
  PROVE  /\ Ids(s) \subseteq V
         /\ \A x : x \in Ids(s) <=> \E i \in 1 .. Len(s) : s[i] = x
BY DEF Ids

-----------------------------------------------------------------------------
(* Queries: the invariant is inductive.                                    *)

(* No query was issued at first.                                           *)
LEMMA QueryInit == Init => QueryInv
<1> SUFFICES ASSUME Init PROVE QueryInv
  OBVIOUS
<1>1. TypeOK /\ Stages
  BY MaxTasksAssumption DEF Init, TypeOK, Stages, Taker, TaskId
<1>2. Contiguous /\ Hands
  <2>1. Len(tasks) = 0 /\ issued = 0
    BY DEF Init
  <2>2. \A t \in Taker : held[t] = 0 /\ pc[t] \in {"test", "idle"}
    BY DEF Init, Taker
  <2> QED
    BY <2>1, <2>2 DEF Contiguous, Hands, Dequeued, Taker
<1>3. Taken
  <2>1. Len(tasks) = 0 /\ Len(executed) = 0 /\ issued = 0
    BY DEF Init
  <2>2. pc["thread"] = "test" /\ pc["game"] = "idle"
    BY DEF Init
  <2> QED
    BY <2>1, <2>2 DEF Taken, Dequeued, Running, Taker
<1>4. FlushedIsEmpty /\ OneClose /\ withCallback \subseteq 1 .. issued
  BY DEF Init, FlushedIsEmpty, OneClose, Ids
<1>5. CallbackKept /\ CallbackAfterQuery
  BY DEF Init, CallbackKept, CallbackAfterQuery, Ids
<1> QED
  BY <1>1, <1>2, <1>3, <1>4, <1>5 DEF QueryInv

(* Types are kept.                                                         *)
LEMMA QueryTypeNext == QueryInv /\ [Next]_vars => TypeOK'
<1> SUFFICES ASSUME QueryInv, [Next]_vars PROVE TypeOK'
  OBVIOUS
<1> USE DEF QueryInv
<1>1. CASE AddTask
  <2>1. issued + 1 \in TaskId
    BY <1>1, MaxTasksAssumption DEF AddTask, TypeOK, TaskId
  <2> QED
    BY <1>1, <2>1, IdsAppend, MaxTasksAssumption DEF AddTask, TypeOK, Move, Stages, Taker
<1>2. CASE Notify \/ ShutdownNotify
  <2>1. pc'.thread \in {pc.thread, "woken"} /\ pc'.game \in {"idle", "done"}
    BY <1>2 DEF Notify, ShutdownNotify, Signalled
  <2> QED
    BY <1>2, <2>1 DEF Notify, ShutdownNotify, TypeOK
<1>3. CASE Test \/ SpuriousWakeup
  BY <1>3 DEF Test, SpuriousWakeup, Move, Stages, Taker, TypeOK
<1>4. ASSUME NEW taker \in Taker, Pop(taker), tasks # <<>>,
             UNCHANGED <<state, withCallback, issued, purpose, executed,
                         dispatcherOpen, queue, called>>
      PROVE  TypeOK'
  <2>1. Head(tasks) \in TaskId /\ Tail(tasks) \in Seq(TaskId)
    BY <1>4, IdsTail DEF TypeOK
  <2> QED
    BY <1>4, <2>1, MaxTasksAssumption DEF Pop, Move, Stages, Taker, TypeOK, TaskId
<1>5. CASE Lock
  <2>1. CASE tasks # <<>>
    BY <1>4, <1>5, <2>1 DEF Lock, Taker
  <2>2. CASE tasks = <<>>
    BY <1>5, <2>2 DEF Lock, Move, Stages, Taker, TypeOK
  <2> QED
    BY <2>1, <2>2
<1>6. CASE FlushPop
  BY <1>4, <1>6 DEF FlushPop, Taker
<1>7. ASSUME NEW taker \in Taker, RunQuery(taker) PROVE TypeOK'
  <2>1. held[taker] \in TaskId
    BY <1>7, MaxTasksAssumption DEF RunQuery, Hands, TypeOK, TaskId
  <2> QED
    BY <1>7, <2>1, IdsAppend DEF RunQuery, Move, Stages, Taker, TypeOK
<1>8. ASSUME NEW taker \in Taker, Post(taker) PROVE TypeOK'
  <2>1. held[taker] \in 0 .. MaxTasks
    BY <1>8 DEF TypeOK
  <2>2. queue' \in Seq(0 .. MaxTasks)
    BY <1>8, <2>1, IdsAppend DEF Post, TypeOK
  <2> QED
    BY <1>8, <2>2, MaxTasksAssumption DEF Post, Move, After, Stages, Taker, TypeOK
<1>9. CASE Save
  BY <1>9 DEF Save, BeginFlush, Move, Stages, Taker, TypeOK
<1>10. CASE FlushReturns
  BY <1>10 DEF FlushReturns, Move, Stages, Taker, TypeOK
<1>11. CASE QueueClose
  <2>1. CloseTask \in 0 .. MaxTasks
    BY MaxTasksAssumption DEF CloseTask
  <2> QED
    BY <1>11, <2>1, IdsAppend DEF QueueClose, Move, Stages, Taker, TypeOK
<1>12. CASE StopDatabase \/ StopDispatcher
  BY <1>12 DEF StopDatabase, StopDispatcher, Move, Stages, Taker, TypeOK
<1>13. CASE Callback \/ LateCallback
  <2>1. /\ queue # <<>> /\ queue' = Tail(queue) /\ called' = called \cup {Head(queue)}
        /\ UNCHANGED <<state, tasks, withCallback, issued, pc, held, purpose,
                       executed, dispatcherOpen>>
    BY <1>13 DEF Callback, LateCallback
  <2>2. Head(queue) \in 0 .. MaxTasks /\ Head(queue) \in Ids(queue)
        /\ Tail(queue) \in Seq(0 .. MaxTasks)
    BY <2>1, IdsTail DEF TypeOK
  <2>3. Head(queue) # CloseTask
    BY <1>13, <2>2 DEF Callback, LateCallback, OneClose, Stages
  <2>4. Head(queue) \in TaskId
    BY <2>2, <2>3, MaxTasksAssumption DEF TaskId, CloseTask
  <2> QED
    BY ZenonT(60), <2>1, <2>2, <2>4 DEF TypeOK
<1>14. CASE Shutdown
  <2>1. Tail(queue) \in Seq(0 .. MaxTasks)
    BY <1>14, IdsTail DEF Shutdown, TypeOK
  <2> QED
    BY <1>14, <2>1 DEF Shutdown, BeginFlush, Move, Stages, Taker, TypeOK
<1>15. CASE Ended \/ UNCHANGED vars
  BY <1>15 DEF Ended, vars, TypeOK
<1> QED
  BY <1>1, <1>2, <1>3, <1>5, <1>6, <1>7, <1>8, <1>9, <1>10, <1>11, <1>12, <1>13,
     <1>14, <1>15 DEF Next, ThreadMain, GameGoesOn, GameFlush, Taker

(* So is where the takers are.                                             *)
LEMMA StagesNext == QueryInv /\ [Next]_vars => Stages'
<1> SUFFICES ASSUME QueryInv, [Next]_vars PROVE Stages'
  OBVIOUS
<1>1. DOMAIN pc = {"thread", "game"}
  BY DEF QueryInv, Stages, Taker
<1> USE DEF QueryInv, Stages, TypeOK, Taker
<1>2. CASE AddTask
  BY <1>1, <1>2 DEF AddTask, Move
<1>3. CASE Notify \/ ShutdownNotify
  BY <1>1, <1>3 DEF Notify, ShutdownNotify
<1>4. CASE Test \/ SpuriousWakeup \/ Lock \/ FlushPop
  BY <1>1, <1>4 DEF Test, SpuriousWakeup, Lock, FlushPop, Pop, Move
<1>5. ASSUME NEW taker \in Taker, RunQuery(taker) PROVE Stages'
  BY <1>1, <1>5 DEF RunQuery, Move
<1>6. ASSUME NEW taker \in Taker, Post(taker) PROVE Stages'
  BY <1>1, <1>6 DEF Post, Move, After
<1>7. CASE Save \/ Shutdown
  BY <1>1, <1>7 DEF Save, Shutdown, BeginFlush, Move
<1>8. CASE FlushReturns
  BY <1>1, <1>8 DEF FlushReturns, Move
<1>9. CASE QueueClose \/ StopDatabase \/ StopDispatcher
  BY <1>1, <1>9 DEF QueueClose, StopDatabase, StopDispatcher, Move
<1>10. CASE Callback \/ LateCallback \/ Ended \/ UNCHANGED vars
  BY <1>1, <1>10 DEF Callback, LateCallback, Ended, vars
<1> QED
  BY <1>2, <1>3, <1>4, <1>5, <1>6, <1>7, <1>8, <1>9, <1>10
     DEF Next, ThreadMain, GameGoesOn, GameFlush

(* What a taker takes out is the oldest query, and none has it yet.        *)
LEMMA PopOldest ==
  ASSUME QueryInv, NEW taker \in Taker, Pop(taker), tasks # <<>>, UNCHANGED issued
  PROVE  /\ Head(tasks) = Dequeued + 1 /\ Dequeued' = Dequeued + 1
         /\ Len(tasks') = Len(tasks) - 1 /\ Len(tasks) \in Nat \ {0}
         /\ Dequeued' \in 0 .. issued
         /\ \A i \in 1 .. Len(tasks') : tasks'[i] = tasks[i + 1]
<1>1. /\ Len(Tail(tasks)) = Len(tasks) - 1 /\ Len(tasks) \in Nat \ {0}
      /\ Head(tasks) = tasks[1]
      /\ \A i \in 1 .. Len(Tail(tasks)) : Tail(tasks)[i] = tasks[i + 1]
  BY IdsTail DEF QueryInv, TypeOK
<1>2. tasks' = Tail(tasks) /\ issued \in Nat
  BY MaxTasksAssumption DEF Pop, QueryInv, TypeOK
<1>3. tasks[1] = Dequeued + 1
  BY <1>1 DEF QueryInv, Contiguous
<1> QED
  BY <1>1, <1>2, <1>3 DEF Dequeued, QueryInv, Contiguous

(* The list holds the queries issued last, in order.                       *)
LEMMA ContiguousNext == QueryInv /\ [Next]_vars => Contiguous'
<1> SUFFICES ASSUME QueryInv, [Next]_vars PROVE Contiguous'
  OBVIOUS
<1> USE DEF QueryInv
<1>1. issued \in Nat /\ Len(tasks) \in Nat
  BY MaxTasksAssumption DEF TypeOK
<1>2. CASE AddTask
  <2>1. /\ tasks' = Append(tasks, issued + 1) /\ issued' = issued + 1
        /\ Len(tasks') = Len(tasks) + 1
        /\ tasks'[Len(tasks) + 1] = issued + 1
        /\ \A i \in 1 .. Len(tasks) : tasks'[i] = tasks[i]
    <3>1. issued + 1 \in TaskId
      BY <1>2, MaxTasksAssumption DEF AddTask, TypeOK, TaskId
    <3> QED
      BY <1>2, <3>1, AppendProperties DEF AddTask, TypeOK
  <2>2. Dequeued' = Dequeued
    BY <1>1, <2>1 DEF Dequeued
  <2>3. Dequeued + (Len(tasks) + 1) = issued + 1
    BY <1>1 DEF Dequeued
  <2> QED
    BY SMTT(40), <1>1, <2>1, <2>2, <2>3 DEF Contiguous
<1>3. ASSUME NEW taker \in Taker, Pop(taker), tasks # <<>>, UNCHANGED issued
      PROVE  Contiguous'
  <2>1. ASSUME NEW i \in 1 .. Len(tasks') PROVE tasks'[i] = Dequeued' + i
    <3>1. i + 1 \in 1 .. Len(tasks)
      BY <1>1, <1>3, PopOldest
    <3>2. tasks'[i] = Dequeued + (i + 1)
      BY <1>3, <3>1, PopOldest DEF Contiguous
    <3> QED
      BY <1>1, <1>3, <3>2, PopOldest DEF Contiguous
  <2> QED
    BY <1>3, <2>1, PopOldest DEF Contiguous
<1>4. CASE UNCHANGED <<tasks, issued>>
  BY <1>4 DEF Contiguous, Dequeued
<1>5. CASE Lock \/ FlushPop
  BY <1>3, <1>4, <1>5 DEF Lock, FlushPop, Taker
<1>6. ASSUME NEW taker \in Taker, RunQuery(taker) \/ Post(taker) PROVE Contiguous'
  BY <1>4, <1>6 DEF RunQuery, Post
<1>7. CASE Notify \/ ShutdownNotify \/ Test \/ SpuriousWakeup \/ Save \/ Shutdown
  BY <1>4, <1>7 DEF Notify, ShutdownNotify, Test, SpuriousWakeup, Save, Shutdown
<1>8. CASE \/ FlushReturns \/ QueueClose \/ StopDatabase \/ StopDispatcher \/ Callback
           \/ LateCallback \/ Ended \/ UNCHANGED vars
  BY <1>4, <1>8 DEF FlushReturns, QueueClose, StopDatabase, StopDispatcher, Callback,
                    LateCallback, Ended, vars
<1> QED
  BY <1>2, <1>5, <1>6, <1>7, <1>8 DEF Next, ThreadMain, GameGoesOn, GameFlush, Taker

(* A query taken is in one taker's hands until it was run.                 *)
LEMMA HandsNext == QueryInv /\ [Next]_vars => Hands'
<1> SUFFICES ASSUME QueryInv, [Next]_vars PROVE Hands'
  OBVIOUS
<1> USE DEF QueryInv
<1>1. issued \in Nat /\ Len(tasks) \in Nat /\ Dequeued \in Nat
  BY MaxTasksAssumption DEF TypeOK, Contiguous
<1>2. /\ DOMAIN pc = {"thread", "game"} /\ held["thread"] \in Nat /\ held["game"] \in Nat
      /\ DOMAIN held = {"thread", "game"}
  BY MaxTasksAssumption DEF Stages, TypeOK, Taker
<1>3. CASE AddTask
  <2>1. Len(tasks') = Len(tasks) + 1 /\ issued' = issued + 1
    <3>1. issued + 1 \in TaskId
      BY <1>3, MaxTasksAssumption DEF AddTask, TypeOK, TaskId
    <3> QED
      BY <1>3, <3>1, AppendProperties DEF AddTask, TypeOK
  <2>2. Dequeued' = Dequeued
    BY <1>1, <2>1 DEF Dequeued
  <2>3. held' = held /\ pc'["thread"] = pc["thread"]
        /\ (pc'["game"] = pc["game"] \/ (pc["game"] = "idle" /\ pc'["game"] = "notify"))
    BY <1>2, <1>3 DEF AddTask, Move
  <2> QED
    BY <1>2, <2>2, <2>3 DEF Hands, Taker
<1>4. ASSUME NEW taker \in Taker, Pop(taker), tasks # <<>>, UNCHANGED issued,
             pc[taker] \notin {"run", "post"}
      PROVE  Hands'
  <2>1. held'[taker] = Dequeued + 1 /\ Dequeued' = Dequeued + 1 /\ pc'[taker] = "run"
    BY <1>2, <1>4, PopOldest DEF Pop, Move, Taker
  <2>2. \A t \in Taker \ {taker} : held'[t] = held[t] /\ pc'[t] = pc[t]
    BY <1>2, <1>4 DEF Pop, Move, Taker
  <2> QED
    BY <1>1, <1>2, <2>1, <2>2 DEF Hands, Taker
<1>5. ASSUME \A t \in Taker : pc'[t] \in {"run", "post"} <=> pc[t] \in {"run", "post"},
             UNCHANGED <<held, tasks, issued>>
      PROVE  Hands'
  BY <1>5 DEF Hands, Dequeued
<1>6. CASE Lock
  <2>1. CASE tasks # <<>>
    BY <1>4, <1>6, <2>1 DEF Lock, Taker
  <2>2. CASE tasks = <<>>
    <3>1. \A t \in Taker : pc'[t] \in {"run", "post"} <=> pc[t] \in {"run", "post"}
      BY <1>2, <1>6, <2>2 DEF Lock, Move, Taker
    <3> QED
      BY <1>5, <1>6, <2>2, <3>1 DEF Lock
  <2> QED
    BY <2>1, <2>2
<1>7. CASE FlushPop
  BY <1>4, <1>7 DEF FlushPop, Taker
<1>8. ASSUME NEW taker \in Taker, RunQuery(taker) PROVE Hands'
  <2>1. \A t \in Taker : pc'[t] \in {"run", "post"} <=> pc[t] \in {"run", "post"}
    BY <1>2, <1>8 DEF RunQuery, Move, Taker
  <2> QED
    BY <1>5, <1>8, <2>1 DEF RunQuery
<1>9. ASSUME NEW taker \in Taker, Post(taker) PROVE Hands'
  <2>1. held'[taker] = 0 /\ pc'[taker] \in {"test", "flush"}
    BY <1>2, <1>9 DEF Post, Move, After, Taker
  <2>2. \A t \in Taker \ {taker} : held'[t] = held[t] /\ pc'[t] = pc[t]
    BY <1>2, <1>9 DEF Post, Move, Taker
  <2>3. Dequeued' = Dequeued
    BY <1>9 DEF Post, Dequeued
  <2> QED
    BY <1>1, <1>2, <2>1, <2>2, <2>3 DEF Hands, Taker
<1>10. CASE \/ Notify \/ ShutdownNotify \/ Test \/ SpuriousWakeup \/ Save \/ Shutdown
            \/ FlushReturns \/ QueueClose \/ StopDatabase \/ StopDispatcher
  <2>1. \A t \in Taker : pc'[t] \in {"run", "post"} <=> pc[t] \in {"run", "post"}
    <3>1. CASE Notify \/ ShutdownNotify
      BY <3>1 DEF Notify, ShutdownNotify, Signalled, Taker
    <3>2. CASE Test \/ SpuriousWakeup \/ Save \/ Shutdown
      BY <1>2, <3>2 DEF Test, SpuriousWakeup, Save, Shutdown, BeginFlush, Move, Taker
    <3>3. CASE FlushReturns
      BY <1>2, <3>3 DEF FlushReturns, Stages, TypeOK, Move, Taker
    <3>4. CASE QueueClose \/ StopDatabase \/ StopDispatcher
      BY <1>2, <3>4 DEF QueueClose, StopDatabase, StopDispatcher, Move, Taker
    <3> QED
      BY <1>10, <3>1, <3>2, <3>3, <3>4
  <2> QED
    BY <1>5, <1>10, <2>1
       DEF Notify, ShutdownNotify, Test, SpuriousWakeup, Save, Shutdown,
           FlushReturns, QueueClose, StopDatabase, StopDispatcher
<1>11. CASE Callback \/ LateCallback \/ Ended \/ UNCHANGED vars
  BY <1>5, <1>11 DEF Callback, LateCallback, Ended, vars
<1> QED
  BY <1>3, <1>6, <1>7, <1>8, <1>9, <1>10, <1>11
     DEF Next, ThreadMain, GameGoesOn, GameFlush, Taker

(* Running a query puts it among the executed ones; taking and posting     *)
(* leave them alone.                                                       *)
LEMMA TakenNext == QueryInv /\ [Next]_vars => Taken'
<1> SUFFICES ASSUME QueryInv, [Next]_vars PROVE Taken'
  OBVIOUS
<1> USE DEF QueryInv
<1>1. /\ issued \in Nat /\ Len(tasks) \in Nat /\ Dequeued \in Nat
      /\ Len(executed) \in Nat /\ executed \in Seq(TaskId) /\ TaskId \subseteq Nat
  BY MaxTasksAssumption DEF TypeOK, Contiguous, TaskId
<1>2. /\ DOMAIN pc = {"thread", "game"} /\ held["thread"] \in Nat /\ held["game"] \in Nat
      /\ DOMAIN held = {"thread", "game"}
  BY MaxTasksAssumption DEF Stages, TypeOK, Taker
<1>3. \A i \in 1 .. Len(executed) : executed[i] \in Nat
  BY <1>1, ElementOfSeq
<1>4. ASSUME \A t \in Taker : pc'[t] \in {"run", "post"} \/ pc[t] \in {"run", "post"}
                                => pc'[t] = pc[t],
             UNCHANGED <<held, executed>>, Dequeued' = Dequeued
      PROVE  Taken'
  <2>1. \A t \in Taker : Running(t)' = Running(t)
    BY <1>4 DEF Running
  <2> QED
    BY <1>4, <2>1 DEF Taken, Taker, Ids
<1>5. CASE AddTask
  <2>1. Len(tasks') = Len(tasks) + 1 /\ issued' = issued + 1
    <3>1. issued + 1 \in TaskId
      BY <1>5, MaxTasksAssumption DEF AddTask, TypeOK, TaskId
    <3> QED
      BY <1>5, <3>1, AppendProperties DEF AddTask, TypeOK
  <2>2. Dequeued' = Dequeued
    BY <1>1, <2>1 DEF Dequeued
  <2> QED
    BY <1>2, <1>4, <1>5, <2>2 DEF AddTask, Move, Taker
<1>6. ASSUME NEW taker \in Taker, Pop(taker), tasks # <<>>, UNCHANGED <<issued, executed>>,
             pc[taker] \notin {"run", "post"}
      PROVE  Taken'
  <2>1. /\ held'[taker] = Dequeued + 1 /\ Dequeued' = Dequeued + 1 /\ pc'[taker] = "run"
        /\ Running(taker) = 0 /\ Running(taker)' = 1
    BY <1>2, <1>6, PopOldest DEF Pop, Move, Taker, Running
  <2>2. \A t \in Taker \ {taker} : /\ held'[t] = held[t] /\ pc'[t] = pc[t]
                                   /\ Running(t)' = Running(t)
    BY <1>2, <1>6 DEF Pop, Move, Taker, Running
  <2>3. Len(executed') + Running("thread")' + Running("game")' = Dequeued'
    <3>1. Running("thread") \in Nat /\ Running("game") \in Nat
      BY DEF Running
    <3>2. CASE taker = "thread"
      <4>1. Running("thread") = 0 /\ Running("thread")' = 1
            /\ Running("game")' = Running("game")
        BY <2>1, <2>2, <3>2 DEF Taker
      <4> QED
        BY <1>1, <1>6, <2>1, <3>1, <4>1 DEF Taken
    <3>3. CASE taker = "game"
      <4>1. Running("game") = 0 /\ Running("game")' = 1
            /\ Running("thread")' = Running("thread")
        BY <2>1, <2>2, <3>3 DEF Taker
      <4> QED
        BY <1>1, <1>6, <2>1, <3>1, <4>1 DEF Taken
    <3> QED
      BY <3>2, <3>3 DEF Taker
  <2>4. ASSUME NEW id \in 1 .. Dequeued'
        PROVE  id \in Ids(executed') \/ \E t \in Taker : pc'[t] = "run" /\ held'[t] = id
    <3>1. CASE id = Dequeued + 1
      BY <2>1, <3>1
    <3>2. CASE id \in 1 .. Dequeued
      <4>1. CASE id \in Ids(executed)
        BY <1>6, <4>1
      <4>2. CASE \E t \in Taker : pc[t] = "run" /\ held[t] = id
        <5>1. PICK t \in Taker : pc[t] = "run" /\ held[t] = id
          BY <4>2
        <5>2. t # taker
          BY <1>6, <5>1
        <5> QED
          BY <2>2, <5>1, <5>2
      <4> QED
        BY <3>2, <4>1, <4>2 DEF Taken
    <3> QED
      BY <1>1, <2>1, <3>1, <3>2
  <2>5. \A i \in 1 .. Len(executed') : executed'[i] <= Dequeued'
    BY <1>1, <1>3, <1>6, <2>1 DEF Taken
  <2>6. \A t \in Taker : pc'[t] = "post" => held'[t] \in Ids(executed')
    BY <1>6, <2>1, <2>2 DEF Taken
  <2> QED
    BY <2>3, <2>4, <2>5, <2>6 DEF Taken
<1>7. CASE Lock
  <2>1. CASE tasks # <<>>
    BY <1>6, <1>7, <2>1 DEF Lock, Taker
  <2>2. CASE tasks = <<>>
    BY <1>2, <1>4, <1>7, <2>2 DEF Lock, Move, Taker, Dequeued
  <2> QED
    BY <2>1, <2>2
<1>8. CASE FlushPop
  BY <1>6, <1>8 DEF FlushPop, Taker
<1>9. ASSUME NEW taker \in Taker, RunQuery(taker) PROVE Taken'
  <2>1. held[taker] \in TaskId /\ held[taker] <= Dequeued
    BY <1>9, MaxTasksAssumption DEF RunQuery, Hands, TypeOK, TaskId
  <2>2. /\ Ids(executed') = Ids(executed) \cup {held[taker]}
        /\ Len(executed') = Len(executed) + 1
        /\ executed'[Len(executed) + 1] = held[taker]
        /\ \A i \in 1 .. Len(executed) : executed'[i] = executed[i]
    BY <1>1, <1>9, <2>1, IdsAppend, AppendProperties DEF RunQuery
  <2>3. /\ pc[taker] = "run" /\ pc'[taker] = "post" /\ Dequeued' = Dequeued /\ held' = held
        /\ Running(taker) = 1 /\ Running(taker)' = 0
    BY <1>2, <1>9 DEF RunQuery, Move, Taker, Dequeued, Running
  <2>4. \A t \in Taker \ {taker} : pc'[t] = pc[t] /\ Running(t)' = Running(t)
    BY <1>2, <1>9 DEF RunQuery, Move, Taker, Running
  <2>5. Len(executed') + Running("thread")' + Running("game")' = Dequeued'
    <3>1. Running("thread") \in Nat /\ Running("game") \in Nat
      BY DEF Running
    <3>2. CASE taker = "thread"
      <4>1. Running("thread") = 1 /\ Running("thread")' = 0
            /\ Running("game")' = Running("game")
        BY <2>3, <2>4, <3>2 DEF Taker
      <4> QED
        BY <1>1, <2>2, <2>3, <3>1, <4>1 DEF Taken
    <3>3. CASE taker = "game"
      <4>1. Running("game") = 1 /\ Running("game")' = 0
            /\ Running("thread")' = Running("thread")
        BY <2>3, <2>4, <3>3 DEF Taker
      <4> QED
        BY <1>1, <2>2, <2>3, <3>1, <4>1 DEF Taken
    <3> QED
      BY <3>2, <3>3 DEF Taker
  <2>6. ASSUME NEW id \in 1 .. Dequeued
        PROVE  id \in Ids(executed') \/ \E t \in Taker : pc'[t] = "run" /\ held'[t] = id
    BY <2>2, <2>3, <2>4 DEF Taken
  <2>7. \A i \in 1 .. Len(executed') : executed'[i] <= Dequeued'
    BY <1>1, <2>1, <2>2, <2>3 DEF Taken
  <2>8. \A t \in Taker : pc'[t] = "post" => held'[t] \in Ids(executed')
    BY <2>2, <2>3, <2>4 DEF Taken
  <2> QED
    BY <2>3, <2>5, <2>6, <2>7, <2>8 DEF Taken
<1>10. ASSUME NEW taker \in Taker, Post(taker) PROVE Taken'
  <2>1. /\ pc'[taker] \in {"test", "flush"} /\ Running(taker) = 0 /\ Running(taker)' = 0
        /\ pc[taker] = "post" /\ executed' = executed /\ Dequeued' = Dequeued
    BY <1>2, <1>10 DEF Post, Move, After, Taker, Running, Dequeued
  <2>2. \A t \in Taker \ {taker} : /\ held'[t] = held[t] /\ pc'[t] = pc[t]
                                   /\ Running(t)' = Running(t)
    BY <1>2, <1>10 DEF Post, Move, Taker, Running
  <2>3. Running("thread")' = Running("thread") /\ Running("game")' = Running("game")
    BY <2>1, <2>2 DEF Taker
  <2>4. ASSUME NEW id \in 1 .. Dequeued
        PROVE  id \in Ids(executed) \/ \E t \in Taker : pc'[t] = "run" /\ held'[t] = id
    BY <2>1, <2>2 DEF Taken
  <2> QED
    BY <2>1, <2>2, <2>3, <2>4 DEF Taken
<1>11. CASE Notify \/ ShutdownNotify
  BY <1>4, <1>11 DEF Notify, ShutdownNotify, Signalled, Taker, Dequeued
<1>12. CASE \/ Test \/ SpuriousWakeup \/ Save \/ Shutdown
            \/ QueueClose \/ StopDatabase \/ StopDispatcher
  BY <1>2, <1>4, <1>12
     DEF Test, SpuriousWakeup, Save, Shutdown, BeginFlush, QueueClose, StopDatabase,
         StopDispatcher, Move, Taker, Dequeued
<1>13. CASE FlushReturns
  BY <1>2, <1>4, <1>13 DEF FlushReturns, Move, Stages, TypeOK, Taker, Dequeued
<1>14. CASE Callback \/ LateCallback \/ Ended \/ UNCHANGED vars
  BY <1>4, <1>14 DEF Callback, LateCallback, Ended, vars, Dequeued
<1> QED
  BY <1>5, <1>7, <1>8, <1>9, <1>10, <1>11, <1>12, <1>13, <1>14
     DEF Next, ThreadMain, GameGoesOn, GameFlush, Taker

(* A flush that has ended leaves an empty list.                            *)
LEMMA FlushedNext == QueryInv /\ [Next]_vars => FlushedIsEmpty'
<1> SUFFICES ASSUME QueryInv, [Next]_vars PROVE FlushedIsEmpty'
  OBVIOUS
<1> USE DEF QueryInv, FlushedIsEmpty
<1>1. DOMAIN pc = {"thread", "game"}
  BY DEF Stages, Taker
<1>2. CASE AddTask
  BY <1>1, <1>2 DEF AddTask, Move
<1>3. CASE Notify \/ ShutdownNotify
  BY <1>3 DEF Notify, ShutdownNotify
<1>4. CASE Test \/ SpuriousWakeup \/ Lock \/ FlushPop
  BY <1>1, <1>4 DEF Test, SpuriousWakeup, Lock, FlushPop, Pop, Move
<1>5. ASSUME NEW taker \in Taker, RunQuery(taker) \/ Post(taker) PROVE FlushedIsEmpty'
  BY <1>1, <1>5 DEF RunQuery, Post, Move, After, Taker
<1>6. CASE Save \/ Shutdown \/ FlushReturns
  BY <1>1, <1>6 DEF Save, Shutdown, FlushReturns, BeginFlush, Move
<1>7. CASE QueueClose \/ StopDatabase \/ StopDispatcher
  BY <1>1, <1>7 DEF QueueClose, StopDatabase, StopDispatcher, Move
<1>8. CASE Callback \/ LateCallback \/ Ended \/ UNCHANGED vars
  BY <1>8 DEF Callback, LateCallback, Ended, vars
<1> QED
  BY <1>2, <1>3, <1>4, <1>5, <1>6, <1>7, <1>8
     DEF Next, ThreadMain, GameGoesOn, GameFlush, Taker

(* A callback is queued.                                                   *)
LEMMA QueueAppend ==
  ASSUME queue \in Seq(0 .. MaxTasks), NEW id \in 0 .. MaxTasks
  PROVE  Ids(Append(queue, id)) = Ids(queue) \cup {id}
<1> DEFINE Entry == 0 .. MaxTasks
<1>1. queue \in Seq(Entry) /\ id \in Entry
  OBVIOUS
<1> HIDE DEF Entry
<1> QED
  BY <1>1, IdsAppend

(* The closing task is queued once.                                        *)
LEMMA OneCloseNext == QueryInv /\ [Next]_vars => OneClose'
<1> SUFFICES ASSUME QueryInv, [Next]_vars PROVE OneClose'
  OBVIOUS
<1> USE DEF QueryInv
<1>1. DOMAIN pc = {"thread", "game"} /\ queue \in Seq(0 .. MaxTasks)
  BY DEF Stages, Taker, TypeOK
<1>2. ASSUME UNCHANGED <<queue, state>>,
             pc'.game = "stopDatabase" <=> pc.game = "stopDatabase"
      PROVE  OneClose'
  BY <1>2 DEF OneClose, Ids
<1>3. CASE AddTask
  BY <1>1, <1>2, <1>3 DEF AddTask, Move
<1>4. CASE Notify \/ ShutdownNotify
  BY <1>2, <1>4 DEF Notify, ShutdownNotify
<1>5. CASE Test \/ SpuriousWakeup \/ Lock \/ FlushPop
  BY <1>1, <1>2, <1>5 DEF Test, SpuriousWakeup, Lock, FlushPop, Pop, Move
<1>6. ASSUME NEW taker \in Taker, RunQuery(taker) PROVE OneClose'
  BY <1>1, <1>2, <1>6 DEF RunQuery, Move, Taker
<1>7. ASSUME NEW taker \in Taker, Post(taker) PROVE OneClose'
  <2>1. /\ held[taker] # CloseTask /\ held[taker] \in 0 .. MaxTasks
        /\ pc[taker] # "stopDatabase" /\ pc'[taker] # "stopDatabase"
    BY <1>1, <1>7 DEF Post, Hands, CloseTask, TypeOK, Move, After, Taker
  <2>2. pc'.game = "stopDatabase" <=> pc.game = "stopDatabase"
    BY <1>1, <1>7, <2>1 DEF Post, Move, Taker
  <2>3. CASE queue' = queue
    BY <1>2, <1>7, <2>2, <2>3 DEF Post
  <2>4. CASE queue' = Append(queue, held[taker])
    <3>1. /\ Ids(queue') = Ids(queue) \cup {held[taker]}
          /\ Len(queue') = Len(queue) + 1 /\ Len(queue) \in Nat
          /\ queue'[Len(queue) + 1] = held[taker]
          /\ \A i \in 1 .. Len(queue) : queue'[i] = queue[i]
      <4>1. Ids(queue') = Ids(queue) \cup {held[taker]}
        BY <1>1, <2>1, <2>4, QueueAppend
      <4> QED
        BY <1>1, <2>1, <2>4, <4>1, AppendProperties
    <3>2. \A i \in 1 .. Len(queue') : queue'[i] = CloseTask =>
             i \in 1 .. Len(queue) /\ queue[i] = CloseTask
      BY <2>1, <3>1
    <3>3. state' = state
      BY <1>7 DEF Post
    <3> QED
      BY <2>1, <2>2, <3>1, <3>2, <3>3 DEF OneClose
  <2> QED
    BY <1>7, <2>3, <2>4 DEF Post
<1>8. CASE Save
  BY <1>1, <1>2, <1>8 DEF Save, BeginFlush, Move
<1>9. CASE FlushReturns
  BY <1>1, <1>2, <1>9 DEF FlushReturns, Move, Stages, TypeOK
<1>10. CASE QueueClose
  <2>1. CloseTask \notin Ids(queue) /\ state = "RUNNING"
    BY <1>10 DEF QueueClose, OneClose, Stages
  <2>2. /\ Len(queue') = Len(queue) + 1 /\ Len(queue) \in Nat
        /\ \A i \in 1 .. Len(queue) : queue'[i] = queue[i]
    BY <1>1, <1>10, MaxTasksAssumption, AppendProperties DEF QueueClose, CloseTask
  <2>3. \A i \in 1 .. Len(queue) : queue[i] # CloseTask
    BY <2>1 DEF Ids
  <2>4. \A i \in 1 .. Len(queue') : queue'[i] = CloseTask => i = Len(queue) + 1
    BY <2>2, <2>3
  <2>5. pc'.game = "stopDatabase" /\ state' = "RUNNING"
    BY <1>1, <1>10, <2>1 DEF QueueClose, Move
  <2> QED
    BY <2>4, <2>5 DEF OneClose
<1>11. CASE StopDatabase
  BY <1>1, <1>11 DEF StopDatabase, Move, OneClose
<1>12. CASE StopDispatcher
  BY <1>1, <1>2, <1>12 DEF StopDispatcher, Move
<1>13. ASSUME queue # <<>>, queue' = Tail(queue)
       PROVE  /\ \A i, j \in 1 .. Len(queue') :
                    queue'[i] = CloseTask /\ queue'[j] = CloseTask => i = j
              /\ CloseTask \notin Ids(queue) => CloseTask \notin Ids(queue')
              /\ Head(queue) = CloseTask => CloseTask \notin Ids(queue')
  <2>1. /\ Len(queue') = Len(queue) - 1 /\ Len(queue) \in Nat \ {0}
        /\ Head(queue) = queue[1]
        /\ \A i \in 1 .. Len(queue') : queue'[i] = queue[i + 1]
        /\ Ids(queue) = Ids(queue') \cup {Head(queue)}
    BY <1>1, <1>13, IdsTail
  <2>2. \A i \in 1 .. Len(queue') : i + 1 \in 1 .. Len(queue) /\ i + 1 # 1
    BY <2>1
  <2>3. ASSUME NEW i \in 1 .. Len(queue'), NEW j \in 1 .. Len(queue'),
               queue'[i] = CloseTask, queue'[j] = CloseTask
        PROVE  i = j
    <3>1. i + 1 = j + 1
      BY <2>1, <2>2, <2>3 DEF OneClose
    <3> QED
      BY <2>1, <3>1
  <2>4. ASSUME Head(queue) = CloseTask PROVE CloseTask \notin Ids(queue')
    <3>1. \A i \in 1 .. Len(queue') : queue'[i] # CloseTask
      BY <2>1, <2>2, <2>4 DEF OneClose
    <3>2. DOMAIN queue' = 1 .. Len(queue')
      BY <1>1, <1>13, IdsTail
    <3> QED
      BY <3>1, <3>2 DEF Ids
  <2> QED
    BY <2>1, <2>3, <2>4
<1>14. CASE Callback \/ LateCallback
  BY <1>13, <1>14 DEF Callback, LateCallback, OneClose
<1>15. CASE Shutdown
  BY <1>1, <1>13, <1>15 DEF Shutdown, BeginFlush, Move, OneClose
<1>16. CASE Ended \/ UNCHANGED vars
  BY <1>2, <1>16 DEF Ended, vars
<1> QED
  BY <1>3, <1>4, <1>5, <1>6, <1>7, <1>8, <1>9, <1>10, <1>11, <1>12, <1>14, <1>15, <1>16
     DEF Next, ThreadMain, GameGoesOn, GameFlush, Taker

(* A callback is posted after its query, and stays until it has run.       *)
LEMMA CallbacksNext ==
  ASSUME QueryInv, [Next]_vars
  PROVE  /\ withCallback' \subseteq 1 .. issued'
         /\ CallbackKept' /\ CallbackAfterQuery'
<1> USE DEF QueryInv
<1>1. /\ DOMAIN pc = {"thread", "game"} /\ queue \in Seq(0 .. MaxTasks)
      /\ executed \in Seq(TaskId) /\ issued \in Nat
  BY MaxTasksAssumption DEF Stages, Taker, TypeOK
<1>2. ASSUME UNCHANGED <<withCallback, issued, executed, held, queue, called>>,
             dispatcherOpen' => dispatcherOpen,
             \A t \in Taker : pc[t] = "post" => pc'[t] = "post"
      PROVE  /\ withCallback' \subseteq 1 .. issued'
             /\ CallbackKept' /\ CallbackAfterQuery'
  BY <1>2 DEF CallbackKept, CallbackAfterQuery, Ids
<1>3. ASSUME NEW taker \in Taker, pc[taker] # "post", Pop(taker),
             UNCHANGED <<withCallback, issued, executed, queue, called, dispatcherOpen>>
      PROVE  /\ withCallback' \subseteq 1 .. issued'
             /\ CallbackKept' /\ CallbackAfterQuery'
  <2>1. \A t \in Taker \ {taker} : held'[t] = held[t] /\ pc'[t] = pc[t]
    BY <1>1, <1>3 DEF Pop, Move, Taker, TypeOK
  <2>2. \A t \in Taker : pc[t] = "post" => pc'[t] = "post" /\ held'[t] = held[t]
    BY <1>3, <2>1
  <2> QED
    BY <1>3, <2>2 DEF CallbackKept, CallbackAfterQuery, Ids
<1>4. CASE AddTask
  <2>1. \A id \in Ids(executed) : id \in 1 .. issued
    <3>1. Dequeued <= issued /\ Dequeued \in Nat
      BY <1>1 DEF Contiguous
    <3>2. ASSUME NEW i \in DOMAIN executed PROVE executed[i] \in 1 .. issued
      <4>1. i \in 1 .. Len(executed) /\ executed[i] \in TaskId
        BY <1>1, <3>2, ElementOfSeq
      <4>2. executed[i] <= Dequeued
        BY <4>1 DEF Taken
      <4> QED
        BY <1>1, <3>1, <4>1, <4>2 DEF TaskId
    <3> QED
      BY <3>2 DEF Ids
  <2>2. /\ UNCHANGED <<executed, held, queue, called, dispatcherOpen>>
        /\ issued' = issued + 1 /\ withCallback' \subseteq withCallback \cup {issued + 1}
    BY <1>4 DEF AddTask
  <2>3. \A t \in Taker : pc[t] = "post" => pc'[t] = "post"
    BY <1>1, <1>4 DEF AddTask, Move, Taker
  <2>4. withCallback' \subseteq 1 .. issued'
    BY <1>1, <2>2
  <2>5. withCallback' \cap Ids(executed') \subseteq withCallback \cap Ids(executed)
    BY <1>1, <2>1, <2>2
  <2> QED
    BY <2>2, <2>3, <2>4, <2>5 DEF CallbackKept, CallbackAfterQuery
<1>5. CASE Notify \/ ShutdownNotify
  BY <1>2, <1>5 DEF Notify, ShutdownNotify, Signalled, Taker
<1>6. CASE Test \/ SpuriousWakeup
  BY <1>1, <1>2, <1>6 DEF Test, SpuriousWakeup, Move, Taker
<1>7. CASE Lock
  <2>1. CASE tasks # <<>>
    BY <1>3, <1>7, <2>1 DEF Lock, Taker
  <2>2. CASE tasks = <<>>
    BY <1>1, <1>2, <1>7, <2>2 DEF Lock, Move, Taker
  <2> QED
    BY <2>1, <2>2
<1>8. CASE FlushPop
  BY <1>3, <1>8 DEF FlushPop, Taker
<1>9. ASSUME NEW taker \in Taker, RunQuery(taker)
      PROVE  /\ withCallback' \subseteq 1 .. issued'
             /\ CallbackKept' /\ CallbackAfterQuery'
  <2>1. held[taker] \in TaskId
    BY <1>9, MaxTasksAssumption DEF RunQuery, Hands, TypeOK, TaskId
  <2>2. Ids(executed') = Ids(executed) \cup {held[taker]}
    BY <1>1, <1>9, <2>1, IdsAppend DEF RunQuery
  <2>3. /\ pc'[taker] = "post"
        /\ \A t \in Taker : pc[t] = "post" => pc'[t] = "post"
        /\ UNCHANGED <<withCallback, issued, held, queue, called, dispatcherOpen>>
    BY <1>1, <1>9 DEF RunQuery, Move, Taker
  <2> QED
    BY <2>2, <2>3 DEF CallbackKept, CallbackAfterQuery
<1>10. ASSUME NEW taker \in Taker, Post(taker)
       PROVE  /\ withCallback' \subseteq 1 .. issued'
              /\ CallbackKept' /\ CallbackAfterQuery'
  <2>1. held[taker] \in 0 .. MaxTasks /\ held[taker] \in Ids(executed)
    BY <1>10 DEF TypeOK, Post, Taken
  <2>2. Ids(queue') = IF held[taker] \in withCallback /\ dispatcherOpen
                      THEN Ids(queue) \cup {held[taker]} ELSE Ids(queue)
    BY <1>1, <1>10, <2>1, QueueAppend DEF Post
  <2>3. /\ \A t \in Taker \ {taker} : held'[t] = held[t] /\ pc'[t] = pc[t]
        /\ UNCHANGED <<withCallback, issued, executed, called, dispatcherOpen>>
    BY <1>1, <1>10 DEF Post, Move, After, Taker, TypeOK
  <2>4. ASSUME dispatcherOpen, NEW id \in withCallback \cap Ids(executed)
        PROVE  \/ id \in called' \cup Ids(queue')
               \/ \E t \in Taker : pc'[t] = "post" /\ held'[t] = id
    <3>1. CASE id = held[taker]
      BY <2>2, <2>4, <3>1
    <3>2. CASE id # held[taker]
      BY <2>2, <2>3, <2>4, <3>2 DEF CallbackKept
    <3> QED
      BY <3>1, <3>2
  <2>5. CallbackKept'
    BY <2>3, <2>4 DEF CallbackKept
  <2>6. CallbackAfterQuery'
    BY <2>1, <2>2, <2>3 DEF CallbackAfterQuery
  <2> QED
    BY <2>3, <2>5, <2>6
<1>11. CASE Save
  BY <1>1, <1>2, <1>11 DEF Save, BeginFlush, Move, Taker
<1>12. CASE FlushReturns
  BY <1>1, <1>2, <1>12 DEF FlushReturns, Move, Taker
<1>13. CASE QueueClose
  <2>1. Ids(queue') = Ids(queue) \cup {CloseTask}
    BY <1>1, <1>13, MaxTasksAssumption, IdsAppend DEF QueueClose, CloseTask
  <2>2. /\ \A t \in Taker : pc[t] = "post" => pc'[t] = "post"
        /\ UNCHANGED <<withCallback, issued, held, executed, called, dispatcherOpen>>
    BY <1>1, <1>13 DEF QueueClose, Move, Taker
  <2> QED
    BY <2>1, <2>2 DEF CallbackKept, CallbackAfterQuery
<1>14. CASE StopDatabase \/ StopDispatcher
  BY <1>1, <1>2, <1>14 DEF StopDatabase, StopDispatcher, Move, Taker
<1>15. CASE Callback \/ LateCallback
  <2>1. /\ Ids(queue) = Ids(queue') \cup {Head(queue)}
        /\ called' = called \cup {Head(queue)}
    BY <1>1, <1>15, IdsTail DEF Callback, LateCallback
  <2>2. UNCHANGED <<withCallback, issued, pc, held, executed, dispatcherOpen>>
    BY <1>15 DEF Callback, LateCallback
  <2>3. Head(queue) # CloseTask
    BY <1>15, <2>1 DEF Callback, LateCallback, OneClose, Stages
  <2> QED
    BY <2>1, <2>2, <2>3 DEF CallbackKept, CallbackAfterQuery
<1>16. CASE Shutdown
  <2>1. Ids(queue) = Ids(queue') \cup {CloseTask}
    BY <1>1, <1>16, IdsTail DEF Shutdown
  <2>2. /\ \A t \in Taker : pc[t] = "post" => pc'[t] = "post"
        /\ UNCHANGED <<withCallback, issued, held, executed, called, dispatcherOpen>>
    BY <1>1, <1>16 DEF Shutdown, BeginFlush, Move, Taker
  <2>3. \A id \in withCallback : id # CloseTask
    BY <1>1 DEF CloseTask
  <2> QED
    BY <2>1, <2>2, <2>3 DEF CallbackKept, CallbackAfterQuery
<1>17. CASE Ended \/ UNCHANGED vars
  BY <1>2, <1>17 DEF Ended, vars
<1> QED
  BY <1>4, <1>5, <1>6, <1>7, <1>8, <1>9, <1>10, <1>11, <1>12, <1>13, <1>14, <1>15,
     <1>16, <1>17 DEF Next, ThreadMain, GameGoesOn, GameFlush, Taker

(* Every step keeps the invariant of the queries.                          *)
LEMMA QueryNext == QueryInv /\ [Next]_vars => QueryInv'
<1> SUFFICES ASSUME QueryInv, [Next]_vars PROVE QueryInv'
  OBVIOUS
<1>1. TypeOK' /\ Stages' /\ Contiguous' /\ Hands'
  BY QueryTypeNext, StagesNext, ContiguousNext, HandsNext
<1>2. Taken' /\ FlushedIsEmpty' /\ OneClose'
  BY TakenNext, FlushedNext, OneCloseNext
<1>3. withCallback' \subseteq 1 .. issued' /\ CallbackKept' /\ CallbackAfterQuery'
  BY CallbacksNext
<1> QED
  BY <1>1, <1>2, <1>3 DEF QueryInv

-----------------------------------------------------------------------------
(* Queries: what the invariant says.                                       *)

(* The queries in hand are one for each thread that runs one.              *)
LEMMA HandsCounted ==
  ASSUME QueryInv
  PROVE  IsFiniteSet(InHand) /\ Cardinality(InHand) = Running("thread") + Running("game")
<1>1. CASE pc["thread"] = "run" /\ pc["game"] = "run"
  <2>1. InHand = {held["thread"], held["game"]} /\ held["thread"] # held["game"]
    BY <1>1 DEF QueryInv, Hands, InHand, Taker
  <2>2. Running("thread") = 1 /\ Running("game") = 1
    BY <1>1 DEF Running
  <2>3. /\ IsFiniteSet({held["thread"]}) /\ Cardinality({held["thread"]}) = 1
        /\ {held["thread"], held["game"]} = {held["thread"]} \cup {held["game"]}
    BY FS_Singleton
  <2> QED
    BY <2>1, <2>2, <2>3, FS_AddElement
<1>2. CASE pc["thread"] = "run" /\ pc["game"] # "run"
  <2>1. InHand = {held["thread"]}
    BY <1>2 DEF InHand, Taker
  <2>2. Running("thread") + Running("game") = 1
    BY <1>2 DEF Running
  <2> QED
    BY <2>1, <2>2, FS_Singleton
<1>3. CASE pc["thread"] # "run" /\ pc["game"] = "run"
  <2>1. InHand = {held["game"]}
    BY <1>3 DEF InHand, Taker
  <2>2. Running("thread") + Running("game") = 1
    BY <1>3 DEF Running
  <2> QED
    BY <2>1, <2>2, FS_Singleton
<1>4. CASE pc["thread"] # "run" /\ pc["game"] # "run"
  <2>1. InHand = {}
    BY <1>4 DEF InHand, Taker
  <2> QED
    BY <1>4, <2>1, FS_EmptySet DEF Running
<1> QED
  BY <1>1, <1>2, <1>3, <1>4

(* The properties of the queries from their invariant.                     *)
LEMMA QueriesFollow ==
  QueryInv => RunOnce /\ OnlyHeldOvertaken /\ FlushedMeansRun
<1> SUFFICES ASSUME QueryInv PROVE RunOnce /\ OnlyHeldOvertaken /\ FlushedMeansRun
  OBVIOUS
<1>1. /\ issued \in Nat /\ Len(tasks) \in Nat /\ Len(executed) \in Nat
      /\ Dequeued \in 0 .. issued /\ Dequeued + Len(tasks) = issued
      /\ tasks \in Seq(TaskId) /\ executed \in Seq(TaskId)
  BY MaxTasksAssumption DEF QueryInv, TypeOK, Contiguous, Dequeued
<1>2. Len(executed) + Cardinality(InHand) = Dequeued
  <2>1. Running("thread") \in Nat /\ Running("game") \in Nat
    BY DEF Running
  <2> QED
    BY <1>1, <2>1, HandsCounted DEF QueryInv, Taken
<1>3. Ids(executed) \cup InHand = 1 .. Dequeued
  <2>1. \A id \in 1 .. Dequeued : id \in Ids(executed) \cup InHand
    BY DEF QueryInv, Taken, InHand
  <2>2. \A id \in Ids(executed) : id \in 1 .. Dequeued
    <3>1. ASSUME NEW i \in DOMAIN executed PROVE executed[i] \in 1 .. Dequeued
      <4>1. i \in 1 .. Len(executed) /\ executed[i] \in TaskId
        BY <1>1, <3>1, ElementOfSeq
      <4>2. executed[i] <= Dequeued
        BY <4>1 DEF QueryInv, Taken
      <4> QED
        BY <1>1, <4>1, <4>2, MaxTasksAssumption DEF TaskId
    <3> QED
      BY <3>1 DEF Ids
  <2>3. \A id \in InHand : id \in 1 .. Dequeued
    <3>1. ASSUME NEW t \in Taker, pc[t] = "run" PROVE held[t] \in 1 .. Dequeued
      <4>1. held[t] \in Nat /\ held[t] # 0 /\ held[t] <= Dequeued
        BY <3>1, MaxTasksAssumption DEF QueryInv, Hands, TypeOK
      <4> QED
        BY <1>1, <4>1
    <3> QED
      BY <3>1 DEF InHand
  <2> QED
    BY <2>1, <2>2, <2>3
<1>4. Ids(tasks) = Dequeued + 1 .. issued
  <2>1. ASSUME NEW id \in Dequeued + 1 .. issued PROVE id \in Ids(tasks)
    <3>1. id - Dequeued \in 1 .. Len(tasks)
      BY <1>1
    <3>2. tasks[id - Dequeued] = Dequeued + (id - Dequeued)
      BY <3>1 DEF QueryInv, Contiguous
    <3>3. tasks[id - Dequeued] = id
      BY <1>1, <3>2
    <3> QED
      BY <1>1, <3>1, <3>3, IdsIn
  <2>2. ASSUME NEW id \in Ids(tasks) PROVE id \in Dequeued + 1 .. issued
    <3>1. PICK i \in 1 .. Len(tasks) : tasks[i] = id
      BY <1>1, <2>2, IdsIn
    <3>2. id = Dequeued + i
      BY <3>1 DEF QueryInv, Contiguous
    <3> QED
      BY <1>1, <3>1, <3>2
  <2> QED
    BY <2>1, <2>2
<1>5. RunOnce
  <2>1. (1 .. Dequeued) \cup (Dequeued + 1 .. issued) = 1 .. issued
    BY <1>1
  <2> QED
    BY <1>1, <1>2, <1>3, <1>4, <2>1 DEF RunOnce
<1>6. OnlyHeldOvertaken
  BY <1>1, <1>3 DEF OnlyHeldOvertaken, TaskId
<1>7. FlushedMeansRun
  <2> SUFFICES ASSUME pc.game \in {"stopping", "stopDatabase", "stopDispatcher",
                                   "flushed", "done"},
                      NEW id \in 1 .. issued, id \notin Ids(executed)
               PROVE  pc.thread = "run" /\ held.thread = id
    BY DEF FlushedMeansRun
  <2>1. Len(tasks) = 0
    BY DEF QueryInv, FlushedIsEmpty
  <2>2. id \in 1 .. Dequeued
    BY <1>1, <2>1
  <2>3. PICK t \in Taker : pc[t] = "run" /\ held[t] = id
    BY <2>2 DEF QueryInv, Taken
  <2> QED
    BY <2>3 DEF Taker
<1> QED
  BY <1>5, <1>6, <1>7

(* The invariant of the queries holds always.                              *)
LEMMA QueryInvariant == MCSpec => [](part = "queries" => QueryInv)
<1> DEFINE Inv == part = "queries" => QueryInv
<1>1. MCInit => Inv
  BY QueryInit DEF MCInit
<1>2. Inv /\ [MCNext]_<<part, vars, saving, sessions, storeVars>> => Inv'
  <2> SUFFICES ASSUME Inv, [MCNext]_<<part, vars, saving, sessions, storeVars>>,
                      part' = "queries"
               PROVE  QueryInv'
    OBVIOUS
  <2>1. part = "queries" /\ [Next]_vars
    BY DEF MCNext, vars
  <2> QED
    BY <2>1, QueryNext
<1> QED
  BY <1>1, <1>2, PTL DEF MCSpec

(* Whatever the number of queries, each accepted one is run exactly once:  *)
(* it is overtaken only while one of the two takers holds it, and a flush  *)
(* leaves none behind.                                                     *)
THEOREM QueriesAreRunOnce == MCSpec => []QueriesRunOnce
<1>1. (part = "queries" => QueryInv) => QueriesRunOnce
  BY QueriesFollow DEF QueriesRunOnce, QueryInv
<1> QED
  BY <1>1, QueryInvariant, PTL

(* Whatever the number of queries, no callback runs before its query, and  *)
(* none is lost while the dispatcher accepts tasks.                        *)
THEOREM CallbacksAreKept == MCSpec => []CallbacksFollow
<1>1. (part = "queries" => QueryInv) => CallbacksFollow
  BY DEF CallbacksFollow, QueryInv
<1> QED
  BY <1>1, QueryInvariant, PTL

-----------------------------------------------------------------------------
(* Saving: the invariant.  retryQueries tells whether a transaction was    *)
(* begun and not ended; while it was, each statement has run in it.        *)

Begun == ~retryQueries
RefusedToBegin == savePc = "failed" /\ txn = "start" /\ retryQueries

Phases ==
    /\ savePc = "begin" => next = 1 /\ txn = "none"
    /\ savePc = "statements" => Begun /\ S!InTransaction
    /\ Begun => txn = "start" /\ savePc \in {"statements", "failed"}
    /\ S!InTransaction => Begun

(* The lock is held once while a transaction is begun.  The counts below   *)
(* are those of a lock released too often, once for each BEGIN refused.    *)
LockCount ==
    /\ Begun => lockDepth <= 1 /\ lockDepth >= 1 - failures
    /\ Begun /\ ~miscounted => lockDepth = 1
    /\ ~Begun => lockDepth <= 0 /\ lockDepth >= -failures
    /\ ~Begun /\ ~miscounted => lockDepth = 0
    /\ RefusedToBegin => lockDepth >= 1 - failures

(* What the statements run so far have made of each part.                  *)
Written ==
    savePc = "statements" =>
        /\ next > 1 => working["row"] = memory
        /\ next > 3 => working["items"] = memory
        /\ next > 5 => working["storage"] = memory

(* What is stored is a version that was in memory, and not older than what *)
(* was reported.                                                           *)
StoredVersion ==
    /\ saved["row"] \in S!Version
    /\ \A p \in S!Part : saved[p] = saved["row"]
    /\ saved["row"] <= memory
    /\ reported <= saved["row"]

SaveInv == S!TypeOK /\ Phases /\ LockCount /\ Written /\ StoredVersion

(* A save has five statements.                                             *)
LEMMA LengthOfSave == Len(S!Statements) = 5
BY DEF S!Statements

(* Nothing is being saved at first.                                        *)
LEMMA SaveInit == S!Init => SaveInv
<1> SUFFICES ASSUME S!Init PROVE SaveInv
  OBVIOUS
<1>1. /\ 0 \in S!Version /\ 0 \in Nat /\ 0 \in 0 .. MaxFailures
      /\ 0 \in -MaxFailures .. 1
  BY MCDatabaseAssumption DEF S!Version
<1>2. saved \in S!Content
  BY <1>1 DEF S!Init, S!Content
<1>3. S!TypeOK
  <2>1. next \in 1 .. Len(S!Statements) + 1 /\ tries \in 0 .. S!Tries
    BY LengthOfSave DEF S!Init, S!Tries
  <2> QED
    BY <1>1, <1>2, <2>1 DEF S!Init, S!TypeOK
<1>4. Phases /\ LockCount /\ Written
  BY MCDatabaseAssumption
     DEF S!Init, Phases, LockCount, Written, S!InTransaction, Begun, RefusedToBegin
<1>5. StoredVersion
  BY <1>1 DEF S!Init, StoredVersion, S!Part
<1> QED
  BY <1>3, <1>4, <1>5 DEF SaveInv

(* An open transaction is told from none by what it holds.                 *)
LEMMA ContentIsSome == \A c \in S!Content : c # S!NoTransaction
BY DEF S!Content, S!NoTransaction, S!Part

(* savePlayer inside of its transaction: a statement runs in it.           *)
LEMMA StatementKeeps == SaveInv /\ S!Statement => SaveInv'
<1> SUFFICES ASSUME SaveInv, S!Statement PROVE SaveInv'
  OBVIOUS
<1>1. /\ savePc = "statements" /\ Begun /\ S!InTransaction
      /\ working \in S!Content /\ next \in 1 .. 5
  BY LengthOfSave DEF SaveInv, Phases, S!Statement, S!TypeOK, S!InTransaction
<1>2. /\ working' = S!Effect(working) /\ saved' = saved /\ failures' = failures
      /\ connected' = TRUE /\ next' = next + 1
      /\ UNCHANGED <<memory, retryQueries, lockDepth, miscounted, txn, savePc, tries,
                     reported>>
  BY <1>1 DEF S!Statement, S!Executes, S!Runs, S!LostAndRetried, Begun
<1>3. memory \in S!Version /\ memory \in S!Version \cup {S!Gone}
  BY DEF SaveInv, S!TypeOK
<1>4. /\ working' \in S!Content
      /\ next = 1 => working'["row"] = memory
      /\ next # 1 => working'["row"] = working["row"]
      /\ next = 3 => working'["items"] = memory
      /\ next \notin {2, 3} => working'["items"] = working["items"]
      /\ next = 5 => working'["storage"] = memory
  BY <1>1, <1>2, <1>3 DEF S!Effect, S!Statements, S!Content, S!Part
<1>5. S!TypeOK'
  BY <1>1, <1>2, <1>4, LengthOfSave DEF SaveInv, S!TypeOK
<1>6. S!InTransaction'
  BY <1>4, ContentIsSome DEF S!InTransaction
<1>7. Phases' /\ LockCount' /\ StoredVersion'
  BY <1>1, <1>2, <1>6
     DEF SaveInv, Phases, LockCount, StoredVersion, Begun, RefusedToBegin
<1>8. Written'
  BY <1>1, <1>2, <1>4 DEF SaveInv, Written
<1> QED
  BY <1>5, <1>7, <1>8 DEF SaveInv

(* COMMIT, which works, or fails with the transaction committed or not.    *)
LEMMA CommitKeeps == SaveInv /\ S!Commit => SaveInv'
<1> SUFFICES ASSUME SaveInv, S!Commit PROVE SaveInv'
  OBVIOUS
<1>1. /\ savePc = "statements" /\ Begun /\ S!InTransaction /\ next = 6
      /\ working \in S!Content /\ saved \in S!Content /\ memory \in S!Version
  BY LengthOfSave DEF SaveInv, Phases, S!Commit, S!TypeOK, S!InTransaction
<1>2. \A p \in S!Part : working[p] = memory
  BY <1>1 DEF SaveInv, Written, S!Part
<1>3. /\ working' = S!NoTransaction /\ txn' = "commit" /\ retryQueries' = TRUE
      /\ savePc' \in {"idle", "failed"} /\ UNCHANGED <<memory, next>>
      /\ saved' \in {saved, working} /\ connected' \in BOOLEAN
      /\ failures' = failures \/ (failures < MaxFailures /\ failures' = failures + 1)
      /\ (saved' = working /\ reported' = memory) \/ reported' = reported
      /\ tries' \in {tries, 0}
  <2>1. failures \in 0 .. MaxFailures /\ MaxFailures \in Nat /\ connected \in BOOLEAN
    BY MCDatabaseAssumption DEF SaveInv, S!TypeOK
  <2>2. CASE S!CommitWorks
    BY <2>1, <2>2 DEF S!Commit, S!CommitWorks
  <2>3. CASE S!CommitFails
    BY <2>1, <2>3 DEF S!Commit, S!CommitFails
  <2> QED
    BY <2>2, <2>3 DEF S!Commit
<1>4. StoredVersion'
  BY <1>1, <1>2, <1>3 DEF SaveInv, S!TypeOK, StoredVersion, S!Version, S!Part
<1>5. PICK f \in 0 .. MaxFailures, d \in -MaxFailures .. 1 :
         /\ failures' = f /\ lockDepth' = d /\ miscounted' \in BOOLEAN
         /\ d <= 0 /\ d >= -f /\ (~miscounted' => d = 0)
  <2>1. /\ lockDepth \in Int /\ miscounted \in BOOLEAN /\ failures \in 0 .. MaxFailures
        /\ lockDepth <= 1 /\ lockDepth >= 1 - failures
        /\ ~miscounted => lockDepth = 1
    BY <1>1 DEF SaveInv, LockCount, S!TypeOK
  <2>2. PICK f \in 0 .. MaxFailures : failures' = f /\ f >= failures
    BY <1>3, <2>1, MCDatabaseAssumption
  <2>3. CASE lockDepth' = lockDepth - 1 /\ miscounted' = miscounted /\ lockDepth > 0
    <3>1. /\ lockDepth - 1 \in -MaxFailures .. 1 /\ lockDepth - 1 <= 0
          /\ lockDepth - 1 >= -f
      BY <2>1, <2>2, <2>3, MCDatabaseAssumption
    <3> QED
      BY <2>1, <2>2, <2>3, <3>1
  <2>4. CASE lockDepth' = lockDepth /\ miscounted' = miscounted /\ ~(lockDepth > 0)
    <3>1. lockDepth \in -MaxFailures .. 1 /\ lockDepth <= 0 /\ lockDepth >= -f
      BY <2>1, <2>2, <2>4, MCDatabaseAssumption
    <3> QED
      BY <2>1, <2>2, <2>4, <3>1
  <2>5. CASE lockDepth' = lockDepth - 1 /\ miscounted' = TRUE /\ ~(lockDepth > 0)
    <3>1. /\ lockDepth - 1 \in -MaxFailures .. 1 /\ lockDepth - 1 <= 0
          /\ lockDepth - 1 >= -f
      BY <2>1, <2>2, <2>5, MCDatabaseAssumption
    <3> QED
      BY <2>1, <2>2, <2>5, <3>1
  <2> QED
    BY <2>3, <2>4, <2>5 DEF S!Commit, S!Unlock
<1>6. S!TypeOK'
  <2>1. reported' \in S!Version /\ saved' \in S!Content /\ tries' \in 0 .. S!Tries
    BY <1>1, <1>3 DEF SaveInv, S!TypeOK, S!Tries
  <2> QED
    BY <1>1, <1>3, <1>5, <2>1, LengthOfSave DEF SaveInv, S!TypeOK
<1>7. Phases' /\ Written'
  BY <1>3 DEF Phases, Written, Begun, S!InTransaction
<1>8. LockCount'
  <2>1. ~Begun' /\ ~RefusedToBegin'
    BY <1>3 DEF Begun, RefusedToBegin
  <2>2. lockDepth' <= 0 /\ lockDepth' >= -failures'
    BY <1>5
  <2>3. ~miscounted' => lockDepth' = 0
    BY <1>5
  <2> QED
    BY <2>1, <2>2, <2>3, Zenon DEF LockCount
<1> QED
  BY <1>4, <1>6, <1>7, <1>8 DEF SaveInv

(* What the destructor of the transaction and a new attempt leave.         *)
LEMMA SaveFailedKeeps == SaveInv /\ S!SaveFailed => SaveInv'
<1> SUFFICES ASSUME SaveInv, S!SaveFailed PROVE SaveInv'
  OBVIOUS
<1>1. /\ savePc = "failed" /\ retryQueries \in BOOLEAN /\ failures \in 0 .. MaxFailures
      /\ MaxFailures \in Nat
      /\ UNCHANGED <<memory, saved, connected, reported, failures>>
      /\ savePc' \in {"begin", "idle"}
      /\ savePc' = "begin" => next' = 1 /\ txn' = "none"
      /\ (tries' = tries + 1 /\ tries < 3 /\ next' = 1 /\ txn' = "none")
            \/ (tries' = 0 /\ next' = next /\ txn' = txn)
  BY MCDatabaseAssumption DEF S!SaveFailed, S!Attempt, S!Tries, SaveInv, S!TypeOK
<1>2. retryQueries' = TRUE /\ working' = S!NoTransaction
  <2>1. CASE S!Rollback
    BY <2>1 DEF S!Rollback
  <2>2. CASE txn # "start" /\ UNCHANGED <<working, retryQueries, lockDepth, miscounted>>
    <3>1. retryQueries = TRUE /\ ~S!InTransaction
      BY <1>1, <2>2 DEF SaveInv, Phases, Begun
    <3> QED
      BY <2>2, <3>1 DEF S!InTransaction
  <2> QED
    BY <2>1, <2>2 DEF S!SaveFailed
<1>3. PICK d \in -MaxFailures .. 1 :
         /\ lockDepth' = d /\ miscounted' \in BOOLEAN
         /\ d <= 0 /\ d >= -failures /\ (~miscounted' => d = 0)
  <2>1. /\ lockDepth \in Int /\ miscounted \in BOOLEAN
        /\ lockDepth <= 1 /\ lockDepth >= -failures
        /\ lockDepth <= 0 \/ (lockDepth = 1 /\ Begun)
        /\ txn = "start" => lockDepth >= 1 - failures
        /\ ~miscounted => lockDepth = 0 \/ (lockDepth = 1 /\ Begun)
        /\ Begun => txn = "start"
    BY <1>1 DEF SaveInv, LockCount, S!TypeOK, RefusedToBegin, Begun, Phases
  <2>2. CASE lockDepth' = lockDepth - 1 /\ miscounted' = miscounted /\ lockDepth > 0
    <3>1. lockDepth = 1 /\ txn = "start"
      BY <2>1, <2>2
    <3>2. lockDepth - 1 = 0 /\ 0 >= -failures /\ 0 \in -MaxFailures .. 1
      BY <1>1, <3>1
    <3> QED
      BY <2>1, <2>2, <3>2
  <2>3. CASE /\ lockDepth' = lockDepth /\ miscounted' = miscounted
             /\ ~(lockDepth > 0) \/ txn # "start"
    <3>1. lockDepth <= 0
      BY <2>1, <2>3
    <3>2. ~miscounted => lockDepth = 0
      BY <2>1, <3>1
    <3>3. lockDepth \in -MaxFailures .. 1
      BY <1>1, <2>1, <3>1
    <3> QED
      BY <2>1, <2>3, <3>1, <3>2, <3>3
  <2>4. CASE /\ lockDepth' = lockDepth - 1 /\ miscounted' = TRUE /\ ~(lockDepth > 0)
             /\ txn = "start"
    <3>1. /\ lockDepth - 1 \in -MaxFailures .. 1 /\ lockDepth - 1 <= 0
          /\ lockDepth - 1 >= -failures
      BY <1>1, <2>1, <2>4
    <3> QED
      BY <2>4, <3>1
  <2>5. CASE S!Rollback
    BY <2>2, <2>3, <2>4, <2>5 DEF S!Rollback, S!Unlock
  <2>6. CASE txn # "start" /\ UNCHANGED <<working, retryQueries, lockDepth, miscounted>>
    BY <2>3, <2>6
  <2> QED
    BY <2>5, <2>6 DEF S!SaveFailed
<1>4. S!TypeOK'
  <2>1. next' \in 1 .. Len(S!Statements) + 1 /\ tries' \in 0 .. S!Tries
    BY <1>1, LengthOfSave DEF SaveInv, S!TypeOK, S!Tries
  <2>2. txn' \in {"none", "start", "commit"}
    BY <1>1 DEF SaveInv, S!TypeOK
  <2> QED
    BY <1>1, <1>2, <1>3, <2>1, <2>2 DEF SaveInv, S!TypeOK
<1>5. Phases' /\ Written'
  BY <1>1, <1>2 DEF Phases, Written, Begun, S!InTransaction
<1>6. LockCount'
  <2>1. ~Begun' /\ ~RefusedToBegin'
    BY <1>1, <1>2 DEF Begun, RefusedToBegin
  <2>2. lockDepth' <= 0 /\ lockDepth' >= -failures'
    BY <1>1, <1>3
  <2>3. ~miscounted' => lockDepth' = 0
    BY <1>3
  <2> QED
    BY <2>1, <2>2, <2>3, Zenon DEF LockCount
<1>7. StoredVersion'
  BY <1>1 DEF SaveInv, StoredVersion
<1> QED
  BY <1>4, <1>5, <1>6, <1>7 DEF SaveInv

(* The steps in which nothing is committed.                                *)
LEMMA BeginKeeps == SaveInv /\ S!Begin => SaveInv'
<1> SUFFICES ASSUME SaveInv, S!Begin PROVE SaveInv'
  OBVIOUS
<1>1. /\ savePc = "begin" /\ next = 1 /\ txn = "none" /\ retryQueries = TRUE
      /\ lockDepth <= 0 /\ lockDepth >= -failures /\ (~miscounted => lockDepth = 0)
      /\ lockDepth \in -MaxFailures .. 1 /\ failures \in 0 .. MaxFailures
      /\ saved \in S!Content /\ MaxFailures \in Nat
  BY MCDatabaseAssumption
     DEF S!Begin, SaveInv, Phases, LockCount, Begun, RefusedToBegin, S!TypeOK
<1>2. /\ working' = saved /\ connected' = TRUE /\ lockDepth' = lockDepth + 1
      /\ retryQueries' = FALSE /\ txn' = "start" /\ savePc' = "statements"
      /\ UNCHANGED <<memory, saved, miscounted, next, tries, reported>>
      /\ failures' = failures \/ (failures < MaxFailures /\ failures' = failures + 1)
  BY DEF S!Begin
<1>3. failures' \in 0 .. MaxFailures /\ lockDepth' \in -MaxFailures .. 1
  BY <1>1, <1>2
<1>4. S!TypeOK'
  BY <1>1, <1>2, <1>3 DEF SaveInv, S!TypeOK
<1>5. S!InTransaction' /\ Begun' /\ ~RefusedToBegin'
  BY <1>1, <1>2, ContentIsSome DEF S!InTransaction, Begun, RefusedToBegin
<1>6. Phases' /\ Written' /\ StoredVersion'
  BY <1>1, <1>2, <1>5 DEF SaveInv, Phases, Written, StoredVersion
<1>7. LockCount'
  <2>1. lockDepth' <= 1 /\ lockDepth' >= 1 - failures'
    BY <1>1, <1>2
  <2>2. ~miscounted' => lockDepth' = 1
    BY <1>1, <1>2
  <2> QED
    BY <1>5, <2>1, <2>2, Zenon DEF LockCount
<1> QED
  BY <1>4, <1>6, <1>7 DEF SaveInv

(* START TRANSACTION is refused.                                           *)
LEMMA BeginRefusedKeeps == SaveInv /\ S!BeginRefused => SaveInv'
<1> SUFFICES ASSUME SaveInv, S!BeginRefused PROVE SaveInv'
  OBVIOUS
<1>1. /\ savePc = "begin" /\ next = 1 /\ retryQueries = TRUE
      /\ lockDepth <= 0 /\ lockDepth >= -failures /\ (~miscounted => lockDepth = 0)
      /\ lockDepth \in -MaxFailures .. 1 /\ failures \in 0 .. MaxFailures
      /\ MaxFailures \in Nat /\ ~S!InTransaction
  BY MCDatabaseAssumption
     DEF S!BeginRefused, SaveInv, Phases, LockCount, Begun, RefusedToBegin, S!TypeOK
<1>2. /\ retryQueries' = TRUE /\ txn' = "start" /\ savePc' = "failed"
      /\ UNCHANGED <<memory, saved, working, connected, lockDepth, miscounted, next, tries,
                     reported>>
      /\ failures < MaxFailures /\ failures' = failures + 1
  BY DEF S!BeginRefused, S!Refused
<1>3. S!TypeOK'
  BY <1>1, <1>2 DEF SaveInv, S!TypeOK
<1>4. Phases' /\ Written' /\ StoredVersion'
  BY <1>1, <1>2
     DEF SaveInv, Phases, Written, StoredVersion, Begun, S!InTransaction
<1>5. LockCount'
  <2>1. lockDepth' <= 0 /\ lockDepth' >= -failures' /\ lockDepth' >= 1 - failures'
    BY <1>1, <1>2
  <2>2. ~miscounted' => lockDepth' = 0
    BY <1>1, <1>2
  <2>3. ~Begun'
    BY <1>2 DEF Begun
  <2> QED
    BY <2>1, <2>2, <2>3, Zenon DEF LockCount
<1> QED
  BY <1>3, <1>4, <1>5 DEF SaveInv

(* A crash: the open transaction is gone, what is stored stays.            *)
LEMMA CrashKeeps == SaveInv /\ S!Crash => SaveInv'
<1> SUFFICES ASSUME SaveInv, S!Crash PROVE SaveInv'
  OBVIOUS
<1>1. /\ failures \in 0 .. MaxFailures /\ failures < MaxFailures
      /\ failures' = failures + 1 /\ MaxFailures \in Nat
      /\ saved["row"] \in S!Version /\ MaxVersion \in Nat
  BY MCDatabaseAssumption DEF S!Crash, SaveInv, S!TypeOK, StoredVersion
<1>2. /\ working' = S!NoTransaction /\ connected' = TRUE /\ retryQueries' = TRUE
      /\ lockDepth' = 0 /\ miscounted' = FALSE /\ txn' = "none" /\ savePc' = "idle"
      /\ next' = 1 /\ tries' = 0 /\ memory' = saved["row"]
      /\ UNCHANGED <<saved, reported>>
  BY DEF S!Crash
<1>3. S!TypeOK'
  <2>1. failures' \in 0 .. MaxFailures /\ lockDepth' \in -MaxFailures .. 1
        /\ next' \in 1 .. Len(S!Statements) + 1 /\ tries' \in 0 .. S!Tries
    BY <1>1, <1>2, LengthOfSave DEF S!Tries
  <2> QED
    BY <1>1, <1>2, <2>1 DEF SaveInv, S!TypeOK
<1>4. Phases' /\ Written'
  BY <1>2 DEF Phases, Written, Begun, S!InTransaction
<1>5. LockCount'
  <2>1. ~Begun' /\ ~RefusedToBegin' /\ lockDepth' <= 0 /\ lockDepth' >= -failures'
        /\ lockDepth' = 0
    BY <1>1, <1>2 DEF Begun, RefusedToBegin
  <2> QED
    BY <2>1, Zenon DEF LockCount
<1>6. StoredVersion'
  BY <1>1, <1>2 DEF SaveInv, StoredVersion, S!Version
<1> QED
  BY <1>3, <1>4, <1>5, <1>6 DEF SaveInv

(* The player plays on, or a save begins.                                  *)
LEMMA PlayAndSaveKeep == SaveInv /\ (S!Play \/ S!Save) => SaveInv'
<1> SUFFICES ASSUME SaveInv, S!Play \/ S!Save PROVE SaveInv'
  OBVIOUS
<1>1. /\ UNCHANGED <<saved, working, connected, retryQueries, lockDepth, miscounted,
                     reported, failures>>
      /\ savePc = "idle" /\ savePc' \in {"idle", "begin"} /\ ~Begun
      /\ ~S!InTransaction /\ memory \in 0 .. MaxVersion /\ MaxVersion \in Nat
  BY MCDatabaseAssumption
     DEF S!Play, S!Save, S!Attempt, SaveInv, S!TypeOK, Phases, S!Version
<1>2. \/ memory' = memory + 1 /\ memory < MaxVersion
         /\ UNCHANGED <<txn, savePc, next, tries>>
      \/ memory' = memory /\ savePc' = "begin" /\ next' = 1 /\ txn' = "none" /\ tries' = 1
  BY DEF S!Play, S!Save, S!Attempt
<1>3. S!TypeOK'
  <2>1. memory' \in S!Version
    BY <1>1, <1>2 DEF S!Version
  <2>2. next' \in 1 .. Len(S!Statements) + 1 /\ tries' \in 0 .. S!Tries
        /\ txn' \in {"none", "start", "commit"}
    BY <1>2, LengthOfSave DEF SaveInv, S!TypeOK, S!Tries
  <2> QED
    BY <1>1, <2>1, <2>2 DEF SaveInv, S!TypeOK
<1>4. Phases' /\ Written'
  BY <1>1, <1>2 DEF Phases, Written, Begun, S!InTransaction
<1>5. LockCount'
  BY <1>1 DEF SaveInv, LockCount, Begun, RefusedToBegin
<1>6. StoredVersion'
  BY <1>1, <1>2 DEF SaveInv, StoredVersion, S!Version
<1> QED
  BY <1>3, <1>4, <1>5, <1>6 DEF SaveInv

(* A query or a statement fails.                                           *)
LEMMA FailsKeep == SaveInv /\ (S!SelectFails \/ S!StatementFails) => SaveInv'
<1> SUFFICES ASSUME SaveInv, S!SelectFails \/ S!StatementFails PROVE SaveInv'
  OBVIOUS
<1>1. /\ failures \in 0 .. MaxFailures /\ MaxFailures \in Nat
      /\ failures' = failures \/ (failures < MaxFailures /\ failures' = failures + 1)
      /\ working' \in {working, S!NoTransaction} /\ connected' \in {connected, FALSE}
      /\ savePc' = "failed"
      /\ (savePc = "begin" /\ working' = working) \/ savePc = "statements"
      /\ UNCHANGED <<memory, saved, retryQueries, lockDepth, miscounted, txn, next, tries,
                     reported>>
  BY MCDatabaseAssumption
     DEF S!SelectFails, S!StatementFails, S!Fails, S!Lost, S!StillLost, S!Refused,
         S!dbVars, SaveInv, S!TypeOK
<1>2. S!TypeOK'
  <2>1. failures' \in 0 .. MaxFailures
    BY <1>1
  <2> QED
    BY <1>1, <2>1 DEF SaveInv, S!TypeOK
<1>3. Phases' /\ Written'
  BY <1>1 DEF SaveInv, Phases, Written, Begun, S!InTransaction
<1>4. LockCount'
  <2>1. ~RefusedToBegin' /\ Begun' = Begun
    BY <1>1 DEF SaveInv, Phases, RefusedToBegin, Begun
  <2>2. lockDepth \in Int
    BY DEF SaveInv, S!TypeOK
  <2>3. Begun' => /\ lockDepth' <= 1 /\ lockDepth' >= 1 - failures'
                  /\ ~miscounted' => lockDepth' = 1
    BY <1>1, <2>1, <2>2 DEF SaveInv, LockCount
  <2>4. ~Begun' => /\ lockDepth' <= 0 /\ lockDepth' >= -failures'
                   /\ ~miscounted' => lockDepth' = 0
    BY <1>1, <2>1, <2>2 DEF SaveInv, LockCount
  <2> QED
    BY <2>1, <2>3, <2>4, Zenon DEF LockCount
<1>5. StoredVersion'
  BY <1>1 DEF SaveInv, StoredVersion
<1> QED
  BY <1>2, <1>3, <1>4, <1>5 DEF SaveInv

(* Every step keeps the invariant of the saves.                            *)
LEMMA SaveNext == SaveInv /\ [S!Next]_S!vars => SaveInv'
<1> SUFFICES ASSUME SaveInv, [S!Next]_S!vars PROVE SaveInv'
  OBVIOUS
<1>1. CASE UNCHANGED S!vars
  BY <1>1 DEF S!vars, SaveInv, S!TypeOK, Phases, LockCount, Written, StoredVersion, Begun,
              RefusedToBegin, S!InTransaction
<1> QED
  BY <1>1, StatementKeeps, CommitKeeps, SaveFailedKeeps, BeginKeeps, BeginRefusedKeeps,
     CrashKeeps, PlayAndSaveKeep, FailsKeep DEF S!Next

(* The properties of the saves from their invariant.                       *)
LEMMA SavesFollow ==
  SaveInv => /\ S!TypeOK /\ S!WholeVersion /\ S!ReportedIsStored
             /\ S!RetryOnlyOutside /\ S!TransactionIsLocked
<1> SUFFICES ASSUME SaveInv
             PROVE  /\ S!TypeOK /\ S!WholeVersion /\ S!ReportedIsStored
                    /\ S!RetryOnlyOutside /\ S!TransactionIsLocked
  OBVIOUS
<1>1. S!TypeOK /\ S!WholeVersion /\ S!ReportedIsStored
  BY DEF SaveInv, StoredVersion, S!WholeVersion, S!ReportedIsStored
<1>2. S!RetryOnlyOutside
  BY DEF SaveInv, Phases, Begun, S!RetryOnlyOutside, S!TypeOK
<1>3. S!TransactionIsLocked
  BY DEF SaveInv, Phases, LockCount, Begun, S!TransactionIsLocked
<1> QED
  BY <1>1, <1>2, <1>3

(* For any number of versions and failures: what is stored is a whole      *)
(* version and not older than what was reported, and the statements of a   *)
(* transaction stay together.                                              *)
THEOREM SavesStayWhole == MCSpec => []SavesAreWhole
<1> DEFINE Inv == part = "saving" => SaveInv
<1>1. MCInit => Inv
  BY SaveInit DEF MCInit
<1>2. Inv /\ [MCNext]_<<part, vars, saving, sessions, storeVars>> => Inv'
  <2> SUFFICES ASSUME Inv, [MCNext]_<<part, vars, saving, sessions, storeVars>>,
                      part' = "saving"
               PROVE  SaveInv'
    OBVIOUS
  <2>1. part = "saving" /\ [S!Next]_S!vars
    BY DEF MCNext, saving, S!vars
  <2> QED
    BY <2>1, SaveNext
<1>3. Inv => SavesAreWhole
  BY SavesFollow DEF SavesAreWhole
<1> QED
  BY <1>1, <1>2, <1>3, PTL DEF MCSpec

-----------------------------------------------------------------------------
(* Sessions: the invariant.                                                *)

(* Who has not been logged in yet is nothing to anybody.                   *)
Unused(p) == status[p] = "none" /\ player[p] = NoOne /\ connecting[p] = NoOne

(* A client asks for a login once, and is answered once.                   *)
Logins ==
    /\ \A p \in Protocols : protocol[p] = "fresh" => Unused(p)
    /\ \A i \in 1 .. Len(sessionTasks) :
          sessionTasks[i].task = "login" =>
             /\ Unused(sessionTasks[i].of)
             /\ protocol[sessionTasks[i].of] # "fresh"
    /\ \A i, j \in 1 .. Len(sessionTasks) :
          /\ sessionTasks[i].task = "login" /\ sessionTasks[j].task = "login"
          /\ sessionTasks[i].of = sessionTasks[j].of
          => i = j
    /\ \A p \in Protocols : connecting[p] # NoOne => player[p] = NoOne

(* A session and its player know each other.                               *)
Mutual ==
    /\ \A p \in Protocols : player[p] # NoOne => client[player[p]] = p
    /\ \A o \in G!Players : client[o] # NoOne => player[client[o]] = o

OneOnline == \A o1, o2 \in G!Players :
    status[o1] = "online" /\ status[o2] = "online" => o1 = o2

(* The life of a player, and who holds him at each stage of it.            *)
One(b) == IF b THEN 1 ELSE 0

Life(o) ==
    /\ toRelease[o] \in {0, 1}
    /\ toRelease[o] = 1 => status[o] = "removed"
    /\ inCheck[o] => status[o] \in {"online", "removed"}
    /\ status[o] = "online" => inCheck[o]
    /\ refs[o] = One(client[o] # NoOne) + One(status[o] = "online") + One(inCheck[o])
                    + toRelease[o]
    /\ status[o] \in {"none", "deleted"} <=> refs[o] = 0

(* The types of what is counted and of what counts.                        *)
CountedTypes ==
    /\ protocol \in [Protocols -> G!ConnStatus]
    /\ sessionTasks \in Seq(G!Task)
    /\ connecting \in [Protocols -> G!Players \cup {NoOne}]
    /\ player \in [Protocols -> G!Players \cup {NoOne}]
    /\ client \in [G!Players -> Protocols \cup {NoOne}]
    /\ isConnecting \in [G!Players -> BOOLEAN]
    /\ status \in [G!Players -> G!Status]
    /\ refs \in [G!Players -> 0 .. 4]
    /\ inCheck \in [G!Players -> BOOLEAN]
    /\ toRelease \in [G!Players -> 0 .. 2]
    /\ released \subseteq Protocols

SessionInv ==
    /\ CountedTypes /\ Logins /\ Mutual /\ OneOnline
    /\ \A o \in G!Players : Life(o)

-----------------------------------------------------------------------------
(* Sessions: the invariant is inductive.                                   *)

(* The library of the instance is the library.                             *)
LEMMA SameCardinality == \A V : G!Cardinality(V) = Cardinality(V)
BY DEF G!Cardinality, Cardinality

(* The sequence of an empty set.                                           *)
LEMMA SetToSeqEmpty == G!SetToSeq({}) = <<>>
<1>1. Cardinality({}) = 0
  BY FS_EmptySet
<1>2. <<>> \in [1 .. Cardinality({}) -> {}] /\ G!IsInjective(<<>>)
  BY <1>1 DEF G!IsInjective
<1>3. G!SetToSeq({}) \in [1 .. Cardinality({}) -> {}]
  BY <1>2, SameCardinality DEF G!SetToSeq
<1>4. G!SetToSeq({}) \in Seq({}) /\ Len(G!SetToSeq({})) = 0
  BY <1>1, <1>3
<1> QED
  BY <1>4, EmptySeq

(* The sequence of a set of one.                                           *)
LEMMA SetToSeqOne ==
  ASSUME NEW r
  PROVE  G!SetToSeq({r}) = <<r>>
<1>1. Cardinality({r}) = 1
  BY FS_Singleton
<1>2. <<r>> \in [1 .. Cardinality({r}) -> {r}] /\ G!IsInjective(<<r>>)
  BY <1>1 DEF G!IsInjective
<1>3. G!SetToSeq({r}) \in [1 .. Cardinality({r}) -> {r}]
  BY <1>2, SameCardinality DEF G!SetToSeq
<1>4. /\ G!SetToSeq({r}) \in Seq({r}) /\ Len(G!SetToSeq({r})) = 1
      /\ G!SetToSeq({r})[1] = r
  <2> DEFINE s == G!SetToSeq({r})
  <2>1. s \in [1 .. 1 -> {r}]
    BY <1>1, <1>3
  <2> HIDE DEF s
  <2>2. s \in Seq({r})
    BY <2>1, SeqDef
  <2>3. Len(s) = 1 /\ s[1] = r
    BY <2>1, <2>2
  <2> QED
    BY <2>2, <2>3 DEF s
<1>5. <<r>> \in Seq({r}) /\ Len(<<r>>) = 1 /\ <<r>>[1] = r
  OBVIOUS
<1> QED
  BY <1>4, <1>5, SeqEqual

(* Closing one connection queues its release, if it was open.              *)
LEMMA ClosingStep ==
  ASSUME CountedTypes, NEW q \in Seq(G!Task), NEW x \in Protocols \cup {NoOne},
         G!Closing(q, {x})
  PROVE  /\ protocol' \in [Protocols -> G!ConnStatus]
         /\ \A p \in Protocols : protocol'[p] = "fresh" <=> protocol[p] = "fresh"
         /\ \/ sessionTasks' = q
            \/ \E p \in Protocols : sessionTasks' = Append(q, G!Release(p))
<1> DEFINE open == {p \in {x} \ {NoOne} : protocol[p] = "open"}
<1>1. /\ protocol' = [p \in Protocols |-> IF p \in open THEN "closed" ELSE protocol[p]]
      /\ sessionTasks' = q \o G!SetToSeq({G!Release(p) : p \in open})
  BY DEF G!Closing
<1>2. /\ protocol' \in [Protocols -> G!ConnStatus]
      /\ \A p \in Protocols : protocol'[p] = "fresh" <=> protocol[p] = "fresh"
  BY <1>1 DEF CountedTypes, G!ConnStatus
<1>3. CASE open = {}
  <2>1. {G!Release(p) : p \in open} = {}
    BY <1>3
  <2>2. sessionTasks' = q \o <<>>
    BY <1>1, <2>1, SetToSeqEmpty
  <2>3. sessionTasks' = q
    BY <2>2, ConcatEmptySeq
  <2> QED
    BY <1>2, <2>3
<1>4. CASE open # {}
  <2>1. open = {x} /\ x \in Protocols
    BY <1>4
  <2>2. {G!Release(p) : p \in open} = {G!Release(x)}
    BY <2>1
  <2>3. sessionTasks' = q \o <<G!Release(x)>>
    BY <1>1, <2>2, SetToSeqOne
  <2>4. G!Release(x) \in G!Task
    BY <2>1 DEF G!Task
  <2>5. sessionTasks' = Append(q, G!Release(x))
    BY <2>3, <2>4, AppendIsConcat
  <2> QED
    BY <1>2, <2>1, <2>5
<1> QED
  BY <1>3, <1>4

(* No session is open at first.                                            *)
LEMMA SessionInit == G!Init => SessionInv
<1> SUFFICES ASSUME G!Init PROVE SessionInv
  OBVIOUS
<1>1. CountedTypes
  BY DEF G!Init, CountedTypes, G!ConnStatus, G!Status, G!Players
<1>2. Logins /\ Mutual /\ OneOnline
  BY DEF G!Init, Logins, Unused, Mutual, OneOnline, G!Players
<1>3. \A o \in G!Players : Life(o)
  BY DEF G!Init, Life, One
<1> QED
  BY <1>1, <1>2, <1>3 DEF SessionInv

(* What remains of the logins in the queue after a step that takes the     *)
(* first of d tasks from it, that of x if it is a login, and may queue a   *)
(* release.                                                                *)
LEMMA LoginsStep ==
  ASSUME SessionInv, NEW q \in Seq(G!Task), NEW d \in {0, 1}, NEW x \in Protocols \cup {NoOne},
         d = 0 => q = sessionTasks /\ x = NoOne,
         d = 1 => /\ sessionTasks # <<>> /\ q = Tail(sessionTasks)
                  /\ x # NoOne => Head(sessionTasks) = G!Login(x),
         sessionTasks' = q \/ \E p \in Protocols : sessionTasks' = Append(q, G!Release(p)),
         \A p \in Protocols : protocol'[p] = "fresh" <=> protocol[p] = "fresh",
         \A p \in Protocols : p # x /\ Unused(p) => Unused(p)',
         \A p \in Protocols : connecting'[p] # NoOne => player'[p] = NoOne
  PROVE  Logins' /\ sessionTasks' \in Seq(G!Task)
<1>1. sessionTasks \in Seq(G!Task) /\ Len(sessionTasks) \in Nat /\ Len(q) \in Nat
  BY DEF SessionInv, CountedTypes
<1>2. \A i \in 1 .. Len(sessionTasks) : sessionTasks[i] \in G!Task
  BY <1>1, ElementOfSeq
<1>3. \A e \in G!Task : e.of \in Protocols
  BY DEF G!Task, G!Login, G!Release
<1>4. \A i \in 1 .. Len(q) : i + d \in 1 .. Len(sessionTasks) /\ q[i] = sessionTasks[i + d]
  <2>1. CASE d = 0
    BY <1>1, <2>1
  <2>2. CASE d = 1
    <3>1. /\ Len(q) = Len(sessionTasks) - 1
          /\ \A i \in 1 .. Len(q) : q[i] = sessionTasks[i + 1]
      BY <1>1, <2>2, IdsTail
    <3> QED
      BY <1>1, <2>2, <3>1
  <2> QED
    BY <2>1, <2>2
<1> DEFINE Shifted ==
      /\ sessionTasks' \in Seq(G!Task)
      /\ \A i \in 1 .. Len(sessionTasks') : sessionTasks'[i].task = "login" =>
            /\ i \in 1 .. Len(q) /\ i + d \in 1 .. Len(sessionTasks)
            /\ sessionTasks'[i] = sessionTasks[i + d]
<1>5. Shifted
  <2>1. CASE sessionTasks' = q
    BY <1>4, <2>1
  <2>2. ASSUME NEW p \in Protocols, sessionTasks' = Append(q, G!Release(p)) PROVE Shifted
    <3>1. G!Release(p) \in G!Task /\ G!Release(p).task # "login"
      BY DEF G!Task, G!Release
    <3>2. /\ sessionTasks' \in Seq(G!Task) /\ Len(sessionTasks') = Len(q) + 1
          /\ sessionTasks'[Len(q) + 1] = G!Release(p)
          /\ \A i \in 1 .. Len(q) : sessionTasks'[i] = q[i]
      BY <2>2, <3>1, AppendProperties
    <3>3. \A i \in 1 .. Len(sessionTasks') : i = Len(q) + 1 \/ i \in 1 .. Len(q)
      BY <1>1, <3>2
    <3> QED
      BY <1>4, <3>1, <3>2, <3>3
  <2> QED
    BY <2>1, <2>2
<1>6. x # NoOne => /\ 1 \in 1 .. Len(sessionTasks) /\ sessionTasks[1].task = "login"
                   /\ sessionTasks[1].of = x /\ d = 1
  <2>1. ASSUME x # NoOne PROVE sessionTasks[1] = G!Login(x) /\ Len(sessionTasks) # 0
    BY <1>1, <2>1, IdsTail
  <2> QED
    BY <1>1, <2>1 DEF G!Login
<1>7. ASSUME NEW i \in 1 .. Len(sessionTasks'), sessionTasks'[i].task = "login",
             NEW p, p = sessionTasks'[i].of
      PROVE  p \in Protocols /\ Unused(p)' /\ protocol'[p] # "fresh"
  <2>1. /\ i + d \in 1 .. Len(sessionTasks) /\ sessionTasks'[i] = sessionTasks[i + d]
        /\ i \in Nat /\ i # 0 /\ p \in Protocols
    BY <1>2, <1>3, <1>5, <1>7
  <2>2. Unused(p) /\ protocol[p] # "fresh"
    BY <1>7, <2>1 DEF SessionInv, Logins
  <2>3. p # x
    <3>1. CASE x = NoOne
      BY <2>1, <3>1, MCDatabaseAssumption
    <3>2. CASE x # NoOne
      <4>1. i + d # 1
        BY <1>6, <2>1, <3>2
      <4> QED
        BY <1>6, <1>7, <2>1, <3>2, <4>1 DEF SessionInv, Logins
    <3> QED
      BY <3>1, <3>2
  <2> QED
    BY <2>1, <2>2, <2>3
<1>8. ASSUME NEW i \in 1 .. Len(sessionTasks'), NEW j \in 1 .. Len(sessionTasks'),
             sessionTasks'[i].task = "login", sessionTasks'[j].task = "login",
             sessionTasks'[i].of = sessionTasks'[j].of
      PROVE  i = j
  <2> DEFINE a == i + d
             b == j + d
  <2>1. /\ a \in 1 .. Len(sessionTasks) /\ b \in 1 .. Len(sessionTasks)
        /\ sessionTasks[a] = sessionTasks'[i] /\ sessionTasks[b] = sessionTasks'[j]
    BY <1>5, <1>8
  <2> HIDE DEF a, b
  <2>2. a = b
    BY <1>8, <2>1 DEF SessionInv, Logins
  <2> QED
    BY <2>2 DEF a, b
<1>9. ASSUME NEW p \in Protocols, protocol'[p] = "fresh" PROVE Unused(p)'
  <2>1. protocol[p] = "fresh" /\ Unused(p)
    BY <1>9 DEF SessionInv, Logins
  <2>2. p # x
    BY <1>6, <2>1, MCDatabaseAssumption DEF SessionInv, Logins
  <2> QED
    BY <2>1, <2>2
<1>10. \A i \in 1 .. Len(sessionTasks') : sessionTasks'[i].task = "login" =>
          /\ status'[sessionTasks'[i].of] = "none" /\ player'[sessionTasks'[i].of] = NoOne
          /\ connecting'[sessionTasks'[i].of] = NoOne
          /\ protocol'[sessionTasks'[i].of] # "fresh"
  BY <1>7 DEF Unused
<1> QED
  BY <1>5, <1>8, <1>9, <1>10 DEF Logins, Unused

(* The bounds on the counters follow from what they count.                 *)
SessionTypes ==
    /\ protocol \in [Protocols -> G!ConnStatus]
    /\ sessionTasks \in Seq(G!Task)
    /\ connecting \in [Protocols -> G!Players \cup {NoOne}]
    /\ player \in [Protocols -> G!Players \cup {NoOne}]
    /\ client \in [G!Players -> Protocols \cup {NoOne}]
    /\ isConnecting \in [G!Players -> BOOLEAN]
    /\ status \in [G!Players -> G!Status]
    /\ refs \in [G!Players -> Int]
    /\ inCheck \in [G!Players -> BOOLEAN]
    /\ toRelease \in [G!Players -> Int]
    /\ released \subseteq Protocols

(* The bounds of the counters follow from what is counted.                 *)
LEMMA BoundsFollow ==
  ASSUME SessionTypes', \A o \in G!Players : Life(o)'
  PROVE  CountedTypes'
<1>1. \A o \in G!Players : toRelease'[o] \in 0 .. 2 /\ refs'[o] \in 0 .. 4
  <2> SUFFICES ASSUME NEW o \in G!Players
               PROVE  toRelease'[o] \in 0 .. 2 /\ refs'[o] \in 0 .. 4
    OBVIOUS
  <2>1. toRelease'[o] = 0 \/ toRelease'[o] = 1
    BY DEF Life
  <2>2. refs'[o] = One(client'[o] # NoOne) + One(status'[o] = "online")
                      + One(inCheck'[o]) + toRelease'[o]
    BY DEF Life
  <2>3. \A b : One(b) = 0 \/ One(b) = 1
    BY DEF One
  <2> QED
    BY <2>1, <2>2, <2>3
<1> QED
  BY <1>1 DEF SessionTypes, CountedTypes

(* The types without those bounds.                                         *)
LEMMA TypesHold == SessionInv => SessionTypes
BY DEF SessionInv, CountedTypes, SessionTypes

(* A step that leaves the players alone.                                   *)
LEMMA PlayersAlone ==
  ASSUME SessionInv, UNCHANGED <<player, client, status, refs, inCheck, toRelease>>
  PROVE  Mutual' /\ OneOnline' /\ \A o \in G!Players : Life(o)'
BY DEF SessionInv, Mutual, OneOnline, Life, One

(* The network: a first packet, a connection that closes or is destroyed.  *)
LEMMA NetworkKeeps ==
  ASSUME SessionInv, NEW p \in Protocols,
         G!OnRecvFirstMessage(p) \/ G!ConnectionCloses(p) \/ G!ConnectionExpires(p)
  PROVE  SessionInv'
<1>1. /\ UNCHANGED <<connecting, player, client, isConnecting, status, refs, inCheck,
                     toRelease, released>>
      /\ CountedTypes /\ SessionTypes /\ sessionTasks \in Seq(G!Task)
  BY TypesHold DEF G!OnRecvFirstMessage, G!ConnectionCloses, G!ConnectionExpires, G!objectVars,
         SessionInv, CountedTypes
<1>2. Mutual' /\ OneOnline' /\ \A o \in G!Players : Life(o)'
  BY <1>1, PlayersAlone
<1>3. \A q \in Protocols : Unused(q) => Unused(q)'
  BY <1>1 DEF Unused
<1>4. \A q \in Protocols : connecting'[q] # NoOne => player'[q] = NoOne
  BY <1>1 DEF SessionInv, Logins
<1>5. CASE G!ConnectionCloses(p)
  <2>1. G!Closing(sessionTasks, {p})
    BY <1>5 DEF G!ConnectionCloses
  <2>2. Logins' /\ sessionTasks' \in Seq(G!Task) /\ protocol' \in [Protocols -> G!ConnStatus]
    BY <1>1, <1>3, <1>4, <2>1, ClosingStep, LoginsStep
  <2> QED
    BY <1>1, <1>2, <2>2, BoundsFollow DEF SessionInv, SessionTypes
<1>6. CASE G!ConnectionExpires(p)
  <2>1. /\ protocol[p] = "closed" /\ protocol' = [protocol EXCEPT ![p] = "expired"]
        /\ sessionTasks' = sessionTasks
    BY <1>6 DEF G!ConnectionExpires
  <2>2. /\ protocol' \in [Protocols -> G!ConnStatus]
        /\ \A q \in Protocols : protocol'[q] = "fresh" <=> protocol[q] = "fresh"
    BY <1>1, <2>1 DEF SessionTypes, G!ConnStatus
  <2>3. Logins'
    BY <1>1, <1>3, <1>4, <2>1, <2>2, LoginsStep
  <2> QED
    BY <1>1, <1>2, <2>1, <2>2, <2>3, BoundsFollow DEF SessionInv, SessionTypes
<1>7. CASE G!OnRecvFirstMessage(p)
  <2>1. /\ protocol[p] = "fresh" /\ protocol' = [protocol EXCEPT ![p] = "open"]
        /\ sessionTasks' = Append(sessionTasks, G!Login(p)) /\ Unused(p)
    BY <1>7 DEF G!OnRecvFirstMessage, SessionInv, Logins
  <2>2. /\ protocol' \in [Protocols -> G!ConnStatus] /\ protocol'[p] = "open"
        /\ \A q \in Protocols \ {p} : protocol'[q] = protocol[q]
    BY <1>1, <2>1 DEF SessionTypes, G!ConnStatus
  <2>3. G!Login(p) \in G!Task /\ G!Login(p).of = p /\ G!Login(p).task = "login"
    BY DEF G!Task, G!Login
  <2>4. /\ sessionTasks' \in Seq(G!Task) /\ Len(sessionTasks') = Len(sessionTasks) + 1
        /\ sessionTasks'[Len(sessionTasks) + 1] = G!Login(p) /\ Len(sessionTasks) \in Nat
        /\ \A i \in 1 .. Len(sessionTasks) : sessionTasks'[i] = sessionTasks[i]
    BY <1>1, <2>1, <2>3, AppendProperties
  <2>5. \A i \in 1 .. Len(sessionTasks') : i = Len(sessionTasks) + 1 \/ i \in 1 .. Len(sessionTasks)
    BY <2>4
  <2>6. \A i \in 1 .. Len(sessionTasks) : sessionTasks[i].of \in Protocols
    <3>1. \A e \in G!Task : e.of \in Protocols
      BY DEF G!Task, G!Login, G!Release
    <3> QED
      BY <1>1, <3>1, ElementOfSeq
  <2>7. \A i \in 1 .. Len(sessionTasks) : sessionTasks[i].task = "login" =>
           sessionTasks[i].of # p /\ protocol[sessionTasks[i].of] # "fresh"
    BY <2>1 DEF SessionInv, Logins
  <2>8. \A q \in Protocols : protocol'[q] = "fresh" => Unused(q)'
    BY <1>3, <2>2 DEF SessionInv, Logins
  <2>9. ASSUME NEW i \in 1 .. Len(sessionTasks'), sessionTasks'[i].task = "login"
        PROVE  /\ status'[sessionTasks'[i].of] = "none"
               /\ player'[sessionTasks'[i].of] = NoOne
               /\ connecting'[sessionTasks'[i].of] = NoOne
               /\ protocol'[sessionTasks'[i].of] # "fresh"
    <3>1. CASE i = Len(sessionTasks) + 1
      BY <1>1, <2>1, <2>2, <2>3, <2>4, <3>1 DEF Unused
    <3>2. CASE i \in 1 .. Len(sessionTasks)
      BY <1>1, <2>2, <2>4, <2>6, <2>7, <2>9, <3>2 DEF SessionInv, Logins, Unused
    <3> QED
      BY <2>5, <3>1, <3>2
  <2>10. ASSUME NEW i \in 1 .. Len(sessionTasks'), NEW j \in 1 .. Len(sessionTasks'),
                sessionTasks'[i].task = "login", sessionTasks'[j].task = "login",
                sessionTasks'[i].of = sessionTasks'[j].of
         PROVE  i = j
    <3>1. CASE i \in 1 .. Len(sessionTasks) /\ j \in 1 .. Len(sessionTasks)
      BY <2>4, <2>10, <3>1 DEF SessionInv, Logins
    <3>2. CASE ~(i \in 1 .. Len(sessionTasks) /\ j \in 1 .. Len(sessionTasks))
      BY <2>3, <2>4, <2>5, <2>7, <2>10, <3>2
    <3> QED
      BY <3>1, <3>2
  <2>11. Logins'
    BY <1>4, <2>8, <2>9, <2>10 DEF Logins, Unused
  <2> QED
    BY <1>1, <1>2, <2>2, <2>4, <2>11, BoundsFollow DEF SessionInv, SessionTypes
<1> QED
  BY <1>5, <1>6, <1>7

(* A session without a player takes a player without a session.            *)
LEMMA MutualStep ==
  ASSUME SessionInv, NEW p \in Protocols, NEW o \in G!Players,
         player[p] = NoOne, client[o] = NoOne, player'[p] = o, client'[o] = p,
         \A a \in Protocols \ {p} : player'[a] = player[a],
         \A a \in G!Players \ {o} : client'[a] = client[a]
  PROVE  Mutual'
<1>1. NoOne \notin Protocols /\ NoOne \notin G!Players /\ SessionTypes /\ Mutual
  BY TypesHold, MCDatabaseAssumption DEF G!Players, SessionInv
<1>2. ASSUME NEW a \in Protocols, player'[a] # NoOne PROVE client'[player'[a]] = a
  <2>1. CASE a = p
    BY <2>1
  <2>2. CASE a # p
    <3>1. player'[a] = player[a] /\ player[a] \in G!Players /\ client[player[a]] = a
      BY <1>1, <1>2, <2>2 DEF Mutual, SessionTypes
    <3>2. player[a] # o
      BY <1>1, <3>1
    <3> QED
      BY <3>1, <3>2
  <2> QED
    BY <2>1, <2>2
<1>3. ASSUME NEW b \in G!Players, client'[b] # NoOne PROVE player'[client'[b]] = b
  <2>1. CASE b = o
    BY <2>1
  <2>2. CASE b # o
    <3>1. client'[b] = client[b] /\ client[b] \in Protocols /\ player[client[b]] = b
      BY <1>1, <1>3, <2>2 DEF Mutual, SessionTypes
    <3>2. client[b] # p
      BY <1>1, <3>1
    <3> QED
      BY <3>1, <3>2
  <2> QED
    BY <2>1, <2>2
<1> QED
  BY <1>2, <1>3 DEF Mutual

(* A step of the game thread that runs the login of p, with what it may    *)
(* queue.                                                                  *)
LEMMA LoginPopped ==
  ASSUME SessionInv, NEW p \in Protocols,
         sessionTasks # <<>>, Head(sessionTasks) = G!Login(p),
         Tail(sessionTasks) \in Seq(G!Task),
         \/ sessionTasks' = Tail(sessionTasks)
         \/ \E a \in Protocols : sessionTasks' = Append(Tail(sessionTasks), G!Release(a)),
         \A a \in Protocols : protocol'[a] = "fresh" <=> protocol[a] = "fresh",
         \A a \in Protocols : a # p /\ Unused(a) => Unused(a)',
         \A a \in Protocols : connecting'[a] # NoOne => player'[a] = NoOne
  PROVE  Logins' /\ sessionTasks' \in Seq(G!Task)
<1>1. PICK d \in {0, 1} : d = 1
  OBVIOUS
<1>2. PICK q \in Seq(G!Task) : q = Tail(sessionTasks)
  OBVIOUS
<1>3. PICK x \in Protocols \cup {NoOne} : x = p
  OBVIOUS
<1>4. /\ d = 0 => q = sessionTasks /\ x = NoOne
      /\ d = 1 => /\ sessionTasks # <<>> /\ q = Tail(sessionTasks)
                  /\ x # NoOne => Head(sessionTasks) = G!Login(x)
      /\ sessionTasks' = q \/ \E a \in Protocols : sessionTasks' = Append(q, G!Release(a))
      /\ \A a \in Protocols : a # x /\ Unused(a) => Unused(a)'
  BY <1>1, <1>2, <1>3
<1> QED
  BY <1>4, LoginsStep

(* ProtocolGame::connect, run by the scheduler (d = 0) or at once by a      *)
(* login (d = 1), takes a player without a session or closes the protocol. *)
LEMMA ConnectKeeps ==
  ASSUME SessionInv, NEW p \in Protocols, NEW o \in G!Players,
         NEW q \in Seq(G!Task), NEW d \in {0, 1}, NEW x \in Protocols \cup {NoOne},
         d = 0 => q = sessionTasks /\ x = NoOne,
         d = 1 => /\ sessionTasks # <<>> /\ q = Tail(sessionTasks)
                  /\ x # NoOne => Head(sessionTasks) = G!Login(x),
         x = p \/ ~Unused(p), player[p] = NoOne,
         G!Connect(p, o, q), released' = released
  PROVE  SessionInv'
<1>1. /\ connecting' = [connecting EXCEPT ![p] = NoOne]
      /\ UNCHANGED <<status, inCheck, toRelease>>
      /\ CountedTypes /\ SessionTypes /\ o \in Protocols
  BY TypesHold DEF G!Connect, SessionInv, G!Players
<1>2. CASE o \notin G!Online \/ client[o] # NoOne
  <2>1. G!Closing(q, {p}) /\ UNCHANGED <<player, client, isConnecting, refs>>
    BY <1>2 DEF G!Connect
  <2>2. Mutual' /\ OneOnline' /\ \A a \in G!Players : Life(a)'
    BY <1>1, <2>1, PlayersAlone
  <2>3. \A a \in Protocols : connecting'[a] = NoOne \/ connecting'[a] = connecting[a]
    BY <1>1 DEF SessionTypes
  <2>4. \A a \in Protocols : a # x /\ Unused(a) => Unused(a)'
    BY <1>1, <2>1, <2>3 DEF Unused
  <2>5. \A a \in Protocols : connecting'[a] # NoOne => player'[a] = NoOne
    BY <2>1, <2>3 DEF SessionInv, Logins
  <2>6. Logins' /\ sessionTasks' \in Seq(G!Task) /\ protocol' \in [Protocols -> G!ConnStatus]
    BY <1>1, <2>1, <2>4, <2>5, ClosingStep, LoginsStep
  <2>7. connecting' \in [Protocols -> G!Players \cup {NoOne}]
    BY <1>1 DEF SessionTypes
  <2> QED
    BY <1>1, <2>1, <2>2, <2>6, <2>7, BoundsFollow DEF SessionInv, SessionTypes
<1>3. CASE o \in G!Online /\ client[o] = NoOne
  <2>1. sessionTasks' = q /\ protocol' = protocol /\ status[o] = "online"
    BY <1>3 DEF G!Connect, G!Online
  <2>2. \A a \in Protocols : connecting'[a] = NoOne \/ (connecting'[a] = connecting[a] /\ a # p)
    BY <1>1 DEF SessionTypes
  <2>3. CASE UNCHANGED <<player, client, isConnecting, refs>>
    <3>1. Mutual' /\ OneOnline' /\ \A a \in G!Players : Life(a)'
      BY <1>1, <2>3, PlayersAlone
    <3>2. \A a \in Protocols : a # x /\ Unused(a) => Unused(a)'
      BY <1>1, <2>2, <2>3 DEF Unused
    <3>3. \A a \in Protocols : connecting'[a] # NoOne => player'[a] = NoOne
      BY <2>2, <2>3 DEF SessionInv, Logins
    <3>4. Logins' /\ sessionTasks' \in Seq(G!Task)
      BY <1>1, <2>1, <3>2, <3>3, LoginsStep
    <3> QED
      BY <1>1, <2>1, <2>3, <3>1, <3>4, BoundsFollow DEF SessionInv, SessionTypes
  <2>4. CASE /\ player' = [player EXCEPT ![p] = o] /\ client' = [client EXCEPT ![o] = p]
             /\ refs' = [refs EXCEPT ![o] = @ + 1]
             /\ isConnecting' = [isConnecting EXCEPT ![o] = FALSE]
    <3>1. /\ player'[p] = o /\ client'[o] = p /\ refs'[o] = refs[o] + 1
          /\ \A a \in Protocols \ {p} : player'[a] = player[a]
          /\ \A a \in G!Players \ {o} : client'[a] = client[a] /\ refs'[a] = refs[a]
      BY <1>1, <2>4 DEF SessionTypes
    <3>2. Mutual'
      BY <1>1, <1>3, <3>1, MutualStep
    <3>3. OneOnline'
      BY <1>1 DEF SessionInv, OneOnline
    <3>4. ASSUME NEW a \in G!Players PROVE Life(a)'
      <4>1. CASE a = o
        <5>1. refs[o] \in Int /\ p # NoOne
          BY <1>1, MCDatabaseAssumption DEF SessionTypes
        <5> QED
          BY <1>1, <1>3, <2>1, <3>1, <4>1, <5>1 DEF SessionInv, Life, One
      <4>2. CASE a # o
        BY <1>1, <3>1, <4>2 DEF SessionInv, Life, One
      <4> QED
        BY <4>1, <4>2
    <3>5. \A a \in Protocols : a # x /\ Unused(a) => Unused(a)'
      BY <1>1, <2>2, <3>1 DEF Unused
    <3>6. \A a \in Protocols : connecting'[a] # NoOne => player'[a] = NoOne
      BY <2>2, <3>1 DEF SessionInv, Logins
    <3>7. Logins' /\ sessionTasks' \in Seq(G!Task)
      BY <1>1, <2>1, <3>5, <3>6, LoginsStep
    <3>8. SessionTypes'
      BY <1>1, <2>1, <2>4, <3>7 DEF SessionTypes
    <3> QED
      BY <3>2, <3>3, <3>4, <3>7, <3>8, BoundsFollow DEF SessionInv
  <2> QED
    BY <1>3, <2>3, <2>4 DEF G!Connect
<1> QED
  BY <1>2, <1>3

(* A login of a character who is not in the game.                          *)
LEMMA LoginNewKeeps ==
  ASSUME SessionInv, NEW p \in Protocols,
         sessionTasks # <<>>, Head(sessionTasks) = G!Login(p), Unused(p),
         G!LoginNew(p, Tail(sessionTasks)), released' = released
  PROVE  SessionInv'
<1>1. /\ player' = [player EXCEPT ![p] = p] /\ client' = [client EXCEPT ![p] = p]
      /\ UNCHANGED <<connecting, isConnecting, toRelease>>
      /\ CountedTypes /\ SessionTypes /\ p \in G!Players /\ p # NoOne
      /\ Tail(sessionTasks) \in Seq(G!Task)
  BY TypesHold, MCDatabaseAssumption, IdsTail
     DEF G!LoginNew, SessionInv, G!Players, SessionTypes
<1>2. /\ player'[p] = p /\ client'[p] = p
      /\ \A a \in Protocols \ {p} : player'[a] = player[a]
      /\ \A a \in G!Players \ {p} : client'[a] = client[a]
  BY <1>1 DEF SessionTypes
<1>3. refs[p] = 0 /\ client[p] = NoOne /\ ~inCheck[p] /\ toRelease[p] = 0
  <2>1. Life(p) /\ status[p] = "none" /\ toRelease[p] \in {0, 1}
    BY <1>1 DEF SessionInv, Unused, Life
  <2> QED
    BY <2>1 DEF Life, One
<1>4. Mutual'
  BY <1>1, <1>2, <1>3, MutualStep DEF Unused
<1>5. \A a \in Protocols : connecting'[a] # NoOne => player'[a] = NoOne
  BY <1>1, <1>2 DEF SessionInv, Logins, Unused
<1>6. CASE /\ status' = [status EXCEPT ![p] = "loading"] /\ refs' = [refs EXCEPT ![p] = 1]
           /\ G!Closing(Tail(sessionTasks), {p}) /\ inCheck' = inCheck
  <2>1. /\ status'[p] = "loading" /\ refs'[p] = 1
        /\ \A a \in G!Players \ {p} : status'[a] = status[a] /\ refs'[a] = refs[a]
    BY <1>1, <1>6 DEF SessionTypes
  <2>2. OneOnline'
    BY <2>1 DEF SessionInv, OneOnline
  <2>3. ASSUME NEW a \in G!Players PROVE Life(a)'
    <3>1. CASE a = p
      BY <1>1, <1>2, <1>3, <1>6, <2>1, <3>1 DEF Life, One
    <3>2. CASE a # p
      BY <1>1, <1>2, <1>6, <2>1, <3>2 DEF SessionInv, Life, One
    <3> QED
      BY <3>1, <3>2
  <2>4. \A a \in Protocols : a # p /\ Unused(a) => Unused(a)'
    BY <1>1, <1>2, <2>1 DEF Unused, G!Players
  <2>5. /\ protocol' \in [Protocols -> G!ConnStatus]
        /\ \A a \in Protocols : protocol'[a] = "fresh" <=> protocol[a] = "fresh"
        /\ \/ sessionTasks' = Tail(sessionTasks)
           \/ \E a \in Protocols : sessionTasks' = Append(Tail(sessionTasks), G!Release(a))
    BY <1>1, <1>6, ClosingStep
  <2>6. Logins' /\ sessionTasks' \in Seq(G!Task)
    BY <1>1, <1>5, <2>4, <2>5, LoginPopped
  <2>7. SessionTypes'
    <3>1. /\ status' \in [G!Players -> G!Status] /\ refs' \in [G!Players -> Int]
          /\ client' \in [G!Players -> Protocols \cup {NoOne}]
          /\ player' \in [Protocols -> G!Players \cup {NoOne}]
      BY <1>1, <1>6 DEF SessionTypes, G!Status
    <3> QED
      BY <1>1, <1>6, <2>5, <2>6, <3>1 DEF SessionTypes
  <2> QED
    BY <1>4, <2>2, <2>3, <2>6, <2>7, BoundsFollow DEF SessionInv
<1>7. CASE /\ G!Online = {} /\ status' = [status EXCEPT ![p] = "online"]
           /\ refs' = [refs EXCEPT ![p] = 3] /\ inCheck' = [inCheck EXCEPT ![p] = TRUE]
           /\ sessionTasks' = Tail(sessionTasks) /\ protocol' = protocol
  <2>1. /\ status'[p] = "online" /\ refs'[p] = 3 /\ inCheck'[p] = TRUE
        /\ \A a \in G!Players \ {p} : /\ status'[a] = status[a] /\ refs'[a] = refs[a]
                                      /\ inCheck'[a] = inCheck[a]
    BY <1>1, <1>7 DEF SessionTypes
  <2>2. OneOnline'
    BY <1>7, <2>1 DEF G!Online, OneOnline
  <2>3. ASSUME NEW a \in G!Players PROVE Life(a)'
    <3>1. CASE a = p
      BY <1>1, <1>2, <1>3, <2>1, <3>1 DEF Life, One
    <3>2. CASE a # p
      BY <1>1, <1>2, <2>1, <3>2 DEF SessionInv, Life, One
    <3> QED
      BY <3>1, <3>2
  <2>4. \A a \in Protocols : a # p /\ Unused(a) => Unused(a)'
    BY <1>1, <1>2, <2>1 DEF Unused, G!Players
  <2>5. Logins' /\ sessionTasks' \in Seq(G!Task)
    BY <1>1, <1>5, <1>7, <2>4, LoginPopped
  <2>6. SessionTypes'
    BY <1>1, <1>7, <2>5 DEF SessionTypes, G!Status
  <2> QED
    BY <1>4, <2>2, <2>3, <2>5, <2>6, BoundsFollow DEF SessionInv
<1> QED
  BY <1>6, <1>7 DEF G!LoginNew

(* The task of a login, whether the character is in the game or not.       *)
LEMMA RunLoginKeeps ==
  ASSUME SessionInv, G!RunLogin
  PROVE  SessionInv'
<1>1. /\ CountedTypes /\ SessionTypes /\ sessionTasks \in Seq(G!Task)
      /\ sessionTasks # <<>> /\ Head(sessionTasks).task = "login"
      /\ Tail(sessionTasks) \in Seq(G!Task) /\ released' = released
  BY TypesHold, IdsTail DEF G!RunLogin, SessionInv, SessionTypes
<1>2. PICK p \in Protocols : p = Head(sessionTasks).of
  <2>1. /\ Head(sessionTasks) \in G!Task
    BY <1>1, ElementOfSeq
  <2> QED
    BY <2>1 DEF G!Task, G!Login, G!Release
<1>3. Head(sessionTasks) = G!Login(p)
  <2>1. Head(sessionTasks) \in G!Task
    BY <1>1, ElementOfSeq
  <2> QED
    BY <1>1, <1>2, <2>1 DEF G!Task, G!Login, G!Release
<1>4. Unused(p)
  <2>1. 1 \in 1 .. Len(sessionTasks) /\ sessionTasks[1] = G!Login(p)
    BY <1>1, <1>3, IdsTail
  <2> QED
    BY <2>1 DEF SessionInv, Logins, G!Login
<1>5. CASE G!LoginNew(p, Tail(sessionTasks))
  BY <1>1, <1>3, <1>4, <1>5, LoginNewKeeps
<1>6. ASSUME NEW o \in G!Online, G!LoginFound(p, o, Tail(sessionTasks)) PROVE SessionInv'
  <2>1. o \in G!Players /\ status[o] = "online" /\ player[p] = NoOne /\ connecting[p] = NoOne
    BY <1>4 DEF G!Online, Unused
  <2>2. CASE client[o] = NoOne
    <3>1. G!Connect(p, o, Tail(sessionTasks))
      BY <1>6, <2>2 DEF G!LoginFound
    <3>2. PICK d \in {0, 1} : d = 1
      OBVIOUS
    <3>3. PICK q \in Seq(G!Task) : q = Tail(sessionTasks)
      BY <1>1
    <3>4. PICK x \in Protocols \cup {NoOne} : x = p
      OBVIOUS
    <3>5. /\ d = 0 => q = sessionTasks /\ x = NoOne
          /\ d = 1 => /\ sessionTasks # <<>> /\ q = Tail(sessionTasks)
                      /\ x # NoOne => Head(sessionTasks) = G!Login(x)
          /\ G!Connect(p, o, q) /\ (x = p \/ ~Unused(p))
      BY <1>1, <1>3, <3>1, <3>2, <3>3, <3>4
    <3> QED
      BY <1>1, <2>1, <3>5, ConnectKeeps
  <2>3. CASE client[o] # NoOne
    <3>1. /\ G!Closing(Tail(sessionTasks), {client[o]})
          /\ isConnecting' = [isConnecting EXCEPT ![o] = TRUE]
          /\ connecting' = [connecting EXCEPT ![p] = o]
          /\ UNCHANGED <<player, client, status, refs, inCheck, toRelease>>
      BY <1>6, <2>3 DEF G!LoginFound, G!objectVars
    <3>2. client[o] \in Protocols \cup {NoOne}
      BY <1>1, <2>1 DEF SessionTypes
    <3>3. Mutual' /\ OneOnline' /\ \A a \in G!Players : Life(a)'
      BY <3>1, PlayersAlone
    <3>4. \A a \in Protocols \ {p} : connecting'[a] = connecting[a]
      BY <1>1, <3>1 DEF SessionTypes
    <3>5. \A a \in Protocols : a # p /\ Unused(a) => Unused(a)'
      BY <3>1, <3>4 DEF Unused
    <3>6. \A a \in Protocols : connecting'[a] # NoOne => player'[a] = NoOne
      BY <2>1, <3>1, <3>4 DEF SessionInv, Logins
    <3>7. /\ protocol' \in [Protocols -> G!ConnStatus]
          /\ \A a \in Protocols : protocol'[a] = "fresh" <=> protocol[a] = "fresh"
          /\ \/ sessionTasks' = Tail(sessionTasks)
             \/ \E a \in Protocols : sessionTasks' = Append(Tail(sessionTasks), G!Release(a))
      BY <1>1, <3>1, <3>2, ClosingStep
    <3>8. Logins' /\ sessionTasks' \in Seq(G!Task)
      BY <1>1, <1>3, <3>5, <3>6, <3>7, LoginPopped
    <3>9. SessionTypes'
      BY <1>1, <2>1, <3>1, <3>7, <3>8 DEF SessionTypes
    <3> QED
      BY <3>3, <3>8, <3>9, BoundsFollow DEF SessionInv
  <2> QED
    BY <2>2, <2>3
<1> QED
  BY <1>2, <1>5, <1>6 DEF G!RunLogin

(* The scheduled connect of a session that took over.                      *)
LEMMA RunConnectKeeps ==
  ASSUME SessionInv, NEW p \in Protocols, G!RunConnect(p)
  PROVE  SessionInv'
<1>1. /\ CountedTypes /\ SessionTypes /\ sessionTasks \in Seq(G!Task)
      /\ connecting[p] # NoOne /\ player[p] = NoOne /\ released' = released
  BY TypesHold DEF G!RunConnect, SessionInv, SessionTypes, Logins
<1>2. PICK o \in G!Players : o = connecting[p]
  BY <1>1 DEF SessionTypes
<1>3. PICK d \in {0, 1} : d = 0
  OBVIOUS
<1>4. PICK x \in Protocols \cup {NoOne} : x = NoOne
  OBVIOUS
<1>5. PICK q \in Seq(G!Task) : q = sessionTasks
  BY <1>1
<1>6. /\ d = 0 => q = sessionTasks /\ x = NoOne
      /\ d = 1 => /\ sessionTasks # <<>> /\ q = Tail(sessionTasks)
                  /\ x # NoOne => Head(sessionTasks) = G!Login(x)
      /\ G!Connect(p, o, q) /\ ~Unused(p)
  BY <1>1, <1>2, <1>3, <1>4, <1>5 DEF G!RunConnect, Unused
<1> QED
  BY <1>1, <1>6, ConnectKeeps

(* A player removed from the game: the map no longer holds him, the list   *)
(* of creatures to release does.                                           *)
LEMMA RemoveKeeps ==
  ASSUME SessionInv, NEW o \in G!Players, status[o] = "online",
         G!RemoveCreature(o),
         UNCHANGED <<connecting, player, client, isConnecting, released>>,
         protocol' \in [Protocols -> G!ConnStatus],
         \A p \in Protocols : protocol'[p] = "fresh" <=> protocol[p] = "fresh",
         \/ sessionTasks' = sessionTasks
         \/ \E p \in Protocols : sessionTasks' = Append(sessionTasks, G!Release(p))
  PROVE  SessionInv'
<1>1. /\ SessionTypes /\ refs' = refs /\ inCheck' = inCheck /\ sessionTasks \in Seq(G!Task)
      /\ status' = [status EXCEPT ![o] = "removed"]
      /\ toRelease' = [toRelease EXCEPT ![o] = @ + 1]
  BY TypesHold DEF G!RemoveCreature, SessionTypes
<1>2. /\ status'[o] = "removed" /\ toRelease'[o] = toRelease[o] + 1
      /\ \A a \in G!Players \ {o} : status'[a] = status[a] /\ toRelease'[a] = toRelease[a]
  BY <1>1 DEF SessionTypes
<1>3. Mutual' /\ OneOnline'
  BY <1>2 DEF SessionInv, Mutual, OneOnline
<1>4. ASSUME NEW a \in G!Players PROVE Life(a)'
  <2>1. CASE a = o
    <3>1. Life(o) /\ toRelease[o] = 0
      BY DEF SessionInv, Life
    <3> QED
      BY <1>1, <1>2, <2>1, <3>1 DEF Life, One
  <2>2. CASE a # o
    BY <1>1, <1>2, <2>2 DEF SessionInv, Life, One
  <2> QED
    BY <2>1, <2>2
<1>5. \A p \in Protocols : Unused(p) => Unused(p)'
  BY <1>2 DEF Unused, G!Players
<1>6. \A p \in Protocols : connecting'[p] # NoOne => player'[p] = NoOne
  BY DEF SessionInv, Logins
<1>7. Logins' /\ sessionTasks' \in Seq(G!Task)
  BY <1>1, <1>5, <1>6, LoginsStep
<1>8. SessionTypes'
  BY <1>1, <1>7 DEF SessionTypes, G!Status
<1> QED
  BY <1>3, <1>4, <1>7, <1>8, BoundsFollow DEF SessionInv

(* A logout, a kick, a death.                                              *)
LEMMA LeavingKeeps ==
  ASSUME SessionInv, NEW o \in G!Players, G!Logout(o) \/ G!NoPong(o) \/ G!Death(o)
  PROVE  SessionInv'
<1>1. CountedTypes /\ SessionTypes /\ sessionTasks \in Seq(G!Task)
  BY TypesHold DEF SessionInv, SessionTypes
<1>2. CASE G!Logout(o)
  <2>1. /\ status[o] = "online" /\ G!RemoveCreature(o) /\ G!Closing(sessionTasks, {client[o]})
        /\ UNCHANGED <<connecting, player, client, isConnecting, released>>
    BY <1>2 DEF G!Logout, G!Online
  <2>2. client[o] \in Protocols \cup {NoOne}
    BY <1>1 DEF SessionTypes
  <2>3. /\ protocol' \in [Protocols -> G!ConnStatus]
        /\ \A p \in Protocols : protocol'[p] = "fresh" <=> protocol[p] = "fresh"
        /\ \/ sessionTasks' = sessionTasks
           \/ \E p \in Protocols : sessionTasks' = Append(sessionTasks, G!Release(p))
    BY <1>1, <2>1, <2>2, ClosingStep
  <2> QED
    BY <2>1, <2>3, RemoveKeeps
<1>3. CASE G!Death(o)
  <2>1. /\ status[o] = "online" /\ G!RemoveCreature(o)
        /\ UNCHANGED <<protocol, sessionTasks, connecting, player, client, isConnecting, released>>
    BY <1>3 DEF G!Death, G!Online
  <2>2. protocol' \in [Protocols -> G!ConnStatus]
    BY <1>1, <2>1 DEF SessionTypes
  <2> QED
    BY <2>1, <2>2, RemoveKeeps
<1> QED
  BY <1>2, <1>3 DEF G!NoPong

(* References given up: an object is deleted when its last one is.         *)
LEMMA ReapKeeps ==
  ASSUME SessionInv, NEW counts, G!Reap(counts), counts \in [G!Players -> Int],
         sessionTasks' = sessionTasks \/ (sessionTasks # <<>> /\ sessionTasks' = Tail(sessionTasks)),
         UNCHANGED <<protocol, connecting, isConnecting>>,
         released' \subseteq Protocols, Mutual',
         player' \in [Protocols -> G!Players \cup {NoOne}],
         client' \in [G!Players -> Protocols \cup {NoOne}],
         inCheck' \in [G!Players -> BOOLEAN], toRelease' \in [G!Players -> Int],
         \A p \in Protocols : player[p] = NoOne => player'[p] = NoOne,
         \A o \in G!Players :
            /\ toRelease'[o] \in {0, toRelease[o]}
            /\ inCheck'[o] => inCheck[o]
            /\ status[o] = "online" => inCheck'[o]
            /\ counts[o] = One(client'[o] # NoOne) + One(status[o] = "online")
                             + One(inCheck'[o]) + toRelease'[o]
            /\ counts[o] <= refs[o]
  PROVE  SessionInv'
<1>1. /\ SessionTypes /\ refs' = counts /\ sessionTasks \in Seq(G!Task)
      /\ status' = [o \in G!Players |->
                      IF counts[o] = 0 /\ refs[o] > 0 THEN "deleted" ELSE status[o]]
  BY TypesHold DEF G!Reap, SessionTypes
<1>2. \A o \in G!Players :
         status'[o] = IF counts[o] = 0 /\ refs[o] > 0 THEN "deleted" ELSE status[o]
  BY <1>1
<1>3. ASSUME NEW o \in G!Players PROVE Life(o)' /\ (status[o] = "none" => status'[o] = "none")
                                       /\ (status'[o] = "online" <=> status[o] = "online")
  <2>1. Life(o) /\ refs[o] \in Int /\ counts[o] \in Int /\ toRelease[o] \in {0, 1}
    BY <1>1 DEF SessionInv, SessionTypes, Life
  <2> DEFINE session == One(client'[o] # NoOne)
             map == One(status[o] = "online")
             listed == One(inCheck'[o])
  <2>2. /\ session \in {0, 1} /\ map \in {0, 1} /\ listed \in {0, 1}
        /\ status[o] = "online" => map = 1
        /\ inCheck'[o] => listed = 1
        /\ counts[o] = session + map + listed + toRelease'[o]
        /\ toRelease'[o] \in {0, 1} /\ counts[o] <= refs[o]
    BY <2>1 DEF One
  <2> HIDE DEF session, map, listed
  <2>3. /\ refs[o] = 0 => counts[o] = 0
        /\ status[o] = "online" => counts[o] > 0
        /\ toRelease'[o] = 1 => counts[o] > 0
        /\ inCheck'[o] => counts[o] > 0
        /\ toRelease'[o] \in {0, 1}
    BY <2>1, <2>2 DEF Life
  <2>4. CASE counts[o] = 0 /\ refs[o] > 0
    <3>1. status'[o] = "deleted" /\ status[o] # "online" /\ status[o] # "none"
      BY <1>2, <2>1, <2>3, <2>4 DEF Life
    <3>2. ~inCheck'[o] /\ toRelease'[o] = 0
      BY <2>3, <2>4
    <3>3. refs'[o] = One(client'[o] # NoOne) + One(status'[o] = "online") + One(inCheck'[o])
                       + toRelease'[o]
      BY <1>1, <3>1 DEF One
    <3> QED
      BY <1>1, <2>4, <3>1, <3>2, <3>3 DEF Life
  <2>5. CASE ~(counts[o] = 0 /\ refs[o] > 0)
    <3>1. status'[o] = status[o]
      BY <1>2, <2>5
    <3>2. counts[o] = 0 <=> refs[o] = 0
      <4>1. counts[o] >= 0
        BY <2>1, <2>2, <2>3
      <4> QED
        BY <2>1, <2>3, <2>5, <4>1
    <3>3. toRelease'[o] = 1 => status'[o] = "removed"
      BY <2>1, <3>1 DEF Life
    <3> QED
      BY <1>1, <2>1, <2>3, <3>1, <3>2, <3>3 DEF Life
  <2> QED
    BY <2>4, <2>5
<1>4. OneOnline'
  BY <1>3 DEF SessionInv, OneOnline
<1>5. \A p \in Protocols : Unused(p) => Unused(p)'
  BY <1>3 DEF Unused, G!Players
<1>6. \A p \in Protocols : connecting'[p] # NoOne => player'[p] = NoOne
  BY DEF SessionInv, Logins
<1>7. Logins' /\ sessionTasks' \in Seq(G!Task)
  <2>1. PICK d \in {0, 1} : d = IF sessionTasks' = sessionTasks THEN 0 ELSE 1
    OBVIOUS
  <2>2. Tail(sessionTasks) \in Seq(G!Task) \/ sessionTasks' = sessionTasks
    BY <1>1, IdsTail
  <2>3. PICK q \in Seq(G!Task) : q = sessionTasks'
    BY <1>1, <2>2
  <2>4. PICK x \in Protocols \cup {NoOne} : x = NoOne
    OBVIOUS
  <2>5. /\ d = 0 => q = sessionTasks /\ x = NoOne
        /\ d = 1 => /\ sessionTasks # <<>> /\ q = Tail(sessionTasks)
                    /\ x # NoOne => Head(sessionTasks) = G!Login(x)
    BY <2>1, <2>3, <2>4
  <2> QED
    BY <1>5, <1>6, <2>3, <2>5, LoginsStep
<1>8. SessionTypes'
  <2>1. status' \in [G!Players -> G!Status]
    BY <1>1 DEF SessionTypes, G!Status
  <2> QED
    BY <1>1, <1>7, <2>1 DEF SessionTypes
<1> QED
  BY <1>3, <1>4, <1>7, <1>8, BoundsFollow DEF SessionInv

(* The release of a protocol gives up its player, if it has one.           *)
LEMMA RunReleaseKeeps ==
  ASSUME SessionInv, G!RunRelease
  PROVE  SessionInv'
<1>1. /\ SessionTypes /\ sessionTasks \in Seq(G!Task) /\ sessionTasks # <<>>
      /\ sessionTasks' = Tail(sessionTasks)
      /\ UNCHANGED <<protocol, connecting, isConnecting, inCheck, toRelease>>
  BY TypesHold DEF G!RunRelease, SessionTypes
<1>2. PICK p \in Protocols : p = Head(sessionTasks).of
  <2>1. Head(sessionTasks) \in G!Task
    BY <1>1, ElementOfSeq
  <2> QED
    BY <2>1 DEF G!Task, G!Login, G!Release
<1>3. released' \subseteq Protocols
  BY <1>1, <1>2 DEF G!RunRelease, SessionTypes
<1>4. CASE player[p] = NoOne
  <2>1. UNCHANGED <<client, player, refs, status>>
    BY <1>2, <1>4 DEF G!RunRelease
  <2>2. Mutual' /\ OneOnline' /\ \A a \in G!Players : Life(a)'
    BY <1>1, <2>1, PlayersAlone
  <2>3. \A a \in Protocols : Unused(a) => Unused(a)'
    BY <1>1, <2>1 DEF Unused
  <2>4. \A a \in Protocols : connecting'[a] # NoOne => player'[a] = NoOne
    BY <1>1, <2>1 DEF SessionInv, Logins
  <2>5. Logins' /\ sessionTasks' \in Seq(G!Task)
    <3>1. PICK d \in {0, 1} : d = 1
      OBVIOUS
    <3>2. PICK q \in Seq(G!Task) : q = Tail(sessionTasks)
      BY <1>1, IdsTail
    <3>3. PICK x \in Protocols \cup {NoOne} : x = NoOne
      OBVIOUS
    <3>4. /\ d = 0 => q = sessionTasks /\ x = NoOne
          /\ d = 1 => /\ sessionTasks # <<>> /\ q = Tail(sessionTasks)
                      /\ x # NoOne => Head(sessionTasks) = G!Login(x)
      BY <1>1, <3>1, <3>2, <3>3
    <3> QED
      BY <1>1, <2>3, <2>4, <3>2, <3>4, LoginsStep
  <2> QED
    BY <1>1, <1>3, <2>1, <2>2, <2>5, BoundsFollow DEF SessionInv, SessionTypes
<1>5. ASSUME NEW o \in G!Players, o = player[p] PROVE SessionInv'
  <2>1. client[o] = p /\ o # NoOne /\ p # NoOne
    BY <1>5, MCDatabaseAssumption DEF SessionInv, Mutual, G!Players
  <2> DEFINE counts == [refs EXCEPT ![o] = @ - 1]
  <2>2. /\ client' = [client EXCEPT ![o] = NoOne] /\ player' = [player EXCEPT ![p] = NoOne]
        /\ G!Reap(counts)
    BY <1>2, <1>5, <2>1 DEF G!RunRelease
  <2>3. /\ client'[o] = NoOne /\ player'[p] = NoOne /\ counts[o] = refs[o] - 1
        /\ \A a \in Protocols \ {p} : player'[a] = player[a]
        /\ \A a \in G!Players \ {o} : client'[a] = client[a] /\ counts[a] = refs[a]
        /\ counts \in [G!Players -> Int]
        /\ player' \in [Protocols -> G!Players \cup {NoOne}]
        /\ client' \in [G!Players -> Protocols \cup {NoOne}]
    BY <1>1, <2>2 DEF SessionTypes
  <2> HIDE DEF counts
  <2>4. Mutual'
    <3>1. \A a \in Protocols : player'[a] # NoOne =>
             a # p /\ player[a] # o /\ player[a] \in G!Players
      BY <1>1, <2>1, <2>3 DEF SessionInv, Mutual, SessionTypes
    <3>2. \A b \in G!Players : client'[b] # NoOne =>
             b # o /\ client[b] # p /\ client[b] \in Protocols
      BY <1>1, <1>5, <2>3 DEF SessionInv, Mutual, SessionTypes
    <3> QED
      BY <2>3, <3>1, <3>2 DEF SessionInv, Mutual
  <2>5. ASSUME NEW a \in G!Players
        PROVE  /\ toRelease'[a] \in {0, toRelease[a]}
               /\ inCheck'[a] => inCheck[a]
               /\ status[a] = "online" => inCheck'[a]
               /\ counts[a] = One(client'[a] # NoOne) + One(status[a] = "online")
                                + One(inCheck'[a]) + toRelease'[a]
               /\ counts[a] <= refs[a]
    <3>1. Life(a) /\ refs[a] \in Int
      BY <1>1 DEF SessionInv, SessionTypes
    <3>2. CASE a = o
      BY <1>1, <2>1, <2>3, <3>1, <3>2 DEF Life, One
    <3>3. CASE a # o
      BY <1>1, <2>3, <3>1, <3>3 DEF Life
    <3> QED
      BY <3>2, <3>3
  <2>6. \A a \in Protocols : player[a] = NoOne => player'[a] = NoOne
    BY <2>3
  <2>7. inCheck' \in [G!Players -> BOOLEAN] /\ toRelease' \in [G!Players -> Int]
    BY <1>1 DEF SessionTypes
  <2> QED
    BY <1>1, <1>3, <2>2, <2>3, <2>4, <2>5, <2>6, <2>7, ReapKeeps
<1> QED
  BY <1>1, <1>4, <1>5 DEF SessionTypes

(* The check lists and cleanup give up the references collected.           *)
LEMMA CleanupKeeps ==
  ASSUME SessionInv, G!CheckCreatures \/ G!Cleanup
  PROVE  SessionInv'
<1> DEFINE gone == {o \in G!Players : inCheck[o] /\ status[o] = "removed" /\ ~inCheck'[o]}
           counts == [o \in G!Players |-> refs[o] - (toRelease[o] + One(o \in gone))]
<1>1. /\ SessionTypes /\ toRelease' = [o \in G!Players |-> 0]
      /\ UNCHANGED <<protocol, sessionTasks, connecting, player, client, isConnecting, released>>
  BY TypesHold DEF G!CheckCreatures, G!Cleanup
<1>2. /\ inCheck' \in [G!Players -> BOOLEAN] /\ G!Reap(counts)
      /\ \A o \in G!Players : inCheck'[o] <=> inCheck[o] /\ o \notin gone
  <2>1. CASE G!CheckCreatures
    <3> DEFINE removed == {o \in G!Players : inCheck[o] /\ status[o] = "removed"}
               due == [o \in G!Players |-> toRelease[o] + (IF o \in removed THEN 1 ELSE 0)]
    <3>1. /\ inCheck' = [o \in G!Players |-> inCheck[o] /\ o \notin removed]
          /\ G!Reap([o \in G!Players |-> refs[o] - due[o]])
      BY <2>1 DEF G!CheckCreatures
    <3>2. inCheck' \in [G!Players -> BOOLEAN]
      BY <3>1
    <3>3. gone = removed
      BY <3>1
    <3>4. [o \in G!Players |-> refs[o] - due[o]] = counts
      BY <3>3 DEF One
    <3> QED
      BY <3>1, <3>2, <3>3, <3>4
  <2>2. CASE G!Cleanup
    <3>1. /\ inCheck' = inCheck /\ gone = {}
          /\ G!Reap([o \in G!Players |-> refs[o] - toRelease[o]])
      BY <2>2 DEF G!Cleanup
    <3>2. ASSUME NEW o \in G!Players PROVE refs[o] - toRelease[o] = counts[o]
      BY <1>1, <3>1 DEF One, SessionTypes
    <3>3. [o \in G!Players |-> refs[o] - toRelease[o]] = counts
      BY <3>2
    <3> QED
      BY <1>1, <3>1, <3>3 DEF SessionTypes
  <2> QED
    BY <2>1, <2>2
<1>3. counts \in [G!Players -> Int]
  BY <1>1 DEF SessionTypes, One
<1>4. \A o \in G!Players : counts[o] = refs[o] - (toRelease[o] + One(o \in gone))
  OBVIOUS
<1>5. \A o \in G!Players : o \in gone => inCheck[o] /\ status[o] = "removed"
  OBVIOUS
<1> HIDE DEF gone, counts
<1>6. ASSUME NEW a \in G!Players
      PROVE  /\ toRelease'[a] \in {0, toRelease[a]}
             /\ inCheck'[a] => inCheck[a]
             /\ status[a] = "online" => inCheck'[a]
             /\ counts[a] = One(client'[a] # NoOne) + One(status[a] = "online")
                              + One(inCheck'[a]) + toRelease'[a]
             /\ counts[a] <= refs[a]
  <2>1. Life(a) /\ refs[a] \in Int /\ toRelease[a] \in {0, 1} /\ toRelease'[a] = 0
    BY <1>1 DEF SessionInv, SessionTypes, Life
  <2>2. One(a \in gone) \in {0, 1} /\ One(client[a] # NoOne) \in {0, 1}
        /\ One(status[a] = "online") \in {0, 1}
    BY DEF One
  <2>3. CASE a \in gone
    BY <1>1, <1>2, <1>4, <1>5, <2>1, <2>2, <2>3 DEF Life, One
  <2>4. CASE a \notin gone
    BY <1>1, <1>2, <1>4, <2>1, <2>2, <2>4 DEF Life, One
  <2> QED
    BY <2>3, <2>4
<1>7. Mutual'
  BY <1>1 DEF SessionInv, Mutual
<1>8. /\ player' \in [Protocols -> G!Players \cup {NoOne}]
      /\ client' \in [G!Players -> Protocols \cup {NoOne}]
      /\ toRelease' \in [G!Players -> Int] /\ released' \subseteq Protocols
  BY <1>1 DEF SessionTypes
<1>9. PICK reaped : reaped = counts
  OBVIOUS
<1> QED
  BY <1>1, <1>2, <1>3, <1>6, <1>7, <1>8, <1>9, ReapKeeps

(* Every step keeps the invariant of the sessions.                         *)
LEMMA SessionNext == SessionInv /\ [G!Next]_sessions => SessionInv'
<1> SUFFICES ASSUME SessionInv, [G!Next]_sessions PROVE SessionInv'
  OBVIOUS
<1>1. CASE UNCHANGED sessions
  BY <1>1 DEF sessions, SessionInv, CountedTypes, Logins, Unused, Mutual, OneOnline, Life
<1>2. CASE G!BarOrUnbar
  <2>1. UNCHANGED <<protocol, sessionTasks, connecting, player, client, isConnecting,
                    status, refs, inCheck, toRelease, released>>
    BY <1>2 DEF G!BarOrUnbar
  <2> QED
    BY <2>1 DEF SessionInv, CountedTypes, Logins, Unused, Mutual, OneOnline, Life
<1>3. CASE G!Next /\ ~G!BarOrUnbar
  BY <1>3, NetworkKeeps, RunConnectKeeps, LeavingKeeps, RunLoginKeeps, RunReleaseKeeps,
     CleanupKeeps DEF G!Next
<1> QED
  BY <1>1, <1>2, <1>3

(* Whether a logout is refused is a Boolean, whatever the step.            *)
LEMMA BarredTyped == barred \in BOOLEAN /\ [G!Next]_sessions => barred' \in BOOLEAN
<1> SUFFICES ASSUME barred \in BOOLEAN, [G!Next]_sessions PROVE barred' \in BOOLEAN
  OBVIOUS
<1>1. ASSUME NEW p \in Protocols, NEW o, NEW q, G!Connect(p, o, q)
      PROVE  barred' \in BOOLEAN
  BY <1>1 DEF G!Connect
<1>2. CASE G!RunLogin
  <2>1. PICK p : \/ G!LoginNew(p, Tail(sessionTasks))
                 \/ \E o \in G!Online : G!LoginFound(p, o, Tail(sessionTasks))
    BY <1>2 DEF G!RunLogin
  <2>2. CASE G!LoginNew(p, Tail(sessionTasks))
    BY <2>2 DEF G!LoginNew
  <2>3. ASSUME NEW o \in G!Online, G!LoginFound(p, o, Tail(sessionTasks))
        PROVE  barred' \in BOOLEAN
    BY <2>3 DEF G!LoginFound, G!Connect, G!objectVars
  <2> QED
    BY <2>1, <2>2, <2>3
<1>3. ASSUME NEW p \in Protocols,
             \/ G!OnRecvFirstMessage(p) \/ G!ConnectionCloses(p)
             \/ G!ConnectionExpires(p) \/ G!RunConnect(p)
      PROVE  barred' \in BOOLEAN
  BY <1>1, <1>3 DEF G!OnRecvFirstMessage, G!ConnectionCloses, G!ConnectionExpires,
                    G!RunConnect, G!objectVars
<1>4. ASSUME NEW o \in G!Players, G!Logout(o) \/ G!NoPong(o) \/ G!Death(o)
      PROVE  barred' \in BOOLEAN
  BY <1>4 DEF G!Logout, G!NoPong, G!Death, G!RemoveCreature
<1>5. CASE G!RunRelease \/ G!CheckCreatures \/ G!Cleanup
  BY <1>5 DEF G!RunRelease, G!CheckCreatures, G!Cleanup
<1>6. CASE G!BarOrUnbar
  BY <1>6 DEF G!BarOrUnbar
<1>7. CASE UNCHANGED sessions
  BY <1>7 DEF sessions
<1> QED
  BY <1>2, <1>3, <1>4, <1>5, <1>6, <1>7 DEF G!Next

(* The sessions that hold a player are the one he answers to, if any.      *)
LEMMA SessionsFollow == SessionInv => G!Counted /\ G!OneSession
<1> SUFFICES ASSUME SessionInv PROVE G!Counted /\ G!OneSession
  OBVIOUS
<1>1. ASSUME NEW o \in G!Players
      PROVE  G!Cardinality({p \in Protocols : player[p] = o}) = One(client[o] # NoOne)
  <2>1. o # NoOne /\ client[o] \in Protocols \cup {NoOne}
    BY MCDatabaseAssumption DEF G!Players, SessionInv, CountedTypes
  <2>2. CASE client[o] = NoOne
    <3>1. {p \in Protocols : player[p] = o} = {}
      BY <2>1, <2>2, MCDatabaseAssumption DEF SessionInv, Mutual
    <3> QED
      BY <2>2, <3>1, FS_EmptySet, SameCardinality DEF One
  <2>3. CASE client[o] # NoOne
    <3>1. {p \in Protocols : player[p] = o} = {client[o]}
      BY <2>1, <2>3, MCDatabaseAssumption DEF SessionInv, Mutual
    <3> QED
      BY <2>3, <3>1, FS_Singleton, SameCardinality DEF One
  <2> QED
    BY <2>2, <2>3
<1>2. G!Counted
  BY <1>1 DEF G!Counted, G!Held, SessionInv, Life, One
<1>3. G!Cardinality(G!Online) <= 1
  <2>1. CASE G!Online = {}
    BY <2>1, FS_EmptySet, SameCardinality
  <2>2. ASSUME NEW o \in G!Online PROVE G!Cardinality(G!Online) <= 1
    <3>1. G!Online = {o}
      BY <2>2 DEF SessionInv, OneOnline, G!Online
    <3> QED
      BY <3>1, FS_Singleton, SameCardinality
  <2> QED
    BY <2>1, <2>2
<1> QED
  BY <1>2, <1>3 DEF G!OneSession, SessionInv, Mutual

(* Whatever the number of sessions the clients open, one plays the         *)
(* character at a time, and the counter of each Player object is the       *)
(* number of its holders: none is deleted while held, leaked, or released  *)
(* twice.                                                                  *)
THEOREM SessionsAreKept == MCSpec => []SessionsKept
<1> DEFINE Inv == part = "sessions" => SessionInv /\ barred \in BOOLEAN
<1>1. MCInit => Inv
  BY SessionInit DEF MCInit, G!Init
<1>2. Inv /\ [MCNext]_<<part, vars, saving, sessions, storeVars>> => Inv'
  <2> SUFFICES ASSUME Inv, [MCNext]_<<part, vars, saving, sessions, storeVars>>,
                      part' = "sessions"
               PROVE  SessionInv' /\ barred' \in BOOLEAN
    OBVIOUS
  <2>1. part = "sessions" /\ [G!Next]_sessions
    BY DEF MCNext
  <2> QED
    BY <2>1, SessionNext, BarredTyped
<1>3. Inv => SessionsKept
  BY SessionsFollow DEF SessionsKept, SessionInv, CountedTypes, G!SessionTypeOK
<1> QED
  BY <1>1, <1>2, <1>3, PTL DEF MCSpec

=============================================================================
