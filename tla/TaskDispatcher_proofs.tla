------------------------ MODULE TaskDispatcher_proofs ------------------------
(***************************************************************************)
(* Proofs about TaskDispatcher, for any set of threads and any bound.      *)
(***************************************************************************)
EXTENDS TaskDispatcher, SequenceTheorems, TLAPS

(* What threadMain still has to do, the oldest task first.                 *)
pending == tmpTaskList \o taskList

(* Outside of the batch loop the private list is empty.                    *)
Quiet == pc \notin {"running", "stopping"} => tmpTaskList = <<>>

-----------------------------------------------------------------------------
(* Facts about sequences.                                                  *)

(* Appending to the second part of a concatenation appends to the whole.   *)
LEMMA AppendRight ==
  ASSUME NEW S, NEW s \in Seq(S), NEW t \in Seq(S), NEW e \in S
  PROVE  s \o Append(t, e) = Append(s \o t, e)
<1>1. <<e>> \in Seq(S)
  OBVIOUS
<1>2. s \o t \in Seq(S)
  OBVIOUS
<1>3. Append(t, e) = t \o <<e>> /\ Append(s \o t, e) = (s \o t) \o <<e>>
  BY <1>2, AppendIsConcat
<1> QED
  BY <1>1, <1>3, ConcatAssociative

(* Taking the head of the first part takes the head of the whole.          *)
LEMMA TailLeft ==
  ASSUME NEW S, NEW s \in Seq(S), NEW t \in Seq(S), s # <<>>
  PROVE  /\ s \o t # <<>>
         /\ Head(s \o t) = Head(s)
         /\ Tail(s \o t) = Tail(s) \o t
<1>1. Len(s) \in Nat \ {0} /\ Len(t) \in Nat
  BY EmptySeq
<1>2. /\ s \o t \in Seq(S)
      /\ Len(s \o t) = Len(s) + Len(t)
      /\ \A i \in 1 .. Len(s) + Len(t) :
            (s \o t)[i] = IF i <= Len(s) THEN s[i] ELSE t[i - Len(s)]
  BY ConcatProperties
<1>3. s \o t # <<>>
  BY <1>1, <1>2
<1>4. /\ Tail(s) \in Seq(S)
      /\ Len(Tail(s)) = Len(s) - 1
      /\ \A i \in 1 .. Len(Tail(s)) : Tail(s)[i] = s[i + 1]
  BY HeadTailProperties
<1>5. /\ Tail(s \o t) \in Seq(S)
      /\ Len(Tail(s \o t)) = Len(s \o t) - 1
      /\ \A i \in 1 .. Len(Tail(s \o t)) : Tail(s \o t)[i] = (s \o t)[i + 1]
  BY <1>2, <1>3, HeadTailProperties
<1>6. /\ Tail(s) \o t \in Seq(S)
      /\ Len(Tail(s) \o t) = Len(Tail(s)) + Len(t)
      /\ \A i \in 1 .. Len(Tail(s)) + Len(t) :
            (Tail(s) \o t)[i] = IF i <= Len(Tail(s)) THEN Tail(s)[i]
                                ELSE t[i - Len(Tail(s))]
  BY <1>4, ConcatProperties
<1>7. Len(Tail(s \o t)) = Len(Tail(s) \o t)
  BY <1>1, <1>2, <1>4, <1>5, <1>6
<1>8. ASSUME NEW i \in 1 .. Len(Tail(s \o t))
      PROVE  Tail(s \o t)[i] = (Tail(s) \o t)[i]
  <2>1. i + 1 \in 1 .. Len(s) + Len(t) /\ i \in 1 .. Len(Tail(s)) + Len(t)
    BY <1>1, <1>2, <1>4, <1>5
  <2>2. CASE i <= Len(Tail(s))
    BY <1>1, <1>2, <1>4, <1>5, <1>6, <2>1, <2>2
  <2>3. CASE ~(i <= Len(Tail(s)))
    <3>1. (Tail(s) \o t)[i] = t[i - (Len(s) - 1)]
      BY <1>4, <1>6, <2>1, <2>3
    <3>2. (s \o t)[i + 1] = t[(i + 1) - Len(s)]
      BY <1>1, <1>2, <1>4, <2>1, <2>3
    <3>3. i - (Len(s) - 1) = (i + 1) - Len(s)
      BY <1>1, <2>1
    <3> QED
      BY <1>5, <3>1, <3>2, <3>3
  <2> QED
    BY <2>2, <2>3
<1>9. Tail(s \o t) = Tail(s) \o t
  BY <1>5, <1>6, <1>7, <1>8, SeqEqual
<1>10. Head(s \o t) = Head(s)
  <2>1. Head(s \o t) = (s \o t)[1] /\ Head(s) = s[1]
    OBVIOUS
  <2> QED
    BY <1>1, <1>2, <2>1
<1> QED
  BY <1>3, <1>9, <1>10

-----------------------------------------------------------------------------
(* Type correctness.                                                       *)

(* A task of any kind that createTask makes without an expiry is a task.   *)
LEMMA PlainIsTask == \A kind \in Kind : Plain(kind) \in Task
BY DEF Plain, Task

(* What other threads, and the bodies of tasks, hand to addTask.           *)
LEMMA OutsideIsTask == FromOutside \subseteq Task /\ WorkTask \subseteq Task
<1>1. WorkTask \subseteq Task
  BY DEF WorkTask, Task, Kind
<1>2. Plain("signal") \in Task
  BY PlainIsTask DEF Kind
<1> QED
  BY <1>1, <1>2 DEF FromOutside

(* startServer leaves every variable of its type.                          *)
LEMMA TypeInit == Init => TypeOK
<1> SUFFICES ASSUME Init PROVE TypeOK
  OBVIOUS
<1>1. Plain("load") \in Task
  BY PlainIsTask DEF Kind
<1>2. <<Plain("load")>> \in Seq(Task) /\ <<>> \in Seq(Task)
  BY <1>1
<1> QED
  BY <1>2 DEF Init, TypeOK

(* What the helpers of the actions do to the two lists they write.         *)
LEMMA PushTyped ==
  ASSUME TypeOK, NEW task \in Task, Enqueue(task) \/ Push(task)
  PROVE  taskList' \in Seq(Task) /\ accepted' \in Seq(Task)
<1>1. CASE Push(task)
  BY <1>1, AppendProperties DEF TypeOK, Push
<1>2. CASE UNCHANGED <<taskList, accepted>>
  BY <1>2 DEF TypeOK
<1> QED
  BY <1>1, <1>2 DEF Enqueue

(* setGameState(GAME_STATE_SHUTDOWN) keeps the types of what it writes.    *)
LEMMA SetShutdownTyped ==
  ASSUME TypeOK, SetShutdown
  PROVE  /\ taskList' \in Seq(Task) /\ accepted' \in Seq(Task)
         /\ gameShutdown' \in BOOLEAN
         /\ pc' \in {"loop", "waiting", "woken", "running", "stopping", "ended"}
         /\ threadState' \in {"RUNNING", "CLOSING", "TERMINATED"}
<1>1. Plain("close") \in Task
  BY PlainIsTask DEF Kind
<1>2. CASE gameShutdown
  BY <1>2 DEF SetShutdown, TypeOK
<1>3. CASE ~gameShutdown
  BY <1>1, <1>3, PushTyped DEF SetShutdown, TypeOK
<1> QED
  BY <1>2, <1>3

(* Taking a task out of the batch keeps the types of what it writes.       *)
LEMMA BeginTyped ==
  ASSUME TypeOK, NEW kind, Begin(kind)
  PROVE  /\ tmpTaskList' \in Seq(Task) /\ done' \in Seq(Task)
         /\ signalling' \subseteq Threads
<1>1. tmpTaskList \in Seq(Task) /\ tmpTaskList # <<>>
  BY DEF Begin, TypeOK
<1>2. Head(tmpTaskList) \in Task /\ Tail(tmpTaskList) \in Seq(Task)
  BY <1>1, HeadTailProperties
<1> QED
  BY <1>2 DEF Begin, TypeOK

(* Every kind of task threadMain runs keeps the types.                     *)
LEMMA RunTaskTyped == TypeOK /\ RunTask => TypeOK'
<1> SUFFICES ASSUME TypeOK, RunTask PROVE TypeOK'
  OBVIOUS
<1>1. CASE RunLoad
  BY <1>1, BeginTyped DEF RunLoad, Take, TypeOK
<1>2. CASE ExpireTask
  BY <1>2, BeginTyped DEF ExpireTask, Take, TypeOK
<1>3. CASE RunWork
  <2>1. Begin("work") /\ loader' = loader /\ main' = main
    BY <1>3 DEF RunWork
  <2>2. /\ taskList' \in Seq(Task) /\ accepted' \in Seq(Task)
        /\ gameShutdown' \in BOOLEAN
        /\ pc' \in {"loop", "waiting", "woken", "running", "stopping", "ended"}
        /\ threadState' \in {"RUNNING", "CLOSING", "TERMINATED"}
    <3>1. CASE UNCHANGED <<threadState, pc, taskList, gameShutdown, accepted>>
      BY <3>1 DEF TypeOK
    <3>2. CASE /\ \E task \in WorkTask : Enqueue(task)
               /\ UNCHANGED <<threadState, pc, gameShutdown>>
      BY <3>2, OutsideIsTask, PushTyped DEF TypeOK
    <3>3. CASE SetShutdown
      BY <3>3, SetShutdownTyped
    <3> QED
      BY <1>3, <3>1, <3>2, <3>3 DEF RunWork
  <2> QED
    BY <2>1, <2>2, BeginTyped DEF TypeOK
<1>4. CASE RunSignal
  BY <1>4, BeginTyped, SetShutdownTyped DEF RunSignal, TypeOK
<1>5. CASE RunClose
  <2>1. Plain("terminate") \in Task
    BY PlainIsTask DEF Kind
  <2>2. taskList' \in Seq(Task) /\ accepted' \in Seq(Task)
    BY <1>5, <2>1, PushTyped DEF RunClose
  <2> QED
    BY <1>5, <2>2, BeginTyped DEF RunClose, Take, TypeOK
<1>6. CASE RunTerminate
  BY <1>6, BeginTyped DEF RunTerminate, Take, TypeOK
<1> QED
  BY <1>1, <1>2, <1>3, <1>4, <1>5, <1>6 DEF RunTask

(* Every step of every thread keeps the types.                             *)
LEMMA TypeNext == TypeOK /\ [Next]_vars => TypeOK'
<1> SUFFICES ASSUME TypeOK, [Next]_vars PROVE TypeOK'
  OBVIOUS
<1>1. ASSUME NEW t \in Threads, AddTask(t) PROVE TypeOK'
  BY <1>1, OutsideIsTask, PushTyped DEF AddTask, TypeOK
<1>2. ASSUME NEW t \in Threads, Notify(t) PROVE TypeOK'
  BY <1>2 DEF Notify, Woken, TypeOK
<1>3. CASE MainWait \/ MainSpuriousWakeup \/ Serve
  BY <1>3 DEF MainWait, MainSpuriousWakeup, Serve, TypeOK
<1>4. CASE OfflineShutdown
  <2>1. Plain("terminate") \in Task
    BY PlainIsTask DEF Kind
  <2>2. taskList' \in Seq(Task) /\ accepted' \in Seq(Task)
    BY <1>4, <2>1, PushTyped DEF OfflineShutdown
  <2> QED
    BY <1>4, <2>2 DEF OfflineShutdown, Woken, TypeOK
<1>5. CASE SpuriousWakeup \/ BatchDone \/ Stop
  BY <1>5 DEF SpuriousWakeup, BatchDone, Stop, TypeOK
<1>6. CASE Loop \/ SwapAfterWait
  <2>1. <<>> \in Seq(Task)
    OBVIOUS
  <2>2. taskList' \in Seq(Task) /\ tmpTaskList' \in Seq(Task)
    BY <1>6, <2>1 DEF Loop, SwapAfterWait, TypeOK
  <2>3. pc' \in {"loop", "waiting", "woken", "running", "stopping", "ended"}
    BY <1>6 DEF Loop, SwapAfterWait
  <2> QED
    BY <1>6, <2>2, <2>3 DEF Loop, SwapAfterWait, TypeOK
<1>7. CASE RunTask
  BY <1>7, RunTaskTyped
<1>8. CASE Ended \/ UNCHANGED vars
  BY <1>8 DEF Ended, vars, TypeOK
<1> QED
  BY <1>1, <1>2, <1>3, <1>4, <1>5, <1>6, <1>7, <1>8
     DEF Next, MainThread, ThreadMain

(* Every variable of the dispatcher keeps its type, whatever the number of *)
(* threads and tasks.                                                      *)
THEOREM TypeCorrect == Spec => []TypeOK
<1>1. Init => TypeOK
  BY TypeInit
<1>2. TypeOK /\ [Next]_vars => TypeOK'
  BY TypeNext
<1> QED
  BY <1>1, <1>2, PTL DEF Spec

-----------------------------------------------------------------------------
(* What a step does to the pending tasks.                                  *)

(* Outside of the batch loop there is no batch: Quiet is inductive.        *)
LEMMA QuietNext == Quiet /\ [Next]_vars => Quiet'
<1> SUFFICES ASSUME Quiet, [Next]_vars PROVE Quiet'
  OBVIOUS
<1>1. ASSUME NEW t \in Threads, AddTask(t) \/ Notify(t) PROVE Quiet'
  BY <1>1 DEF AddTask, Notify, Woken, Quiet
<1>2. CASE MainThread \/ MainSpuriousWakeup
  BY <1>2 DEF MainThread, MainWait, Serve, OfflineShutdown, MainSpuriousWakeup, Woken, Quiet
<1>3. CASE SpuriousWakeup \/ Loop \/ SwapAfterWait \/ BatchDone \/ Stop
  BY <1>3 DEF SpuriousWakeup, Loop, SwapAfterWait, BatchDone, Stop, Quiet
<1>4. CASE RunTask
  BY <1>4 DEF RunTask, RunLoad, ExpireTask, RunWork, RunSignal, RunClose,
              RunTerminate, Take, Begin, SetShutdown, Quiet
<1>5. CASE Ended \/ UNCHANGED vars
  BY <1>5 DEF Ended, vars, Quiet
<1> QED
  BY <1>1, <1>2, <1>3, <1>4, <1>5 DEF Next, ThreadMain

(* The four things a step can do to what is pending: nothing, a task of    *)
(* another thread comes last, the first task is taken, or the first task   *)
(* is taken and its body adds one.                                         *)
Still ==
    /\ pending' = pending
    /\ done' = done
    /\ accepted' = accepted

Pushed(task) ==
    /\ pending' = Append(pending, task)
    /\ done' = done
    /\ accepted' = Append(accepted, task)

Taken ==
    /\ pending # <<>>
    /\ pending' = Tail(pending)
    /\ done' = Append(done, Head(pending))
    /\ accepted' = accepted

TakenAndPushed(task) ==
    /\ pending # <<>>
    /\ pending' = Append(Tail(pending), task)
    /\ done' = Append(done, Head(pending))
    /\ accepted' = Append(accepted, task)

(* What addTask and Dispatcher::shutdown do to the pending tasks when they *)
(* are called outside of a task.                                           *)
LEMMA OtherThreadsStep ==
  ASSUME TypeOK, NEW task \in Task, tmpTaskList' = tmpTaskList, done' = done
  PROVE  /\ Push(task) => Pushed(task)
         /\ Enqueue(task) => Still \/ Pushed(task)
<1>1. tmpTaskList \in Seq(Task) /\ taskList \in Seq(Task)
  BY DEF TypeOK
<1>2. Push(task) => Pushed(task)
  BY <1>1, AppendRight DEF Push, Pushed, pending
<1>3. UNCHANGED <<taskList, accepted>> => Still
  BY DEF Still, pending
<1> QED
  BY <1>2, <1>3 DEF Enqueue

(* What a task of the batch does to the pending tasks, its body included.  *)
LEMMA BodyStep ==
  ASSUME TypeOK, NEW kind, Begin(kind)
  PROVE  /\ Head(pending) = Head(tmpTaskList)
         /\ pending # <<>>
         /\ Tail(pending) = Tail(tmpTaskList) \o taskList
         /\ UNCHANGED <<taskList, accepted>> => Taken
         /\ \A task \in Task : Push(task) => TakenAndPushed(task)
         /\ \A task \in Task : Enqueue(task) => Taken \/ TakenAndPushed(task)
<1>1. /\ tmpTaskList \in Seq(Task) /\ taskList \in Seq(Task)
      /\ tmpTaskList # <<>>
  BY DEF TypeOK, Begin
<1>2. /\ pending # <<>>
      /\ Head(pending) = Head(tmpTaskList)
      /\ Tail(pending) = Tail(tmpTaskList) \o taskList
  BY <1>1, TailLeft DEF pending
<1>3. tmpTaskList' = Tail(tmpTaskList) /\ done' = Append(done, Head(pending))
  BY <1>2 DEF Begin
<1>4. UNCHANGED <<taskList, accepted>> => Taken
  BY <1>2, <1>3 DEF Taken, pending
<1>5. ASSUME NEW task \in Task, Push(task) PROVE TakenAndPushed(task)
  <2>1. Tail(tmpTaskList) \in Seq(Task)
    BY <1>1, HeadTailProperties
  <2>2. Tail(tmpTaskList) \o Append(taskList, task)
           = Append(Tail(tmpTaskList) \o taskList, task)
    BY <1>1, <2>1, AppendRight
  <2> QED
    BY <1>2, <1>3, <1>5, <2>2 DEF Push, TakenAndPushed, pending
<1> QED
  BY <1>2, <1>4, <1>5 DEF Enqueue

(* The swap of the two lists moves the pending tasks and changes none.     *)
LEMMA SwapStep ==
  ASSUME TypeOK, Quiet, Loop \/ SwapAfterWait
  PROVE  Still
<1>1. tmpTaskList = <<>> /\ taskList \in Seq(Task)
  BY DEF TypeOK, Quiet, Loop, SwapAfterWait
<1>2. <<>> \o taskList = taskList /\ taskList \o <<>> = taskList
  BY <1>1, ConcatEmptySeq
<1>3. done' = done /\ accepted' = accepted
  BY DEF Loop, SwapAfterWait
<1>4. \/ UNCHANGED <<tmpTaskList, taskList>>
      \/ tmpTaskList' = taskList /\ taskList' = <<>>
  BY DEF Loop, SwapAfterWait
<1> QED
  BY <1>1, <1>2, <1>3, <1>4 DEF Still, pending

(* Every step is one of the four.                                          *)
LEMMA PendingStep ==
  ASSUME TypeOK, Quiet, [Next]_vars
  PROVE  \/ Still
         \/ \E task \in Task : Pushed(task)
         \/ Taken
         \/ \E task \in Task : TakenAndPushed(task)
<1> DEFINE Goal == \/ Still
                   \/ \E task \in Task : Pushed(task)
                   \/ Taken
                   \/ \E task \in Task : TakenAndPushed(task)
<1>1. ASSUME NEW t \in Threads, AddTask(t) PROVE Goal
  <2>1. PICK task \in FromOutside : Enqueue(task)
    BY <1>1 DEF AddTask
  <2>2. task \in Task /\ tmpTaskList' = tmpTaskList /\ done' = done
    BY <1>1, OutsideIsTask DEF AddTask
  <2> QED
    BY <2>1, <2>2, OtherThreadsStep
<1>2. ASSUME NEW t \in Threads, Notify(t) PROVE Goal
  BY <1>2 DEF Notify, Still, pending
<1>3. CASE \/ MainWait \/ MainSpuriousWakeup \/ Serve
            \/ SpuriousWakeup \/ BatchDone \/ Stop
  BY <1>3 DEF MainWait, MainSpuriousWakeup, Serve, SpuriousWakeup, BatchDone,
              Stop, Still, pending
<1>4. CASE OfflineShutdown
  <2>1. Plain("terminate") \in Task
    BY PlainIsTask DEF Kind
  <2>2. /\ Push(Plain("terminate"))
        /\ tmpTaskList' = tmpTaskList /\ done' = done
    BY <1>4 DEF OfflineShutdown
  <2> QED
    BY <2>1, <2>2, OtherThreadsStep
<1>5. CASE Loop \/ SwapAfterWait
  BY <1>5, SwapStep
<1>6. CASE RunLoad \/ ExpireTask \/ RunTerminate
  <2>1. PICK kind \in Kind : Begin(kind)
    BY <1>6 DEF RunLoad, ExpireTask, RunTerminate, Take, Kind
  <2>2. UNCHANGED <<taskList, accepted>>
    BY <1>6 DEF RunLoad, ExpireTask, RunTerminate
  <2> QED
    BY <2>1, <2>2, BodyStep
<1>7. CASE RunWork \/ RunSignal
  <2>1. PICK kind \in Kind : Begin(kind)
    BY <1>7 DEF RunWork, RunSignal, Kind
  <2>2. Plain("close") \in Task /\ WorkTask \subseteq Task
    BY PlainIsTask, OutsideIsTask DEF Kind
  <2>3. \/ UNCHANGED <<taskList, accepted>>
        \/ \E task \in Task : Enqueue(task)
    BY <1>7, <2>2 DEF RunWork, RunSignal, SetShutdown
  <2> QED
    BY <2>1, <2>3, BodyStep
<1>8. CASE RunClose
  <2>1. Plain("terminate") \in Task
    BY PlainIsTask DEF Kind
  <2>2. Begin("close") /\ Push(Plain("terminate"))
    BY <1>8 DEF RunClose, Take
  <2> QED
    BY <2>1, <2>2, BodyStep
<1>9. CASE Ended \/ UNCHANGED vars
  BY <1>9 DEF Ended, vars, Still, pending
<1> QED
  BY <1>1, <1>2, <1>3, <1>4, <1>5, <1>6, <1>7, <1>8, <1>9
     DEF Next, MainThread, ThreadMain, RunTask

-----------------------------------------------------------------------------
(* Conservation and the refinement of the abstract executor.               *)

(* The pending tasks are a sequence of tasks, and the two ways to bracket  *)
(* Conservation agree.                                                     *)
LEMMA PendingTyped ==
  ASSUME TypeOK
  PROVE  /\ pending \in Seq(Task)
         /\ Conservation <=> accepted = done \o pending
<1>1. done \in Seq(Task) /\ tmpTaskList \in Seq(Task) /\ taskList \in Seq(Task)
  BY DEF TypeOK
<1>2. (done \o tmpTaskList) \o taskList = done \o (tmpTaskList \o taskList)
  BY <1>1, ConcatAssociative
<1> QED
  BY <1>1, <1>2, ConcatProperties DEF pending, Conservation

(* Each of the four things a step can do conserves the tasks.              *)
LEMMA ConservationNext ==
  ASSUME TypeOK, TypeOK', Quiet, Conservation, [Next]_vars
  PROVE  Conservation'
<1>1. /\ pending \in Seq(Task) /\ done \in Seq(Task)
      /\ accepted = done \o pending
  BY PendingTyped DEF TypeOK
<1>2. Conservation' <=> accepted' = done' \o pending'
  <2>1. /\ done' \in Seq(Task) /\ tmpTaskList' \in Seq(Task)
        /\ taskList' \in Seq(Task)
    BY DEF TypeOK
  <2>2. (done' \o tmpTaskList') \o taskList' = done' \o (tmpTaskList' \o taskList')
    BY <2>1, ConcatAssociative
  <2> QED
    BY <2>2 DEF Conservation, pending
<1>3. ASSUME pending # <<>>
      PROVE  /\ Tail(pending) \in Seq(Task)
             /\ Append(done, Head(pending)) \in Seq(Task)
             /\ Append(done, Head(pending)) \o Tail(pending) = done \o pending
  <2>1. Head(pending) \in Task /\ Tail(pending) \in Seq(Task)
    BY <1>1, <1>3, HeadTailProperties
  <2>2. pending = <<Head(pending)>> \o Tail(pending)
    <3>1. Len(pending) \in Nat \ {0}
      BY <1>1, <1>3, EmptySeq
    <3>2. SubSeq(pending, 1, Len(pending)) = <<pending[1]>> \o SubSeq(pending, 1 + 1, Len(pending))
      BY <1>1, <3>1, SubSeqRecursiveFirst
    <3>3. /\ SubSeq(pending, 1, Len(pending)) = pending
          /\ SubSeq(pending, 2, Len(pending)) = Tail(pending)
          /\ Head(pending) = pending[1]
      BY <1>1, <1>3, SubSeqFull, TailIsSubSeq
    <3> QED
      BY <3>2, <3>3
  <2>3. Append(done, Head(pending)) = done \o <<Head(pending)>>
    BY <1>1, <2>1, AppendIsConcat
  <2>4. <<Head(pending)>> \in Seq(Task)
    BY <2>1
  <2>5. (done \o <<Head(pending)>>) \o Tail(pending)
           = done \o (<<Head(pending)>> \o Tail(pending))
    BY <1>1, <2>1, <2>4, ConcatAssociative
  <2>6. Append(done, Head(pending)) \in Seq(Task)
    BY <1>1, <2>1, AppendProperties
  <2> QED
    BY <2>1, <2>2, <2>3, <2>5, <2>6
<1>4. CASE Still
  BY <1>1, <1>2, <1>4 DEF Still
<1>5. ASSUME NEW task \in Task, Pushed(task) PROVE Conservation'
  <2>1. done \o Append(pending, task) = Append(done \o pending, task)
    BY <1>1, AppendRight
  <2> QED
    BY <1>1, <1>2, <1>5, <2>1 DEF Pushed
<1>6. CASE Taken
  BY <1>1, <1>2, <1>3, <1>6 DEF Taken
<1>7. ASSUME NEW task \in Task, TakenAndPushed(task) PROVE Conservation'
  <2>1. pending # <<>>
    BY <1>7 DEF TakenAndPushed
  <2>2. Append(done, Head(pending)) \o Append(Tail(pending), task)
           = Append(done \o pending, task)
    BY <1>3, <2>1, AppendRight
  <2> QED
    BY <1>1, <1>2, <1>7, <2>2 DEF TakenAndPushed
<1> QED
  BY <1>4, <1>5, <1>6, <1>7, PendingStep

(* The invariant that carries the proofs about the lists.                  *)
ListInv == TypeOK /\ Quiet /\ Conservation

(* The list invariant holds when the server starts.                        *)
LEMMA ListInvInit == Init => ListInv
<1> SUFFICES ASSUME Init PROVE ListInv
  OBVIOUS
<1>1. TypeOK
  BY TypeInit
<1>2. Quiet
  BY DEF Init, Quiet
<1>3. <<Plain("load")>> \in Seq(Task)
  BY <1>1 DEF Init, TypeOK
<1>4. (<<>> \o <<>>) \o <<Plain("load")>> = <<Plain("load")>>
  <2>1. <<>> \in Seq(Task)
    OBVIOUS
  <2> QED
    BY <1>3, <2>1, ConcatEmptySeq
<1>5. Conservation
  BY <1>4 DEF Init, Conservation
<1> QED
  BY <1>1, <1>2, <1>5 DEF ListInv

(* The list invariant is inductive.                                        *)
LEMMA ListInvNext == ListInv /\ [Next]_vars => ListInv'
BY TypeNext, QuietNext, ConservationNext DEF ListInv

(* Nothing is lost, repeated or reordered by the double buffering, for any *)
(* number of producing threads: the tasks accepted are those taken out,    *)
(* then those of the batch, then those still shared.                       *)
THEOREM ConservationHolds == Spec => []Conservation
<1>1. ListInv => Conservation
  BY DEF ListInv
<1> QED
  BY ListInvInit, ListInvNext, <1>1, PTL DEF Spec

(* The dispatcher implements the serial executor: its initial state is one *)
(* of the executor's, and every step of any thread submits one task, takes *)
(* the oldest one (whose body may submit one), or changes nothing visible. *)
THEOREM ImplementsExecutor == Spec => ExecutorSpec
<1> USE DEF pending
<1>1. Init => Executor!ExInit
  <2> SUFFICES ASSUME Init PROVE Executor!ExInit
    OBVIOUS
  <2>1. Plain("load") \in Task
    BY PlainIsTask DEF Kind
  <2>2. pending = <<Plain("load")>>
    <3>1. <<Plain("load")>> \in Seq(Task)
      BY <2>1
    <3> QED
      BY <3>1, ConcatEmptySeq DEF Init
  <2> QED
    BY <2>1, <2>2 DEF Init, Executor!ExInit
<1>2. ListInv /\ [Next]_vars => [Executor!ExNext]_(Executor!exVars)
  <2> SUFFICES ASSUME ListInv, [Next]_vars
               PROVE  [Executor!ExNext]_(Executor!exVars)
    OBVIOUS
  <2>1. TypeOK /\ Quiet
    BY DEF ListInv
  <2>2. CASE Still
    BY <2>2 DEF Still, Executor!exVars
  <2>3. ASSUME NEW task \in Task, Pushed(task) PROVE Executor!ExNext
    BY <2>3 DEF Pushed, Executor!ExNext, Executor!Submit
  <2>4. CASE Taken
    BY <2>4 DEF Taken, Executor!ExNext, Executor!Execute
  <2>5. ASSUME NEW task \in Task, TakenAndPushed(task) PROVE Executor!ExNext
    BY <2>5 DEF TakenAndPushed, Executor!ExNext, Executor!Execute
  <2> QED
    BY <2>1, <2>2, <2>3, <2>4, <2>5, PendingStep
<1> QED
  BY <1>1, <1>2, ListInvInit, ListInvNext, PTL DEF Spec, ExecutorSpec, Executor!ExSpec

-----------------------------------------------------------------------------
(* No lost wakeup.                                                         *)

(* NoLostWakeup is inductive: only the caller that fills an empty list has *)
(* to notify, and the dispatcher only goes to sleep on an empty list.      *)
LEMMA WakeupNext == TypeOK /\ NoLostWakeup /\ [Next]_vars => NoLostWakeup'
<1> SUFFICES ASSUME TypeOK, NoLostWakeup, [Next]_vars PROVE NoLostWakeup'
  OBVIOUS
<1>1. ASSUME NEW t \in Threads, AddTask(t) PROVE NoLostWakeup'
  <2>1. CASE threadState = "RUNNING" /\ taskList = <<>>
    BY <1>1, <2>1 DEF AddTask, NoLostWakeup
  <2>2. CASE taskList # <<>>
    BY <1>1, <2>2 DEF AddTask, NoLostWakeup
  <2>3. CASE threadState # "RUNNING"
    BY <1>1, <2>3 DEF AddTask, Enqueue, NoLostWakeup
  <2> QED
    BY <2>1, <2>2, <2>3
<1>2. ASSUME NEW t \in Threads, Notify(t) PROVE NoLostWakeup'
  BY <1>2 DEF Notify, Woken, NoLostWakeup
<1>3. CASE MainThread
  BY <1>3 DEF MainThread, MainWait, Serve, OfflineShutdown, Woken, NoLostWakeup
<1>4. CASE MainSpuriousWakeup \/ SpuriousWakeup
  BY <1>4 DEF MainSpuriousWakeup, SpuriousWakeup, NoLostWakeup
<1>5. CASE Loop \/ SwapAfterWait \/ BatchDone \/ Stop
  BY <1>5 DEF Loop, SwapAfterWait, BatchDone, Stop, NoLostWakeup
<1>6. CASE RunTask
  BY <1>6 DEF RunTask, RunLoad, ExpireTask, RunWork, RunSignal, RunClose,
              RunTerminate, Take, Begin, SetShutdown, NoLostWakeup
<1>7. CASE Ended \/ UNCHANGED vars
  BY <1>7 DEF Ended, vars, NoLostWakeup
<1> QED
  BY <1>1, <1>2, <1>3, <1>4, <1>5, <1>6, <1>7 DEF Next, ThreadMain

(* The dispatcher never sleeps on a task nobody is about to announce, for  *)
(* any number of threads that call addTask at the same time.               *)
THEOREM NoWakeupIsLost == Spec => []NoLostWakeup
<1>1. Init => NoLostWakeup
  BY DEF Init, NoLostWakeup
<1> QED
  BY <1>1, TypeInit, TypeNext, WakeupNext, PTL DEF Spec

-----------------------------------------------------------------------------
(* Orderly shutdown.  NothingLeftBehind is not inductive: that nothing is  *)
(* pending when the thread ends follows from what is pending at each stage *)
(* of the shutdown.                                                        *)

Final == {"close", "terminate"}

NoFinal(s) == \A i \in 1 .. Len(s) : s[i].kind \notin Final

(* The only final task of s is of this kind, and nothing stands behind the *)
(* one that ends the thread.                                               *)
Carries(s, kind) ==
    \E i \in 1 .. Len(s) :
        /\ s[i].kind = kind
        /\ kind = "terminate" => i = Len(s)
        /\ \A j \in 1 .. Len(s) : j # i => s[j].kind \notin Final

(* The stages: nothing is announced; the closing task is in the list and   *)
(* addTask still accepts others behind it; the dispatcher has left RUNNING *)
(* and has one final task to run; or it is over.                           *)
Open ==
    /\ ~gameShutdown /\ threadState = "RUNNING" /\ pc # "stopping"
    /\ NoFinal(pending)
Announced ==
    /\ gameShutdown /\ threadState = "RUNNING" /\ pc = "stopping"
    /\ Carries(pending, "close")
Closing(kind) ==
    /\ gameShutdown /\ threadState = "CLOSING" /\ pc # "stopping"
    /\ Carries(pending, kind)
Over ==
    /\ gameShutdown /\ threadState = "TERMINATED" /\ pc # "stopping"
    /\ pending = <<>>

Stage == Open \/ Announced \/ Closing("close") \/ Closing("terminate") \/ Over

StageInv ==
    /\ main # "offline" => Stage
    /\ pc = "ended" => threadState = "TERMINATED"

(* A list without a final task, and one more at its end.                   *)
LEMMA AppendToNoFinal ==
  ASSUME NEW s \in Seq(Task), NEW task \in Task, NoFinal(s)
  PROVE  /\ task.kind \notin Final => NoFinal(Append(s, task))
         /\ task.kind \in Final => Carries(Append(s, task), task.kind)
<1>1. /\ Len(s) \in Nat
      /\ Len(Append(s, task)) = Len(s) + 1
      /\ Append(s, task)[Len(s) + 1] = task
      /\ \A i \in 1 .. Len(s) : Append(s, task)[i] = s[i]
  BY AppendProperties, LenProperties
<1>2. \A i \in 1 .. Len(s) : Append(s, task)[i].kind \notin Final
  BY <1>1 DEF NoFinal
<1>3. task.kind \notin Final => NoFinal(Append(s, task))
  BY <1>1, <1>2 DEF NoFinal
<1>4. ASSUME task.kind \in Final PROVE Carries(Append(s, task), task.kind)
  <2>1. Len(s) + 1 \in 1 .. Len(Append(s, task))
    BY <1>1
  <2>2. \A j \in 1 .. Len(Append(s, task)) :
           j # Len(s) + 1 => Append(s, task)[j].kind \notin Final
    BY <1>1, <1>2
  <2> QED
    BY <1>1, <2>1, <2>2 DEF Carries
<1> QED
  BY <1>3, <1>4

(* What comes behind the closing task, while addTask still accepts it.     *)
LEMMA AppendToCarries ==
  ASSUME NEW s \in Seq(Task), NEW task \in Task, task.kind \notin Final,
         Carries(s, "close")
  PROVE  Carries(Append(s, task), "close")
<1>1. /\ Len(s) \in Nat
      /\ Len(Append(s, task)) = Len(s) + 1
      /\ Append(s, task)[Len(s) + 1] = task
      /\ \A i \in 1 .. Len(s) : Append(s, task)[i] = s[i]
  BY AppendProperties, LenProperties
<1>2. PICK i \in 1 .. Len(s) :
         /\ s[i].kind = "close"
         /\ \A j \in 1 .. Len(s) : j # i => s[j].kind \notin Final
  BY DEF Carries
<1>3. i \in 1 .. Len(Append(s, task)) /\ Append(s, task)[i].kind = "close"
  BY <1>1, <1>2
<1>4. \A j \in 1 .. Len(Append(s, task)) :
         j # i => Append(s, task)[j].kind \notin Final
  BY <1>1, <1>2
<1> QED
  BY <1>3, <1>4 DEF Carries

(* Taking the first of a list that carries a final task: another one       *)
(* leaves it there; the final one leaves none, and nothing at all if it    *)
(* ends the thread.                                                        *)
LEMMA TailOfCarries ==
  ASSUME NEW s \in Seq(Task), s # <<>>, NEW k \in Final, Carries(s, k)
  PROVE  /\ Head(s).kind \notin Final => Carries(Tail(s), k)
         /\ Head(s).kind \in Final => Head(s).kind = k /\ NoFinal(Tail(s))
         /\ Head(s).kind = "terminate" => Tail(s) = <<>>
<1>1. /\ Len(s) \in Nat \ {0}
      /\ Head(s) = s[1]
      /\ Tail(s) \in Seq(Task)
      /\ Len(Tail(s)) = Len(s) - 1
      /\ \A i \in 1 .. Len(Tail(s)) : Tail(s)[i] = s[i + 1]
  BY HeadTailProperties, EmptySeq
<1>2. PICK i \in 1 .. Len(s) :
         /\ s[i].kind = k
         /\ k = "terminate" => i = Len(s)
         /\ \A j \in 1 .. Len(s) : j # i => s[j].kind \notin Final
  BY DEF Carries
<1>3. ASSUME Head(s).kind \notin Final PROVE Carries(Tail(s), k)
  <2>1. i # 1
    BY <1>1, <1>2, <1>3
  <2>2. /\ i - 1 \in 1 .. Len(Tail(s))
        /\ Tail(s)[i - 1] = s[i]
        /\ k = "terminate" => i - 1 = Len(Tail(s))
    <3>1. i \in Int /\ i - 1 \in 1 .. Len(Tail(s)) /\ (i - 1) + 1 = i
      BY <1>1, <2>1
    <3>2. Tail(s)[i - 1] = s[(i - 1) + 1]
      BY <1>1, <3>1
    <3>3. i = Len(s) => i - 1 = Len(Tail(s))
      BY <1>1, <3>1
    <3> QED
      BY <1>2, <3>1, <3>2, <3>3
  <2>3. ASSUME NEW j \in 1 .. Len(Tail(s)), j # i - 1
        PROVE  Tail(s)[j].kind \notin Final
    <3> DEFINE n == Len(s)
               m == Len(Tail(s))
    <3>1. n \in Nat /\ m = n - 1 /\ i \in 1 .. n /\ j \in 1 .. m /\ j # i - 1
      BY <1>1, <2>3
    <3> HIDE DEF n, m
    <3>2. j + 1 \in 1 .. n /\ j + 1 # i
      BY <3>1
    <3>3. Tail(s)[j] = s[j + 1]
      BY <1>1
    <3> QED
      BY <1>2, <3>2, <3>3 DEF n
  <2> QED
    BY <1>2, <2>2, <2>3 DEF Carries
<1>4. ASSUME Head(s).kind \in Final PROVE i = 1
  <2>1. 1 \in 1 .. Len(s) /\ s[1].kind \in Final
    BY <1>1, <1>4
  <2> QED
    BY <1>2, <2>1
<1>5. ASSUME Head(s).kind \in Final PROVE Head(s).kind = k /\ NoFinal(Tail(s))
  <2>1. ASSUME NEW j \in 1 .. Len(Tail(s)) PROVE Tail(s)[j].kind \notin Final
    <3>1. j + 1 \in 1 .. Len(s) /\ j + 1 # i /\ Tail(s)[j] = s[j + 1]
      BY <1>1, <1>4, <1>5
    <3> QED
      BY <1>2, <3>1
  <2> QED
    BY <1>1, <1>2, <1>4, <1>5, <2>1 DEF NoFinal
<1>6. ASSUME Head(s).kind = "terminate" PROVE Tail(s) = <<>>
  <2>1. Head(s).kind \in Final
    BY <1>6 DEF Final
  <2>2. i = 1 /\ k = "terminate"
    BY <1>4, <1>5, <1>6, <2>1
  <2>3. Len(s) = 1
    BY <1>2, <2>2
  <2>4. Len(Tail(s)) = 0
    BY <1>1, <2>3
  <2> QED
    BY <1>1, <2>4, EmptySeq
<1> QED
  BY <1>3, <1>5, <1>6

(* The stage a task is taken in, and what is left once it is taken.        *)
LEMMA StageTake ==
  ASSUME TypeOK, Stage, NEW kind, Begin(kind)
  PROVE  /\ kind \notin Final /\ Open => NoFinal(Tail(pending))
         /\ kind \notin Final =>
               \A k \in Final : Closing(k) => Carries(Tail(pending), k)
         /\ kind \in Final => Closing(kind) /\ NoFinal(Tail(pending))
         /\ kind = "terminate" => Tail(pending) = <<>>
         /\ Open \/ \E k \in Final : Closing(k)
<1>1. /\ pending \in Seq(Task) /\ pending # <<>>
      /\ Head(pending).kind = kind
      /\ pc = "running"
  BY PendingTyped, BodyStep DEF Begin
<1>2. /\ Len(pending) \in Nat \ {0}
      /\ Head(pending) = pending[1]
      /\ Len(Tail(pending)) = Len(pending) - 1
      /\ \A i \in 1 .. Len(Tail(pending)) : Tail(pending)[i] = pending[i + 1]
  BY <1>1, HeadTailProperties, EmptySeq
<1>3. Open \/ \E k \in Final : Closing(k)
  BY <1>1 DEF Stage, Over, Announced, Final
<1>4. ASSUME kind \notin Final, Open PROVE NoFinal(Tail(pending))
  BY <1>2, <1>4 DEF Open, NoFinal
<1>5. ASSUME kind \notin Final, NEW k \in Final, Closing(k)
      PROVE  Carries(Tail(pending), k)
  BY <1>1, <1>5, TailOfCarries DEF Closing
<1>6. ASSUME kind \in Final PROVE Closing(kind) /\ NoFinal(Tail(pending))
  <2>1. ~Open
    BY <1>1, <1>2, <1>6 DEF Open, NoFinal
  <2>2. PICK k \in Final : Closing(k)
    BY <1>3, <2>1
  <2>3. k = kind /\ NoFinal(Tail(pending))
    BY <1>1, <1>6, <2>2, TailOfCarries DEF Closing
  <2> QED
    BY <2>2, <2>3
<1>7. ASSUME kind = "terminate" PROVE Tail(pending) = <<>>
  <2>1. kind \in Final /\ Closing(kind)
    BY <1>6, <1>7 DEF Final
  <2> QED
    BY <1>1, <1>7, <2>1, TailOfCarries DEF Closing
<1> QED
  BY <1>3, <1>4, <1>5, <1>6, <1>7

(* A step that takes a task which is not final and refuses or accepts the  *)
(* one its body adds stays in its stage.                                   *)
LEMMA StageBody ==
  ASSUME TypeOK, Stage, NEW kind, Begin(kind), kind \notin Final,
         UNCHANGED <<threadState, pc, gameShutdown>>,
         \/ UNCHANGED <<taskList, accepted>>
         \/ \E task \in WorkTask : Enqueue(task)
  PROVE  Stage'
<1>1. /\ pending \in Seq(Task) /\ pending # <<>>
      /\ Tail(pending) \in Seq(Task)
  BY PendingTyped, BodyStep, HeadTailProperties
<1>2. CASE pending' = Tail(pending)
  <2>1. CASE Open
    BY <1>2, <2>1, StageTake DEF Open, Stage
  <2>2. CASE ~Open
    <3>1. PICK k \in Final : Closing(k)
      BY <2>2, StageTake
    <3>2. Carries(pending', k)
      BY <1>2, <3>1, StageTake
    <3>3. Closing(k)'
      BY <3>1, <3>2 DEF Closing
    <3> QED
      BY <3>3 DEF Stage, Final
  <2> QED
    BY <2>1, <2>2
<1>3. ASSUME NEW task \in WorkTask, threadState = "RUNNING",
             pending' = Append(Tail(pending), task)
      PROVE  Stage'
  <2>1. Open
    BY <1>3, StageTake DEF Closing
  <2>2. NoFinal(Tail(pending)) /\ task.kind \notin Final /\ task \in Task
    BY <2>1, StageTake, OutsideIsTask DEF WorkTask, Final
  <2>3. NoFinal(pending')
    BY <1>1, <1>3, <2>2, AppendToNoFinal
  <2> QED
    BY <2>1, <2>3 DEF Open, Stage
<1>4. CASE UNCHANGED <<taskList, accepted>>
  BY <1>2, <1>4, BodyStep DEF Taken
<1>5. ASSUME NEW task \in WorkTask, Enqueue(task) PROVE Stage'
  <2>1. task \in Task
    BY OutsideIsTask
  <2>2. CASE threadState = "RUNNING"
    BY <1>3, <1>5, <2>1, <2>2, BodyStep DEF Enqueue, TakenAndPushed
  <2>3. CASE threadState # "RUNNING"
    BY <1>4, <1>5, <2>3 DEF Enqueue
  <2> QED
    BY <2>2, <2>3
<1> QED
  BY <1>4, <1>5

(* The first call of setGameState(GAME_STATE_SHUTDOWN) announces the       *)
(* closing stage, the others stay in theirs.                               *)
LEMMA StageShutdown ==
  ASSUME TypeOK, Stage, NEW kind, Begin(kind), kind \notin Final, SetShutdown
  PROVE  Stage'
<1>1. CASE gameShutdown
  <2>1. gameShutdown' = gameShutdown
    BY <1>1 DEF SetShutdown, TypeOK
  <2> QED
    BY <1>1, <2>1, StageBody DEF SetShutdown
<1>2. CASE ~gameShutdown
  <2>1. Open
    BY <1>2, StageTake DEF Closing
  <2>2. /\ Push(Plain("close"))
        /\ gameShutdown' /\ threadState' = "RUNNING" /\ pc' = "stopping"
    BY <1>2, <2>1 DEF Open, SetShutdown, Enqueue
  <2>3. Plain("close") \in Task /\ Plain("close").kind = "close" /\ "close" \in Final
    BY PlainIsTask DEF Kind, Plain, Final
  <2>4. /\ Tail(pending) \in Seq(Task)
        /\ NoFinal(Tail(pending))
        /\ pending' = Append(Tail(pending), Plain("close"))
    BY <2>1, <2>2, <2>3, PendingTyped, BodyStep, StageTake, HeadTailProperties
       DEF TakenAndPushed
  <2>5. Carries(pending', "close")
    BY <2>3, <2>4, AppendToNoFinal
  <2> QED
    BY <2>2, <2>5 DEF Announced, Stage
<1> QED
  BY <1>1, <1>2

(* A task another thread adds: in front of everything that is announced,   *)
(* behind the closing task before Stop, and refused from then on.          *)
LEMMA StageAdd ==
  ASSUME TypeOK, Stage, NEW t \in Threads, AddTask(t)
  PROVE  Stage'
<1>1. PICK task \in FromOutside : Enqueue(task)
  BY DEF AddTask
<1>2. task \in Task /\ task.kind \notin Final
  BY OutsideIsTask DEF FromOutside, WorkTask, Plain, Final
<1>3. UNCHANGED <<threadState, pc, gameShutdown, tmpTaskList, done>>
  BY DEF AddTask
<1>4. CASE threadState = "RUNNING"
  <2>1. Open \/ Announced
    BY <1>4 DEF Stage, Closing, Over
  <2>2. pending' = Append(pending, task) /\ pending \in Seq(Task)
    BY <1>1, <1>2, <1>3, <1>4, OtherThreadsStep, PendingTyped DEF Enqueue, Pushed
  <2>3. CASE Open
    BY <1>2, <1>3, <2>2, <2>3, AppendToNoFinal DEF Open, Stage
  <2>4. CASE Announced
    BY <1>2, <1>3, <2>2, <2>4, AppendToCarries DEF Announced, Stage
  <2> QED
    BY <2>1, <2>3, <2>4
<1>5. CASE threadState # "RUNNING"
  BY <1>1, <1>3, <1>5 DEF Enqueue, Stage, Open, Announced, Closing, Over, Carries,
                          NoFinal, pending
<1> QED
  BY <1>4, <1>5

(* The stages of the shutdown are inductive.                               *)
LEMMA StageNext == TypeOK /\ Quiet /\ StageInv /\ [Next]_vars => StageInv'
<1> SUFFICES ASSUME TypeOK, Quiet, StageInv, [Next]_vars PROVE StageInv'
  OBVIOUS
<1>1. ASSUME main' = main, pc' # "ended" \/ pc = "ended",
             threadState' = threadState,
             main # "offline" => (Stage => Stage')
      PROVE  StageInv'
  BY <1>1 DEF StageInv
<1>2. ASSUME Still, UNCHANGED <<threadState, gameShutdown>>,
             pc' = "stopping" <=> pc = "stopping"
      PROVE  Stage => Stage'
  BY <1>2 DEF Still, Stage, Open, Announced, Closing, Over, Carries, NoFinal
<1>3. ASSUME NEW t \in Threads, AddTask(t) PROVE StageInv'
  BY <1>1, <1>3, StageAdd DEF AddTask
<1>4. ASSUME NEW t \in Threads, Notify(t) PROVE StageInv'
  BY <1>1, <1>2, <1>4 DEF Notify, Woken, Still, pending
<1>5. CASE MainWait \/ MainSpuriousWakeup \/ Serve
  BY <1>2, <1>5 DEF MainWait, MainSpuriousWakeup, Serve, Still, pending, StageInv
<1>6. CASE OfflineShutdown
  BY <1>6 DEF OfflineShutdown, Woken, StageInv
<1>7. CASE SpuriousWakeup \/ BatchDone
  BY <1>1, <1>2, <1>7 DEF SpuriousWakeup, BatchDone, Still, pending
<1>8. CASE Loop \/ SwapAfterWait
  <2>1. /\ Still /\ UNCHANGED <<threadState, gameShutdown, main>>
        /\ pc # "stopping" /\ pc' # "stopping"
    BY <1>8, SwapStep DEF Loop, SwapAfterWait
  <2>2. pc' = "ended" => threadState = "TERMINATED"
    BY <1>8 DEF Loop, SwapAfterWait
  <2> QED
    BY <1>2, <2>1, <2>2 DEF StageInv
<1>9. CASE Stop
  <2>1. ASSUME Stage PROVE Stage'
    <3>1. Announced
      BY <1>9, <2>1 DEF Stop, Stage, Open, Closing, Over
    <3>2. pending' = pending /\ gameShutdown' = gameShutdown
      BY <1>9 DEF Stop, pending
    <3>3. Closing("close")'
      BY <1>9, <3>1, <3>2 DEF Stop, Announced, Closing
    <3> QED
      BY <3>3 DEF Stage
  <2> QED
    BY <1>9, <2>1 DEF Stop, StageInv
<1>10. CASE RunTask
  <2>1. pc = "running" /\ pc' \in {"running", "stopping"}
    BY <1>10 DEF RunTask, RunLoad, ExpireTask, RunWork, RunSignal, RunClose,
                 RunTerminate, Take, Begin, SetShutdown
  <2>2. main = "offline" => main' = "offline"
    BY <1>10 DEF RunTask, RunLoad, ExpireTask, RunWork, RunSignal, RunClose,
                 RunTerminate
  <2>3. ASSUME Stage PROVE Stage'
    <3>1. CASE RunLoad \/ ExpireTask
      <4>1. PICK kind \in {"load", "work"} : Take(kind)
        BY <3>1 DEF RunLoad, ExpireTask
      <4>2. kind \notin Final /\ UNCHANGED <<threadState, gameShutdown, taskList, accepted>>
        BY <3>1 DEF RunLoad, ExpireTask, Final
      <4> QED
        BY <2>3, <4>1, <4>2, StageBody DEF Take
    <3>2. CASE RunWork
      <4>1. Begin("work") /\ "work" \notin Final
        BY <3>2 DEF RunWork, Final
      <4>2. CASE SetShutdown
        BY <2>3, <4>1, <4>2, StageShutdown
      <4>3. CASE ~SetShutdown
        <5>1. /\ UNCHANGED <<threadState, pc, gameShutdown>>
              /\ \/ UNCHANGED <<taskList, accepted>>
                 \/ \E task \in WorkTask : Enqueue(task)
          BY <3>2, <4>3 DEF RunWork
        <5> QED
          BY <2>3, <4>1, <5>1, StageBody
      <4> QED
        BY <4>2, <4>3
    <3>3. CASE RunSignal
      BY <2>3, <3>3, StageShutdown DEF RunSignal, Final
    <3>4. CASE RunClose
      <4>1. Begin("close") /\ Push(Plain("terminate")) /\ pc' = pc
        BY <3>4 DEF RunClose, Take
      <4>2. Closing("close") /\ NoFinal(Tail(pending))
        BY <2>3, <4>1, StageTake DEF Final
      <4>3. /\ Plain("terminate") \in Task
            /\ Plain("terminate").kind = "terminate" /\ "terminate" \in Final
        BY PlainIsTask DEF Kind, Plain, Final
      <4>4. pending' = Append(Tail(pending), Plain("terminate"))
        BY <4>1, <4>3, BodyStep DEF TakenAndPushed
      <4>5. Tail(pending) \in Seq(Task)
        BY <4>1, PendingTyped, BodyStep, HeadTailProperties
      <4>6. Carries(pending', "terminate")
        BY <4>2, <4>3, <4>4, <4>5, AppendToNoFinal
      <4> QED
        BY <3>4, <4>1, <4>2, <4>6 DEF RunClose, Closing, Stage
    <3>5. CASE RunTerminate
      <4>1. Begin("terminate") /\ pc' = pc
        BY <3>5 DEF RunTerminate, Take
      <4>2. Closing("terminate") /\ Tail(pending) = <<>>
        BY <2>3, <4>1, StageTake DEF Final
      <4>3. pending' = <<>>
        BY <3>5, <4>1, <4>2, BodyStep DEF RunTerminate, Taken
      <4> QED
        BY <3>5, <4>1, <4>2, <4>3 DEF RunTerminate, Closing, Over, Stage
    <3> QED
      BY <1>10, <3>1, <3>2, <3>3, <3>4, <3>5 DEF RunTask
  <2> QED
    BY <2>1, <2>2, <2>3 DEF StageInv
<1>11. CASE Ended \/ UNCHANGED vars
  <2>1. Still /\ UNCHANGED <<threadState, gameShutdown, pc, main>>
    BY <1>11 DEF Ended, vars, Still, pending
  <2> QED
    BY <1>1, <1>2, <2>1
<1> QED
  BY <1>3, <1>4, <1>5, <1>6, <1>7, <1>8, <1>9, <1>10, <1>11
     DEF Next, MainThread, ThreadMain

(* A server that starts is open.                                           *)
LEMMA StageInit == Init => StageInv
<1> SUFFICES ASSUME Init PROVE StageInv
  OBVIOUS
<1>1. pending = <<Plain("load")>>
  <2>1. <<Plain("load")>> \in Seq(Task)
    BY TypeInit DEF Init, TypeOK
  <2> QED
    BY <2>1, ConcatEmptySeq DEF Init, pending
<1>2. NoFinal(pending)
  BY <1>1 DEF NoFinal, Plain, Final
<1> QED
  BY <1>2 DEF Init, StageInv, Stage, Open

(* When the dispatcher of a server that ran has stopped, no task that      *)
(* addTask accepted is left behind, for any number of producing threads    *)
(* and wherever the shutdown catches them, those included that add a task  *)
(* behind the closing one before setGameState has called stop().           *)
THEOREM OrderlyShutdown == Spec => []NothingLeftBehind
<1> DEFINE IInv == ListInv /\ StageInv
<1>1. Init => IInv
  BY ListInvInit, StageInit
<1>2. IInv /\ [Next]_vars => IInv'
  BY ListInvNext, StageNext DEF ListInv
<1>3. IInv => NothingLeftBehind
  <2> SUFFICES ASSUME ListInv, StageInv, pc = "ended", main # "offline"
               PROVE  taskList = <<>> /\ tmpTaskList = <<>>
    BY DEF NothingLeftBehind
  <2>1. Over
    BY DEF StageInv, Stage, Open, Announced, Closing
  <2>2. taskList \in Seq(Task) /\ tmpTaskList \in Seq(Task) /\ pending = <<>>
    BY <2>1 DEF Over, ListInv, TypeOK
  <2> QED
    BY <2>2, ConcatEqualIffEmpty DEF pending
<1> QED
  BY <1>1, <1>2, <1>3, PTL DEF Spec
=============================================================================
