-------------------------- MODULE MCCreatures_proofs --------------------------
(***************************************************************************)
(* A walking player: the event it waits for is in flight, its chains are   *)
(* counted, and one action waits for the end of the walk.                  *)
(*                                                                         *)
(* The functions of the walk go from a record of the creature's fields and *)
(* of what was posted to another one.  An invariant of these records is    *)
(* kept by the few functions all others are made of; F are the events in   *)
(* flight before the step.                                                 *)
(***************************************************************************)
EXTENDS MCCreatures, CollectionFacts

WalkerFields == {"path", "eventWalk", "cancel", "mobile", "walkTask", "walkTaskEvent",
                 "last", "posts", "walkEvents", "wasStopped"}

(* The fields have their types, and events are numbered up to last.        *)
Walker(c) ==
    /\ DOMAIN c = WalkerFields
    /\ c.path \in 0 .. MaxPath
    /\ c.cancel \in BOOLEAN /\ c.mobile \in BOOLEAN /\ c.walkTask \in BOOLEAN
    /\ c.last \in Nat /\ lastEventId \in Nat /\ lastEventId <= c.last
    /\ c.eventWalk \in 0 .. c.last /\ c.walkTaskEvent \in 0 .. c.last
    /\ c.walkEvents \subseteq 1 .. c.last /\ c.wasStopped \subseteq 1 .. c.last

New(c) == (lastEventId + 1) .. c.last

Inserts == {W!Insert(i) : i \in Nat}
Requests == Inserts \cup {W!Cancel(i) : i \in Nat}

(* What is posted: each new event once, and cancellations of events that   *)
(* are remembered as stopped.                                              *)
Posts(c) ==
    /\ c.posts \in Seq(Requests)
    /\ Elements(c.posts) \subseteq
          {W!Insert(i) : i \in New(c)} \cup {W!Cancel(i) : i \in c.wasStopped}
    /\ {W!Insert(i) : i \in New(c)} \subseteq Elements(c.posts)
    /\ OnceIn(c.posts, Inserts)

(* No event is forgotten, the one that is remembered is a step of the walk *)
(* that nobody stopped, and the waiting action is none.                    *)
Remembers(c) ==
    /\ walkEvents \subseteq c.walkEvents /\ wasStopped \subseteq c.wasStopped
    /\ c.eventWalk # 0 => c.eventWalk \in c.walkEvents \ c.wasStopped
    /\ c.walkTaskEvent \notin c.walkEvents

Flying(c, F) == F \cup New(c)

OneTask(c, F) ==
    LET waiting == Flying(c, F) \ (c.walkEvents \cup c.wasStopped)
    IN  waiting \subseteq {c.walkTaskEvent} /\ (c.walkTask => waiting = {})

Good(c, F) ==
    F \subseteq 1 .. lastEventId /\ Walker(c) /\ Posts(c) /\ Remembers(c) /\ OneTask(c, F)

(* Steps of the walk in flight that nobody stopped, and those that were    *)
(* stopped too late.  Of the first there are no more than of the second,   *)
(* the one that is remembered not counted (Chained) or counted (Loose).    *)
Free(c, F) == (Flying(c, F) \cap c.walkEvents) \ c.wasStopped
Late(c, F) == (c.wasStopped \cap c.walkEvents) \ (stoppedInTime \cup Flying(c, F))

Chained(c, F) == Cardinality(Free(c, F) \ {c.eventWalk}) <= Cardinality(Late(c, F))
Loose(c, F) == Cardinality(Free(c, F)) <= Cardinality(Late(c, F))

Armed(c, F) == c.eventWalk # 0 => c.eventWalk \in Flying(c, F)

Keeps(c, d, F) ==
    /\ Good(d, F)
    /\ Chained(c, F) => Chained(d, F)
    /\ Loose(c, F) => Loose(d, F)
    /\ Armed(c, F) => Armed(d, F)
    /\ d.eventWalk \in {c.eventWalk, 0}

-----------------------------------------------------------------------------
(* The free steps and the late ones are finite sets.                       *)
LEMMA Finite ==
  ASSUME NEW c, Walker(c), NEW F
  PROVE  /\ IsFiniteSet(Free(c, F)) /\ IsFiniteSet(Late(c, F))
         /\ Cardinality(Free(c, F)) \in Nat /\ Cardinality(Late(c, F)) \in Nat
<1>1. IsFiniteSet(1 .. c.last)
  <2>1. c.last \in Int
    BY DEF Walker
  <2> QED
    BY <2>1, FS_Interval
<1>2. Free(c, F) \subseteq 1 .. c.last /\ Late(c, F) \subseteq 1 .. c.last
  BY DEF Walker, Free, Late
<1>3. IsFiniteSet(Free(c, F)) /\ IsFiniteSet(Late(c, F))
  BY <1>1, <1>2, FS_Subset
<1> QED
  BY <1>3, FS_CardinalityType

(* Fields the invariant does not relate to others.                         *)
LEMMA PlainKeeps ==
  ASSUME NEW c, NEW F, Good(c, F), NEW d, DOMAIN d = WalkerFields,
         d.path \in 0 .. MaxPath, d.cancel \in BOOLEAN, d.mobile \in BOOLEAN,
         d.eventWalk = c.eventWalk, d.walkTask = c.walkTask,
         d.walkTaskEvent = c.walkTaskEvent, d.last = c.last, d.posts = c.posts,
         d.walkEvents = c.walkEvents, d.wasStopped = c.wasStopped
  PROVE  Keeps(c, d, F)
<1>1. New(d) = New(c) /\ Flying(d, F) = Flying(c, F)
  BY DEF New, Flying
<1>2. Free(d, F) = Free(c, F) /\ Late(d, F) = Late(c, F)
  BY <1>1 DEF Free, Late
<1>3. Walker(d) /\ Remembers(d)
  BY DEF Good, Walker, Remembers
<1>4. Posts(d)
  BY <1>1 DEF Good, Posts
<1>5. OneTask(d, F)
  BY <1>1 DEF Good, OneTask
<1> QED
  BY <1>1, <1>2, <1>3, <1>4, <1>5 DEF Keeps, Good, Chained, Loose, Armed

(* Requests are told apart by what they ask and by the event.              *)
LEMMA RequestsDiffer ==
  /\ \A i, j : W!Insert(i) = W!Insert(j) => i = j
  /\ \A i, j : W!Insert(i) # W!Cancel(j)
  /\ \A i \in Nat : W!Insert(i) \in Inserts /\ W!Insert(i) \in Requests
                    /\ W!Cancel(i) \in Requests /\ W!Cancel(i) \notin Inserts
  /\ \A i : W!Insert(i) # W!Shutdown /\ W!Cancel(i) # W!Shutdown
<1>1. /\ \A i : W!Insert(i).op = "insert" /\ W!Insert(i).id = i
      /\ \A i : W!Cancel(i).op = "cancel"
      /\ W!Shutdown.op = "shutdown"
  BY DEF W!Insert, W!Cancel, W!Shutdown
<1> QED
  BY <1>1 DEF Inserts, Requests

(* Another request.                                                        *)
LEMMA PostsCancel ==
  ASSUME NEW c, Walker(c), Posts(c), NEW id \in 1 .. c.last,
         NEW d, d.posts = Append(c.posts, W!Cancel(id)), d.last = c.last,
         d.wasStopped = c.wasStopped \cup {id}
  PROVE  Posts(d)
<1> DEFINE s == c.posts
           e == W!Cancel(id)
<1>1. New(d) = New(c) /\ id \in Nat
  BY DEF New, Walker
<1>2. e \in Requests /\ e \notin Inserts /\ s \in Seq(Requests)
  BY <1>1, RequestsDiffer DEF Posts
<1> HIDE DEF s, e
<1>3. /\ Append(s, e) \in Seq(Requests) /\ Elements(Append(s, e)) = Elements(s) \cup {e}
      /\ OnceIn(s, Inserts) => OnceIn(Append(s, e), Inserts)
  BY <1>2, ElementsAppend
<1>4. d.posts = Append(s, e) /\ s = c.posts
  BY DEF s, e
<1> QED
  BY <1>1, <1>3, <1>4 DEF Posts, e

(* The insertion of a new event is posted.                                 *)
LEMMA PostsInsert ==
  ASSUME NEW c, Walker(c), Posts(c),
         NEW d, d.posts = Append(c.posts, W!Insert(c.last + 1)), d.last = c.last + 1,
         d.wasStopped = c.wasStopped
  PROVE  Posts(d)
<1> DEFINE s == c.posts
           id == c.last + 1
           e == W!Insert(id)
<1>1. New(d) = New(c) \cup {id} /\ id \notin New(c) /\ id \in Nat
  BY DEF New, Walker
<1>2. e \in Requests /\ s \in Seq(Requests)
  BY <1>1, RequestsDiffer DEF Posts
<1>3. e \notin Elements(s)
  BY <1>1, RequestsDiffer DEF Posts
<1> HIDE DEF s, e
<1>4. /\ Append(s, e) \in Seq(Requests) /\ Elements(Append(s, e)) = Elements(s) \cup {e}
      /\ OnceIn(s, Inserts) => OnceIn(Append(s, e), Inserts)
  BY <1>2, <1>3, ElementsAppend
<1>5. d.posts = Append(s, e) /\ s = c.posts /\ d.wasStopped = c.wasStopped
  BY DEF s, e, id
<1> HIDE DEF id
<1> QED
  BY <1>1, <1>4, <1>5 DEF Posts, e

-----------------------------------------------------------------------------
(* The functions all others are made of.                                   *)

(* An event that is stopped: the task that waits, or the walk.             *)
LEMMA StopsWalk ==
  ASSUME NEW c, NEW F, Good(c, F)
  PROVE  Keeps(c, W!StopEventWalk(c), F) /\ W!StopEventWalk(c).eventWalk = 0
<1> DEFINE d == W!StopEventWalk(c)
           e == c.eventWalk
<1>1. Walker(c) /\ Posts(c) /\ Remembers(c) /\ OneTask(c, F)
  BY DEF Good
<1>2. CASE e = 0
  <2>1. d = [c EXCEPT !.eventWalk = 0]
    BY <1>2 DEF W!StopEventWalk, W!Stopped
  <2>2. /\ DOMAIN d = WalkerFields /\ d.path = c.path /\ d.cancel = c.cancel
        /\ d.mobile = c.mobile /\ d.eventWalk = c.eventWalk /\ d.walkTask = c.walkTask
        /\ d.walkTaskEvent = c.walkTaskEvent /\ d.last = c.last /\ d.posts = c.posts
        /\ d.walkEvents = c.walkEvents /\ d.wasStopped = c.wasStopped
    BY <1>1, <1>2, <2>1 DEF Walker, WalkerFields
  <2> HIDE DEF d
  <2>3. Keeps(c, d, F)
    BY <1>1, <2>2, PlainKeeps DEF Walker
  <2> QED
    BY <1>2, <2>2, <2>3 DEF d
<1>3. CASE e # 0
  <2>1. /\ DOMAIN d = WalkerFields /\ d.path = c.path /\ d.cancel = c.cancel
        /\ d.mobile = c.mobile /\ d.eventWalk = 0 /\ d.walkTask = c.walkTask
        /\ d.walkTaskEvent = c.walkTaskEvent /\ d.last = c.last
        /\ d.posts = Append(c.posts, W!Cancel(e))
        /\ d.walkEvents = c.walkEvents /\ d.wasStopped = c.wasStopped \cup {e}
    BY <1>1, <1>3 DEF Walker, WalkerFields, W!StopEventWalk, W!Stopped
  <2> HIDE DEF d
  <2>2. e \in 1 .. c.last /\ e \in c.walkEvents /\ e \notin c.wasStopped
    BY <1>1, <1>3 DEF Walker, Remembers
  <2>3. Posts(d)
    BY <1>1, <2>1, <2>2, PostsCancel
  <2>4. Walker(d)
    BY <1>1, <2>1, <2>2 DEF Walker
  <2>5. Remembers(d)
    BY <1>1, <2>1 DEF Remembers
  <2>6. New(d) = New(c) /\ Flying(d, F) = Flying(c, F)
    BY <2>1 DEF New, Flying
  <2>7. OneTask(d, F)
    BY <1>1, <2>1, <2>2, <2>6 DEF OneTask
  <2>8. Free(d, F) = Free(c, F) \ {e}
    BY <2>1, <2>6 DEF Free
  <2>9. Late(c, F) \subseteq Late(d, F)
    BY <2>1, <2>6 DEF Late
  <2>10. Free(d, F) \ {d.eventWalk} = Free(c, F) \ {e}
    <3>1. 0 \notin Free(c, F)
      BY <1>1 DEF Free, Walker
    <3> QED
      BY <2>1, <2>8, <3>1
  <2>11. Cardinality(Late(c, F)) <= Cardinality(Late(d, F)) /\ Cardinality(Late(c, F)) \in Nat
         /\ Cardinality(Late(d, F)) \in Nat
    BY <1>1, <2>4, <2>9, Finite, FS_Subset
  <2>12. Cardinality(Free(c, F) \ {e}) <= Cardinality(Free(c, F))
         /\ Cardinality(Free(c, F) \ {e}) \in Nat /\ Cardinality(Free(c, F)) \in Nat
    <3>1. IsFiniteSet(Free(c, F)) /\ Free(c, F) \ {e} \subseteq Free(c, F)
      BY <1>1, Finite
    <3> QED
      BY <3>1, FS_Subset, FS_CardinalityType
  <2>13. Chained(c, F) => Chained(d, F)
    <3> DEFINE a == Cardinality(Free(c, F) \ {c.eventWalk})
    <3>1. Cardinality(Free(d, F) \ {d.eventWalk}) = a /\ a \in Nat
      BY <2>10, <2>12
    <3> QED
      BY <2>11, <3>1 DEF Chained
  <2>14. Loose(c, F) => Loose(d, F)
    BY <2>8, <2>11, <2>12 DEF Loose
  <2>15. Armed(d, F)
    BY <2>1 DEF Armed
  <2>16. Keeps(c, d, F)
    BY <2>1, <2>3, <2>4, <2>5, <2>7, <2>13, <2>14, <2>15 DEF Keeps, Good
  <2> QED
    BY <2>1, <2>16 DEF d
<1> QED
  BY <1>2, <1>3

(* setNextWalkActionTask: the event that waited is stopped.                *)
LEMMA SetsTask ==
  ASSUME NEW c, NEW F, Good(c, F), NEW task \in BOOLEAN
  PROVE  Keeps(c, W!SetNextWalkActionTask(c, task), F)
<1> DEFINE d == W!SetNextWalkActionTask(c, task)
           e == c.walkTaskEvent
<1>1. Walker(c) /\ Posts(c) /\ Remembers(c) /\ OneTask(c, F)
  BY DEF Good
<1>2. /\ DOMAIN d = WalkerFields /\ d.path = c.path /\ d.cancel = c.cancel
      /\ d.mobile = c.mobile /\ d.eventWalk = c.eventWalk /\ d.walkTask = task
      /\ d.walkTaskEvent = 0 /\ d.last = c.last
      /\ d.posts = IF e = 0 THEN c.posts ELSE Append(c.posts, W!Cancel(e))
      /\ d.walkEvents = c.walkEvents
      /\ d.wasStopped = IF e = 0 THEN c.wasStopped ELSE c.wasStopped \cup {e}
  BY <1>1 DEF Walker, WalkerFields, W!SetNextWalkActionTask, W!Stopped
<1> HIDE DEF d
<1>3. e # 0 => e \in 1 .. c.last /\ e \notin c.walkEvents
  BY <1>1 DEF Walker, Remembers
<1>4. New(d) = New(c) /\ Flying(d, F) = Flying(c, F)
  BY <1>2 DEF New, Flying
<1>5. Posts(d)
  <2>1. CASE e = 0
    BY <1>1, <1>2, <1>4, <2>1 DEF Posts
  <2>2. CASE e # 0
    BY <1>1, <1>2, <1>3, <2>2, PostsCancel
  <2> QED
    BY <2>1, <2>2
<1>6. Walker(d)
  BY <1>1, <1>2, <1>3 DEF Walker
<1>7. Remembers(d)
  <2>1. 0 \notin c.walkEvents
    BY <1>1 DEF Walker
  <2> QED
    BY <1>1, <1>2, <1>3, <2>1 DEF Remembers
<1>8. OneTask(d, F)
  <2>1. 0 \notin Flying(c, F)
    BY <1>1 DEF Flying, New, Walker, Good
  <2>2. Flying(d, F) \ (d.walkEvents \cup d.wasStopped) \subseteq {0}
    BY <1>1, <1>2, <1>4 DEF OneTask
  <2> QED
    BY <1>1, <1>2, <1>4, <2>1, <2>2 DEF OneTask
<1>9. Free(d, F) = Free(c, F) /\ Late(d, F) = Late(c, F)
  BY <1>2, <1>3, <1>4 DEF Free, Late
<1>10. Keeps(c, d, F)
  BY <1>2, <1>4, <1>5, <1>6, <1>7, <1>8, <1>9 DEF Keeps, Good, Chained, Loose, Armed
<1> QED
  BY <1>10 DEF d

(* The end of the walk schedules the action that waited for it.            *)
LEMMA CompletesWalk ==
  ASSUME NEW c, NEW F, Good(c, F)
  PROVE  Keeps(c, W!OnWalkComplete(c), F)
<1> DEFINE d == W!OnWalkComplete(c)
           id == c.last + 1
<1>1. Walker(c) /\ Posts(c) /\ Remembers(c) /\ OneTask(c, F) /\ F \subseteq 1 .. lastEventId
  BY DEF Good
<1>2. CASE ~ c.walkTask
  <2>1. d = c
    BY <1>2 DEF W!OnWalkComplete
  <2> HIDE DEF d
  <2> QED
    BY <2>1 DEF Keeps, d
<1>3. CASE c.walkTask
  <2>1. /\ DOMAIN d = WalkerFields /\ d.path = c.path /\ d.cancel = c.cancel
        /\ d.mobile = c.mobile /\ d.eventWalk = c.eventWalk /\ d.walkTask = FALSE
        /\ d.walkTaskEvent = id /\ d.last = id
        /\ d.posts = Append(c.posts, W!Insert(c.last + 1))
        /\ d.walkEvents = c.walkEvents /\ d.wasStopped = c.wasStopped
    BY <1>1, <1>3 DEF Walker, WalkerFields, W!OnWalkComplete, W!Scheduled
  <2> HIDE DEF d
  <2>2. Posts(d)
    BY <1>1, <2>1, PostsInsert
  <2>3. /\ New(d) = New(c) \cup {id} /\ Flying(d, F) = Flying(c, F) \cup {id}
        /\ id \notin c.walkEvents /\ id \notin c.wasStopped
    <3>1. New(d) = New(c) \cup {id}
      BY SMTT(40), <1>1, <2>1 DEF New, Walker
    <3>2. id \notin c.walkEvents /\ id \notin c.wasStopped
      BY <1>1 DEF Walker
    <3> QED
      BY <3>1, <3>2 DEF Flying
  <2>4. Walker(d) /\ Remembers(d)
    <3>1. /\ \A n \in 0 .. c.last : n \in 0 .. id
          /\ \A n \in 1 .. c.last : n \in 1 .. id
          /\ id \in Nat /\ id \in 0 .. id /\ lastEventId <= id /\ id # 0
      BY <1>1 DEF Walker
    <3> HIDE DEF id
    <3>2. Walker(d)
      BY <1>1, <2>1, <3>1 DEF Walker
    <3>3. Remembers(d)
      BY <1>1, <2>1, <2>3, <3>1 DEF Remembers
    <3> QED
      BY <3>2, <3>3
  <2>5. OneTask(d, F)
    BY <1>1, <1>3, <2>1, <2>3 DEF OneTask
  <2>6. Free(d, F) = Free(c, F) /\ Late(d, F) = Late(c, F)
    BY <2>1, <2>3 DEF Free, Late
  <2>7. Keeps(c, d, F)
    BY <1>1, <2>1, <2>2, <2>3, <2>4, <2>5, <2>6 DEF Keeps, Good, Chained, Loose, Armed
  <2> QED
    BY <2>7 DEF d
<1> QED
  BY <1>1, <1>2, <1>3 DEF Walker

(* The next step of the walk is scheduled where none is remembered.        *)
NextStep(c) ==
    [W!Scheduled(c) EXCEPT !.eventWalk = c.last + 1, !.walkEvents = @ \cup {c.last + 1}]

(* The invariant of a record after its next step was scheduled.            *)
LEMMA SchedulesStep ==
  ASSUME NEW c, NEW F, Good(c, F), c.eventWalk = 0, Loose(c, F)
  PROVE  LET d == NextStep(c) IN Good(d, F) /\ Chained(d, F) /\ Armed(d, F)
<1> DEFINE d == NextStep(c)
           id == c.last + 1
<1>1. Walker(c) /\ Posts(c) /\ Remembers(c) /\ OneTask(c, F) /\ F \subseteq 1 .. lastEventId
  BY DEF Good
<1>2. /\ DOMAIN d = WalkerFields /\ d.path = c.path /\ d.cancel = c.cancel
      /\ d.mobile = c.mobile /\ d.eventWalk = id /\ d.walkTask = c.walkTask
      /\ d.walkTaskEvent = c.walkTaskEvent /\ d.last = id
      /\ d.posts = Append(c.posts, W!Insert(c.last + 1))
      /\ d.walkEvents = c.walkEvents \cup {id} /\ d.wasStopped = c.wasStopped
  BY <1>1 DEF Walker, WalkerFields, NextStep, W!Scheduled
<1> HIDE DEF d
<1>3. Posts(d)
  BY <1>1, <1>2, PostsInsert
<1>4. /\ New(d) = New(c) \cup {id} /\ Flying(d, F) = Flying(c, F) \cup {id}
      /\ id \notin c.walkEvents /\ id \notin c.wasStopped /\ id # c.walkTaskEvent
  BY SMTT(40), <1>1, <1>2 DEF New, Flying, Walker
<1>5. Walker(d)
  <2>1. (\A n \in 0 .. c.last : n \in 0 .. id) /\ id \in 0 .. id
    BY <1>1 DEF Walker
  <2> QED
    BY <1>1, <1>2, <2>1 DEF Walker
<1>6. Remembers(d)
  BY <1>1, <1>2, <1>4 DEF Remembers
<1>7. OneTask(d, F)
  BY <1>1, <1>2, <1>4 DEF OneTask
<1>8. Free(d, F) \ {d.eventWalk} = Free(c, F) /\ Late(d, F) = Late(c, F)
  BY <1>1, <1>2, <1>4 DEF Free, Late, Walker
<1>9. Chained(d, F) /\ Armed(d, F)
  BY <1>2, <1>4, <1>8 DEF Chained, Loose, Armed
<1> QED
  BY <1>1, <1>3, <1>5, <1>6, <1>7, <1>9 DEF Good, d

-----------------------------------------------------------------------------
(* The functions of the walk.                                              *)
LEMMA KeepsOn ==
  ASSUME NEW c, NEW d, NEW e, NEW F, Keeps(c, d, F), Keeps(d, e, F)
  PROVE  Keeps(c, e, F)
BY DEF Keeps

(* A change of speed: without any, the walk stops.                         *)
LEMMA SetsSpeed ==
  ASSUME NEW c, NEW F, Good(c, F), NEW on \in BOOLEAN
  PROVE  Keeps(c, W!SetSpeed(c, on), F)
<1> DEFINE b == IF on THEN c ELSE W!StopEventWalk(c)
           d == W!SetSpeed(c, on)
<1>1. Keeps(c, b, F)
  <2>1. Keeps(c, c, F)
    BY DEF Keeps
  <2> QED
    BY <2>1, StopsWalk
<1>2. d = [b EXCEPT !.mobile = on, !.cancel = @ \/ ~on]
  BY DEF W!SetSpeed
<1> HIDE DEF b, d
<1>3. Good(b, F)
  BY <1>1 DEF Keeps
<1>4. /\ DOMAIN d = WalkerFields /\ d.path = b.path /\ d.cancel \in BOOLEAN
      /\ d.mobile = on /\ d.eventWalk = b.eventWalk /\ d.walkTask = b.walkTask
      /\ d.walkTaskEvent = b.walkTaskEvent /\ d.last = b.last /\ d.posts = b.posts
      /\ d.walkEvents = b.walkEvents /\ d.wasStopped = b.wasStopped
      /\ b.path \in 0 .. MaxPath
  BY <1>2, <1>3 DEF Good, Walker, WalkerFields
<1>5. Keeps(b, d, F)
  BY <1>3, <1>4, PlainKeeps
<1> QED
  BY <1>1, <1>5, KeepsOn DEF d

(* One step, whatever it meets.                                            *)
LEMMA TakesStep ==
  ASSUME NEW c, NEW F, Good(c, F), NEW outcome \in W!Outcome
  PROVE  Keeps(c, W!TakeStep(c, outcome), F)
<1> DEFINE popped == [c EXCEPT !.path = @ - 1]
<1>1. c.path \in 0 .. MaxPath /\ DOMAIN c = WalkerFields /\ c.cancel \in BOOLEAN
      /\ c.mobile \in BOOLEAN
  BY DEF Good, Walker
<1>2. CASE outcome = "wait"
  <2>1. W!TakeStep(c, outcome) = c
    BY <1>2 DEF W!TakeStep
  <2> QED
    BY <2>1 DEF Keeps
<1>3. CASE outcome # "wait" /\ c.path = 0
  <2> DEFINE b == W!StopEventWalk(c)
  <2>1. W!TakeStep(c, outcome) = W!OnWalkComplete(b)
    BY <1>3 DEF W!TakeStep
  <2>2. Keeps(c, b, F)
    BY StopsWalk
  <2> HIDE DEF b
  <2>3. Keeps(b, W!OnWalkComplete(b), F)
    BY <2>2, CompletesWalk DEF Keeps
  <2> QED
    BY <2>1, <2>2, <2>3, KeepsOn
<1>4. CASE outcome # "wait" /\ c.path > 0
  <2>1. /\ DOMAIN popped = WalkerFields /\ popped.path \in 0 .. MaxPath
        /\ popped.cancel = c.cancel /\ popped.mobile = c.mobile
        /\ popped.eventWalk = c.eventWalk /\ popped.walkTask = c.walkTask
        /\ popped.walkTaskEvent = c.walkTaskEvent /\ popped.last = c.last
        /\ popped.posts = c.posts
        /\ popped.walkEvents = c.walkEvents /\ popped.wasStopped = c.wasStopped
    BY <1>1, <1>4, WalkAssumption DEF WalkerFields
  <2>2. \/ W!TakeStep(c, outcome) = popped
        \/ W!TakeStep(c, outcome) = W!StopEventWalk(popped)
        \/ W!TakeStep(c, outcome) = W!SetSpeed(popped, FALSE)
    <3>1. c.path # 0 /\ c.path > 0
      BY <1>1, <1>4
    <3>2. CASE outcome \in {"move", "fail"}
      BY <3>1, <3>2 DEF W!TakeStep
    <3>3. CASE outcome = "teleport"
      BY <3>1, <3>3 DEF W!TakeStep
    <3>4. CASE outcome = "paralyzed"
      BY <3>1, <3>4 DEF W!TakeStep
    <3> QED
      BY <1>4, <3>2, <3>3, <3>4 DEF W!Outcome
  <2> HIDE DEF popped
  <2>3. Keeps(c, popped, F)
    BY <1>1, <2>1, PlainKeeps
  <2>4. Keeps(popped, W!StopEventWalk(popped), F) /\ Keeps(popped, W!SetSpeed(popped, FALSE), F)
    BY <2>3, StopsWalk, SetsSpeed DEF Keeps
  <2> QED
    BY <2>2, <2>3, <2>4, KeepsOn
<1> QED
  BY <1>1, <1>2, <1>3, <1>4

(* A step and the abort of a walk that was cancelled.                      *)
LEMMA Walks ==
  ASSUME NEW c, NEW F, Good(c, F), NEW outcome \in W!Outcome
  PROVE  Keeps(c, W!Walked(c, outcome), F)
<1> DEFINE b == W!TakeStep(c, outcome)
           a == W!SetNextWalkActionTask(b, FALSE)
           d == [a EXCEPT !.path = 0, !.cancel = FALSE]
<1>1. W!Walked(c, outcome) = c \/ W!Walked(c, outcome) = b \/ W!Walked(c, outcome) = d
  BY DEF W!Walked, W!AbortIfCancelled
<1>2. Keeps(c, c, F) /\ Keeps(c, b, F)
  BY TakesStep DEF Keeps
<1> HIDE DEF b
<1>3. Keeps(b, a, F)
  BY <1>2, SetsTask DEF Keeps
<1> HIDE DEF a
<1>4. Good(a, F)
  BY <1>3 DEF Keeps
<1>5. /\ DOMAIN d = WalkerFields /\ d.path \in 0 .. MaxPath /\ d.cancel \in BOOLEAN
      /\ d.mobile \in BOOLEAN /\ d.eventWalk = a.eventWalk /\ d.walkTask = a.walkTask
      /\ d.walkTaskEvent = a.walkTaskEvent /\ d.last = a.last /\ d.posts = a.posts
      /\ d.walkEvents = a.walkEvents /\ d.wasStopped = a.wasStopped
  BY <1>4, WalkAssumption DEF Good, Walker, WalkerFields
<1> HIDE DEF d
<1>6. Keeps(a, d, F)
  BY <1>4, <1>5, PlainKeeps
<1> QED
  BY <1>1, <1>2, <1>3, <1>6, KeepsOn

(* The record with no step remembered: one that is in flight is free.      *)
LEMMA LooseIsChained ==
  ASSUME NEW c, NEW F, Good(c, F), c.eventWalk = 0
  PROVE  Chained(c, F) <=> Loose(c, F)
<1>1. 0 \notin Free(c, F)
  BY DEF Free, Good, Walker
<1>2. Free(c, F) \ {c.eventWalk} = Free(c, F)
  BY <1>1
<1> QED
  BY <1>2 DEF Chained, Loose

(* addEventWalk.                                                           *)
LEMMA AddsEvent ==
  ASSUME NEW c, NEW F, Good(c, F), Chained(c, F), NEW instant \in BOOLEAN,
         NEW outcome \in W!Outcome
  PROVE  LET d == W!AddEventWalk(c, instant, outcome)
         IN  Good(d, F) /\ Chained(d, F) /\ (Armed(c, F) => Armed(d, F))
<1> DEFINE ready == [c EXCEPT !.cancel = FALSE]
           stepped == IF instant THEN W!Walked(ready, outcome) ELSE ready
           d == W!AddEventWalk(c, instant, outcome)
<1>1. /\ DOMAIN ready = WalkerFields /\ ready.path \in 0 .. MaxPath
      /\ ready.cancel \in BOOLEAN /\ ready.mobile \in BOOLEAN
      /\ ready.eventWalk = c.eventWalk /\ ready.walkTask = c.walkTask
      /\ ready.walkTaskEvent = c.walkTaskEvent /\ ready.last = c.last
      /\ ready.posts = c.posts
      /\ ready.walkEvents = c.walkEvents /\ ready.wasStopped = c.wasStopped
  BY DEF Good, Walker, WalkerFields
<1>2. d = IF c.eventWalk # 0 THEN ready ELSE NextStep(stepped)
  BY DEF W!AddEventWalk, NextStep
<1> HIDE DEF ready, d
<1>3. Keeps(c, ready, F)
  BY <1>1, PlainKeeps
<1>4. Keeps(ready, stepped, F)
  <2>1. Keeps(ready, ready, F) /\ Good(ready, F)
    BY <1>3 DEF Keeps
  <2> QED
    BY <2>1, Walks
<1> HIDE DEF stepped
<1>5. CASE c.eventWalk # 0
  BY <1>2, <1>3, <1>5 DEF Keeps, d
<1>6. CASE c.eventWalk = 0
  <2>1. Loose(c, F)
    BY <1>6, LooseIsChained
  <2>2. Good(stepped, F) /\ Loose(stepped, F) /\ stepped.eventWalk = 0
    BY <1>3, <1>4, <1>6, <2>1 DEF Keeps
  <2>3. LET n == NextStep(stepped) IN Good(n, F) /\ Chained(n, F) /\ Armed(n, F)
    BY <2>2, SchedulesStep
  <2> QED
    BY <1>2, <1>6, <2>3 DEF d
<1> QED
  BY <1>5, <1>6

-----------------------------------------------------------------------------
(* The state.  Each event in flight has one owner: the queue of handlers,  *)
(* a running timer, one that is done, or the dispatcher's inbox.  Only     *)
(* events that are remembered as stopped are cancelled, and one that was   *)
(* cancelled in time is in flight no more.                                 *)
OneOwner ==
    /\ W!BeingInserted \cap (armed \cup expired \cup aborted \cup W!InInbox) = {}
    /\ armed \cap (expired \cup aborted \cup W!InInbox) = {}
    /\ expired \cap (aborted \cup W!InInbox) = {}
    /\ aborted \cap W!InInbox = {}
    /\ stoppedInTime \cap W!InFlight = {}

Queue ==
    /\ posted \in Seq(Requests)
    /\ Elements(posted) \subseteq
          {W!Insert(i) : i \in 1 .. lastEventId} \cup {W!Cancel(i) : i \in wasStopped}
    /\ OnceIn(posted, Inserts)

Inbox ==
    /\ inbox \in Seq(W!EventId) /\ OnceIn(inbox, W!EventId)
    /\ ran \subseteq W!EventId /\ deleted \subseteq W!EventId

Events ==
    /\ lastEventId \in 0 .. MaxEvents /\ running = TRUE /\ stopped = FALSE
    /\ W!InFlight \cup aborted \cup stoppedInTime \subseteq 1 .. lastEventId

Timers == Queue /\ Inbox /\ Events /\ OneOwner

(* The creature: what Good and Chained say of the fields.                  *)
Fields ==
    /\ path \in 0 .. MaxPath
    /\ cancelNextWalk \in BOOLEAN /\ mobile \in BOOLEAN /\ walkTask \in BOOLEAN
    /\ eventWalk \in 0 .. lastEventId /\ walkTaskEvent \in 0 .. lastEventId
    /\ walkEvents \subseteq 1 .. lastEventId /\ wasStopped \subseteq 1 .. lastEventId
    /\ eventWalk # 0 => eventWalk \in walkEvents \ wasStopped
    /\ walkTaskEvent \notin walkEvents
    /\ W!OneWalkTask

FreeSteps == (W!InFlight \cap walkEvents) \ wasStopped
LateSteps == (wasStopped \cap walkEvents) \ (stoppedInTime \cup W!InFlight)
Chains == Cardinality(FreeSteps \ {eventWalk}) <= Cardinality(LateSteps)

(* A dead creature has a death task to come.  A living one without such a  *)
(* task has the event it remembers in flight.                              *)
Living ==
    /\ life \in {"alive", "dead", "gone"} /\ dying \in 0 .. MaxDeaths
    /\ autoWalk \in 0 .. MaxPath /\ blocked \in BOOLEAN
    /\ life = "dead" => dying > 0

Moving == life = "alive" /\ dying = 0 /\ eventWalk # 0 => eventWalk \in W!InFlight

WalkInv == Timers /\ Fields /\ Chains /\ Living /\ Moving

-----------------------------------------------------------------------------
(* Initially nothing is scheduled.                                         *)
LEMMA WalkInit == W!Init => WalkInv
<1> SUFFICES ASSUME W!Init PROVE WalkInv
  OBVIOUS
<1> USE DEF W!Init, W!SchedInit
<1>1. Elements(posted) = {} /\ Elements(inbox) = {} /\ W!InInbox = {} /\ W!BeingInserted = {}
  BY DEF Elements, W!InInbox, W!BeingInserted
<1>2. W!InFlight = {}
  BY <1>1 DEF W!InFlight
<1>3. Queue /\ Inbox
  BY <1>1 DEF Queue, Inbox, OnceIn
<1>4. Events /\ OneOwner
  BY <1>1, <1>2, WalkAssumption DEF Events, OneOwner
<1>5. /\ path = 0 /\ eventWalk = 0 /\ cancelNextWalk = FALSE /\ mobile = TRUE
      /\ blocked = FALSE /\ walkTask = FALSE /\ walkTaskEvent = 0 /\ autoWalk = 0
      /\ life = "alive" /\ dying = 0 /\ walkEvents = {} /\ wasStopped = {}
      /\ lastEventId = 0 /\ stoppedInTime = {}
  OBVIOUS
<1>6. Fields
  <2>1. path \in 0 .. MaxPath
    BY ONLY <1>5, WalkAssumption
  <2>2. W!OneWalkTask
    BY ONLY <1>2, <1>5 DEF W!OneWalkTask
  <2>3. cancelNextWalk \in BOOLEAN /\ mobile \in BOOLEAN /\ walkTask \in BOOLEAN
    BY ONLY <1>5
  <2>4. /\ eventWalk \in 0 .. lastEventId /\ walkTaskEvent \in 0 .. lastEventId
        /\ walkEvents \subseteq 1 .. lastEventId /\ wasStopped \subseteq 1 .. lastEventId
        /\ eventWalk # 0 => eventWalk \in walkEvents \ wasStopped
        /\ walkTaskEvent \notin walkEvents
    BY ONLY <1>5
  <2> QED
    BY ONLY <2>1, <2>2, <2>3, <2>4 DEF Fields
<1>7. Chains
  <2> DEFINE a == FreeSteps \ {eventWalk}
             b == LateSteps
  <2>1. a = {} /\ b = {}
    BY ONLY <1>2, <1>5 DEF FreeSteps, LateSteps
  <2>2. Cardinality({}) = 0
    BY FS_EmptySet
  <2>3. Chains <=> Cardinality(a) <= Cardinality(b)
    BY ONLY DEF Chains
  <2> HIDE DEF a, b
  <2> QED
    BY ONLY <2>1, <2>2, <2>3
<1>8. Living /\ Moving
  <2>1. autoWalk \in 0 .. MaxPath
    BY ONLY <1>5, WalkAssumption
  <2>2. dying \in 0 .. MaxDeaths
    BY ONLY <1>5, WalkAssumption
  <2>3. Moving
    BY ONLY <1>5 DEF Moving
  <2> QED
    BY ONLY <1>5, <2>1, <2>2, <2>3 DEF Living
<1> QED
  BY <1>3, <1>4, <1>6, <1>7, <1>8 DEF WalkInv, Timers

(* The record of the state, before a step that posts nothing yet: F are    *)
(* all events in flight, or all but one that is taken.                     *)
LEMMA NowIsGood ==
  ASSUME Timers, Fields, NEW F \in SUBSET W!InFlight
  PROVE  /\ Good(W!Now, F)
         /\ Flying(W!Now, F) = F
         /\ Free(W!Now, F) = (F \cap walkEvents) \ wasStopped
         /\ Late(W!Now, F) = (wasStopped \cap walkEvents) \ (stoppedInTime \cup F)
<1> DEFINE d == W!Now
<1>1. /\ DOMAIN d = WalkerFields /\ d.path = path /\ d.cancel = cancelNextWalk
      /\ d.mobile = mobile /\ d.eventWalk = eventWalk /\ d.walkTask = walkTask
      /\ d.walkTaskEvent = walkTaskEvent /\ d.last = lastEventId /\ d.posts = <<>>
      /\ d.walkEvents = walkEvents /\ d.wasStopped = wasStopped
  BY DEF W!Now, WalkerFields
<1> HIDE DEF d
<1>2. lastEventId \in Nat
  BY WalkAssumption DEF Timers, Events
<1>3. New(d) = {} /\ Flying(d, F) = F
  BY <1>1, <1>2 DEF New, Flying
<1>4. F \subseteq 1 .. lastEventId
  BY DEF Timers, Events
<1>5. Walker(d)
  BY <1>1, <1>2 DEF Walker, Fields
<1>6. Posts(d)
  BY <1>1, <1>3 DEF Posts, Elements, OnceIn
<1>7. Remembers(d)
  BY <1>1 DEF Remembers, Fields
<1>8. OneTask(d, F)
  BY <1>1, <1>3 DEF OneTask, Fields, W!OneWalkTask
<1>9. Free(d, F) = (F \cap walkEvents) \ wasStopped
  BY <1>1, <1>3 DEF Free
<1>10. Late(d, F) = (wasStopped \cap walkEvents) \ (stoppedInTime \cup F)
  BY <1>1, <1>3 DEF Late
<1> QED
  BY <1>3, <1>4, <1>5, <1>6, <1>7, <1>8, <1>9, <1>10 DEF Good, d

(* With all events, the record is chained and armed as the state is.       *)
LEMMA NowIsChained ==
  ASSUME Timers, Fields, Chains
  PROVE  /\ Good(W!Now, W!InFlight) /\ Chained(W!Now, W!InFlight)
         /\ Moving /\ life = "alive" /\ dying = 0 => Armed(W!Now, W!InFlight)
<1>1. W!Now.eventWalk = eventWalk
  BY DEF W!Now
<1> QED
  BY <1>1, NowIsGood DEF Chained, Chains, FreeSteps, LateSteps, Armed, Moving

-----------------------------------------------------------------------------
(* A step of the game thread.                                              *)

(* The events whose timer is not started yet, as elements of the queue.    *)
LEMMA BeingIs ==
  /\ \A i : i \in W!BeingInserted <=> i \in W!EventId /\ W!Insert(i) \in Elements(posted)
  /\ \A i : i \in W!BeingInserted' <=> i \in W!EventId /\ W!Insert(i) \in Elements(posted')
  /\ W!InInbox = Elements(inbox) /\ W!InInbox' = Elements(inbox')
BY DEF W!BeingInserted, Elements, W!InInbox

(* What a step posts goes to the end of the queue.                         *)
LEMMA QueueGrows ==
  ASSUME Timers, NEW F, NEW c, Good(c, F), W!Becomes(c)
  PROVE  /\ Queue' /\ lastEventId' = c.last /\ c.last \in 0 .. MaxEvents
         /\ W!BeingInserted' = W!BeingInserted \cup New(c)
<1>1. Walker(c) /\ Posts(c) /\ Remembers(c) /\ Queue /\ lastEventId \in 0 .. MaxEvents
  BY DEF Good, Timers, Events
<1>2. /\ posted' = posted \o c.posts /\ lastEventId' = c.last /\ c.last \in 0 .. MaxEvents
      /\ wasStopped' = c.wasStopped
  BY <1>1, WalkAssumption DEF W!Becomes, W!Post, Walker
<1> DEFINE s == posted
           t == c.posts
<1>3. s \in Seq(Requests) /\ t \in Seq(Requests) /\ OnceIn(s, Inserts) /\ OnceIn(t, Inserts)
  BY <1>1 DEF Queue, Posts
<1>4. Elements(s) \cap Elements(t) \cap Inserts = {}
  <2>1. ASSUME NEW i \in 1 .. lastEventId PROVE W!Insert(i) \notin Elements(t)
    <3>1. i \notin New(c)
      BY <1>1 DEF New, Walker
    <3>2. W!Insert(i) \in {W!Insert(k) : k \in New(c)} \cup {W!Cancel(k) : k \in c.wasStopped}
            => i \in New(c)
      BY RequestsDiffer
    <3> QED
      BY <1>1, <3>1, <3>2 DEF Posts
  <2>2. ASSUME NEW i \in wasStopped PROVE W!Cancel(i) \notin Inserts
    BY RequestsDiffer DEF Inserts
  <2> QED
    BY <1>1, <2>1, <2>2 DEF Queue
<1> HIDE DEF s, t
<1>5. /\ s \o t \in Seq(Requests) /\ OnceIn(s \o t, Inserts)
      /\ Elements(s \o t) = Elements(s) \cup Elements(t)
  BY <1>3, <1>4, ElementsConcat
<1>6. /\ posted' \in Seq(Requests) /\ OnceIn(posted', Inserts)
      /\ Elements(posted') = Elements(posted) \cup Elements(c.posts)
  BY <1>2, <1>5 DEF s, t
<1>7. Queue'
  <2>1. /\ Elements(posted) \subseteq {W!Insert(i) : i \in 1 .. lastEventId}
                                       \cup {W!Cancel(i) : i \in wasStopped}
        /\ Elements(c.posts) \subseteq {W!Insert(i) : i \in New(c)}
                                       \cup {W!Cancel(i) : i \in c.wasStopped}
    BY <1>1 DEF Queue, Posts
  <2>2. /\ \A i \in 1 .. lastEventId : i \in 1 .. c.last
        /\ \A i \in New(c) : i \in 1 .. c.last
        /\ wasStopped \subseteq c.wasStopped
    BY <1>1 DEF New, Walker, Remembers
  <2>3. Elements(posted') \subseteq {W!Insert(i) : i \in 1 .. c.last}
                                       \cup {W!Cancel(i) : i \in c.wasStopped}
    BY <1>6, <2>1, <2>2
  <2> QED
    BY <1>2, <1>6, <2>3 DEF Queue
<1>8. W!BeingInserted' = W!BeingInserted \cup New(c)
  <2>1. \A i : W!Insert(i) \in Elements(c.posts) <=> i \in New(c)
    BY <1>1, RequestsDiffer DEF Posts
  <2>2. New(c) \subseteq W!EventId
    BY <1>1, <1>2, WalkAssumption DEF New, Walker, W!EventId
  <2> QED
    BY <1>6, <2>1, <2>2, BeingIs
<1> QED
  BY <1>2, <1>7, <1>8

(* The step leaves the inbox alone, or it runs the oldest task of it: then *)
(* F are the events in flight without that one.                            *)
Runs(F) ==
    /\ UNCHANGED deleted
    /\ \/ inbox' = inbox /\ ran' = ran /\ F = W!InFlight
       \/ /\ inbox # <<>> /\ inbox' = Tail(inbox) /\ ran' = ran \cup {Head(inbox)}
          /\ F = W!InFlight \ {Head(inbox)}

(* The inbox after the step, and what is in flight without the task.       *)
LEMMA InboxAfter ==
  ASSUME Timers, NEW F, Runs(F)
  PROVE  /\ Inbox' /\ W!InInbox' \subseteq W!InInbox
         /\ W!BeingInserted \cup armed \cup expired \cup W!InInbox' = F
<1>1. CASE inbox' = inbox /\ ran' = ran /\ F = W!InFlight
  BY <1>1, BeingIs DEF Runs, Timers, Inbox, W!InFlight
<1>2. CASE /\ inbox # <<>> /\ inbox' = Tail(inbox) /\ ran' = ran \cup {Head(inbox)}
           /\ F = W!InFlight \ {Head(inbox)}
  <2> DEFINE s == inbox
             id == Head(inbox)
             E == W!EventId
  <2>1. s \in Seq(E) /\ s # <<>> /\ OnceIn(s, E) /\ id = Head(s)
    BY <1>2 DEF Timers, Inbox
  <2>2. inbox' = Tail(s)
    BY <1>2
  <2>3. W!InInbox = Elements(s) /\ W!InInbox' = Elements(inbox')
    BY BeingIs
  <2> HIDE DEF s, id, E
  <2>4. /\ Tail(s) \in Seq(E) /\ id \in E /\ Elements(s) = Elements(Tail(s)) \cup {id}
        /\ OnceIn(Tail(s), E) /\ id \notin Elements(Tail(s))
    BY <2>1, ElementsTail
  <2>5. W!InInbox' = W!InInbox \ {id} /\ id \in W!InInbox
    BY <2>2, <2>3, <2>4
  <2>6. Inbox'
    BY <1>2, <2>2, <2>4 DEF Runs, Timers, Inbox, E, id
  <2>7. W!BeingInserted \cup armed \cup expired \cup (W!InInbox \ {id}) = W!InFlight \ {id}
    BY <2>5 DEF Timers, OneOwner, W!InFlight
  <2> QED
    BY <1>2, <2>5, <2>6, <2>7 DEF id
<1> QED
  BY <1>1, <1>2 DEF Runs

(* A step of the game thread ends in a good record: the invariant holds    *)
(* again, and the events in flight are those of the record.                *)
LEMMA Lands ==
  ASSUME Timers, NEW F, NEW c, Good(c, F), W!Becomes(c), Runs(F)
  PROVE  /\ Timers' /\ Fields' /\ W!InFlight' = Flying(c, F)
         /\ Chained(c, F) => Chains'
         /\ Armed(c, F) => Moving'
<1>1. Walker(c) /\ Remembers(c) /\ OneTask(c, F) /\ F \subseteq 1 .. lastEventId
  BY DEF Good
<1>2. /\ Queue' /\ lastEventId' = c.last /\ c.last \in 0 .. MaxEvents
      /\ W!BeingInserted' = W!BeingInserted \cup New(c)
  BY QueueGrows
<1>3. /\ Inbox' /\ W!InInbox' \subseteq W!InInbox
      /\ W!BeingInserted \cup armed \cup expired \cup W!InInbox' = F
  BY InboxAfter
<1>4. /\ armed' = armed /\ expired' = expired /\ aborted' = aborted /\ running' = running
      /\ stopped' = stopped /\ stoppedInTime' = stoppedInTime
      /\ path' = c.path /\ eventWalk' = c.eventWalk /\ cancelNextWalk' = c.cancel
      /\ mobile' = c.mobile /\ walkTask' = c.walkTask
      /\ walkTaskEvent' = c.walkTaskEvent
      /\ walkEvents' = c.walkEvents /\ wasStopped' = c.wasStopped
  BY DEF W!Becomes, W!Post
<1>5. W!InFlight' = Flying(c, F)
  BY <1>2, <1>3, <1>4 DEF W!InFlight, Flying
<1>6. New(c) \cap (1 .. lastEventId) = {}
  BY <1>1 DEF New, Walker
<1>7. OneOwner'
  <2>1. /\ armed \subseteq 1 .. lastEventId /\ expired \subseteq 1 .. lastEventId
        /\ aborted \subseteq 1 .. lastEventId /\ W!InInbox \subseteq 1 .. lastEventId
        /\ stoppedInTime \subseteq 1 .. lastEventId
    BY DEF Timers, Events, W!InFlight
  <2>2. F \subseteq W!InFlight
    BY <1>3 DEF W!InFlight
  <2>3. OneOwner
    BY DEF Timers
  <2>4. stoppedInTime' \cap W!InFlight' = {}
    BY <1>4, <1>5, <1>6, <2>1, <2>2, <2>3 DEF OneOwner, Flying
  <2> QED
    BY <1>2, <1>3, <1>4, <1>6, <2>1, <2>3, <2>4 DEF OneOwner
<1>8. Events'
  <2>1. F \cup New(c) \cup aborted \cup stoppedInTime \subseteq 1 .. c.last
    BY <1>1, <1>2 DEF Walker, New, Timers, Events
  <2> QED
    BY <1>2, <1>4, <1>5, <2>1 DEF Timers, Events, Flying
<1>9. Fields'
  <2>1. W!OneWalkTask'
    BY <1>1, <1>4, <1>5 DEF OneTask, W!OneWalkTask
  <2> QED
    BY <1>1, <1>2, <1>4, <2>1 DEF Walker, Remembers, Fields
<1>10. ASSUME Chained(c, F) PROVE Chains'
  <2>1. (FreeSteps \ {eventWalk})' = Free(c, F) \ {c.eventWalk} /\ LateSteps' = Late(c, F)
    BY <1>4, <1>5 DEF FreeSteps, LateSteps, Free, Late
  <2> QED
    BY <1>10, <2>1 DEF Chained, Chains
<1>11. ASSUME Armed(c, F) PROVE Moving'
  BY <1>4, <1>5, <1>11 DEF Armed, Moving
<1> QED
  BY <1>2, <1>3, <1>5, <1>7, <1>8, <1>9, <1>10, <1>11 DEF Timers

-----------------------------------------------------------------------------
(* The tasks of the game thread, all but the one that runs an event.       *)
Sound(c) ==
    /\ Good(c, W!InFlight) /\ Chained(c, W!InFlight)
    /\ Armed(W!Now, W!InFlight) => Armed(c, W!InFlight)

(* The record of the state is sound, and what is kept of it stays so.      *)
LEMMA SoundNow ==
  ASSUME WalkInv
  PROVE  Sound(W!Now)
BY NowIsChained DEF Sound, WalkInv

(* What keeps the invariant of records keeps it sound.                     *)
LEMMA KeepsSound ==
  ASSUME NEW c, NEW d, Sound(c), Keeps(c, d, W!InFlight)
  PROVE  Sound(d)
BY DEF Keeps, Sound

(* A path of some length, or none, and a walk that is to be given up.      *)
LEMMA SoundPath ==
  ASSUME NEW c, Sound(c), NEW n \in 0 .. MaxPath
  PROVE  Sound([c EXCEPT !.path = n]) /\ Sound([c EXCEPT !.cancel = TRUE])
<1>1. Good(c, W!InFlight) /\ Walker(c)
  BY DEF Sound, Good
<1> DEFINE d == [c EXCEPT !.path = n]
           e == [c EXCEPT !.cancel = TRUE]
<1>2. /\ DOMAIN d = WalkerFields /\ d.path \in 0 .. MaxPath
      /\ d.cancel \in BOOLEAN /\ d.mobile \in BOOLEAN
      /\ d.eventWalk = c.eventWalk /\ d.walkTask = c.walkTask
      /\ d.walkTaskEvent = c.walkTaskEvent /\ d.last = c.last /\ d.posts = c.posts
      /\ d.walkEvents = c.walkEvents /\ d.wasStopped = c.wasStopped
  BY <1>1 DEF Walker, WalkerFields
<1>3. /\ DOMAIN e = WalkerFields /\ e.path \in 0 .. MaxPath
      /\ e.cancel \in BOOLEAN /\ e.mobile \in BOOLEAN
      /\ e.eventWalk = c.eventWalk /\ e.walkTask = c.walkTask
      /\ e.walkTaskEvent = c.walkTaskEvent /\ e.last = c.last /\ e.posts = c.posts
      /\ e.walkEvents = c.walkEvents /\ e.wasStopped = c.wasStopped
  BY <1>1 DEF Walker, WalkerFields
<1> HIDE DEF d, e
<1>4. Keeps(c, d, W!InFlight) /\ Keeps(c, e, W!InFlight)
  BY <1>1, <1>2, <1>3, PlainKeeps
<1>5. Sound(d) /\ Sound(e)
  BY <1>4, KeepsSound
<1> QED
  BY <1>5 DEF d, e

(* The functions a task calls.                                             *)
LEMMA SoundCalls ==
  ASSUME NEW c, Sound(c), NEW on \in BOOLEAN, NEW outcome \in W!Outcome
  PROVE  /\ Sound(W!StopEventWalk(c)) /\ Sound(W!SetNextWalkActionTask(c, on))
         /\ Sound(W!SetSpeed(c, on)) /\ Sound(W!AddEventWalk(c, on, outcome))
<1> DEFINE F == W!InFlight
           a == W!StopEventWalk(c)
           b == W!SetNextWalkActionTask(c, on)
           s == W!SetSpeed(c, on)
           d == W!AddEventWalk(c, on, outcome)
<1>1. Good(c, F) /\ Chained(c, F)
  BY DEF Sound
<1>2. Keeps(c, a, F) /\ Keeps(c, b, F) /\ Keeps(c, s, F)
  BY <1>1, StopsWalk, SetsTask, SetsSpeed
<1>3. Good(d, F) /\ Chained(d, F) /\ (Armed(c, F) => Armed(d, F))
  BY <1>1, AddsEvent
<1> HIDE DEF a, b, s, d
<1>4. Sound(d)
  BY <1>3 DEF Sound
<1>5. Sound(a) /\ Sound(b) /\ Sound(s)
  BY <1>2, KeepsSound
<1> QED
  BY <1>4, <1>5 DEF a, b, s, d

(* startAutoWalk.                                                          *)
LEMMA SoundStart ==
  ASSUME WalkInv, NEW n \in 1 .. MaxPath, W!StartAutoWalk(n)
  PROVE  \E c : Sound(c) /\ W!Becomes(c)
<1>1. CASE blocked
  BY <1>1, SoundNow DEF W!StartAutoWalk
<1>2. CASE ~ blocked
  <2> DEFINE b == [W!Now EXCEPT !.path = n]
  <2>1. PICK instant \in BOOLEAN, o \in W!Outcome : W!Becomes(W!AddEventWalk(b, instant, o))
    BY <1>2 DEF W!StartAutoWalk
  <2>2. n \in 0 .. MaxPath
    OBVIOUS
  <2>3. Sound(b)
    BY <2>2, SoundNow, SoundPath
  <2> HIDE DEF b
  <2> DEFINE c == W!AddEventWalk(b, instant, o)
  <2>4. Sound(c)
    BY <2>3, SoundCalls
  <2>5. W!Becomes(c)
    BY <2>1
  <2> HIDE DEF c
  <2> QED
    BY <2>4, <2>5
<1> QED
  BY <1>1, <1>2

(* An action is kept for the end of the walk to it.                        *)
LEMMA SoundRequest ==
  ASSUME WalkInv, NEW n \in 1 .. MaxPath, W!Request(n)
  PROVE  \E c : Sound(c) /\ W!Becomes(c)
<1> DEFINE c == W!SetNextWalkActionTask(W!Now, TRUE)
<1>1. W!Becomes(c)
  BY DEF W!Request
<1>2. TRUE \in BOOLEAN /\ "wait" \in W!Outcome
  BY DEF W!Outcome
<1>3. Sound(c)
  BY <1>2, SoundNow, SoundCalls
<1> HIDE DEF c
<1> QED
  BY <1>1, <1>3

(* A task that runs no event, and what it leaves alone.                    *)
Quiet == UNCHANGED <<inbox, ran, blocked, life, dying>>

(* playerMove: an action that waits is given up for a step.                *)
LEMMA MoveTask ==
  ASSUME WalkInv, W!PlayerMove
  PROVE  (\E c : Sound(c) /\ W!Becomes(c)) /\ Quiet /\ UNCHANGED autoWalk
<1> DEFINE a == W!SetNextWalkActionTask(W!Now, FALSE)
<1>1. PICK instant \in BOOLEAN, o \in W!Outcome :
          W!Becomes(W!AddEventWalk([a EXCEPT !.path = 1], instant, o))
  BY DEF W!PlayerMove
<1>2. FALSE \in BOOLEAN /\ 1 \in 0 .. MaxPath
  BY WalkAssumption
<1>3. Sound(a)
  BY <1>1, <1>2, SoundNow, SoundCalls
<1> HIDE DEF a
<1> DEFINE b == [a EXCEPT !.path = 1]
<1>4. Sound(b)
  BY <1>2, <1>3, SoundPath
<1> HIDE DEF b
<1> DEFINE c == W!AddEventWalk(b, instant, o)
<1>5. Sound(c)
  BY <1>4, SoundCalls
<1>6. W!Becomes(c)
  BY <1>1 DEF b
<1> HIDE DEF c
<1> QED
  BY <1>5, <1>6 DEF W!PlayerMove, Quiet

(* A new path, or none.                                                    *)
LEMMA PathTasks ==
  ASSUME WalkInv, W!PlayerAutoWalk \/ W!UpdateFollowPath \/ W!FollowCreature
  PROVE  (\E c : Sound(c) /\ W!Becomes(c)) /\ Quiet /\ UNCHANGED autoWalk
<1>1. CASE W!PlayerAutoWalk
  BY <1>1, SoundStart DEF W!PlayerAutoWalk, Quiet
<1>2. CASE W!UpdateFollowPath
  <2>1. CASE \E n \in 1 .. MaxPath : W!StartAutoWalk(n)
    BY <1>2, <2>1, SoundStart DEF W!UpdateFollowPath, Quiet
  <2>2. CASE W!Becomes([W!Now EXCEPT !.path = 0])
    <3>1. 0 \in 0 .. MaxPath
      BY WalkAssumption
    <3>2. Sound([W!Now EXCEPT !.path = 0])
      BY <3>1, SoundNow, SoundPath
    <3> QED
      BY <1>2, <2>2, <3>2 DEF W!UpdateFollowPath, Quiet
  <2> QED
    BY <1>2, <2>1, <2>2 DEF W!UpdateFollowPath
<1>3. CASE W!FollowCreature
  <2> DEFINE a == W!SetNextWalkActionTask(W!Now, FALSE)
  <2>1. FALSE \in BOOLEAN /\ 0 \in 0 .. MaxPath /\ "wait" \in W!Outcome
    BY WalkAssumption DEF W!Outcome
  <2>2. Sound(a)
    BY <2>1, SoundNow, SoundCalls
  <2>3. W!Becomes([a EXCEPT !.path = 0])
    BY <1>3 DEF W!FollowCreature
  <2> HIDE DEF a
  <2>4. Sound([a EXCEPT !.path = 0])
    BY <2>1, <2>2, SoundPath
  <2> QED
    BY <1>3, <2>3, <2>4 DEF W!FollowCreature, Quiet
<1> QED
  BY <1>1, <1>2, <1>3

(* The use of an item out of reach, and the walk to it.                    *)
LEMMA ActionTasks ==
  ASSUME WalkInv, W!UseFarItem \/ W!RunAutoWalk
  PROVE  (\E c : Sound(c) /\ W!Becomes(c)) /\ Quiet /\ autoWalk' \in 0 .. MaxPath
<1>1. CASE W!UseFarItem
  <2>1. PICK n \in 1 .. MaxPath : W!Request(n)
    BY <1>1 DEF W!UseFarItem
  <2>2. autoWalk' \in 0 .. MaxPath
    BY <2>1 DEF W!Request
  <2> QED
    BY <1>1, <2>1, <2>2, SoundRequest DEF W!UseFarItem, Quiet
<1>2. CASE W!RunAutoWalk
  <2>1. autoWalk' \in 0 .. MaxPath /\ autoWalk \in 1 .. MaxPath
    BY <1>2, WalkAssumption DEF W!RunAutoWalk, WalkInv, Living
  <2>2. CASE life = "gone"
    BY <1>2, <2>1, <2>2, SoundNow DEF W!RunAutoWalk, Quiet
  <2>3. CASE life # "gone"
    BY <1>2, <2>1, <2>3, SoundStart DEF W!RunAutoWalk, Quiet
  <2> QED
    BY <2>2, <2>3
<1> QED
  BY <1>1, <1>2

(* A cancelled walk, a teleport, a change of speed.                        *)
LEMMA SpeedTasks ==
  ASSUME WalkInv, W!StopWalk \/ W!ChangeSpeed \/ W!Teleport
  PROVE  (\E c : Sound(c) /\ W!Becomes(c)) /\ Quiet /\ UNCHANGED autoWalk
<1>1. CASE W!StopWalk
  <2>1. 0 \in 0 .. MaxPath
    BY WalkAssumption
  <2>2. Sound([W!Now EXCEPT !.cancel = TRUE])
    BY <2>1, SoundNow, SoundPath
  <2> QED
    BY <1>1, <2>2 DEF W!StopWalk, Quiet
<1>2. CASE W!Teleport
  <2>1. "wait" \in W!Outcome /\ TRUE \in BOOLEAN
    BY DEF W!Outcome
  <2>2. Sound(W!StopEventWalk(W!Now))
    BY <2>1, SoundNow, SoundCalls
  <2> QED
    BY <1>2, <2>2 DEF W!Teleport, Quiet
<1>3. CASE W!ChangeSpeed
  <2>1. "wait" \in W!Outcome /\ TRUE \in BOOLEAN /\ FALSE \in BOOLEAN
    BY DEF W!Outcome
  <2>2. Sound(W!SetSpeed(W!Now, FALSE)) /\ Sound(W!SetSpeed(W!Now, TRUE))
    BY <2>1, SoundNow, SoundCalls
  <2>3. CASE W!Becomes(W!SetSpeed(W!Now, FALSE))
    BY <1>3, <2>2, <2>3 DEF W!ChangeSpeed, Quiet
  <2>4. CASE \E o \in W!Outcome, instant \in BOOLEAN :
                LET c == W!SetSpeed(W!Now, TRUE)
                IN  W!Becomes(IF path > 0 THEN W!AddEventWalk(c, instant, o) ELSE c)
    <3> DEFINE b == W!SetSpeed(W!Now, TRUE)
    <3>1. PICK o \in W!Outcome, instant \in BOOLEAN :
              W!Becomes(IF path > 0 THEN W!AddEventWalk(b, instant, o) ELSE b)
      BY <2>4
    <3>2. Sound(b)
      BY <2>2
    <3> HIDE DEF b
    <3> DEFINE c == IF path > 0 THEN W!AddEventWalk(b, instant, o) ELSE b
    <3>3. Sound(W!AddEventWalk(b, instant, o))
      BY <3>2, SoundCalls
    <3>4. Sound(c)
      BY <3>2, <3>3
    <3>5. W!Becomes(c)
      BY <3>1
    <3> HIDE DEF c
    <3> QED
      BY <1>3, <3>4, <3>5 DEF W!ChangeSpeed, Quiet
  <2> QED
    BY <1>3, <2>3, <2>4 DEF W!ChangeSpeed
<1> QED
  BY <1>1, <1>2, <1>3

(* A task that ends in a sound record keeps the invariant.                 *)
LEMMA SoundStep ==
  ASSUME WalkInv, NEW c, Sound(c), W!Becomes(c), UNCHANGED <<inbox, ran>>
  PROVE  /\ Timers' /\ Fields' /\ Chains'
         /\ UNCHANGED <<life, dying>> => Moving'
<1>1. UNCHANGED deleted
  BY DEF W!Becomes, W!Post
<1>2. Runs(W!InFlight)
  BY <1>1 DEF Runs
<1>3. Timers' /\ Fields' /\ Chains' /\ (Armed(c, W!InFlight) => Moving')
  BY <1>2, Lands DEF WalkInv, Sound
<1>4. life = "alive" /\ dying = 0 => Armed(c, W!InFlight)
  BY NowIsChained DEF WalkInv, Sound
<1>5. ASSUME UNCHANGED <<life, dying>> PROVE Moving'
  <2>1. CASE life = "alive" /\ dying = 0
    BY <1>3, <1>4, <2>1
  <2>2. CASE ~ (life = "alive" /\ dying = 0)
    BY <1>5, <2>2 DEF Moving
  <2> QED
    BY <2>1, <2>2
<1> QED
  BY <1>3, <1>5

(* All these tasks keep the invariant.                                     *)
LEMMA QuietNext ==
  ASSUME WalkInv,
         \/ W!PlayerMove \/ W!PlayerAutoWalk \/ W!UpdateFollowPath \/ W!FollowCreature
         \/ W!UseFarItem \/ W!RunAutoWalk \/ W!StopWalk \/ W!ChangeSpeed \/ W!Teleport
  PROVE  WalkInv'
<1>1. (\E c : Sound(c) /\ W!Becomes(c)) /\ Quiet /\ autoWalk' \in 0 .. MaxPath
  <2>1. autoWalk \in 0 .. MaxPath
    BY DEF WalkInv, Living
  <2> QED
    BY <2>1, MoveTask, PathTasks, ActionTasks, SpeedTasks
<1>2. PICK c : Sound(c) /\ W!Becomes(c)
  BY <1>1
<1>3. Timers' /\ Fields' /\ Chains' /\ Moving'
  BY <1>1, <1>2, SoundStep DEF Quiet
<1>4. Living'
  BY <1>1 DEF Quiet, WalkInv, Living
<1> QED
  BY <1>3, <1>4 DEF WalkInv

(* setMovementBlocked, blows, healing and death.                           *)
LEMMA LifeNext ==
  ASSUME WalkInv, W!SetMovementBlocked \/ W!Die \/ W!Heal \/ W!ExecuteDeath
  PROVE  WalkInv'
<1>1. Living /\ Sound(W!Now)
  BY SoundNow DEF WalkInv
<1>2. CASE W!SetMovementBlocked
  <2>1. 0 \in 0 .. MaxPath
    BY WalkAssumption
  <2> DEFINE c == [W!Now EXCEPT !.cancel = TRUE]
  <2>2. Sound(c) /\ W!Becomes(c)
    BY <1>1, <1>2, <2>1, SoundPath DEF W!SetMovementBlocked
  <2> HIDE DEF c
  <2>3. Timers' /\ Fields' /\ Chains' /\ Moving'
    BY <1>2, <2>2, SoundStep DEF W!SetMovementBlocked
  <2>4. Living'
    BY <1>1, <1>2 DEF W!SetMovementBlocked, Living
  <2> QED
    BY <2>3, <2>4 DEF WalkInv
<1>3. CASE W!Die
  <2>1. Timers' /\ Fields' /\ Chains'
    BY <1>1, <1>3, SoundStep DEF W!Die
  <2>2. Living' /\ Moving'
    BY <1>1, <1>3, WalkAssumption DEF W!Die, Living, Moving
  <2> QED
    BY <2>1, <2>2 DEF WalkInv
<1>4. CASE W!Heal
  <2>1. Timers' /\ Fields' /\ Chains'
    BY <1>1, <1>4, SoundStep DEF W!Heal
  <2>2. Living' /\ Moving'
    BY <1>1, <1>4, WalkAssumption DEF W!Heal, Living, Moving
  <2> QED
    BY <2>1, <2>2 DEF WalkInv
<1>5. CASE W!ExecuteDeath
  <2>1. UNCHANGED <<inbox, ran, blocked, autoWalk>> /\ dying' = dying - 1 /\ dying > 0
    BY <1>5 DEF W!ExecuteDeath
  <2>2. /\ life' \in {"alive", "gone"}
        /\ \/ life' = "alive" /\ W!Becomes(W!StopEventWalk(W!Now))
           \/ life' = "gone" /\ W!Becomes(W!Now)
    BY <1>5 DEF W!ExecuteDeath
  <2>3. Living'
    BY <1>1, <2>1, <2>2, WalkAssumption DEF Living
  <2>4. CASE life' = "gone" /\ W!Becomes(W!Now)
    <3>1. Timers' /\ Fields' /\ Chains'
      BY <1>1, <2>1, <2>4, SoundStep
    <3> QED
      BY <2>3, <2>4, <3>1 DEF WalkInv, Moving
  <2>5. CASE life' = "alive" /\ W!Becomes(W!StopEventWalk(W!Now))
    <3> DEFINE c == W!StopEventWalk(W!Now)
    <3>1. "wait" \in W!Outcome /\ TRUE \in BOOLEAN
      BY DEF W!Outcome
    <3>2. Sound(c) /\ c.eventWalk = 0
      BY <1>1, <3>1, SoundCalls, StopsWalk DEF Sound
    <3>3. W!Becomes(c)
      BY <2>5
    <3> HIDE DEF c
    <3>4. Timers' /\ Fields' /\ Chains'
      BY <2>1, <3>2, <3>3, SoundStep
    <3>5. Moving'
      BY <3>2, <3>3 DEF W!Becomes, Moving
    <3> QED
      BY <2>3, <3>4, <3>5 DEF WalkInv
  <2> QED
    BY <2>2, <2>4, <2>5
<1> QED
  BY <1>2, <1>3, <1>4, <1>5

-----------------------------------------------------------------------------
(* The task of an expired event.  Once the event of a step is taken, the   *)
(* chain it is of needs no exception for the step that is remembered: it   *)
(* was that step, or a second chain has ended, or it was stopped too late. *)
LEMMA TakenIsGood ==
  ASSUME WalkInv, NEW id \in W!InFlight
  PROVE  LET F == W!InFlight \ {id}
         IN  /\ Good(W!Now, F) /\ Chained(W!Now, F)
             /\ id \in walkEvents => Loose(W!Now, F)
             /\ id \notin walkEvents
                  => (Armed(W!Now, W!InFlight) => Armed(W!Now, F))
<1> DEFINE F == W!InFlight \ {id}
           X == FreeSteps
           Y == LateSteps
           e == eventWalk
           XF == Free(W!Now, F)
           YF == Late(W!Now, F)
<1>1. Timers /\ Fields /\ Chains /\ W!Now.eventWalk = eventWalk
  BY DEF WalkInv, W!Now
<1>2. /\ Good(W!Now, F) /\ Good(W!Now, W!InFlight)
      /\ Flying(W!Now, F) = F /\ Flying(W!Now, W!InFlight) = W!InFlight
      /\ XF = (F \cap walkEvents) \ wasStopped
      /\ YF = (wasStopped \cap walkEvents) \ (stoppedInTime \cup F)
      /\ X = Free(W!Now, W!InFlight) /\ Y = Late(W!Now, W!InFlight)
  <2>1. F \in SUBSET W!InFlight /\ W!InFlight \in SUBSET W!InFlight
    OBVIOUS
  <2> QED
    BY <1>1, <2>1, NowIsGood DEF FreeSteps, LateSteps
<1>3. /\ IsFiniteSet(X) /\ IsFiniteSet(Y) /\ IsFiniteSet(XF) /\ IsFiniteSet(YF)
      /\ Cardinality(X) \in Nat /\ Cardinality(Y) \in Nat
      /\ Cardinality(XF) \in Nat /\ Cardinality(YF) \in Nat
  BY <1>2, Finite DEF Good
<1>4. /\ XF = X \ {id}
      /\ id \in walkEvents \cap wasStopped => XF = X /\ YF = Y \cup {id} /\ id \notin Y
      /\ id \notin walkEvents => XF = X /\ YF = Y
      /\ id \in walkEvents \ wasStopped => id \in X /\ YF = Y
  BY SMTT(40), <1>1, <1>2 DEF FreeSteps, LateSteps, Timers, OneOwner
<1> HIDE DEF X, Y, XF, YF
<1>5. /\ Cardinality(X \ {e}) = IF e \in X THEN Cardinality(X) - 1 ELSE Cardinality(X)
      /\ Cardinality(XF \ {e}) = IF e \in XF THEN Cardinality(XF) - 1 ELSE Cardinality(XF)
      /\ Cardinality(X \ {id}) = IF id \in X THEN Cardinality(X) - 1 ELSE Cardinality(X)
      /\ Cardinality(Y \cup {id}) = IF id \in Y THEN Cardinality(Y) ELSE Cardinality(Y) + 1
  BY <1>3, FS_AddElement, FS_RemoveElement
<1>6. Cardinality(X \ {e}) <= Cardinality(Y)
  BY <1>1 DEF Chains, X, Y
<1>7. id \in walkEvents => Cardinality(XF) <= Cardinality(YF)
  <2> DEFINE x == Cardinality(X)
             y == Cardinality(Y)
             xe == Cardinality(X \ {e})
             xd == Cardinality(X \ {id})
             yd == Cardinality(Y \cup {id})
  <2>1. /\ x \in Nat /\ y \in Nat /\ xe <= y /\ (xe = x - 1 \/ xe = x)
        /\ id \in X => xd = x - 1
        /\ id \notin Y => yd = y + 1
    BY <1>3, <1>5, <1>6
  <2> HIDE DEF x, y, xe, xd, yd
  <2>2. CASE id \in walkEvents \cap wasStopped
    <3>1. Cardinality(XF) = x /\ Cardinality(YF) = yd /\ yd = y + 1
      BY <1>4, <2>1, <2>2 DEF x, yd
    <3> QED
      BY <2>1, <3>1
  <2>3. CASE id \in walkEvents \ wasStopped
    <3>1. Cardinality(XF) = xd /\ Cardinality(YF) = y /\ xd = x - 1
      BY <1>4, <2>1, <2>3 DEF xd, y
    <3> QED
      BY <2>1, <3>1
  <2> QED
    BY <2>2, <2>3
<1>8. Cardinality(XF \ {e}) <= Cardinality(YF)
  <2>1. CASE id \in walkEvents
    BY <1>3, <1>5, <1>7, <2>1
  <2>2. CASE id \notin walkEvents
    BY <1>4, <1>6, <2>2
  <2> QED
    BY <2>1, <2>2
<1>9. Chained(W!Now, F) /\ (id \in walkEvents => Loose(W!Now, F))
  BY <1>1, <1>7, <1>8 DEF Chained, Loose, XF, YF
<1>10. ASSUME id \notin walkEvents, Armed(W!Now, W!InFlight) PROVE Armed(W!Now, F)
  BY <1>1, <1>2, <1>10 DEF Armed, Fields
<1> QED
  BY <1>2, <1>9, <1>10

(* onWalk: the step is taken and the next one is scheduled.                *)
LEMMA WalksOn ==
  ASSUME NEW c, NEW F, Good(c, F), Loose(c, F), life = "alive",
         NEW outcome \in W!Outcome, NEW instant \in BOOLEAN, NEW next \in W!Outcome
  PROVE  LET d == W!OnWalk(c, outcome, instant, next)
         IN  Good(d, F) /\ Chained(d, F) /\ Armed(d, F)
<1> DEFINE w == W!Walked(c, outcome)
           v == [w EXCEPT !.eventWalk = 0]
           d == W!OnWalk(c, outcome, instant, next)
<1>1. d = IF w.eventWalk = 0 THEN w ELSE W!AddEventWalk(v, instant, next)
  BY DEF W!OnWalk
<1>2. Keeps(c, w, F)
  BY Walks
<1> HIDE DEF w, d
<1>3. Good(w, F) /\ Loose(w, F)
  BY <1>2 DEF Keeps
<1>4. CASE w.eventWalk = 0
  <2>1. Chained(w, F) /\ Armed(w, F)
    BY <1>3, <1>4, LooseIsChained DEF Armed
  <2> QED
    BY <1>1, <1>3, <1>4, <2>1 DEF d
<1>5. CASE w.eventWalk # 0
  <2>1. /\ DOMAIN v = WalkerFields /\ v.path = w.path /\ v.cancel = w.cancel
        /\ v.mobile = w.mobile /\ v.eventWalk = 0 /\ v.walkTask = w.walkTask
        /\ v.walkTaskEvent = w.walkTaskEvent /\ v.last = w.last /\ v.posts = w.posts
        /\ v.walkEvents = w.walkEvents /\ v.wasStopped = w.wasStopped
    BY <1>3 DEF Good, Walker, WalkerFields
  <2> HIDE DEF v
  <2>2. New(v) = New(w) /\ Flying(v, F) = Flying(w, F)
    BY <2>1 DEF New, Flying
  <2>3. Walker(v) /\ Remembers(v)
    BY <1>3, <2>1 DEF Good, Walker, Remembers
  <2>4. Posts(v) /\ OneTask(v, F)
    BY <1>3, <2>1, <2>2 DEF Good, Posts, OneTask
  <2>5. Good(v, F)
    BY <1>3, <2>3, <2>4 DEF Good
  <2>6. Loose(v, F)
    BY <1>3, <2>1, <2>2 DEF Loose, Free, Late
  <2>7. Chained(v, F) /\ Armed(v, F)
    BY <2>1, <2>5, <2>6, LooseIsChained DEF Armed
  <2>8. LET n == W!AddEventWalk(v, instant, next)
        IN  Good(n, F) /\ Chained(n, F) /\ Armed(n, F)
    BY <2>5, <2>7, AddsEvent
  <2> QED
    BY <1>1, <1>5, <2>8 DEF d
<1> QED
  BY <1>4, <1>5

(* RunTask: a step of the walk, or the action after it.                    *)
LEMMA TaskNext ==
  ASSUME WalkInv, W!RunTask
  PROVE  WalkInv'
<1>1. PICK id \in W!EventId : W!Take(id) /\ (W!CheckCreatureWalk(id) \/ W!RunWalkTask(id))
  BY DEF W!RunTask
<1>2. UNCHANGED <<blocked, life, dying>>
  BY DEF W!RunTask
<1> DEFINE F == W!InFlight \ {id}
<1>3. id = Head(inbox) /\ inbox # <<>> /\ inbox' = Tail(inbox) /\ ran' = ran \cup {Head(inbox)}
  BY <1>1 DEF W!Take
<1>4. id \in W!InFlight
  <2>1. inbox \in Seq(W!EventId)
    BY DEF WalkInv, Timers, Inbox
  <2>2. 1 \in DOMAIN inbox /\ inbox[1] = id
    BY <1>3, <2>1
  <2> QED
    BY <2>2 DEF W!InFlight, W!InInbox
<1>5. /\ Good(W!Now, F) /\ Chained(W!Now, F)
      /\ id \in walkEvents => Loose(W!Now, F)
      /\ id \notin walkEvents => (Armed(W!Now, W!InFlight) => Armed(W!Now, F))
  BY <1>4, TakenIsGood
<1>6. ASSUME NEW c, W!Becomes(c) PROVE Runs(F)
  BY <1>3, <1>6 DEF Runs, W!Becomes, W!Post
<1>7. life = "alive" /\ dying = 0 => Armed(W!Now, W!InFlight)
  BY NowIsChained DEF WalkInv
<1> HIDE DEF F
<1>8. ASSUME NEW c, W!Becomes(c), Good(c, F), Chained(c, F),
             life = "alive" /\ dying = 0 => Armed(c, F),
             autoWalk' \in 0 .. MaxPath
      PROVE  WalkInv'
  <2>1. Timers' /\ Fields' /\ Chains' /\ (Armed(c, F) => Moving')
    BY <1>6, <1>8, Lands DEF WalkInv
  <2>2. Moving'
    BY <1>2, <1>8, <2>1 DEF Moving
  <2>3. Living'
    BY <1>2, <1>8 DEF WalkInv, Living
  <2> QED
    BY <2>1, <2>2, <2>3 DEF WalkInv
<1>9. autoWalk \in 0 .. MaxPath
  BY DEF WalkInv, Living
<1>10. CASE W!CheckCreatureWalk(id)
  <2>1. CASE life # "alive" /\ W!Becomes(W!Now)
    BY <1>5, <1>8, <1>9, <1>10, <2>1 DEF W!CheckCreatureWalk
  <2>2. CASE /\ life = "alive"
             /\ \E o, next \in W!Outcome, instant \in BOOLEAN :
                   W!Becomes(W!OnWalk(W!Now, o, instant, next))
    <3>1. PICK o \in W!Outcome, next \in W!Outcome, instant \in BOOLEAN :
              W!Becomes(W!OnWalk(W!Now, o, instant, next))
      BY <2>2
    <3> DEFINE c == W!OnWalk(W!Now, o, instant, next)
    <3>2. id \in walkEvents /\ autoWalk' = autoWalk
      BY <1>10 DEF W!CheckCreatureWalk
    <3>3. Good(c, F) /\ Chained(c, F) /\ Armed(c, F)
      BY <1>5, <2>2, <3>2, WalksOn
    <3>4. W!Becomes(c)
      BY <3>1
    <3> HIDE DEF c
    <3> QED
      BY <1>8, <1>9, <3>2, <3>3, <3>4
  <2> QED
    BY <1>10, <2>1, <2>2 DEF W!CheckCreatureWalk
<1>11. CASE W!RunWalkTask(id)
  <2>1. id \notin walkEvents
    BY <1>11 DEF W!RunWalkTask
  <2>2. CASE W!Becomes(W!Now) /\ UNCHANGED autoWalk
    BY <1>5, <1>7, <1>8, <1>9, <2>1, <2>2
  <2>3. CASE \E n \in 1 .. MaxPath : W!Request(n)
    <3>1. PICK n \in 1 .. MaxPath : W!Request(n)
      BY <2>3
    <3> DEFINE c == W!SetNextWalkActionTask(W!Now, TRUE)
    <3>a. W!Becomes(c) /\ autoWalk' = n
      BY <3>1 DEF W!Request
    <3>b. n \in 0 .. MaxPath
      BY ONLY n \in 1 .. MaxPath
    <3>2. W!Becomes(c) /\ autoWalk' \in 0 .. MaxPath
      BY <3>a, <3>b
    <3>3. Keeps(W!Now, c, F)
      <4>1. TRUE \in BOOLEAN
        OBVIOUS
      <4> QED
        BY <1>5, <4>1, SetsTask
    <3> HIDE DEF c
    <3>4. Good(c, F) /\ Chained(c, F) /\ (life = "alive" /\ dying = 0 => Armed(c, F))
      BY <1>5, <1>7, <2>1, <3>3 DEF Keeps
    <3> QED
      BY <1>8, <3>2, <3>4
  <2> QED
    BY <1>11, <2>2, <2>3 DEF W!RunWalkTask
<1> QED
  BY <1>1, <1>10, <1>11

-----------------------------------------------------------------------------
(* The scheduler's thread.  It moves an event from one owner to the next,  *)
(* or cancels some in time, all of which were stopped.                     *)
LEMMA ThreadNext ==
  ASSUME WalkInv, UNCHANGED W!creatureVars, Timers',
         NEW G \in SUBSET (wasStopped \cap W!InFlight),
         W!InFlight' = W!InFlight \ G, stoppedInTime' = stoppedInTime \cup G,
         lastEventId' = lastEventId
  PROVE  WalkInv'
<1>1. /\ path' = path /\ eventWalk' = eventWalk /\ cancelNextWalk' = cancelNextWalk
      /\ mobile' = mobile /\ walkTask' = walkTask /\ walkTaskEvent' = walkTaskEvent
      /\ walkEvents' = walkEvents /\ wasStopped' = wasStopped
      /\ blocked' = blocked /\ autoWalk' = autoWalk /\ life' = life /\ dying' = dying
  BY DEF W!creatureVars
<1>2. W!OneWalkTask'
  BY <1>1 DEF WalkInv, Fields, W!OneWalkTask
<1>3. Fields'
  BY <1>1, <1>2 DEF WalkInv, Fields
<1>4. Chains'
  <2>1. FreeSteps' = FreeSteps /\ LateSteps' = LateSteps
    BY <1>1 DEF FreeSteps, LateSteps
  <2>2. (FreeSteps \ {eventWalk})' = FreeSteps \ {eventWalk}
    BY <1>1, <2>1
  <2> QED
    BY <2>1, <2>2 DEF WalkInv, Chains
<1>5. Living'
  BY <1>1 DEF WalkInv, Living
<1>6. Moving'
  BY <1>1 DEF WalkInv, Fields, Moving
<1> QED
  BY <1>3, <1>4, <1>5, <1>6 DEF WalkInv

(* A handler is run: a timer is started, or cancelled if it still runs.    *)
LEMMA PostedNext ==
  ASSUME WalkInv, W!RunPosted, UNCHANGED W!creatureVars
  PROVE  WalkInv'
<1> DEFINE s == posted
           h == Head(posted)
<1>1. /\ posted # <<>> /\ posted' = Tail(posted)
      /\ UNCHANGED <<lastEventId, expired, running, inbox, ran, deleted, wasStopped>>
  BY DEF W!RunPosted, W!creatureVars
<1>2. s \in Seq(Requests) /\ s # <<>> /\ OnceIn(s, Inserts) /\ h = Head(s)
  BY <1>1 DEF WalkInv, Timers, Queue
<1> HIDE DEF s, h
<1>3. /\ Tail(s) \in Seq(Requests) /\ h \in Requests
      /\ Elements(s) = Elements(Tail(s)) \cup {h}
      /\ OnceIn(Tail(s), Inserts) /\ (h \in Inserts => h \notin Elements(Tail(s)))
  BY <1>2, ElementsTail
<1>4. /\ posted' \in Seq(Requests) /\ OnceIn(posted', Inserts)
      /\ Elements(posted) = Elements(posted') \cup {h}
      /\ h \in Inserts => h \notin Elements(posted')
  BY <1>1, <1>3 DEF s
<1>5. Queue'
  BY <1>1, <1>4 DEF WalkInv, Timers, Queue
<1>6. Inbox'
  BY <1>1 DEF WalkInv, Timers, Inbox
<1>7. W!InInbox' = W!InInbox
  BY <1>1 DEF W!InInbox
<1>8. \/ \E i \in 1 .. lastEventId : h = W!Insert(i)
      \/ \E i \in wasStopped : h = W!Cancel(i)
  BY <1>4 DEF WalkInv, Timers, Queue
<1>9. CASE \E i \in 1 .. lastEventId : h = W!Insert(i)
  <2>1. PICK i \in 1 .. lastEventId : h = W!Insert(i)
    BY <1>9
  <2>2. h.op = "insert" /\ h.id = i
    BY <2>1 DEF W!Insert
  <2>3. armed' = armed \cup {i} /\ UNCHANGED <<aborted, stopped, stoppedInTime>>
    BY <2>2 DEF W!RunPosted, W!RunInsert, h
  <2>4. i \in W!EventId
    BY WalkAssumption DEF WalkInv, Timers, Events, W!EventId
  <2>5. i \in Nat
    OBVIOUS
  <2>6. W!BeingInserted' = W!BeingInserted \ {i} /\ i \in W!BeingInserted
    <3>1. \A k : W!Insert(k) \in Elements(posted')
                   <=> W!Insert(k) \in Elements(posted) /\ k # i
      BY <1>4, <2>1, <2>5, RequestsDiffer
    <3>2. W!Insert(i) \in Elements(posted)
      BY <1>4, <2>1
    <3> QED
      BY <2>4, <3>1, <3>2, BeingIs
  <2>7. W!InFlight' = W!InFlight
    BY <1>1, <1>7, <2>3, <2>6 DEF W!InFlight
  <2>8. OneOwner'
    BY <1>1, <1>7, <2>3, <2>6, <2>7 DEF WalkInv, Timers, OneOwner
  <2>9. Events'
    BY <1>1, <2>3, <2>7 DEF WalkInv, Timers, Events
  <2>10. Timers'
    BY <1>5, <1>6, <2>8, <2>9 DEF Timers
  <2>11. {} \in SUBSET (wasStopped \cap W!InFlight)
         /\ W!InFlight' = W!InFlight \ {} /\ stoppedInTime' = stoppedInTime \cup {}
    BY <2>3, <2>7
  <2> QED
    BY <1>1, <2>10, <2>11, ThreadNext
<1>10. CASE \E i \in wasStopped : h = W!Cancel(i)
  <2>1. PICK i \in wasStopped : h = W!Cancel(i)
    BY <1>10
  <2>2. h.op = "cancel" /\ h.id = i
    BY <2>1 DEF W!Cancel
  <2> DEFINE G == armed \cap {i}
  <2>3. /\ armed' = armed \ G /\ aborted' = aborted \cup G
        /\ stoppedInTime' = stoppedInTime \cup G /\ UNCHANGED stopped
    BY <2>2 DEF W!RunPosted, W!RunCancel, h
  <2>4. G \subseteq armed /\ G \subseteq wasStopped
    OBVIOUS
  <2> HIDE DEF G
  <2>5. i \in Nat
    BY WalkAssumption DEF WalkInv, Fields, Timers, Events
  <2>6. W!BeingInserted' = W!BeingInserted
    <3>1. \A k : W!Insert(k) \in Elements(posted') <=> W!Insert(k) \in Elements(posted)
      BY <1>4, <2>1, <2>5, RequestsDiffer
    <3> QED
      BY <3>1, BeingIs
  <2>7. W!InFlight' = W!InFlight \ G
    BY <1>1, <1>7, <2>3, <2>4, <2>6 DEF W!InFlight, WalkInv, Timers, OneOwner
  <2>8. OneOwner'
    BY <1>1, <1>7, <2>3, <2>4, <2>6, <2>7 DEF WalkInv, Timers, OneOwner
  <2>9. G \subseteq W!InFlight
    BY <2>4 DEF W!InFlight
  <2>10. Events'
    BY <1>1, <2>3, <2>7, <2>9 DEF WalkInv, Timers, Events
  <2>11. Timers'
    BY <1>5, <1>6, <2>8, <2>10 DEF Timers
  <2> QED
    BY <1>1, <2>3, <2>4, <2>7, <2>9, <2>11, ThreadNext
<1> QED
  BY <1>8, <1>9, <1>10

(* A timer expires, and its handler hands the task over or deletes it.     *)
LEMMA TimerNext ==
  ASSUME WalkInv, NEW id \in W!EventId, W!Expire(id) \/ W!WaitDone(id),
         UNCHANGED W!creatureVars
  PROVE  WalkInv'
<1>1. /\ UNCHANGED <<lastEventId, posted, running, stopped, ran, stoppedInTime, wasStopped>>
      /\ Timers
  BY DEF W!Expire, W!WaitDone, W!creatureVars, WalkInv
<1>2. Queue'
  BY <1>1 DEF Timers, Queue
<1>3. W!BeingInserted' = W!BeingInserted
  BY <1>1 DEF W!BeingInserted
<1>4. W!InFlight' = W!InFlight /\ OneOwner' /\ Inbox' /\ aborted' \subseteq aborted
  <2>1. CASE W!Expire(id)
    <3>1. /\ id \in armed /\ armed' = armed \ {id} /\ expired' = expired \cup {id}
          /\ UNCHANGED <<aborted, inbox, ran, deleted>>
      BY <2>1 DEF W!Expire
    <3>2. W!InInbox' = W!InInbox
      BY <3>1 DEF W!InInbox
    <3>3. W!InFlight' = W!InFlight
      BY <1>3, <3>1, <3>2 DEF W!InFlight
    <3>4. OneOwner'
      BY <1>1, <1>3, <3>1, <3>2, <3>3 DEF Timers, OneOwner
    <3> QED
      BY <1>1, <3>1, <3>3, <3>4 DEF Timers, Inbox
  <2>2. CASE W!WaitDone(id) /\ id \in expired
    <3>1. /\ expired' = expired \ {id} /\ aborted' = aborted \ {id}
          /\ inbox' = Append(inbox, id) /\ UNCHANGED <<deleted, armed, ran>>
      BY <1>1, <2>2 DEF W!WaitDone, Timers, Events
    <3> DEFINE s == inbox
               E == W!EventId
    <3>2. s \in Seq(E) /\ OnceIn(s, E) /\ id \in E /\ inbox' = Append(s, id)
      BY <1>1, <3>1 DEF Timers, Inbox
    <3>3. id \notin Elements(s)
      BY <1>1, <2>2, BeingIs DEF Timers, OneOwner
    <3> HIDE DEF s, E
    <3>4. /\ Append(s, id) \in Seq(E) /\ Elements(Append(s, id)) = Elements(s) \cup {id}
          /\ OnceIn(Append(s, id), E)
      BY <3>2, <3>3, ElementsAppend
    <3>5. W!InInbox' = W!InInbox \cup {id}
      BY <3>2, <3>4, BeingIs DEF s
    <3>6. W!InFlight' = W!InFlight
      BY <1>3, <2>2, <3>1, <3>5 DEF W!InFlight
    <3>7. OneOwner'
      BY <1>1, <1>3, <2>2, <3>1, <3>5, <3>6 DEF Timers, OneOwner
    <3>8. Inbox'
      BY <1>1, <3>1, <3>2, <3>4 DEF Timers, Inbox, E
    <3> QED
      BY <3>1, <3>6, <3>7, <3>8
  <2>3. CASE W!WaitDone(id) /\ id \notin expired
    <3>1. /\ expired' = expired /\ aborted' = aborted \ {id}
          /\ deleted' = deleted \cup {id} /\ UNCHANGED <<inbox, armed, ran>>
      BY <2>3 DEF W!WaitDone
    <3>2. W!InInbox' = W!InInbox
      BY <3>1 DEF W!InInbox
    <3>3. W!InFlight' = W!InFlight
      BY <1>3, <3>1, <3>2 DEF W!InFlight
    <3>4. OneOwner'
      BY <1>1, <1>3, <3>1, <3>2, <3>3 DEF Timers, OneOwner
    <3>5. Inbox'
      BY <1>1, <3>1 DEF Timers, Inbox
    <3> QED
      BY <3>1, <3>3, <3>4, <3>5
  <2> QED
    BY <2>1, <2>2, <2>3
<1>5. Events'
  BY <1>1, <1>4 DEF Timers, Events
<1>6. Timers'
  BY <1>2, <1>4, <1>5 DEF Timers
<1>7. {} \in SUBSET (wasStopped \cap W!InFlight)
      /\ W!InFlight' = W!InFlight \ {} /\ stoppedInTime' = stoppedInTime \cup {}
  BY <1>1, <1>4
<1> QED
  BY <1>1, <1>6, <1>7, ThreadNext

(* Every step of the walk, and a step that is not of the walk.             *)
LEMMA WalkNext ==
  ASSUME WalkInv, W!Next \/ UNCHANGED walking
  PROVE  WalkInv'
<1>1. CASE W!GameTask
  BY <1>1, QuietNext, LifeNext, TaskNext DEF W!GameTask
<1>2. CASE W!SchedulerThread /\ UNCHANGED W!creatureVars
  BY <1>2, PostedNext, TimerNext DEF W!SchedulerThread
<1>3. CASE UNCHANGED walking
  <2>1. W!BeingInserted' = W!BeingInserted /\ W!InInbox' = W!InInbox
    BY <1>3 DEF walking, W!BeingInserted, W!InInbox
  <2>2. W!InFlight' = W!InFlight
    BY <1>3, <2>1 DEF walking, W!InFlight
  <2>3. Timers'
    <3>1. Queue' /\ Inbox'
      BY <1>3 DEF walking, WalkInv, Timers, Queue, Inbox
    <3>2. Events' /\ OneOwner'
      BY <1>3, <2>1, <2>2 DEF walking, WalkInv, Timers, Events, OneOwner
    <3> QED
      BY <3>1, <3>2 DEF Timers
  <2>4. UNCHANGED W!creatureVars /\ stoppedInTime' = stoppedInTime /\ lastEventId' = lastEventId
    BY <1>3 DEF walking, W!creatureVars
  <2>5. {} \in SUBSET (wasStopped \cap W!InFlight)
        /\ W!InFlight' = W!InFlight \ {} /\ stoppedInTime' = stoppedInTime \cup {}
    BY <2>2, <2>4
  <2> QED
    BY <2>3, <2>4, <2>5, ThreadNext
<1> QED
  BY <1>1, <1>2, <1>3 DEF W!Next

-----------------------------------------------------------------------------
(* What the invariant means: the events of the walk in flight that were    *)
(* stopped, and the free ones but the one that is remembered, of which     *)
(* there are no more than of late stops, are counted by the stops without  *)
(* effect.                                                                 *)
LEMMA ChainsAreOne ==
  ASSUME WalkInv
  PROVE  W!OneChain
<1> DEFINE X == FreeSteps \ {eventWalk}
           Y == LateSteps
           L == (W!InFlight \cap walkEvents) \cap wasStopped
           A == (W!InFlight \cap walkEvents) \ {eventWalk}
           R == wasStopped \ stoppedInTime
<1>1. A = X \cup L /\ X \cap L = {}
  BY DEF FreeSteps, WalkInv, Fields
<1>2. Y \cup L \subseteq R /\ Y \cap L = {}
  BY DEF LateSteps, WalkInv, Timers, OneOwner
<1>3. Cardinality(X) <= Cardinality(Y)
  BY DEF WalkInv, Chains
<1>4. /\ IsFiniteSet(X) /\ IsFiniteSet(Y) /\ IsFiniteSet(L) /\ IsFiniteSet(R)
  <2>1. IsFiniteSet(1 .. lastEventId)
    <3>1. lastEventId \in Int
      BY WalkAssumption DEF WalkInv, Timers, Events
    <3> QED
      BY <3>1, FS_Interval
  <2>2. wasStopped \subseteq 1 .. lastEventId /\ walkEvents \subseteq 1 .. lastEventId
    BY DEF WalkInv, Fields
  <2>3. X \subseteq 1 .. lastEventId /\ Y \subseteq 1 .. lastEventId
        /\ L \subseteq 1 .. lastEventId /\ R \subseteq 1 .. lastEventId
    BY <2>2 DEF FreeSteps, LateSteps
  <2> HIDE DEF X, Y, L, R
  <2> QED
    BY <2>1, <2>3, FS_Subset
<1>5. W!OneChain <=> Cardinality(A) <= Cardinality(R)
  BY DEF W!OneChain, Cardinality, W!Cardinality
<1> HIDE DEF X, Y, L, A, R
<1>6. Cardinality(A) = Cardinality(X) + Cardinality(L)
  BY <1>1, <1>4, CountedApart
<1>7. Cardinality(Y \cup L) = Cardinality(Y) + Cardinality(L)
  BY <1>2, <1>4, CountedApart
<1>8. Cardinality(Y \cup L) <= Cardinality(R)
  BY <1>2, <1>4, FS_Subset
<1>9. /\ Cardinality(X) \in Nat /\ Cardinality(Y) \in Nat /\ Cardinality(L) \in Nat
      /\ Cardinality(R) \in Nat
  BY <1>4, FS_CardinalityType
<1> QED
  BY <1>3, <1>5, <1>6, <1>7, <1>8, <1>9

(* The types of the walk and of the scheduler below it.                    *)
LEMMA WalkIsTyped ==
  ASSUME WalkInv
  PROVE  W!WalkTypeOK
<1>1. lastEventId \in 0 .. MaxEvents /\ running \in BOOLEAN /\ stopped \in BOOLEAN
  BY DEF WalkInv, Timers, Events
<1>2. \A i \in 1 .. lastEventId : i \in W!EventId
  BY <1>1, WalkAssumption DEF W!EventId
<1>3. posted \in Seq(W!Handler)
  <2>1. posted \in Seq(Requests)
        /\ Elements(posted) \subseteq {W!Insert(i) : i \in 1 .. lastEventId}
                                         \cup {W!Cancel(i) : i \in wasStopped}
    BY DEF WalkInv, Timers, Queue
  <2>2. wasStopped \subseteq 1 .. lastEventId
    BY DEF WalkInv, Fields
  <2>3. Elements(posted) \subseteq W!Handler
    BY <1>2, <2>1, <2>2 DEF W!Handler
  <2>4. \A k \in 1 .. Len(posted) : posted[k] \in W!Handler
    BY <2>1, <2>3 DEF Elements
  <2> QED
    BY <2>1, <2>4
<1>4. /\ armed \subseteq W!EventId /\ expired \subseteq W!EventId /\ aborted \subseteq W!EventId
      /\ stoppedInTime \subseteq W!EventId
  BY <1>2 DEF WalkInv, Timers, Events, W!InFlight
<1>5. inbox \in Seq(W!EventId) /\ ran \subseteq W!EventId /\ deleted \subseteq W!EventId
  BY DEF WalkInv, Timers, Inbox
<1>6. W!TypeOK
  BY <1>1, <1>3, <1>4, <1>5 DEF W!TypeOK
<1>7. eventWalk \in W!EventId \cup {0} /\ walkTaskEvent \in W!EventId \cup {0}
  <2>1. eventWalk \in 0 .. lastEventId /\ walkTaskEvent \in 0 .. lastEventId
    BY DEF WalkInv, Fields
  <2> QED
    BY <1>1, <2>1, WalkAssumption DEF W!EventId
<1>8. walkEvents \subseteq W!EventId /\ wasStopped \subseteq W!EventId
  BY <1>2 DEF WalkInv, Fields
<1>9. {cancelNextWalk, mobile, blocked, walkTask} \subseteq BOOLEAN
  BY DEF WalkInv, Fields, Living
<1>10. /\ path \in 0 .. MaxPath /\ autoWalk \in 0 .. MaxPath
       /\ life \in {"alive", "dead", "gone"} /\ dying \in 0 .. MaxDeaths
  BY DEF WalkInv, Fields, Living
<1> QED
  BY <1>6, <1>7, <1>8, <1>9, <1>10 DEF W!WalkTypeOK

(* A player is never left rooted by an event that is gone, walks on one    *)
(* chain of steps however late its events are stopped, and has one action  *)
(* waiting for its end (creature.cpp:279, player.cpp:1377).                *)
THEOREM PlayersStayMobile == MCSpec => []PlayersWalk
<1>1. MCInit => WalkInv
  BY WalkInit DEF MCInit
<1>2. WalkInv /\ [MCNext]_<<part, vars, walking>> => WalkInv'
  <2> SUFFICES ASSUME WalkInv, [MCNext]_<<part, vars, walking>> PROVE WalkInv'
    OBVIOUS
  <2>1. W!Next \/ UNCHANGED walking
    BY DEF MCNext
  <2> QED
    BY <2>1, WalkNext
<1>3. WalkInv => PlayersWalk
  <2> SUFFICES ASSUME WalkInv PROVE W!WalkTypeOK /\ W!WalkIsArmed /\ W!OneChain /\ W!OneWalkTask
    BY DEF PlayersWalk
  <2>1. W!WalkIsArmed
    BY DEF WalkInv, Fields, Moving, W!WalkIsArmed
  <2>2. W!OneWalkTask
    BY DEF WalkInv, Fields
  <2> QED
    BY <2>1, <2>2, ChainsAreOne, WalkIsTyped
<1> QED
  BY <1>1, <1>2, <1>3, PTL DEF MCSpec

=============================================================================
