---------------------------- MODULE CreatureWalk ----------------------------
(***************************************************************************)
(* How a player walks: Creature's walk events of src/src/creature.cpp on   *)
(* top of the scheduler, with the task of Player that waits for the walk   *)
(* to end (walk to an item, then use it).  A walk is a chain of scheduled  *)
(* events, each of which takes one step and schedules the next; eventWalk  *)
(* names the one in flight.                                                *)
(***************************************************************************)
EXTENDS TaskScheduler

CONSTANTS
    MaxPath,        \* bound on the steps of a path
    MaxDeaths       \* bound on the death tasks queued

VARIABLES
    path,           \* length of listWalkDir
    eventWalk,      \* Creature::eventWalk, 0 when there is none
    cancelNextWalk,
    mobile,         \* getSpeed() > 0 (a player's step speed always is)
    blocked,        \* Player::movementBlocked
    walkTask,       \* walkTask is set: an action waits for the end of the walk
    walkTaskEvent,  \* Player::walkTaskEvent
    autoWalk,       \* steps of a posted playerAutoWalk, 0 when none is posted
    life,           \* "alive", "dead" (health is 0) or "gone" (removed)
    deaths,         \* executeDeath tasks in the dispatcher
    walkEvents,     \* history: the events that run checkCreatureWalk
    wasStopped      \* history: the events stopEvent was called for

creatureVars == <<path, eventWalk, cancelNextWalk, mobile, blocked, walkTask,
                  walkTaskEvent, autoWalk, life, deaths, walkEvents, wasStopped>>
vars == <<schedVars, creatureVars>>

Init ==
    /\ SchedInit
    /\ path = 0 /\ eventWalk = 0 /\ cancelNextWalk = FALSE
    /\ mobile = TRUE /\ blocked = FALSE
    /\ walkTask = FALSE /\ walkTaskEvent = 0 /\ autoWalk = 0
    /\ life = "alive" /\ deaths = 0
    /\ walkEvents = {} /\ wasStopped = {}

-----------------------------------------------------------------------------
(* The member functions of the creature, from a state to a state; posts is *)
(* what they posted to the scheduler.                                      *)
Now == [path |-> path, eventWalk |-> eventWalk, cancel |-> cancelNextWalk,
        mobile |-> mobile, walkTask |-> walkTask, walkTaskEvent |-> walkTaskEvent,
        last |-> lastEventId, posts |-> <<>>, walkEvents |-> walkEvents,
        wasStopped |-> wasStopped]

Scheduled(c) ==
    [c EXCEPT !.last = @ + 1, !.posts = Append(@, Insert(c.last + 1))]

Stopped(c, id) ==
    IF id = 0
    THEN c
    ELSE [c EXCEPT !.posts = Append(@, Cancel(id)), !.wasStopped = @ \cup {id}]

StopEventWalk(c) ==
    [Stopped(c, c.eventWalk) EXCEPT !.eventWalk = 0]

SetNextWalkActionTaskMutant(c, task) ==      \* does not stop the old event
    [c EXCEPT !.walkTaskEvent = 0, !.walkTask = task]

SetNextWalkActionTask(c, task) ==
    [Stopped(c, c.walkTaskEvent) EXCEPT !.walkTaskEvent = 0, !.walkTask = task]

OnWalkComplete(c) ==
    IF c.walkTask
    THEN [Scheduled(c) EXCEPT !.walkTask = FALSE, !.walkTaskEvent = c.last + 1]
    ELSE c

(* What a step can meet: the walk delay has not elapsed, the step is made  *)
(* or refused, it ends on a teleport, or on a tile that takes the speed.   *)
Outcome == {"wait", "move", "fail", "teleport", "paralyzed"}

SetSpeed(c, on) ==
    [IF on THEN c ELSE StopEventWalk(c)
        EXCEPT !.mobile = on, !.cancel = @ \/ ~on]

TakeStep(c, outcome) ==
    LET popped == [c EXCEPT !.path = @ - 1]
    IN  CASE outcome = "wait" -> c
          [] outcome # "wait" /\ c.path = 0 -> OnWalkComplete(StopEventWalk(c))
          [] outcome \in {"move", "fail"} /\ c.path > 0 -> popped
          [] outcome = "teleport" /\ c.path > 0 -> StopEventWalk(popped)
          [] outcome = "paralyzed" /\ c.path > 0 -> SetSpeed(popped, FALSE)

AbortIfCancelled(c) ==
    IF c.cancel
    THEN [SetNextWalkActionTask(c, FALSE) EXCEPT !.path = 0, !.cancel = FALSE]
    ELSE c

(* onWalk up to the point where the next event is scheduled: all of it for *)
(* a creature with no event.                                               *)
Walked(c, outcome) ==
    IF life = "alive" THEN AbortIfCancelled(TakeStep(c, outcome)) ELSE c

(* A tick count of 1 takes the first step at once, in the caller.          *)
AddEventWalk(c, instant, outcome) ==
    LET ready == [c EXCEPT !.cancel = FALSE]
        stepped == IF instant THEN Walked(ready, outcome) ELSE ready
    IN  IF c.eventWalk # 0
        THEN ready
        ELSE [Scheduled(stepped) EXCEPT !.eventWalk = stepped.last + 1,
                                        !.walkEvents = @ \cup {stepped.last + 1}]

(* A delay of exactly 1 ms makes the next event instant too; the creature  *)
(* is then still waiting, or the clock has just turned.                    *)
OnWalk(c, outcome, instant, next) ==
    LET w == Walked(c, outcome)
    IN  IF w.eventWalk = 0 \/ life # "alive"
        THEN w
        ELSE AddEventWalk([w EXCEPT !.eventWalk = 0], instant, next)

(* The step ends in state c.                                               *)
Becomes(c) ==
    /\ c.last <= MaxEvents
    /\ Post(c.posts, c.last - lastEventId)
    /\ path' = c.path /\ eventWalk' = c.eventWalk /\ cancelNextWalk' = c.cancel
    /\ mobile' = c.mobile /\ walkTask' = c.walkTask
    /\ walkTaskEvent' = c.walkTaskEvent
    /\ walkEvents' = c.walkEvents /\ wasStopped' = c.wasStopped

-----------------------------------------------------------------------------
(* Tasks of the game thread.  Requests to walk reach a player who exists.  *)
PlayerMove ==
    /\ life # "gone" /\ ~blocked
    /\ \E instant \in BOOLEAN, o \in Outcome :
          LET c == [SetNextWalkActionTask(Now, FALSE) EXCEPT !.path = 1]
          IN  Becomes(AddEventWalk(c, instant, o))
    /\ UNCHANGED <<inbox, ran, blocked, autoWalk, life, deaths>>

(* startAutoWalk with a path of n steps.                                   *)
StartAutoWalk(n) ==
    IF blocked
    THEN Becomes(Now)
    ELSE \E instant \in (IF n = 1 THEN BOOLEAN ELSE {FALSE}), o \in Outcome :
            Becomes(AddEventWalk([Now EXCEPT !.path = n], instant, o))

PlayerAutoWalk ==
    /\ life # "gone"
    /\ \E n \in 1 .. MaxPath : StartAutoWalk(n)
    /\ UNCHANGED <<inbox, ran, blocked, autoWalk, life, deaths>>

(* A new path to the creature followed, or none.                           *)
UpdateFollowPath ==
    /\ life = "alive"
    /\ \/ \E n \in 1 .. MaxPath : StartAutoWalk(n)
       \/ Becomes([Now EXCEPT !.path = 0])
    /\ UNCHANGED <<inbox, ran, blocked, autoWalk, life, deaths>>

(* Another creature is followed: the walk under way is given up.           *)
FollowCreature ==
    /\ life = "alive" /\ path > 0
    /\ Becomes([SetNextWalkActionTask(Now, FALSE) EXCEPT !.path = 0])
    /\ UNCHANGED <<inbox, ran, blocked, autoWalk, life, deaths>>

(* Use of an item out of reach: the walk to it is posted to the dispatcher *)
(* and the use is kept for its end.                                        *)
Request(n) ==
    /\ Becomes(SetNextWalkActionTask(Now, TRUE))
    /\ autoWalk' = n

UseFarItem ==
    /\ life # "gone" /\ autoWalk = 0
    /\ \E n \in 1 .. MaxPath : Request(n)
    /\ UNCHANGED <<inbox, ran, blocked, life, deaths>>

RunAutoWalk ==
    /\ autoWalk > 0
    /\ IF life = "gone" THEN Becomes(Now) ELSE StartAutoWalk(autoWalk)
    /\ autoWalk' = 0
    /\ UNCHANGED <<inbox, ran, blocked, life, deaths>>

StopWalk ==
    /\ life # "gone" /\ ~cancelNextWalk
    /\ Becomes([Now EXCEPT !.cancel = TRUE])
    /\ UNCHANGED <<inbox, ran, blocked, autoWalk, life, deaths>>

ChangeSpeed ==
    /\ life # "gone"
    /\ \/ Becomes(SetSpeed(Now, FALSE))
       \/ /\ ~mobile
          /\ \E o \in Outcome, instant \in BOOLEAN :
                LET c == SetSpeed(Now, TRUE)
                IN  Becomes(IF path > 0 THEN AddEventWalk(c, instant, o) ELSE c)
    /\ UNCHANGED <<inbox, ran, blocked, autoWalk, life, deaths>>

SetMovementBlocked ==
    /\ life # "gone"
    /\ blocked' = ~blocked
    /\ Becomes([Now EXCEPT !.cancel = TRUE])
    /\ UNCHANGED <<inbox, ran, autoWalk, life, deaths>>

Teleport ==
    /\ life = "alive"
    /\ Becomes(StopEventWalk(Now))
    /\ UNCHANGED <<inbox, ran, blocked, autoWalk, life, deaths>>

-----------------------------------------------------------------------------
(* Expired events.                                                         *)
CheckCreatureWalk(id) ==
    /\ id \in walkEvents
    /\ \/ life # "alive" /\ Becomes(Now)
       \/ /\ life = "alive"
          /\ \E o, next \in Outcome, instant \in BOOLEAN :
                Becomes(OnWalk(Now, o, instant, next))
    /\ UNCHANGED autoWalk

(* The waiting action: done, or too far away again.                        *)
RunWalkTask(id) ==
    /\ id \notin walkEvents
    /\ \/ Becomes(Now) /\ UNCHANGED autoWalk
       \/ life # "gone" /\ autoWalk = 0 /\ \E n \in 1 .. MaxPath : Request(n)

RunTask ==
    /\ \E id \in EventId : Take(id) /\ (CheckCreatureWalk(id) \/ RunWalkTask(id))
    /\ UNCHANGED <<blocked, life, deaths>>

-----------------------------------------------------------------------------
(* A blow that takes the last health point queues executeDeath; until it   *)
(* runs the creature is dead but still there, and can be hit or healed.    *)
Die ==
    /\ life # "gone" /\ deaths < MaxDeaths
    /\ life' = "dead"
    /\ deaths' = deaths + 1
    /\ Becomes(Now)
    /\ UNCHANGED <<inbox, ran, blocked, autoWalk>>

Heal ==
    /\ life = "dead"
    /\ life' = "alive"
    /\ Becomes(Now)
    /\ UNCHANGED <<inbox, ran, blocked, autoWalk, deaths>>

(* In a PvP zone the player keeps everything and is sent to the temple;    *)
(* elsewhere the creature is removed.                                      *)
ExecuteDeathMutant ==            \* is not sent to the temple
    /\ deaths > 0
    /\ deaths' = deaths - 1
    /\ IF life = "gone" THEN life' = life
       ELSE life' \in {"alive", "gone"}
    /\ Becomes(Now)
    /\ UNCHANGED <<inbox, ran, blocked, autoWalk>>

ExecuteDeath ==
    /\ deaths > 0
    /\ deaths' = deaths - 1
    /\ IF life = "gone"
       THEN life' = life /\ Becomes(Now)
       ELSE \/ life' = "alive" /\ Becomes(StopEventWalk(Now))
            \/ life' = "gone" /\ Becomes(Now)
    /\ UNCHANGED <<inbox, ran, blocked, autoWalk>>

GameTask ==
    \/ PlayerMove
    \/ PlayerAutoWalk
    \/ UpdateFollowPath
    \/ FollowCreature
    \/ UseFarItem
    \/ RunAutoWalk
    \/ StopWalk
    \/ ChangeSpeed
    \/ SetMovementBlocked
    \/ Teleport
    \/ RunTask
    \/ Die
    \/ Heal
    \/ ExecuteDeath

Next == GameTask \/ (SchedulerThread /\ UNCHANGED creatureVars)

Spec == Init /\ [][Next]_vars

-----------------------------------------------------------------------------
WalkTypeOK ==
    /\ TypeOK
    /\ path \in 0 .. MaxPath /\ autoWalk \in 0 .. MaxPath
    /\ eventWalk \in EventId \cup {0} /\ walkTaskEvent \in EventId \cup {0}
    /\ {cancelNextWalk, mobile, blocked, walkTask} \subseteq BOOLEAN
    /\ life \in {"alive", "dead", "gone"} /\ deaths \in 0 .. MaxDeaths
    /\ walkEvents \subseteq EventId /\ wasStopped \subseteq EventId

(* Events whose task will still be run.                                    *)
InFlight == BeingInserted \cup armed \cup expired \cup InInbox

(* A creature that believes it is walking does get its next step: the      *)
(* event it remembers is in flight and nobody asked to stop it, whatever   *)
(* late events, deaths and cancellations happened (eventWalk # 0 makes     *)
(* addEventWalk do nothing, so a stale identifier would root it).          *)
WalkIsArmed ==
    life = "alive" /\ deaths = 0 /\ eventWalk # 0
        => eventWalk \in (InFlight \cap walkEvents) \ wasStopped

(* A creature walks on one chain of events; another chain exists only      *)
(* where stopEvent was called and has not had its effect in time.          *)
OneChain ==
    Cardinality((InFlight \cap walkEvents) \ {eventWalk})
        <= Cardinality(wasStopped \ stoppedInTime)

(* One action at a time waits for the end of the walk: setting another, or *)
(* aborting the walk, stops the one before.                                *)
OneWalkTask ==
    LET waiting == InFlight \ (walkEvents \cup wasStopped)
    IN  /\ waiting \subseteq {walkTaskEvent}
        /\ walkTask => waiting = {}
=============================================================================
