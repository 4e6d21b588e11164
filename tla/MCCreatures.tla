------------------------------ MODULE MCCreatures ------------------------------
(* A behaviour is of a walking player, with three events (a step, the next   *)
(* and the action after them), paths of two steps and one death task at a    *)
(* time in the dispatcher; or of the life of a player and two monsters on    *)
(* three places, each of whom sees its neighbours.                           *)
EXTENDS CreatureLife

CONSTANTS MaxEvents, MaxPath, MaxDeaths

ASSUME WalkAssumption == MaxEvents \in Nat /\ MaxPath \in Nat \ {0} /\ MaxDeaths \in Nat

VARIABLES
    part,
    lastEventId, posted, armed, expired, aborted, running, stopped, inbox, ran,
    deleted, stoppedInTime,
    path, eventWalk, cancelNextWalk, mobile, blocked, walkTask, walkTaskEvent,
    autoWalk, life, dying, walkEvents, wasStopped

walking == <<lastEventId, posted, armed, expired, aborted, running, stopped, inbox, ran,
             deleted, stoppedInTime,
             path, eventWalk, cancelNextWalk, mobile, blocked, walkTask, walkTaskEvent,
             autoWalk, life, dying, walkEvents, wasStopped>>

W == INSTANCE CreatureWalk WITH deaths <- dying

MCPlaces == 0..2

MCInit == Init /\ W!Init /\ part \in {"walk", "life"}
MCNext ==
    /\ UNCHANGED part
    /\ \/ part = "walk" /\ W!Next /\ UNCHANGED vars
       \/ part = "life" /\ Next /\ UNCHANGED walking

MCSpec == MCInit /\ [][MCNext]_<<part, vars, walking>>

-----------------------------------------------------------------------------
(* A player is never left rooted by an event that is gone, walks on one       *)
(* chain of steps, and has one action waiting for its end (creature.cpp:279,  *)
(* player.cpp:1377).                                                          *)
PlayersWalk ==
    part = "walk" => W!WalkTypeOK /\ W!WalkIsArmed /\ W!OneChain /\ W!OneWalkTask

(* References are counted, no pointer outlives its creature and no summon    *)
(* its master (creature.h:474, creature.cpp:312, game.cpp:606).              *)
CreaturesAreHeld == part = "life" => Counted /\ NoDangling /\ NoOrphans

(* What should think is in a check list (game.cpp:3654).                     *)
CreaturesThink == part = "life" => Awake
=============================================================================
