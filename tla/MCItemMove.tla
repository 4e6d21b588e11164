------------------------------ MODULE MCItemMove ------------------------------
(* A worn bag with two places, one on the ground with one, and coins       *)
(* stacking by two: full stacks, full bags and exchanges are near.  Or     *)
(* items that decay: a behaviour is of the one or of the other.            *)
EXTENDS ItemMove, TLC

CONSTANTS Types, DecayTo, DecayTime, StopTime, Kind, Durations, MaxEntries

VARIABLES part, item, decayItems, toDecayItems, toReleaseItems, lastBucket, ends

decaying == <<item, decayItems, toDecayItems, toReleaseItems, lastBucket, ends>>

D == INSTANCE Decay WITH Objects <- Bags

MCBags == {1, 2}
MCSize == [b \in MCBags |-> 3 - b]

(* A torch becomes a stump, which is the same object, and then ashes.       *)
MCDecayTo ==
    "torch" :> "stump" @@ "stump" :> "ash" @@ "ash" :> "nothing"
        @@ "out" :> "never" @@ "stone" :> "never"
MCDecayTime ==
    "torch" :> 16 @@ "stump" :> 8 @@ "ash" :> 8 @@ "out" :> 0 @@ "stone" :> 0
MCKind == [t \in Types |-> IF t = "ash" THEN 2 ELSE 1]

MCInit ==
    /\ part \in {"moves", "decay"}
    /\ Init /\ D!DecayInit
    /\ part # "moves" => parent[1] = Player

MCNext ==
    /\ UNCHANGED part
    /\ \/ part = "moves" /\ Next /\ UNCHANGED decaying
       \/ part = "decay" /\ D!DecayNext /\ UNCHANGED vars

MCSpec == MCInit /\ [][MCNext]_<<part, vars, decaying>>

-----------------------------------------------------------------------------
(* Nothing is made or lost, and nothing is in two places, until a part of  *)
(* a stack meets a stack that has no room for it and is put in a second    *)
(* place, or coins are put in the slot of a full stack: the code does not  *)
(* keep them apart then (game.cpp:1191, game.cpp:1310).                    *)
ItemsAreKept == part = "moves" /\ ~ misplaced => Conservation /\ OnePlace

(* The weights of bags and player are those of what they hold, until then  *)
(* (container.cpp:269).                                                    *)
WeightsAgree == part = "moves" /\ ~ misplaced => WeightsAreCurrent

(* What decays is listed, is held as often as it is used, and decays in    *)
(* its time (game.cpp:4577).                                               *)
ItemsDecay == part = "decay" => D!DecayIsListed /\ D!DecayIsOnTime
=============================================================================
