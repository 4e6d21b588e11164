------------------------------- MODULE MCParty -------------------------------
(* How players stand to each other.  In a behaviour players come and go,    *)
(* and beside that there is one of: parties and what decides on shared     *)
(* experience; parties, their channels and a public one; private channels. *)
(* Or two of them fight, one with a summon; or two share a house.  None of *)
(* the five reads what another one writes.                                 *)
EXTENDS Party, TLC

CONSTANTS
    knight, mage, wolf,
    Fighters, Summons, Master, Friends, Shielded, MaxHealth, MaxMana,
    KillsToRed, KillsToBlack, MaxKills, MaxCredit, Blows, Nobody

CONSTANTS
    host, guest, leftHalf, rightHalf,
    People, Halves, Partner, Lists

VARIABLES scene, fighter, damageMap, lastHit, dying, present, credited

fights == <<fighter, damageMap, lastHit, dying, present, credited>>

F == INSTANCE Fights

VARIABLES house, where, sleeper, bedSleepers, bedItem, leaving, savedHouse

homes == <<house, where, sleeper, bedSleepers, bedItem, leaving, savedHouse>>

H == INSTANCE Houses WITH stored <- savedHouse, None <- Nobody

(* Summons are creatures of a fighter, and no creature has the id that      *)
(* stands for none.                                                        *)
ASSUME FightsAssumption ==
    /\ IsFiniteSet(Fighters) /\ IsFiniteSet(Summons)
    /\ Fighters \cap Summons = {} /\ Master \in [Summons -> Fighters]
    /\ Nobody \notin Fighters \cup Summons
    /\ MaxHealth \in Nat \ {0} /\ MaxMana \in Nat /\ MaxCredit \in Nat
    /\ KillsToRed \in Nat /\ KillsToBlack \in Nat /\ MaxKills \in Nat
    /\ Blows \subseteq [primary : Nat, secondary : Nat]

(* A bed has two halves, each the partner of the other, or is one half;    *)
(* nobody is called like the one who stands for none.                      *)
ASSUME HousesAssumption ==
    /\ Nobody \notin People /\ Lists \subseteq SUBSET People
    /\ Partner \in [Halves -> Halves] /\ \A h \in Halves : Partner[Partner[h]] = h

MCMaster == wolf :> knight
MCBlows == {[primary |-> 1, secondary |-> 1]}

MCPartner == leftHalf :> rightHalf @@ rightHalf :> leftHalf
MCLists == {{}, {guest}}

(* A bound: nobody is put onto both lists.                                  *)
OnOneList == house'.guests \cap house'.subowners = {}

Symmetry == Permutations(Players) \cup Permutations(Parties)

MCInit ==
    /\ Init /\ F!FightsInit /\ H!HousesInit
    /\ scene \in {"sharing", "party channel", "private channels", "fights", "house"}
    /\ scene # "sharing" =>
           level = [p \in Players |-> 1] /\ place = [p \in Players |-> "here"]

Only(kinds) ==
    \A c \in Channels : c[1] \notin kinds => channel'[c] = channel[c]

InParty ==
    /\ Next
    /\ scene # "sharing" => level' = level /\ place' = place
    /\ scene = "sharing" => channel' = channel
    /\ scene = "party channel" => Only({"party", "public"})
    /\ scene = "private channels" => party' = party /\ Only({"private"})

MCNext ==
    /\ UNCHANGED scene
    /\ \/ scene \notin {"fights", "house"} /\ InParty /\ UNCHANGED <<fights, homes>>
       \/ scene = "fights" /\ F!FightsNext /\ UNCHANGED <<vars, homes>>
       \/ scene = "house" /\ H!HousesNext /\ OnOneList /\ UNCHANGED <<vars, fights>>

MCSpec == MCInit /\ [][MCNext]_<<vars, scene, fights, homes>>

-----------------------------------------------------------------------------
(* Both sides agree on who is in a party, and whether it shares experience  *)
(* is decided on what holds now (party.cpp:60, :320).                       *)
PartiesAgree == scene \notin {"fights", "house"} => Membership /\ SharingIsCurrent

(* Marks of an attack end with the fight, a death is credited once to a     *)
(* player, and a script that changes nothing is not noticed                 *)
(* (player.cpp:3333, creature.cpp:468, game.cpp:4179).                      *)
FightsAgree ==
    scene = "fights" => F!MarkedWhileFighting /\ F!CreditedOnce /\ F!IdleScriptIsNeutral

(* Nobody stays in a house he may not enter, and the beds, their sleepers   *)
(* and the register of the sleepers agree (house.cpp:140, bed.cpp:123).     *)
HousesAgree == scene = "house" => H!GuestsOnly /\ H!BedsAgree

(* Who hurts a player is credited with what the player loses, no more and   *)
(* no less (game.cpp:4189, creature.cpp:845).                               *)
CreditIsLoss == [][scene = "fights" => F!CreditIsLoss]_fights
=============================================================================
