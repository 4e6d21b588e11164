-------------------------------- MODULE Fights --------------------------------
(***************************************************************************)
(* Players who fight each other, themselves or by summons: what a blow     *)
(* takes and who is credited with it (Game::combatChangeHealth and the     *)
(* damageMap of creature.cpp), who has killed whom (Creature::onDeath),    *)
(* and the skulls that mark the aggressor (player.cpp).  World type pvp,   *)
(* normal zone, no guild wars, scripts on mana changes are idle.           *)
(***************************************************************************)
EXTENDS Integers, FiniteSets, FiniteSetsExt

CONSTANTS
    Fighters,
    Summons,
    Master,         \* of each summon
    Friends,        \* pairs of partners and guild mates
    Shielded,       \* who has a mana shield
    MaxHealth,
    MaxMana,
    KillsToRed,
    KillsToBlack,
    MaxKills,       \* bound on skullTicks, in FRAG_TIME
    MaxCredit,      \* bound on the damage of one life
    Blows,          \* records of primary and secondary damage
    Nobody

VARIABLES
    fighter,        \* each player, in the world or as saved
    damageMap,      \* damage each creature has done to a player, of this life
    lastHit,        \* lastHitCreatureId
    dying,          \* players with an executeDeath task
    present,        \* summons in the world
    credited        \* history: calls of onKilledCreature in the last step

fightVars == <<fighter, damageMap, lastHit, dying, present, credited>>

Creatures == Fighters \cup Summons
Unhurt == [c \in Creatures |-> 0]
Credit(damage) == MapThenSumSet(LAMBDA c : damage[c], Creatures)

FightsInit ==
    /\ fighter = [p \in Fighters |->
          [in |-> TRUE, health |-> MaxHealth, mana |-> MaxMana, skull |-> "none",
           attacked |-> {}, infight |-> FALSE, pzLocked |-> FALSE, kills |-> 0]]
    /\ damageMap = [p \in Fighters |-> Unhurt]
    /\ lastHit = [p \in Fighters |-> Nobody]
    /\ dying = {}
    /\ present = Summons
    /\ credited = [p \in Fighters |-> 0]

NoDeath == credited' = [p \in Fighters |-> 0]

InWorld(c) == c \in present \/ (c \in Fighters /\ fighter[c].in)
Responsible(c) == IF c \in Summons THEN Master[c] ELSE c
Friendly(p, q) == p = q \/ {p, q} \in Friends

-----------------------------------------------------------------------------
(* What a blow takes.                                                      *)

(* The mana shield takes from the first damage, then from the second.      *)
AfterShield(t, blow) ==
    LET mana == IF t.shield THEN Min({t.mana, blow.primary + blow.secondary}) ELSE 0
        rest == blow.primary - mana
    IN  [t |-> [t EXCEPT !.mana = @ - mana],
         blow |-> [primary |-> Max({rest, 0}),
                   secondary |-> IF rest < 0 THEN Max({0, blow.secondary + rest})
                                 ELSE blow.secondary]]

(* No more than what is left.                                              *)
StrikeMutant(t, blow) ==         \* the second damage is not limited
    LET primary == Min({blow.primary, t.health})
    IN  [t EXCEPT !.health = Max({0, @ - primary - blow.secondary}),
                  !.credit = primary + blow.secondary]

Strike(t, blow) ==
    LET primary == Min({blow.primary, t.health})
        secondary == IF blow.primary >= t.health THEN 0
                     ELSE Min({blow.secondary, t.health - primary})
    IN  [t EXCEPT !.health = @ - primary - secondary, !.credit = primary + secondary]

(* The script on health changes, after which the whole function runs       *)
(* again.  Who gets an error from it is left with a positive value, which  *)
(* heals.                                                                  *)
Scripted(t, blow, script) ==
    LET again == AfterShield(t, IF script = "raises"
                                THEN [blow EXCEPT !.primary = @ + 1] ELSE blow)
    IN  IF script = "fails" /\ blow.primary > 0
        THEN [t EXCEPT !.health = Min({MaxHealth, @ + blow.primary})]
        ELSE Strike(again.t, again.blow)

ChangeHealth(t, blow, script) ==
    LET left == AfterShield(t, blow)
    IN  IF left.blow.primary + left.blow.secondary = 0 THEN left.t
        ELSE IF script = "none" THEN Strike(left.t, left.blow)
        ELSE Scripted(left.t, left.blow, script)

Target(p) == [health |-> fighter[p].health, mana |-> fighter[p].mana,
              shield |-> p \in Shielded, credit |-> 0]

-----------------------------------------------------------------------------
(* Whom an attack marks.                                                   *)

(* getSkullClient: how q looks to p; without a skull of his own he is      *)
(* yellow to whom he attacks.                                              *)
SkullClient(p, q) ==
    CASE fighter[q].skull # "none" -> fighter[q].skull
      [] fighter[q].skull = "none" /\ p \in fighter[q].attacked -> "yellow"
      [] OTHER -> IF {p, q} \in Friends THEN "green" ELSE "none"

(* Combat::isProtected and the test of combatChangeHealth.                 *)
Forbidden(p, q) == fighter[p].skull = "black" /\ SkullClient(p, q) = "none"

(* onAttackedCreature of p, and onAttacked of q.                           *)
MarkedMutant(p, q) ==            \* forgets the ticks of the attacker
    LET aggressor == p \notin fighter[q].attacked /\ ~ Friendly(p, q)
        white == aggressor /\ fighter[p].skull = "none" /\ fighter[q].skull = "none"
    IN  [fighter EXCEPT
          ![q].infight = TRUE,
          ![p].attacked = IF aggressor THEN @ \cup {q} ELSE @,
          ![p].skull = IF white THEN "white" ELSE @]

Marked(p, q) ==
    LET stranger == ~ Friendly(p, q)
        yellow == stranger /\ fighter[p].skull = "none" /\ SkullClient(p, q) = "yellow"
        aggressor == stranger /\ ~ yellow /\ p \notin fighter[q].attacked
        white == aggressor /\ fighter[p].skull = "none" /\ fighter[q].skull = "none"
    IN  [fighter EXCEPT
          ![q].infight = TRUE,
          ![p].infight = TRUE,
          ![p].attacked = IF yellow \/ aggressor THEN @ \cup {q} ELSE @,
          ![p].pzLocked = @ \/ aggressor,
          ![p].skull = IF white THEN "white" ELSE @]

(* Combat::doTargetCombat: a blow that is blocked only marks; a script may  *)
(* prevent one that kills.                                                 *)
MayStrike(c, q) ==
    InWorld(c) /\ InWorld(q) /\ Responsible(c) # q /\ ~ Forbidden(Responsible(c), q)

Blocked(c, q) ==
    /\ MayStrike(c, q)
    /\ fighter' = Marked(Responsible(c), q)
    /\ NoDeath /\ UNCHANGED <<damageMap, lastHit, dying, present>>

Blow(c, q, blow, script, spared) ==
    LET hit == ChangeHealth(Target(q), blow, script)
        saved == spared /\ hit.health = 0
        credit == IF saved THEN 0 ELSE hit.credit
        health == IF saved THEN fighter[q].health ELSE hit.health
    IN  /\ MayStrike(c, q) /\ fighter[q].health > 0
        /\ Credit(damageMap[q]) + credit <= MaxCredit
        /\ fighter' = [Marked(Responsible(c), q) EXCEPT ![q].health = health, ![q].mana = hit.mana]
        /\ damageMap' = [damageMap EXCEPT ![q][c] = @ + credit]
        /\ lastHit' = IF credit > 0 THEN [lastHit EXCEPT ![q] = c] ELSE lastHit
        /\ dying' = IF health = 0 THEN dying \cup {q} ELSE dying
        /\ NoDeath /\ UNCHANGED present

(* Damage of nobody: a field without an owner, drowning.                   *)
Suffer(q) ==
    /\ InWorld(q) /\ fighter[q].health > 0
    /\ fighter' = [fighter EXCEPT ![q].health = @ - 1, ![q].infight = TRUE]
    /\ lastHit' = [lastHit EXCEPT ![q] = Nobody]
    /\ dying' = IF fighter[q].health = 1 THEN dying \cup {q} ELSE dying
    /\ NoDeath /\ UNCHANGED <<damageMap, present>>

Recover(q) ==
    /\ InWorld(q) /\ fighter[q].health > 0
    /\ fighter' = [fighter EXCEPT ![q].health = MaxHealth, ![q].mana = MaxMana]
    /\ NoDeath /\ UNCHANGED <<damageMap, lastHit, dying, present>>

-----------------------------------------------------------------------------
(* Player::onKilledCreature, and addUnjustifiedDead.                       *)
SkullOf(skull, kills) ==
    CASE kills >= KillsToBlack -> "black"
      [] kills < KillsToBlack /\ kills >= KillsToRed /\ skull # "black" -> "red"
      [] OTHER -> skull

Killed(f, p, q, last) ==
    LET hostile == ~ Friendly(p, q) /\ q \in f[p].attacked /\ p \notin f[q].attacked
        unjustified == hostile /\ f[q].skull = "none"
        kills == IF unjustified THEN Min({f[p].kills + 1, MaxKills}) ELSE f[p].kills
    IN  [f EXCEPT ![p].kills = kills,
                  ![p].skull = IF unjustified THEN SkullOf(@, kills) ELSE @,
                  ![p].pzLocked = @ \/ (hostile /\ last /\ f[p].infight)]

(* The last to hit, if he is still there, and besides him who has done     *)
(* most of late (any of those whose damage may not be older than PZ_LOCKED), *)
(* unless one of them is or serves the master of the other.                *)
Last(q) == IF lastHit[q] # Nobody /\ InWorld(lastHit[q]) THEN lastHit[q] ELSE Nobody

Most(q) ==
    IF Last(q) = Nobody
    THEN {c \in Creatures : InWorld(c) /\ damageMap[q][c] > 0} \cup {Nobody}
    ELSE {c \in Creatures : InWorld(c) /\ damageMap[q][c] >= damageMap[q][Last(q)]}

BesidesMutant(q, c) ==           \* the master of the last is not looked at
    Last(q) # c /\ (Last(q) = Nobody => c \in Summons)

Besides(q, c) ==
    /\ Last(q) = Nobody => c \in Summons
    /\ Last(q) # Nobody => Responsible(c) # Responsible(Last(q))

(* onDeath: those who hurt him have attacked him no longer before the one  *)
(* who did most is asked, so only a summon can charge its master there.    *)
EndFightOf(f, p) ==
    [f EXCEPT ![p].infight = FALSE, ![p].pzLocked = FALSE, ![p].attacked = {},
              ![p].skull = IF @ \in {"red", "black"} THEN @ ELSE "none"]

Forgets(q) ==
    /\ damageMap' = [p \in Fighters |->
          IF p = q THEN Unhurt
          ELSE [c \in Creatures |-> IF Responsible(c) = q THEN 0 ELSE damageMap[p][c]]]
    /\ lastHit' = [p \in Fighters |->
          IF p = q \/ (lastHit[p] # Nobody /\ Responsible(lastHit[p]) = q)
          THEN Nobody ELSE lastHit[p]]
    /\ dying' = dying \ {q}
    /\ present' = {s \in present : Master[s] # q}

ExecuteDeath(q) ==
    LET asked == {Responsible(c) : c \in {Last(q)} \ {Nobody}}
        hurt == {c \in Fighters : InWorld(c) /\ damageMap[q][c] > 0}
        first == IF Last(q) = Nobody THEN fighter
                 ELSE Killed(fighter, Responsible(Last(q)), q, TRUE)
        cleared == [p \in Fighters |->
                       IF p \in hurt THEN [first[p] EXCEPT !.attacked = @ \ {q}] ELSE first[p]]
    IN  /\ q \in dying
        /\ \E m \in Most(q) :
              LET second == m # Nobody /\ Besides(q, m)
                  f == IF second THEN Killed(cleared, Responsible(m), q, m \in Summons)
                       ELSE cleared
              IN  /\ credited' = [p \in Fighters |->
                        Cardinality({x \in {"last"} : p \in asked})
                        + Cardinality({x \in {"most"} : second /\ Responsible(m) = p})]
                  /\ fighter' = [EndFightOf(f, q) EXCEPT
                        ![q].in = FALSE, ![q].health = MaxHealth, ![q].mana = MaxMana]
        /\ Forgets(q)

-----------------------------------------------------------------------------
(* The infight condition runs out, kills are forgotten.                    *)
EndFight(p) ==
    /\ InWorld(p) /\ fighter[p].infight
    /\ fighter' = EndFightOf(fighter, p)
    /\ NoDeath /\ UNCHANGED <<damageMap, lastHit, dying, present>>

CheckSkullTicks(p, passed) ==
    LET kills == Max({0, fighter[p].kills - passed})
    IN  /\ InWorld(p)
        /\ fighter' = [fighter EXCEPT
              ![p].kills = kills,
              ![p].skull = IF @ \in {"red", "black"} /\ kills = 0 /\ ~ fighter[p].infight
                           THEN "none" ELSE @]
        /\ NoDeath /\ UNCHANGED <<damageMap, lastHit, dying, present>>

(* A player is kicked, or logs out when he does not fight.  Only red and   *)
(* black skulls are saved, and the infight condition.                      *)
Leave(p, kicked) ==
    /\ InWorld(p) /\ (kicked \/ ~ fighter[p].infight)
    /\ fighter' = [fighter EXCEPT
          ![p].in = FALSE, ![p].attacked = {}, ![p].pzLocked = FALSE,
          ![p].health = Max({1, @}),
          ![p].skull = IF @ \in {"red", "black"} /\ fighter[p].kills > 0 THEN @ ELSE "none"]
    /\ Forgets(p) /\ NoDeath

Login(p) ==
    /\ ~ fighter[p].in
    /\ fighter' = [fighter EXCEPT ![p].in = TRUE]
    /\ NoDeath /\ UNCHANGED <<damageMap, lastHit, dying, present>>

Summon(s) ==
    /\ InWorld(Master[s]) /\ s \notin present
    /\ present' = present \cup {s}
    /\ NoDeath /\ UNCHANGED <<fighter, damageMap, lastHit, dying>>

(* A summon dies: the next has another id.                                 *)
Unsummon(s) ==
    /\ s \in present
    /\ present' = present \ {s}
    /\ damageMap' = [p \in Fighters |-> [damageMap[p] EXCEPT ![s] = 0]]
    /\ lastHit' = [p \in Fighters |-> IF lastHit[p] = s THEN Nobody ELSE lastHit[p]]
    /\ NoDeath /\ UNCHANGED <<fighter, dying>>

FightsNext ==
    \/ \E c \in Creatures, q \in Fighters :
          \/ Blocked(c, q)
          \/ \E blow \in Blows, script \in {"none", "raises", "fails"}, spared \in BOOLEAN :
                Blow(c, q, blow, script, spared)
    \/ \E p \in Fighters :
          \/ Suffer(p) \/ Recover(p) \/ ExecuteDeath(p) \/ EndFight(p) \/ Login(p)
          \/ \E passed \in {0, 1} : CheckSkullTicks(p, passed)
          \/ \E kicked \in BOOLEAN : Leave(p, kicked)
    \/ \E s \in Summons : Summon(s) \/ Unsummon(s)

-----------------------------------------------------------------------------
(* Whoever is marked for an attack fights: skulls, the set of those he     *)
(* attacked and the lock end with the infight condition, which every way   *)
(* into them prolongs and every way out of it clears (player.cpp:3333).    *)
MarkedWhileFighting ==
    \A p \in Fighters :
        LET f == fighter[p]
        IN  f.skull = "white" \/ f.attacked # {} \/ f.pzLocked => f.in /\ f.infight

(* A death is credited once to a player, whether he and his summons did    *)
(* the last hit, the most damage, or both (creature.cpp:427).              *)
CreditedOnce == \A p \in Fighters : credited[p] <= 1

(* A script that returns what it is given changes nothing: the second run  *)
(* of the function drains no more mana (game.cpp:3992).                    *)
IdleScriptIsNeutral ==
    \A p \in Fighters, blow \in Blows :
        ChangeHealth(Target(p), blow, "idle") = ChangeHealth(Target(p), blow, "none")

(* What a player loses is what his enemies are credited with, whatever     *)
(* part the shield, the script and the limit of his health take.           *)
CreditIsLoss ==
    \A p \in Fighters :
        LET credit == Credit(damageMap'[p]) - Credit(damageMap[p])
        IN  credit > 0 => fighter[p].health - fighter'[p].health = credit
=============================================================================
