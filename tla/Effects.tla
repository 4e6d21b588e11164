------------------------------- MODULE Effects -------------------------------
(***************************************************************************)
(* What a player's conditions and worn items do to him: the list of        *)
(* conditions of src/src/creature.cpp and condition.cpp, and the equipping *)
(* of items of src/src/movement.cpp.  Both add to the same counters        *)
(* (varSpeed stands for the variable skills and stats too) and take away   *)
(* again what they added; items also add conditions, and change their type *)
(* while they are put on and taken off, which equips them again.           *)
(***************************************************************************)
EXTENDS Integers, FiniteSets, FiniteSetsExt

CONSTANTS
    Items, Slots,
    Bag, Gone,      \* the places of an item that is not worn
    Types, None,
    EquipTo,        \* transformEquipTo of each type, or None
    DeEquipTo,      \* transformDeEquipTo, or None
    DecayTo,        \* what it decays to: a type, or None if it vanishes
    Charged,        \* the types with charges
    Plain,          \* the types without equip events
    Speed,          \* abilities.speed of each type
    Shields,        \* the types with abilities.manaShield
    FirstTypes,     \* the types the items start with
    Castable,       \* conditions a spell or a field can add
    MaxEvents       \* bound on the events pending of each kind

VARIABLES
    player,         \* the members of Player and of what he wears
    stored          \* the conditions saved with him, while he is offline

effectVars == <<player, stored>>

Online == player.online

EffectsInit ==
    /\ \E type \in [Items -> FirstTypes] :
         player = [online |-> TRUE, conditions |-> {}, varSpeed |-> 0, pzLocked |-> FALSE,
                   adds |-> {}, removes |-> 0, met |-> FALSE,
                   type |-> type, place |-> [i \in Items |-> Bag],
                   ability |-> [s \in Slots |-> FALSE]]
    /\ stored = {}

-----------------------------------------------------------------------------
(* Conditions: a record of type, id, delta of the speed, whether its ticks *)
(* are -1, and whether its endTime has passed while it waits in the list   *)
(* for executeConditions, which comes once a second.  That is kept for     *)
(* Timed, the types this module asks hasCondition about.                   *)
InfightCondition ==
    [type |-> "infight", id |-> 0, delta |-> 0, forever |-> FALSE, over |-> FALSE]
ShieldOf(s) == [InfightCondition EXCEPT !.type = "manashield", !.id = s, !.forever = TRUE]

Timed == {"haste", "paralyze"}

(* getCondition finds what is in the list, hasCondition what still lasts   *)
(* (no item suppresses haste or paralyze: items.cpp:1218).                 *)
Has(p, t) == \E c \in p.conditions : c.type = t
HasCondition(p, t) == \E c \in p.conditions : c.type = t /\ ~ c.over
Meet(p) == \A t \in Timed : Has(p, t)

(* Condition::isPersistent; a condition of a worn item has its slot as id  *)
(* and ticks of -1.                                                        *)
Persistent(c) == ~ c.forever

(* endCondition and onEndCondition of some conditions.                     *)
End(p, gone) ==
    LET q == [p EXCEPT !.conditions = @ \ gone,
                       !.varSpeed = @ - MapThenSumSet(LAMBDA c : c.delta, gone),
                       !.pzLocked = @ /\ ~ \E c \in gone : c.type = "infight"]
    IN  [q EXCEPT !.met = @ /\ Meet(q)]

OfType(p, t) == {c \in p.conditions : c.type = t}

(* Creature::removeCondition: a paralyzed creature that walks loses the    *)
(* condition later, by an event.                                           *)
RemoveCondition(p, gone, force, walks) ==
    IF ~ force /\ walks /\ \E c \in gone : c.type = "paralyze"
    THEN [p EXCEPT !.removes = @ + 1]
    ELSE End(p, gone)

(* onAddCondition: of haste and paralyze, the one that was there goes, if  *)
(* its time is not over.  If it is, both stay, and stay when it is cast    *)
(* again before it is executed; "met" records that.                        *)
Opposite(t) == CHOOSE o \in Timed : o # t

OnAddMutant(p, t, walks) ==      \* forgets paralyze against haste
    IF t = "haste" THEN RemoveCondition(p, OfType(p, "paralyze"), FALSE, walks) ELSE p

OnAdd(p, t, walks) ==
    IF t \notin Timed
    THEN p
    ELSE IF HasCondition(p, Opposite(t))
    THEN RemoveCondition(p, OfType(p, Opposite(t)), FALSE, walks)
    ELSE [p EXCEPT !.met = Meet(p)]

Start(p, c, walks) ==
    OnAdd([p EXCEPT !.conditions = @ \cup {c}, !.varSpeed = @ + c.delta], c.type, walks)

(* addCondition of a condition of the same type and id.  ConditionSpeed    *)
(* takes the new values whatever time is left; the others do when the new  *)
(* one lasts longer.                                                       *)
Merge(p, old, c, longer) ==
    IF (old.forever /\ ~ c.forever) \/ (~ longer /\ c.type \notin Timed)
    THEN p
    ELSE [p EXCEPT !.conditions = (@ \ {old}) \cup {c},
                   !.varSpeed = @ + c.delta - old.delta]

(* Creature::addCondition: haste waits for the step of a paralyzed walker. *)
AddCondition(p, c, force, walks, longer) ==
    LET same == {o \in p.conditions : o.type = c.type /\ o.id = c.id}
    IN  IF ~ force /\ walks /\ c.type = "haste" /\ HasCondition(p, "paralyze")
        THEN [p EXCEPT !.adds = @ \cup {c}]
        ELSE IF same # {}
        THEN Merge(p, CHOOSE o \in same : TRUE, c, longer)
        ELSE Start(p, c, walks)

-----------------------------------------------------------------------------
(* Worn items: MoveEvent::EquipItem, DeEquipItem and Game::transformItem.  *)
Apply(p, t, s) ==
    LET q == [p EXCEPT !.varSpeed = @ + Speed[t]]
    IN  IF t \in Shields THEN AddCondition(q, ShieldOf(s), FALSE, FALSE, TRUE) ELSE q

Unapply(p, t, s) ==
    LET q == [p EXCEPT !.varSpeed = @ - Speed[t]]
    IN  IF t \in Shields
        THEN End(q, {c \in q.conditions : c.type = "manashield" /\ c.id = s})
        ELSE q

RECURSIVE Equip(_, _, _), DeEquip(_, _, _, _), Transform(_, _, _)

Equip(p, i, s) ==
    LET t == p.type[i]
    IN  IF t \in Plain \/ p.ability[s]
        THEN p
        ELSE IF EquipTo[t] # None
        THEN Apply(Transform(p, i, EquipTo[t]), t, s)
        ELSE Apply([p EXCEPT !.ability[s] = TRUE], t, s)

(* An item without events resets the slot all the same.  What is taken     *)
(* back is what type t gave, also when the transformation has equipped the *)
(* item anew.                                                              *)
DeEquipMutant(p, i, t, s) ==     \* an item without events leaves the slot
    IF t \in Plain \/ ~ p.ability[s]
    THEN p
    ELSE LET q == [p EXCEPT !.ability[s] = FALSE]
         IN  Unapply(IF DeEquipTo[t] = None THEN q ELSE Transform(q, i, DeEquipTo[t]), t, s)

DeEquip(p, i, t, s) ==
    IF t \in Plain
    THEN [p EXCEPT !.ability[s] = FALSE]
    ELSE IF ~ p.ability[s]
    THEN p
    ELSE LET q == [p EXCEPT !.ability[s] = FALSE]
         IN  Unapply(IF DeEquipTo[t] = None THEN q ELSE Transform(q, i, DeEquipTo[t]), t, s)

(* A worn item is taken off and put on again with its new type.            *)
Transform(p, i, t) ==
    IF p.place[i] = Gone \/ p.type[i] = t
    THEN p
    ELSE IF p.place[i] = Bag
    THEN [p EXCEPT !.type[i] = t]
    ELSE LET s == p.place[i]
         IN  Equip([DeEquip(p, i, p.type[i], s) EXCEPT !.type[i] = t], i, s)

-----------------------------------------------------------------------------
(* The game thread.  "walks": the player is between two steps.             *)
CastCondition(c, walks, longer) ==
    /\ Online
    /\ player' = AddCondition(player, c, FALSE, walks, longer)
    /\ Cardinality(player'.adds) <= MaxEvents /\ player'.removes <= MaxEvents
    /\ UNCHANGED stored

(* One condition, or all of a type, is dispelled; a condition of a worn    *)
(* item stays (in an enforced world the item may vanish instead: Move).    *)
Dispel(t, walks) ==
    /\ Online
    /\ LET those == {c \in OfType(player, t) : c.type # "manashield"}
       IN  \E gone \in {those} \cup {{c} : c \in those} :
             player' = RemoveCondition(player, gone, FALSE, walks)
    /\ player'.removes <= MaxEvents
    /\ UNCHANGED stored

(* The time of a condition passes; executeConditions finds out later.      *)
Expires(c) ==
    /\ Online /\ c \in player.conditions
    /\ c.type \in Timed /\ ~ c.forever /\ ~ c.over
    /\ player' = [player EXCEPT !.conditions = (@ \ {c}) \cup {[c EXCEPT !.over = TRUE]}]
    /\ UNCHANGED stored

RunsOut(c) ==
    /\ Online /\ c \in player.conditions /\ ~ c.forever
    /\ c.type \in Timed => c.over
    /\ player' = End(player, {c})
    /\ UNCHANGED stored

ForceAddCondition(c, walks) ==
    /\ Online /\ c \in player.adds
    /\ player' = [AddCondition(player, c, TRUE, walks, TRUE) EXCEPT !.adds = @ \ {c}]
    /\ player'.removes <= MaxEvents
    /\ UNCHANGED stored

ForceRemoveCondition ==
    /\ Online /\ player.removes > 0
    /\ player' = [End(player, OfType(player, "paralyze")) EXCEPT !.removes = @ - 1]
    /\ UNCHANGED stored

(* onAttackedCreature, onKilledCreature and onAttacked.                    *)
Fight(locks, longer) ==
    /\ Online
    /\ player' = AddCondition([player EXCEPT !.pzLocked = @ \/ locks],
                              InfightCondition, FALSE, FALSE, longer)
    /\ UNCHANGED stored

(* Death where nothing is lost ends what would be saved; the player stays. *)
DieInArena ==
    /\ Online
    /\ player' = End(player, {c \in player.conditions : Persistent(c)})
    /\ UNCHANGED stored

-----------------------------------------------------------------------------
(* The notifications come when the item has arrived.                       *)
Arrives(p, i) == IF p.place[i] \in Slots THEN Equip(p, i, p.place[i]) ELSE p

Move(i, to) ==
    /\ Online /\ player.place[i] # Gone /\ to # player.place[i]
    /\ to \in Slots => \A j \in Items : player.place[j] # to
    /\ LET from == player.place[i]
           moved == [player EXCEPT !.place[i] = to]
       IN  player' = Arrives(IF from \in Slots
                             THEN DeEquip(moved, i, moved.type[i], from)
                             ELSE moved, i)
    /\ UNCHANGED stored

(* internalDecayItem; an item that decays to nothing is moved to Gone.     *)
Decay(i) ==
    /\ Online /\ player.place[i] \in Slots
    /\ DecayTo[player.type[i]] # None
    /\ player' = Transform(player, i, DecayTo[player.type[i]])
    /\ UNCHANGED stored

(* The last charge of a worn item: another item replaces it, which is put  *)
(* on before the old one is taken off.                                     *)
UseUp(i) ==
    /\ Online /\ player.place[i] \in Slots /\ player.type[i] \in Charged
    /\ LET s == player.place[i]
           t == player.type[i]
           replaced == [player EXCEPT !.type[i] = DecayTo[t]]
       IN  player' = DeEquip(Equip(replaced, i, s), i, t, s)
    /\ UNCHANGED stored

-----------------------------------------------------------------------------
(* Player::onRemoveCreature, then the player is saved.                     *)
OverWorn(Op(_, _, _), p) ==
    FoldSet(LAMBDA s, q : LET worn == {i \in Items : q.place[i] = s}
                          IN  IF worn = {} THEN q ELSE Op(q, CHOOSE i \in worn : TRUE, s),
            p, Slots)

LogOut ==
    /\ Online
    /\ LET p == OverWorn(LAMBDA q, i, s : DeEquip(q, i, q.type[i], s), player)
       IN  /\ player' = [p EXCEPT !.online = FALSE, !.adds = {}, !.removes = 0,
                                !.met = FALSE]
           /\ stored' = {[c EXCEPT !.over = FALSE] : c \in {x \in p.conditions : Persistent(x)}}

(* A new Player: onCreatureAppear equips what he wears, except what he no  *)
(* longer may, then starts the saved conditions, in the order of a list.   *)
(* One saved with no ticks left is over from the start.                    *)
LogIn(barred, last, spent) ==
    /\ ~ Online
    /\ LET new == [player EXCEPT !.online = TRUE, !.conditions = {}, !.varSpeed = 0,
                                  !.pzLocked = FALSE, !.ability = [s \in Slots |-> FALSE]]
           dressed == OverWorn(LAMBDA q, i, s : IF i \in barred THEN q ELSE Equip(q, i, s),
                               new)
           start(p, cs) ==
             FoldSet(LAMBDA c, q : AddCondition(q, [c EXCEPT !.over = c \in spent],
                                                FALSE, FALSE, TRUE), p, cs)
       IN  player' = start(start(dressed, stored \ last), last)
    /\ stored' = {}

EffectsNext ==
    \/ ForceRemoveCondition \/ DieInArena \/ LogOut
    \/ \E c \in Castable, walks, longer \in BOOLEAN : CastCondition(c, walks, longer)
    \/ \E c \in player.conditions : Expires(c) \/ RunsOut(c)
    \/ \E t \in {c.type : c \in player.conditions}, walks \in BOOLEAN : Dispel(t, walks)
    \/ \E c \in player.adds, walks \in BOOLEAN : ForceAddCondition(c, walks)
    \/ \E locks, longer \in BOOLEAN : Fight(locks, longer)
    \/ \E i \in Items : Decay(i) \/ UseUp(i) \/ \E to \in Slots \cup {Bag, Gone} : Move(i, to)
    \/ \E barred \in SUBSET Items, last \in {{}} \cup {{c} : c \in stored},
          spent \in SUBSET {c \in stored : c.type \in Timed} : LogIn(barred, last, spent)

-----------------------------------------------------------------------------
(* The speed is that of the conditions and the enabled slots together, and *)
(* the conditions of items are those of the enabled slots, whatever was    *)
(* put on, transformed, merged or ended in between; a slot is enabled for  *)
(* an item in it only, which has changed its type if it must to be worn    *)
(* (creature.cpp:1019, movement.cpp:627, :655, :751).                      *)
Worn(s) == {i \in Items : player.place[i] = s /\ player.ability[s]}
EffectsAddUp ==
    Online =>
        /\ player.varSpeed =
              MapThenSumSet(LAMBDA c : c.delta, player.conditions)
              + MapThenSumSet(LAMBDA i : Speed[player.type[i]], UNION {Worn(s) : s \in Slots})
        /\ {c \in player.conditions : c.type = "manashield"} =
              {ShieldOf(s) : s \in {x \in Slots : \E i \in Worn(x) : player.type[i] \in Shields}}
        /\ \A s \in Slots :
              player.ability[s] => \E i \in Worn(s) : EquipTo[player.type[i]] = None

(* Haste and paralyze meet only while an event is pending that ends the    *)
(* paralysis, or since one was added when the time of the other was over   *)
(* and the other not yet executed (creature.cpp:859, :1155); a protection  *)
(* zone stays closed for as long as a fight lasts, and no longer           *)
(* (player.cpp:3330).                                                      *)
ConditionsAgree ==
    Online =>
        /\ Meet(player) => player.removes > 0 \/ player.met
        /\ player.pzLocked => Has(player, "infight")
=============================================================================
