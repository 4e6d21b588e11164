------------------------------- MODULE MCPlayer -------------------------------
(* A player with two things to wear on two slots: a ring and boots that      *)
(* change when worn, a helmet and a charm that wear out.                     *)
EXTENDS Effects, TLC

CONSTANTS i1, i2, head, ring

MCEquipTo == [t \in Types |-> CASE t = "ring" -> "ringOn" [] t = "boots" -> "bootsOn" [] OTHER -> None]
MCDeEquipTo ==
    [t \in Types |-> CASE t = "ringOn" -> "ring" [] t = "bootsOn" -> "boots"
                       [] t = "deep" -> "helmet" [] OTHER -> None]
MCDecayTo ==
    [t \in Types |-> CASE t = "bootsOn" -> "worn" [] t = "deep" -> "helmet"
                       [] t = "charm" -> "dull" [] OTHER -> None]
MCSpeed == [t \in Types |-> CASE t \in {"ringOn", "charm"} -> 1 [] t = "deep" -> 2 [] OTHER -> 0]

haste == [InfightCondition EXCEPT !.type = "haste", !.delta = 3]
MCCastable ==
    {haste, [haste EXCEPT !.delta = 2, !.forever = TRUE],
     [haste EXCEPT !.type = "paralyze", !.delta = -3],
     [haste EXCEPT !.type = "boost", !.delta = 5]}

MCSpec == EffectsInit /\ [][EffectsNext]_effectVars

-----------------------------------------------------------------------------
(* Speed and shields are what is worn and suffered, and no slot stays       *)
(* enabled for an item that left (movement.cpp:751, creature.cpp:1040).     *)
EffectsAgree == EffectsAddUp /\ ConditionsAgree
=============================================================================
