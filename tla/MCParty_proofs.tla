---------------------------- MODULE MCParty_proofs ----------------------------
(***************************************************************************)
(* Players who fight: the marks of an attack, who is credited with a       *)
(* death, and what a blow takes and credits.  Players who share a house:   *)
(* the lists, the beds and their sleepers.  Players in parties and         *)
(* channels: who is in them, and what the sharing is decided on.           *)
(***************************************************************************)
EXTENDS MCParty, CollectionFacts

FightFields == {"in", "health", "mana", "skull", "attacked", "infight", "pzLocked", "kills"}

IsFighter(x) == DOMAIN x = FightFields /\ x.health \in Nat /\ x.mana \in Nat

Marks(x) == x.skull = "white" \/ x.attacked # {} \/ x.pzLocked => x.in /\ x.infight

(* A state of the fighters: marks only on who fights, in the world.        *)
AllMarked(f) == DOMAIN f = Fighters /\ \A p \in Fighters : IsFighter(f[p]) /\ Marks(f[p])

(* A summon in the world has its master there: whoever attacks by it can   *)
(* be marked.                                                              *)
MastersIn(f, s) == s \subseteq Summons /\ \A x \in s : f[Master[x]].in

FightsInv ==
    /\ AllMarked(fighter)
    /\ MastersIn(fighter, present)
    /\ damageMap \in [Fighters -> [F!Creatures -> Nat]]
    /\ lastHit \in [Fighters -> F!Creatures \cup {Nobody}]
    /\ dying \subseteq Fighters
    /\ F!CreditedOnce

-----------------------------------------------------------------------------
(* The smaller and the larger of two numbers.                              *)
LEMMA MinOfTwo ==
  ASSUME NEW a \in Int, NEW b \in Int
  PROVE  F!Min({a, b}) = IF a <= b THEN a ELSE b
<1> DEFINE m == IF a <= b THEN a ELSE b
<1>1. m \in {a, b} /\ \A y \in {a, b} : m <= y
  OBVIOUS
<1>2. \A x \in {a, b} : (\A y \in {a, b} : x <= y) => x = m
  OBVIOUS
<1> QED
  BY <1>1, <1>2 DEF F!Min

(* The greater of two.                                                     *)
LEMMA MaxOfTwo ==
  ASSUME NEW a \in Int, NEW b \in Int
  PROVE  F!Max({a, b}) = IF a >= b THEN a ELSE b
<1> DEFINE m == IF a >= b THEN a ELSE b
<1>1. m \in {a, b} /\ \A y \in {a, b} : m >= y
  OBVIOUS
<1>2. \A x \in {a, b} : (\A y \in {a, b} : x >= y) => x = m
  OBVIOUS
<1> QED
  BY <1>1, <1>2 DEF F!Max

-----------------------------------------------------------------------------
(* What a blow takes.                                                      *)
IsTarget(t) ==
    /\ t = [health |-> t.health, mana |-> t.mana, shield |-> t.shield, credit |-> t.credit]
    /\ t.health \in Nat /\ t.mana \in Nat /\ t.shield \in BOOLEAN /\ t.credit = 0

IsBlow(b) ==
    /\ b = [primary |-> b.primary, secondary |-> b.secondary]
    /\ b.primary \in Nat /\ b.secondary \in Nat

(* The shield takes from the mana as much as from the blow, all of it or   *)
(* all of the mana, and nothing else.                                      *)
LEMMA ShieldTakes ==
  ASSUME NEW t, IsTarget(t), NEW b, IsBlow(b)
  PROVE  LET left == F!AfterShield(t, b)
         IN  /\ IsTarget(left.t) /\ IsBlow(left.blow)
             /\ left.t.health = t.health /\ left.t.shield = t.shield
             /\ t.shield => left.t.mana = 0 \/ left.blow.primary + left.blow.secondary = 0
             /\ (~ t.shield \/ t.mana = 0) => left.t = t /\ left.blow = b
<1> DEFINE total == b.primary + b.secondary
           mana == IF t.shield THEN F!Min({t.mana, total}) ELSE 0
           rest == b.primary - mana
           u == [t EXCEPT !.mana = @ - mana]
           c == [primary |-> F!Max({rest, 0}),
                 secondary |-> IF rest < 0 THEN F!Max({0, b.secondary + rest}) ELSE b.secondary]
<1>1. /\ t.health \in Nat /\ t.mana \in Nat /\ t.shield \in BOOLEAN /\ t.credit = 0
      /\ b.primary \in Nat /\ b.secondary \in Nat /\ total \in Nat
  BY DEF IsTarget, IsBlow
<1>2. mana = IF t.shield THEN (IF t.mana <= total THEN t.mana ELSE total) ELSE 0
  BY <1>1, MinOfTwo
<1>3. mana \in Nat /\ rest \in Int /\ b.secondary + rest \in Int
  BY <1>1, <1>2
<1>4. /\ F!Max({rest, 0}) = IF rest >= 0 THEN rest ELSE 0
      /\ F!Max({0, b.secondary + rest}) = IF 0 >= b.secondary + rest THEN 0 ELSE b.secondary + rest
  <2> HIDE DEF rest
  <2> QED
    BY <1>1, <1>3, MaxOfTwo
<1>5. F!AfterShield(t, b) = [t |-> u, blow |-> c]
  BY DEF F!AfterShield
<1>6. u = [health |-> t.health, mana |-> t.mana - mana, shield |-> t.shield, credit |-> t.credit]
  <2> HIDE DEF mana
  <2> QED
    BY DEF IsTarget
<1> HIDE DEF u
<1>7. IsTarget(u) /\ u.health = t.health /\ u.shield = t.shield /\ u.mana = t.mana - mana
  <2>1. t.mana - mana \in Nat
    BY <1>1, <1>2
  <2> HIDE DEF mana
  <2> QED
    BY <1>1, <1>6, <2>1 DEF IsTarget
<1>8. /\ c.primary = IF rest >= 0 THEN rest ELSE 0
      /\ c.secondary = IF rest >= 0 THEN b.secondary
                       ELSE IF 0 >= b.secondary + rest THEN 0 ELSE b.secondary + rest
  <2> HIDE DEF rest
  <2> QED
    BY <1>3, <1>4
<1>9. c.primary \in Nat /\ c.secondary \in Nat
  BY <1>1, <1>3, <1>8
<1>10. IsBlow(c)
  <2>1. c = [primary |-> c.primary, secondary |-> c.secondary]
    OBVIOUS
  <2> HIDE DEF c
  <2> QED
    BY <1>9, <2>1 DEF IsBlow
<1>11. t.shield => t.mana - mana = 0 \/ c.primary + c.secondary = 0
  <2> HIDE DEF c
  <2> QED
    BY <1>1, <1>2, <1>8
<1>12. ASSUME ~ t.shield \/ t.mana = 0 PROVE u = t /\ c = b
  <2>1. mana = 0
    BY <1>1, <1>2, <1>12
  <2>2. t.mana - mana = t.mana /\ c.primary = b.primary /\ c.secondary = b.secondary
    BY <1>1, <1>8, <2>1
  <2>3. c = [primary |-> c.primary, secondary |-> c.secondary]
    OBVIOUS
  <2> HIDE DEF c, mana
  <2> QED
    BY <1>6, <2>2, <2>3 DEF IsTarget, IsBlow
<1> HIDE DEF c, mana
<1> QED
  BY <1>5, <1>7, <1>10, <1>11, <1>12

(* What is taken from the health is credited.                              *)
LEMMA StrikeTakes ==
  ASSUME NEW t, IsTarget(t), NEW b, IsBlow(b)
  PROVE  LET hit == F!Strike(t, b)
         IN  /\ hit.health \in Nat /\ hit.mana \in Nat /\ hit.credit \in Nat
             /\ t.health - hit.health = hit.credit
<1> DEFINE first == F!Min({b.primary, t.health})
           second == IF b.primary >= t.health THEN 0
                     ELSE F!Min({b.secondary, t.health - first})
<1>1. /\ t.health \in Nat /\ t.mana \in Nat /\ b.primary \in Nat /\ b.secondary \in Nat
  BY DEF IsTarget, IsBlow
<1>2. first = IF b.primary <= t.health THEN b.primary ELSE t.health
  BY <1>1, MinOfTwo
<1>3. first \in Nat /\ t.health - first \in Nat
  BY <1>1, <1>2
<1>4. F!Min({b.secondary, t.health - first}) =
          IF b.secondary <= t.health - first THEN b.secondary ELSE t.health - first
  <2> HIDE DEF first
  <2> QED
    BY <1>1, <1>3, MinOfTwo
<1>5. second \in Nat /\ t.health - first - second \in Nat
  <2> HIDE DEF first
  <2> QED
    BY <1>1, <1>2, <1>3, <1>4
<1>6. F!Strike(t, b) = [t EXCEPT !.health = @ - first - second, !.credit = first + second]
  BY DEF F!Strike
<1> HIDE DEF first, second
<1>7. F!Strike(t, b) = [health |-> t.health - first - second, mana |-> t.mana,
                        shield |-> t.shield, credit |-> first + second]
  BY <1>6 DEF IsTarget
<1> QED
  BY <1>1, <1>3, <1>5, <1>7

(* A blow, whatever a script does: what it credits the target has lost.    *)
LEMMA ChangeTakes ==
  ASSUME NEW t, IsTarget(t), NEW b, IsBlow(b), NEW script
  PROVE  LET hit == F!ChangeHealth(t, b, script)
         IN  /\ hit.health \in Nat /\ hit.mana \in Nat /\ hit.credit \in Nat
             /\ hit.credit > 0 => t.health - hit.health = hit.credit
<1> DEFINE left == F!AfterShield(t, b)
           v == left.t
           c == left.blow
<1>1. IsTarget(v) /\ IsBlow(c) /\ v.health = t.health
  BY ShieldTakes
<1> HIDE DEF v, c
<1>2. v.health \in Nat /\ v.mana \in Nat /\ v.credit = 0 /\ c.primary \in Nat
  BY <1>1 DEF IsTarget, IsBlow
<1>3. LET hit == F!Strike(v, c)
      IN  /\ hit.health \in Nat /\ hit.mana \in Nat /\ hit.credit \in Nat
          /\ t.health - hit.health = hit.credit
  BY <1>1, StrikeTakes
<1>4. LET hit == F!Scripted(v, c, script)
      IN  /\ hit.health \in Nat /\ hit.mana \in Nat /\ hit.credit \in Nat
          /\ hit.credit > 0 => t.health - hit.health = hit.credit
  <2>1. CASE script = "fails" /\ c.primary > 0
    <3> DEFINE healed == F!Min({MaxHealth, v.health + c.primary})
    <3>1. healed \in Nat
      <4>1. MaxHealth \in Int /\ v.health + c.primary \in Int /\ v.health + c.primary \in Nat
            /\ MaxHealth \in Nat
        BY <1>2, FightsAssumption
      <4> QED
        BY <4>1, MinOfTwo
    <3>2. F!Scripted(v, c, script) = [v EXCEPT !.health = healed]
      BY <2>1 DEF F!Scripted
    <3> HIDE DEF healed
    <3>3. F!Scripted(v, c, script) =
              [health |-> healed, mana |-> v.mana, shield |-> v.shield, credit |-> v.credit]
      BY <1>1, <3>2 DEF IsTarget
    <3> QED
      BY <1>2, <3>1, <3>3
  <2>2. CASE ~ (script = "fails" /\ c.primary > 0)
    <3> DEFINE d == IF script = "raises" THEN [c EXCEPT !.primary = @ + 1] ELSE c
    <3>1. IsBlow(d)
      <4>1. CASE script = "raises"
        <5>1. d = [primary |-> c.primary + 1, secondary |-> c.secondary]
          BY <1>1, <4>1 DEF IsBlow
        <5> HIDE DEF d
        <5> QED
          BY <1>1, <5>1 DEF IsBlow
      <4>2. CASE script # "raises"
        BY <1>1, <4>2
      <4> QED
        BY <4>1, <4>2
    <3> DEFINE again == F!AfterShield(v, d)
    <3>2. F!Scripted(v, c, script) = F!Strike(again.t, again.blow)
      BY <2>2 DEF F!Scripted
    <3> HIDE DEF d
    <3>3. IsTarget(again.t) /\ IsBlow(again.blow) /\ again.t.health = t.health
      BY <1>1, <3>1, ShieldTakes
    <3> HIDE DEF again
    <3>4. LET hit == F!Strike(again.t, again.blow)
          IN  /\ hit.health \in Nat /\ hit.mana \in Nat /\ hit.credit \in Nat
              /\ t.health - hit.health = hit.credit
      BY <3>3, StrikeTakes
    <3> QED
      BY <3>2, <3>4
  <2> QED
    BY <2>1, <2>2
<1>5. \/ F!ChangeHealth(t, b, script) = v
      \/ F!ChangeHealth(t, b, script) = F!Strike(v, c)
      \/ F!ChangeHealth(t, b, script) = F!Scripted(v, c, script)
  BY DEF F!ChangeHealth, v, c
<1> QED
  BY <1>2, <1>3, <1>4, <1>5

(* A target is one.                                                        *)
LEMMA TargetIs ==
  ASSUME NEW p \in Fighters, FightsInv
  PROVE  IsTarget(F!Target(p)) /\ F!Target(p).health = fighter[p].health
BY DEF F!Target, IsTarget, FightsInv, AllMarked, IsFighter

(* Blows have their two damages.                                           *)
LEMMA BlowIs == \A b \in Blows : IsBlow(b)
BY FightsAssumption DEF IsBlow

(* The second run of the function finds no mana, or no shield, or nothing. *)
LEMMA IdleIsNeutral ==
  ASSUME FightsInv
  PROVE  F!IdleScriptIsNeutral
<1> SUFFICES ASSUME NEW p \in Fighters, NEW b \in Blows
             PROVE  F!ChangeHealth(F!Target(p), b, "idle") = F!ChangeHealth(F!Target(p), b, "none")
  BY DEF F!IdleScriptIsNeutral
<1> DEFINE t == F!Target(p)
           left == F!AfterShield(t, b)
           v == left.t
           c == left.blow
<1>1. IsTarget(t) /\ IsBlow(b)
  BY TargetIs, BlowIs
<1> HIDE DEF t
<1>2. /\ IsTarget(v) /\ IsBlow(c)
      /\ t.shield => v.mana = 0 \/ c.primary + c.secondary = 0
      /\ v.shield = t.shield
  BY <1>1, ShieldTakes
<1>3. /\ F!ChangeHealth(t, b, "none") = IF c.primary + c.secondary = 0 THEN v ELSE F!Strike(v, c)
      /\ F!ChangeHealth(t, b, "idle") = IF c.primary + c.secondary = 0 THEN v
                                        ELSE F!Scripted(v, c, "idle")
  BY DEF F!ChangeHealth
<1> HIDE DEF v, c
<1>4. F!Scripted(v, c, "idle") = F!Strike(F!AfterShield(v, c).t, F!AfterShield(v, c).blow)
  BY DEF F!Scripted
<1>5. ASSUME c.primary + c.secondary # 0
      PROVE  F!AfterShield(v, c).t = v /\ F!AfterShield(v, c).blow = c
  <2>1. ~ v.shield \/ v.mana = 0
    BY <1>2, <1>5 DEF IsTarget
  <2> QED
    BY <1>2, <2>1, ShieldTakes
<1> QED
  BY <1>3, <1>4, <1>5 DEF t

-----------------------------------------------------------------------------
(* Whom an attack marks: the attacker and the attacked fight, nobody's     *)
(* health changes, and nobody comes or goes.                               *)
LEMMA MarkedEffect ==
  ASSUME AllMarked(fighter), NEW p \in Fighters, NEW q \in Fighters,
         fighter[p].in, fighter[q].in
  PROVE  /\ AllMarked(F!Marked(p, q))
         /\ \A x \in Fighters : /\ F!Marked(p, q)[x].in = fighter[x].in
                                /\ F!Marked(p, q)[x].health = fighter[x].health
<1> DEFINE f == F!Marked(p, q)
<1>1. \A x \in Fighters : DOMAIN fighter[x] = FightFields /\ fighter[x].health \in Nat
                          /\ fighter[x].mana \in Nat /\ Marks(fighter[x])
  BY DEF AllMarked, IsFighter
<1>2. DOMAIN f = Fighters
  BY DEF F!Marked, AllMarked
<1>3. \A x \in Fighters : /\ DOMAIN f[x] = FightFields
                          /\ f[x].in = fighter[x].in
                          /\ f[x].health = fighter[x].health /\ f[x].mana = fighter[x].mana
  BY <1>1 DEF F!Marked, AllMarked, FightFields
<1>4. \A x \in Fighters \ {p} : /\ f[x].skull = fighter[x].skull
                                /\ f[x].attacked = fighter[x].attacked
                                /\ f[x].pzLocked = fighter[x].pzLocked
                                /\ (fighter[x].infight => f[x].infight)
  BY <1>1 DEF F!Marked, AllMarked, FightFields
<1>5. f[p].infight
  BY <1>1 DEF F!Marked, AllMarked, FightFields
<1> HIDE DEF f
<1>6. ASSUME NEW x \in Fighters PROVE IsFighter(f[x]) /\ Marks(f[x])
  <2>1. CASE x = p
    BY <1>1, <1>3, <1>5, <2>1 DEF IsFighter, Marks
  <2>2. CASE x # p
    BY <1>1, <1>3, <1>4, <2>2 DEF IsFighter, Marks
  <2> QED
    BY <2>1, <2>2
<1> QED
  BY <1>2, <1>3, <1>6 DEF AllMarked, f

(* A change that takes no one out of the world or out of a fight and marks *)
(* nobody.                                                                 *)
LEMMA Unmarked ==
  ASSUME AllMarked(fighter), NEW f, DOMAIN f = Fighters,
         \A x \in Fighters : /\ IsFighter(f[x])
                             /\ f[x].in = fighter[x].in
                             /\ fighter[x].infight => f[x].infight
                             /\ f[x].skull = fighter[x].skull
                             /\ f[x].attacked = fighter[x].attacked
                             /\ f[x].pzLocked = fighter[x].pzLocked
  PROVE  AllMarked(f)
BY DEF AllMarked, Marks

(* The responsible for what a creature in the world does is there too.     *)
LEMMA ResponsibleIn ==
  ASSUME FightsInv, NEW c \in F!Creatures, F!InWorld(c)
  PROVE  F!Responsible(c) \in Fighters /\ fighter[F!Responsible(c)].in
BY FightsAssumption DEF FightsInv, MastersIn, F!InWorld, F!Responsible, F!Creatures

-----------------------------------------------------------------------------
(* The state at the start.                                                 *)
LEMMA FightsStart == F!FightsInit => FightsInv
<1> SUFFICES ASSUME F!FightsInit PROVE FightsInv
  OBVIOUS
<1>1. \A p \in Fighters : fighter[p] =
          [in |-> TRUE, health |-> MaxHealth, mana |-> MaxMana, skull |-> "none",
           attacked |-> {}, infight |-> FALSE, pzLocked |-> FALSE, kills |-> 0]
  BY DEF F!FightsInit
<1>2. AllMarked(fighter)
  BY <1>1, FightsAssumption DEF AllMarked, IsFighter, Marks, FightFields, F!FightsInit
<1>3. MastersIn(fighter, present)
  BY <1>1, FightsAssumption DEF MastersIn, F!FightsInit
<1>4. damageMap \in [Fighters -> [F!Creatures -> Nat]]
  BY DEF F!FightsInit, F!Unhurt
<1> QED
  BY <1>2, <1>3, <1>4 DEF FightsInv, F!FightsInit, F!CreditedOnce

-----------------------------------------------------------------------------
(* What is needed of a step that credits no death.                         *)
LEMMA NobodyDied ==
  ASSUME FightsInv, F!NoDeath, AllMarked(fighter'), MastersIn(fighter', present'),
         damageMap' \in [Fighters -> [F!Creatures -> Nat]],
         lastHit' \in [Fighters -> F!Creatures \cup {Nobody}],
         dying' \subseteq Fighters
  PROVE  FightsInv'
<1>1. F!CreditedOnce'
  BY DEF F!NoDeath, F!CreditedOnce
<1>2. F!Creatures' = F!Creatures
  BY DEF F!Creatures
<1> QED
  BY <1>1, <1>2 DEF FightsInv, AllMarked, MastersIn

(* Damage a creature does to a player, added to what it has done: the sum  *)
(* grows by as much, and nobody else's changes.                            *)
LEMMA CreditAdded ==
  ASSUME FightsInv, NEW c \in F!Creatures, NEW q \in Fighters, NEW credit \in Nat,
         damageMap' = [damageMap EXCEPT ![q][c] = @ + credit]
  PROVE  /\ damageMap' \in [Fighters -> [F!Creatures -> Nat]]
         /\ F!Credit(damageMap'[q]) - F!Credit(damageMap[q]) = credit
         /\ \A p \in Fighters \ {q} : damageMap'[p] = damageMap[p]
<1> DEFINE v == damageMap[q]
           w == [v EXCEPT ![c] = @ + credit]
<1>1. damageMap \in [Fighters -> [F!Creatures -> Nat]] /\ v \in [F!Creatures -> Nat]
  BY DEF FightsInv
<1>2. damageMap' = [damageMap EXCEPT ![q] = w]
  OBVIOUS
<1> HIDE DEF v
<1>3. /\ w \in [F!Creatures -> Nat]
      /\ w[c] = v[c] + credit /\ v[c] \in Nat
      /\ \A y \in F!Creatures \ {c} : w[y] = v[y]
  BY <1>1
<1> HIDE DEF w
<1>4. damageMap' \in [Fighters -> [F!Creatures -> Nat]] /\ damageMap'[q] = w
  BY <1>1, <1>2, <1>3
<1>5. IsFiniteSet(F!Creatures)
  BY FightsAssumption, FS_Union DEF F!Creatures
<1>6. /\ \A y \in F!Creatures : v[y] \in Int /\ w[y] \in Int
      /\ \A y \in F!Creatures \ {c} : v[y] = w[y]
  BY <1>1, <1>3
<1>7. Sum(w, F!Creatures) - Sum(v, F!Creatures) = w[c] - v[c]
  <2> DEFINE S == F!Creatures
  <2>1. IsFiniteSet(S) /\ c \in S /\ (\A y \in S : v[y] \in Int /\ w[y] \in Int)
        /\ (\A y \in S \ {c} : v[y] = w[y])
    BY <1>5, <1>6
  <2> HIDE DEF S
  <2>2. Sum(w, S) - Sum(v, S) = w[c] - v[c]
    BY <2>1, SumChangedAt
  <2> QED
    BY <2>2 DEF S
<1>8. F!Credit(w) = Sum(w, F!Creatures) /\ F!Credit(v) = Sum(v, F!Creatures)
  BY DEF F!Credit, Sum, F!MapThenSumSet, MapThenSumSet, F!MapThenFoldSet, MapThenFoldSet
<1>9. w[c] - v[c] = credit
  BY <1>3
<1> QED
  BY <1>1, <1>2, <1>4, <1>7, <1>8, <1>9 DEF v

(* Damage that is forgotten makes no sum larger.                           *)
LEMMA CreditForgotten ==
  ASSUME NEW v \in [F!Creatures -> Nat], NEW w \in [F!Creatures -> Nat],
         \A c \in F!Creatures : w[c] <= v[c]
  PROVE  ~ (F!Credit(w) - F!Credit(v) > 0)
<1>1. IsFiniteSet(F!Creatures)
  BY FightsAssumption, FS_Union DEF F!Creatures
<1>2. \A y \in F!Creatures : w[y] \in Int /\ v[y] \in Int /\ w[y] <= v[y]
  OBVIOUS
<1>3. Sum(w, F!Creatures) <= Sum(v, F!Creatures)
  BY <1>1, <1>2, SumsOrdered
<1>4. Sum(w, F!Creatures) \in Int /\ Sum(v, F!Creatures) \in Int
  BY <1>1, <1>2, SumIsInt
<1>5. F!Credit(w) = Sum(w, F!Creatures) /\ F!Credit(v) = Sum(v, F!Creatures)
  BY DEF F!Credit, Sum, F!MapThenSumSet, MapThenSumSet, F!MapThenFoldSet, MapThenFoldSet
<1> QED
  BY <1>3, <1>4, <1>5

(* Nobody is credited where no damage is noted.                            *)
LEMMA NothingCredited ==
  ASSUME FightsInv, damageMap' = damageMap
  PROVE  F!CreditIsLoss
<1> SUFFICES ASSUME NEW p \in Fighters
             PROVE  ~ (F!Credit(damageMap'[p]) - F!Credit(damageMap[p]) > 0)
  BY DEF F!CreditIsLoss
<1>1. damageMap[p] \in [F!Creatures -> Nat]
  BY DEF FightsInv
<1>2. \A c \in F!Creatures : damageMap[p][c] <= damageMap[p][c]
  BY <1>1
<1> QED
  BY <1>1, <1>2, CreditForgotten

-----------------------------------------------------------------------------
(* The steps of a fight.                                                   *)
LEMMA PlayerIn ==
  ASSUME FightsInv, NEW p \in Fighters, F!InWorld(p)
  PROVE  fighter[p].in
BY FightsAssumption DEF FightsInv, MastersIn, F!InWorld

(* A blow that is blocked only marks.                                      *)
LEMMA BlockedKeeps ==
  ASSUME FightsInv, NEW c \in F!Creatures, NEW q \in Fighters, F!Blocked(c, q)
  PROVE  FightsInv' /\ F!CreditIsLoss
<1> DEFINE p == F!Responsible(c)
<1>1. p \in Fighters /\ fighter[p].in /\ fighter[q].in
  BY ResponsibleIn, PlayerIn DEF F!Blocked, F!MayStrike
<1>2. AllMarked(fighter)
  BY DEF FightsInv
<1> HIDE DEF p
<1>3. /\ AllMarked(F!Marked(p, q))
      /\ \A x \in Fighters : F!Marked(p, q)[x].in = fighter[x].in
  BY <1>1, <1>2, MarkedEffect
<1>4. fighter' = F!Marked(p, q)
  BY DEF F!Blocked, p
<1>5. AllMarked(fighter')
  BY <1>3, <1>4 DEF AllMarked
<1>6. MastersIn(fighter', present')
  BY <1>3, <1>4, FightsAssumption DEF MastersIn, FightsInv, F!Blocked
<1> QED
  BY <1>5, <1>6, NobodyDied, NothingCredited DEF F!Blocked, FightsInv

(* A blow that is not.                                                     *)
LEMMA BlowKeeps ==
  ASSUME FightsInv, NEW c \in F!Creatures, NEW q \in Fighters, NEW blow \in Blows,
         NEW script \in {"none", "raises", "fails"}, NEW spared \in BOOLEAN,
         F!Blow(c, q, blow, script, spared)
  PROVE  FightsInv' /\ F!CreditIsLoss
<1> DEFINE p == F!Responsible(c)
           hit == F!ChangeHealth(F!Target(q), blow, script)
           saved == spared /\ hit.health = 0
           credit == IF saved THEN 0 ELSE hit.credit
           health == IF saved THEN fighter[q].health ELSE hit.health
           f == F!Marked(p, q)
<1>1. p \in Fighters /\ fighter[p].in /\ fighter[q].in
  BY ResponsibleIn, PlayerIn DEF F!Blow, F!MayStrike
<1>2. AllMarked(fighter)
  BY DEF FightsInv
<1>3. /\ fighter' = [f EXCEPT ![q].health = health, ![q].mana = hit.mana]
      /\ damageMap' = [damageMap EXCEPT ![q][c] = @ + credit]
      /\ lastHit' = IF credit > 0 THEN [lastHit EXCEPT ![q] = c] ELSE lastHit
      /\ dying' = IF health = 0 THEN dying \cup {q} ELSE dying
      /\ F!NoDeath /\ present' = present
  BY DEF F!Blow
<1>4. /\ hit.health \in Nat /\ hit.mana \in Nat /\ hit.credit \in Nat
      /\ hit.credit > 0 => fighter[q].health - hit.health = hit.credit
  <2> DEFINE t == F!Target(q)
  <2>1. IsTarget(t) /\ t.health = fighter[q].health /\ IsBlow(blow)
    BY TargetIs, BlowIs
  <2> HIDE DEF t
  <2>2. LET h == F!ChangeHealth(t, blow, script)
        IN  /\ h.health \in Nat /\ h.mana \in Nat /\ h.credit \in Nat
            /\ h.credit > 0 => t.health - h.health = h.credit
    BY <2>1, ChangeTakes
  <2> QED
    BY <2>1, <2>2 DEF t
<1>5. fighter[q].health \in Nat
  BY <1>2 DEF AllMarked, IsFighter
<1> HIDE DEF hit
<1>6. /\ credit \in Nat /\ health \in Nat /\ hit.mana \in Nat
      /\ credit > 0 => fighter[q].health - health = credit
  BY <1>4, <1>5
<1> HIDE DEF credit, health, p
<1>7. /\ AllMarked(f)
      /\ \A x \in Fighters : f[x].in = fighter[x].in /\ f[x].health = fighter[x].health
  BY <1>1, <1>2, MarkedEffect
<1> HIDE DEF f
<1>8. /\ DOMAIN fighter' = Fighters
      /\ \A x \in Fighters : x # q => fighter'[x] = f[x]
      /\ fighter'[q] = [f[q] EXCEPT !.health = health, !.mana = hit.mana]
  BY <1>3, <1>7 DEF AllMarked
<1>9. fighter'[q].health = health /\ fighter'[q].in = f[q].in /\ IsFighter(fighter'[q]) /\ Marks(fighter'[q])
  BY <1>6, <1>7, <1>8 DEF AllMarked, IsFighter, Marks, FightFields
<1>10. AllMarked(fighter')
  <2> DEFINE g == fighter'
  <2>1. \A x \in Fighters : IsFighter(g[x]) /\ Marks(g[x])
    BY <1>7, <1>8, <1>9 DEF AllMarked
  <2> HIDE DEF g
  <2>2. DOMAIN g = Fighters
    BY <1>8 DEF g
  <2>3. AllMarked(g)
    BY <2>1, <2>2 DEF AllMarked
  <2> QED
    BY <2>3 DEF g
<1>11. MastersIn(fighter', present')
  <2>1. \A x \in Fighters : fighter'[x].in = fighter[x].in
    BY <1>7, <1>8, <1>9
  <2> QED
    BY <1>3, <2>1, FightsAssumption DEF MastersIn, FightsInv
<1>12. /\ damageMap' \in [Fighters -> [F!Creatures -> Nat]]
       /\ F!Credit(damageMap'[q]) - F!Credit(damageMap[q]) = credit
       /\ \A x \in Fighters \ {q} : damageMap'[x] = damageMap[x]
  BY <1>3, <1>6, CreditAdded
<1>13. FightsInv'
  <2>1. lastHit' \in [Fighters -> F!Creatures \cup {Nobody}] /\ dying' \subseteq Fighters
    BY <1>3 DEF FightsInv
  <2> QED
    BY <1>3, <1>10, <1>11, <1>12, <2>1, NobodyDied
<1>14. F!CreditIsLoss
  <2> SUFFICES ASSUME NEW x \in Fighters, F!Credit(damageMap'[x]) - F!Credit(damageMap[x]) > 0
               PROVE  fighter[x].health - fighter'[x].health =
                          F!Credit(damageMap'[x]) - F!Credit(damageMap[x])
    BY DEF F!CreditIsLoss
  <2>1. CASE x = q
    BY <1>6, <1>9, <1>12, <2>1
  <2>2. CASE x # q
    <3>1. damageMap'[x] = damageMap[x] /\ damageMap[x] \in [F!Creatures -> Nat]
      BY <1>12, <2>2 DEF FightsInv
    <3>2. \A y \in F!Creatures : damageMap[x][y] <= damageMap[x][y]
      BY <3>1
    <3>3. ~ (F!Credit(damageMap[x]) - F!Credit(damageMap[x]) > 0)
      BY <3>1, <3>2, CreditForgotten
    <3> QED
      BY <3>1, <3>3
  <2> QED
    BY <2>1, <2>2
<1> QED
  BY <1>13, <1>14

(* Steps that change the health, or who is there, of one player.           *)
LEMMA SufferKeeps ==
  ASSUME FightsInv, NEW q \in Fighters, F!Suffer(q)
  PROVE  FightsInv' /\ F!CreditIsLoss
<1>1. AllMarked(fighter) /\ fighter[q].in
  BY PlayerIn DEF FightsInv, F!Suffer
<1>2. \A x \in Fighters : IsFighter(fighter[x]) /\ Marks(fighter[x])
  BY <1>1 DEF AllMarked
<1>3. fighter[q].health - 1 \in Nat
  BY <1>2 DEF IsFighter, F!Suffer
<1>4. /\ DOMAIN fighter' = Fighters
      /\ \A x \in Fighters : /\ IsFighter(fighter'[x])
                             /\ fighter'[x].in = fighter[x].in
                             /\ fighter[x].infight => fighter'[x].infight
                             /\ fighter'[x].skull = fighter[x].skull
                             /\ fighter'[x].attacked = fighter[x].attacked
                             /\ fighter'[x].pzLocked = fighter[x].pzLocked
  BY <1>1, <1>2, <1>3 DEF F!Suffer, AllMarked, IsFighter, FightFields
<1>5. AllMarked(fighter')
  BY <1>1, <1>4, Unmarked
<1>6. MastersIn(fighter', present')
  BY <1>4, FightsAssumption DEF MastersIn, FightsInv, F!Suffer
<1>7. lastHit' \in [Fighters -> F!Creatures \cup {Nobody}] /\ dying' \subseteq Fighters
  BY DEF FightsInv, F!Suffer
<1> QED
  BY <1>5, <1>6, <1>7, NobodyDied, NothingCredited DEF F!Suffer, FightsInv

(* Health or mana recovered.                                               *)
LEMMA RecoverKeeps ==
  ASSUME FightsInv, NEW q \in Fighters, F!Recover(q)
  PROVE  FightsInv' /\ F!CreditIsLoss
<1>1. AllMarked(fighter)
  BY DEF FightsInv
<1>2. \A x \in Fighters : IsFighter(fighter[x]) /\ Marks(fighter[x])
  BY <1>1 DEF AllMarked
<1>3. /\ DOMAIN fighter' = Fighters
      /\ \A x \in Fighters : /\ IsFighter(fighter'[x])
                             /\ fighter'[x].in = fighter[x].in
                             /\ fighter[x].infight => fighter'[x].infight
                             /\ fighter'[x].skull = fighter[x].skull
                             /\ fighter'[x].attacked = fighter[x].attacked
                             /\ fighter'[x].pzLocked = fighter[x].pzLocked
  BY <1>1, <1>2, FightsAssumption DEF F!Recover, AllMarked, IsFighter, FightFields
<1>4. AllMarked(fighter')
  BY <1>1, <1>3, Unmarked
<1>5. MastersIn(fighter', present')
  BY <1>3, FightsAssumption DEF MastersIn, FightsInv, F!Recover
<1> QED
  BY <1>4, <1>5, NobodyDied, NothingCredited DEF F!Recover, FightsInv

(* Whose fight ends is not marked any more.                                *)
LEMMA EndFightEffect ==
  ASSUME NEW f, AllMarked(f), NEW p \in Fighters
  PROVE  LET g == F!EndFightOf(f, p)
         IN  /\ DOMAIN g = Fighters
             /\ \A x \in Fighters : IsFighter(g[x]) /\ g[x].in = f[x].in
             /\ \A x \in Fighters \ {p} : g[x] = f[x]
             /\ g[p].skull # "white" /\ g[p].attacked = {} /\ ~ g[p].pzLocked
             /\ AllMarked(g)
<1> DEFINE g == F!EndFightOf(f, p)
<1>1. DOMAIN f = Fighters /\ \A x \in Fighters : IsFighter(f[x]) /\ Marks(f[x])
  BY DEF AllMarked
<1>2. DOMAIN g = Fighters /\ \A x \in Fighters \ {p} : g[x] = f[x]
  BY <1>1 DEF F!EndFightOf
<1>3. /\ IsFighter(g[p]) /\ g[p].in = f[p].in
      /\ g[p].skull # "white" /\ g[p].attacked = {} /\ ~ g[p].pzLocked
  BY <1>1 DEF F!EndFightOf, IsFighter, FightFields
<1> HIDE DEF g
<1>4. AllMarked(g)
  BY <1>1, <1>2, <1>3 DEF AllMarked, Marks
<1> QED
  BY <1>1, <1>2, <1>3, <1>4 DEF g

(* The infight condition ends.                                             *)
LEMMA EndFightKeeps ==
  ASSUME FightsInv, NEW p \in Fighters, F!EndFight(p)
  PROVE  FightsInv' /\ F!CreditIsLoss
<1>1. fighter' = F!EndFightOf(fighter, p) /\ AllMarked(fighter)
  BY DEF F!EndFight, FightsInv
<1>2. LET g == F!EndFightOf(fighter, p)
      IN  AllMarked(g) /\ \A x \in Fighters : g[x].in = fighter[x].in
  BY <1>1, EndFightEffect
<1>3. AllMarked(fighter') /\ MastersIn(fighter', present')
  BY <1>1, <1>2, FightsAssumption DEF AllMarked, MastersIn, FightsInv, F!EndFight
<1> QED
  BY <1>3, NobodyDied, NothingCredited DEF F!EndFight, FightsInv

(* An old skull ends.                                                      *)
LEMMA CheckSkullTicksKeeps ==
  ASSUME FightsInv, NEW p \in Fighters, NEW passed \in {0, 1}, F!CheckSkullTicks(p, passed)
  PROVE  FightsInv' /\ F!CreditIsLoss
<1>1. AllMarked(fighter)
  BY DEF FightsInv
<1>2. \A x \in Fighters : IsFighter(fighter[x]) /\ Marks(fighter[x])
  BY <1>1 DEF AllMarked
<1> DEFINE kills == F!Max({0, fighter[p].kills - passed})
<1>3. fighter' = [fighter EXCEPT
              ![p].kills = kills,
              ![p].skull = IF @ \in {"red", "black"} /\ kills = 0 /\ ~ fighter[p].infight
                           THEN "none" ELSE @]
  BY DEF F!CheckSkullTicks
<1> HIDE DEF kills
<1>4. /\ DOMAIN fighter' = Fighters
      /\ \A x \in Fighters : /\ IsFighter(fighter'[x]) /\ Marks(fighter'[x])
                             /\ fighter'[x].in = fighter[x].in
  BY <1>1, <1>2, <1>3 DEF AllMarked, IsFighter, FightFields, Marks
<1>5. AllMarked(fighter')
  BY <1>4 DEF AllMarked, IsFighter, Marks
<1>6. MastersIn(fighter', present')
  BY <1>4, FightsAssumption DEF MastersIn, FightsInv, F!CheckSkullTicks
<1> QED
  BY <1>5, <1>6, NobodyDied, NothingCredited DEF F!CheckSkullTicks, FightsInv

(* A fighter enters.                                                       *)
LEMMA LoginKeeps ==
  ASSUME FightsInv, NEW p \in Fighters, F!Login(p)
  PROVE  FightsInv' /\ F!CreditIsLoss
<1>1. AllMarked(fighter)
  BY DEF FightsInv
<1>2. \A x \in Fighters : IsFighter(fighter[x]) /\ Marks(fighter[x])
  BY <1>1 DEF AllMarked
<1>3. /\ DOMAIN fighter' = Fighters
      /\ \A x \in Fighters : /\ IsFighter(fighter'[x]) /\ Marks(fighter'[x])
                             /\ fighter[x].in => fighter'[x].in
  BY <1>1, <1>2 DEF F!Login, AllMarked, IsFighter, FightFields, Marks
<1>4. AllMarked(fighter')
  BY <1>3 DEF AllMarked, IsFighter, Marks
<1>5. MastersIn(fighter', present')
  BY <1>3, FightsAssumption DEF MastersIn, FightsInv, F!Login
<1> QED
  BY <1>4, <1>5, NobodyDied, NothingCredited DEF F!Login, FightsInv

(* A summon comes, where its master is; it goes, and what it did with it.  *)
LEMMA SummonKeeps ==
  ASSUME FightsInv, NEW x \in Summons, F!Summon(x)
  PROVE  FightsInv' /\ F!CreditIsLoss
<1>1. Master[x] \in Fighters /\ fighter[Master[x]].in
  BY PlayerIn, FightsAssumption DEF F!Summon
<1>2. AllMarked(fighter') /\ MastersIn(fighter', present')
  BY <1>1 DEF FightsInv, MastersIn, AllMarked, IsFighter, Marks, F!Summon
<1> QED
  BY <1>2, NobodyDied, NothingCredited DEF F!Summon, FightsInv

(* A summon is removed.                                                    *)
LEMMA UnsummonKeeps ==
  ASSUME FightsInv, NEW x \in Summons, F!Unsummon(x)
  PROVE  FightsInv' /\ F!CreditIsLoss
<1>1. AllMarked(fighter') /\ MastersIn(fighter', present')
  BY DEF FightsInv, MastersIn, AllMarked, IsFighter, Marks, F!Unsummon
<1>2. /\ damageMap' \in [Fighters -> [F!Creatures -> Nat]]
      /\ \A p \in Fighters, c \in F!Creatures : damageMap'[p][c] <= damageMap[p][c]
  <2>1. \A p \in Fighters : damageMap[p] \in [F!Creatures -> Nat]
    BY DEF FightsInv
  <2>2. \A p \in Fighters : damageMap'[p] = [damageMap[p] EXCEPT ![x] = 0]
    BY DEF F!Unsummon
  <2>3. ASSUME NEW p \in Fighters
        PROVE  /\ damageMap'[p] \in [F!Creatures -> Nat]
               /\ \A c \in F!Creatures : damageMap'[p][c] <= damageMap[p][c]
    <3> DEFINE v == damageMap[p]
               w == damageMap'[p]
    <3>1. v \in [F!Creatures -> Nat] /\ w = [v EXCEPT ![x] = 0]
      BY <2>1, <2>2
    <3> HIDE DEF v, w
    <3>2. w \in [F!Creatures -> Nat] /\ \A c \in F!Creatures : w[c] <= v[c]
      <4>1. \A c \in F!Creatures : v[c] \in Nat /\ (w[c] = 0 \/ w[c] = v[c])
        BY <3>1
      <4>2. \A c \in F!Creatures : w[c] <= v[c] /\ w[c] \in Nat
        BY <4>1
      <4> QED
        BY <3>1, <4>2
    <3> QED
      BY <3>2 DEF v, w
  <2> QED
    BY <2>3 DEF F!Unsummon
<1>3. lastHit' \in [Fighters -> F!Creatures \cup {Nobody}]
  BY DEF FightsInv, F!Unsummon
<1>4. FightsInv'
  BY <1>1, <1>2, <1>3, NobodyDied DEF F!Unsummon, FightsInv
<1>5. F!CreditIsLoss
  BY <1>2, CreditForgotten DEF F!CreditIsLoss, FightsInv
<1> QED
  BY <1>4, <1>5

(* What is forgotten when a player leaves.                                 *)
LEMMA ForgetsEffect ==
  ASSUME FightsInv, NEW q \in Fighters, F!Forgets(q)
  PROVE  /\ damageMap' \in [Fighters -> [F!Creatures -> Nat]]
         /\ lastHit' \in [Fighters -> F!Creatures \cup {Nobody}]
         /\ dying' \subseteq Fighters
         /\ F!CreditIsLoss
         /\ \A f : (\A x \in Fighters \ {q} : f[x].in = fighter[x].in) => MastersIn(f, present')
<1>1. damageMap \in [Fighters -> [F!Creatures -> Nat]]
  BY DEF FightsInv
<1>2. \A p \in Fighters : damageMap'[p] =
          IF p = q THEN F!Unhurt
          ELSE [c \in F!Creatures |-> IF F!Responsible(c) = q THEN 0 ELSE damageMap[p][c]]
  BY DEF F!Forgets
<1>3. \A p \in Fighters : /\ damageMap'[p] \in [F!Creatures -> Nat]
                          /\ \A c \in F!Creatures : damageMap'[p][c] <= damageMap[p][c]
  <2> SUFFICES ASSUME NEW p \in Fighters
               PROVE  /\ damageMap'[p] \in [F!Creatures -> Nat]
                      /\ \A c \in F!Creatures : damageMap'[p][c] <= damageMap[p][c]
    OBVIOUS
  <2>1. damageMap[p] \in [F!Creatures -> Nat]
    BY <1>1
  <2>2. CASE p = q
    <3>1. damageMap'[p] = [c \in F!Creatures |-> 0]
      BY <1>2, <2>2 DEF F!Unhurt
    <3>2. \A c \in F!Creatures : damageMap[p][c] \in Nat
      BY <2>1
    <3> QED
      BY <3>1, <3>2
  <2>3. CASE p # q
    <3>1. damageMap'[p] = [c \in F!Creatures |-> IF F!Responsible(c) = q THEN 0
                                                 ELSE damageMap[p][c]]
      BY <1>2, <2>3
    <3> QED
      BY <2>1, <3>1
  <2> QED
    BY <2>2, <2>3
<1>4. damageMap' \in [Fighters -> [F!Creatures -> Nat]]
  BY <1>3 DEF F!Forgets
<1>5. F!CreditIsLoss
  BY <1>1, <1>3, CreditForgotten DEF F!CreditIsLoss
<1>6. lastHit' \in [Fighters -> F!Creatures \cup {Nobody}] /\ dying' \subseteq Fighters
  BY DEF FightsInv, F!Forgets
<1>7. ASSUME NEW f, \A x \in Fighters \ {q} : f[x].in = fighter[x].in
      PROVE  MastersIn(f, present')
  BY <1>7, FightsAssumption DEF FightsInv, MastersIn, F!Forgets
<1> QED
  BY <1>4, <1>5, <1>6, <1>7

(* A fighter leaves.                                                       *)
LEMMA LeaveKeeps ==
  ASSUME FightsInv, NEW p \in Fighters, NEW kicked \in BOOLEAN, F!Leave(p, kicked)
  PROVE  FightsInv' /\ F!CreditIsLoss
<1>1. AllMarked(fighter)
  BY DEF FightsInv
<1>2. \A x \in Fighters : IsFighter(fighter[x]) /\ Marks(fighter[x])
  BY <1>1 DEF AllMarked
<1> DEFINE health == F!Max({1, fighter[p].health})
<1>3. health \in Nat
  <2>1. fighter[p].health \in Nat
    BY <1>2 DEF IsFighter
  <2> QED
    BY <2>1, MaxOfTwo
<1>4. fighter' = [fighter EXCEPT
          ![p].in = FALSE, ![p].attacked = {}, ![p].pzLocked = FALSE,
          ![p].health = health,
          ![p].skull = IF @ \in {"red", "black"} /\ fighter[p].kills > 0 THEN @ ELSE "none"]
  <2>1. F!Max({1, fighter[p].health}) = health
    OBVIOUS
  <2> HIDE DEF health
  <2> QED
    BY <1>1, <2>1 DEF F!Leave, AllMarked, IsFighter, FightFields
<1> HIDE DEF health
<1>5. /\ DOMAIN fighter' = Fighters
      /\ \A x \in Fighters : IsFighter(fighter'[x]) /\ Marks(fighter'[x])
      /\ \A x \in Fighters \ {p} : fighter'[x].in = fighter[x].in
  BY <1>1, <1>2, <1>3, <1>4 DEF AllMarked, IsFighter, FightFields, Marks
<1>6. AllMarked(fighter')
  BY <1>5 DEF AllMarked, IsFighter, Marks
<1>7. F!Forgets(p) /\ F!NoDeath
  BY DEF F!Leave
<1>8. /\ damageMap' \in [Fighters -> [F!Creatures -> Nat]]
      /\ lastHit' \in [Fighters -> F!Creatures \cup {Nobody}]
      /\ dying' \subseteq Fighters
      /\ F!CreditIsLoss /\ MastersIn(fighter', present')
  BY <1>5, <1>7, ForgetsEffect
<1> QED
  BY <1>6, <1>7, <1>8, NobodyDied

(* A kill marks nobody: a lock is only for who fights, a skull is red or   *)
(* black.                                                                  *)
LEMMA KilledEffect ==
  ASSUME NEW f, AllMarked(f), NEW p \in Fighters, f[p].in, NEW q \in Fighters, NEW last
  PROVE  LET g == F!Killed(f, p, q, last)
         IN  AllMarked(g) /\ \A x \in Fighters : g[x].in = f[x].in
<1> DEFINE hostile == ~ F!Friendly(p, q) /\ q \in f[p].attacked /\ p \notin f[q].attacked
           unjustified == hostile /\ f[q].skull = "none"
           kills == IF unjustified THEN F!Min({f[p].kills + 1, MaxKills}) ELSE f[p].kills
           skull == IF unjustified THEN F!SkullOf(f[p].skull, kills) ELSE f[p].skull
           locked == f[p].pzLocked \/ (hostile /\ last /\ f[p].infight)
           g == F!Killed(f, p, q, last)
<1>1. DOMAIN f = Fighters /\ \A x \in Fighters : IsFighter(f[x]) /\ Marks(f[x])
  BY DEF AllMarked
<1>2. skull = "white" => f[p].skull = "white"
  <2> HIDE DEF kills
  <2> QED
    BY DEF F!SkullOf
<1>3. locked => f[p].pzLocked \/ f[p].infight
  OBVIOUS
<1> HIDE DEF g
<1>4. g = [f EXCEPT ![p].kills = kills,
                    ![p].skull = IF unjustified THEN F!SkullOf(@, kills) ELSE @,
                    ![p].pzLocked = @ \/ (hostile /\ last /\ f[p].infight)]
  BY Zenon DEF F!Killed, g
<1> HIDE DEF kills, g
<1> HIDE DEF hostile, unjustified
<1>5. /\ DOMAIN g = Fighters
      /\ \A x \in Fighters \ {p} : g[x] = f[x]
      /\ DOMAIN g[p] = FightFields /\ g[p].skull = skull /\ g[p].pzLocked = locked
      /\ g[p].in = f[p].in /\ g[p].health = f[p].health /\ g[p].mana = f[p].mana
      /\ g[p].attacked = f[p].attacked /\ g[p].infight = f[p].infight
  BY <1>1, <1>4 DEF IsFighter, FightFields
<1> HIDE DEF skull, locked
<1>6. IsFighter(g[p]) /\ Marks(g[p])
  BY <1>1, <1>2, <1>3, <1>5 DEF IsFighter, Marks
<1> QED
  BY <1>1, <1>5, <1>6 DEF AllMarked, g

(* A death: the last to hit and who did most are told, one after the       *)
(* other, and the dead leaves the world.                                   *)
LEMMA ExecuteDeathKeeps ==
  ASSUME FightsInv, NEW q \in Fighters, F!ExecuteDeath(q)
  PROVE  FightsInv' /\ F!CreditIsLoss
<1> DEFINE asked == {F!Responsible(c) : c \in {F!Last(q)} \ {Nobody}}
           hurt == {c \in Fighters : F!InWorld(c) /\ damageMap[q][c] > 0}
           first == IF F!Last(q) = Nobody THEN fighter
                    ELSE F!Killed(fighter, F!Responsible(F!Last(q)), q, TRUE)
           cleared == [p \in Fighters |->
                          IF p \in hurt THEN [first[p] EXCEPT !.attacked = @ \ {q}] ELSE first[p]]
           second(m) == m # Nobody /\ F!Besides(q, m)
           f(m) == IF second(m) THEN F!Killed(cleared, F!Responsible(m), q, m \in Summons)
                   ELSE cleared
<1>1. PICK m \in F!Most(q) :
          /\ credited' = [p \in Fighters |->
                 F!Cardinality({x \in {"last"} : p \in asked})
                 + F!Cardinality({x \in {"most"} : second(m) /\ F!Responsible(m) = p})]
          /\ fighter' = [F!EndFightOf(f(m), q) EXCEPT
                 ![q].in = FALSE, ![q].health = MaxHealth, ![q].mana = MaxMana]
  BY DEF F!ExecuteDeath
<1>2. F!Forgets(q)
  BY DEF F!ExecuteDeath
<1>3. AllMarked(fighter) /\ lastHit[q] \in F!Creatures \cup {Nobody}
  BY DEF FightsInv
<1>4. F!Last(q) # Nobody => F!Last(q) \in F!Creatures /\ F!InWorld(F!Last(q))
  BY <1>3 DEF F!Last
<1>5. m # Nobody => m \in F!Creatures /\ F!InWorld(m)
  BY <1>1 DEF F!Most
<1>6. AllMarked(first) /\ \A x \in Fighters : first[x].in = fighter[x].in
  <2>1. CASE F!Last(q) = Nobody
    BY <1>3, <2>1
  <2>2. CASE F!Last(q) # Nobody
    <3> DEFINE p == F!Responsible(F!Last(q))
    <3>1. p \in Fighters /\ fighter[p].in
      BY <1>4, <2>2, ResponsibleIn
    <3> DEFINE last == TRUE
    <3> HIDE DEF p, last
    <3>2. /\ AllMarked(F!Killed(fighter, p, q, last))
          /\ \A x \in Fighters : F!Killed(fighter, p, q, last)[x].in = fighter[x].in
      BY <1>3, <3>1, KilledEffect
    <3> QED
      BY <2>2, <3>2 DEF p, last
  <2> QED
    BY <2>1, <2>2
<1> HIDE DEF first, hurt
<1>7. AllMarked(cleared) /\ \A x \in Fighters : cleared[x].in = fighter[x].in
  <2>1. \A x \in Fighters : IsFighter(first[x]) /\ Marks(first[x])
    BY <1>6 DEF AllMarked
  <2>2. \A x \in Fighters : IsFighter(cleared[x]) /\ Marks(cleared[x])
                            /\ cleared[x].in = first[x].in
    BY <2>1 DEF IsFighter, FightFields, Marks
  <2> QED
    BY <1>6, <2>2 DEF AllMarked
<1> HIDE DEF cleared
<1>8. AllMarked(f(m)) /\ \A x \in Fighters : f(m)[x].in = fighter[x].in
  <2>1. CASE ~ second(m)
    BY <1>7, <2>1
  <2>2. CASE second(m)
    <3> DEFINE p == F!Responsible(m)
               last == m \in Summons
    <3>1. p \in Fighters /\ cleared[p].in
      BY <1>5, <1>7, <2>2, ResponsibleIn
    <3> HIDE DEF p, last
    <3>2. /\ AllMarked(F!Killed(cleared, p, q, last))
          /\ \A x \in Fighters : F!Killed(cleared, p, q, last)[x].in = cleared[x].in
      BY <1>7, <3>1, KilledEffect
    <3>3. f(m) = F!Killed(cleared, p, q, last)
      BY <2>2 DEF p, last
    <3> HIDE DEF f
    <3> QED
      BY <1>7, <3>2, <3>3
  <2> QED
    BY <2>1, <2>2
<1> DEFINE k == f(m)
           g == F!EndFightOf(k, q)
<1>8a. AllMarked(k) /\ \A x \in Fighters : k[x].in = fighter[x].in
  BY <1>8
<1>8b. fighter' = [g EXCEPT ![q].in = FALSE, ![q].health = MaxHealth, ![q].mana = MaxMana]
  BY <1>1
<1> HIDE DEF f, k
<1>9. /\ DOMAIN g = Fighters
      /\ \A x \in Fighters : IsFighter(g[x]) /\ g[x].in = k[x].in /\ Marks(g[x])
      /\ g[q].skull # "white" /\ g[q].attacked = {} /\ ~ g[q].pzLocked
  BY <1>8a, EndFightEffect DEF AllMarked
<1> HIDE DEF g
<1>10. /\ DOMAIN fighter' = Fighters
       /\ \A x \in Fighters : IsFighter(fighter'[x]) /\ Marks(fighter'[x])
       /\ \A x \in Fighters \ {q} : fighter'[x].in = fighter[x].in
  BY <1>8a, <1>8b, <1>9, FightsAssumption DEF IsFighter, FightFields, Marks
<1>11. AllMarked(fighter')
  BY <1>10 DEF AllMarked, IsFighter, Marks
<1>12. /\ damageMap' \in [Fighters -> [F!Creatures -> Nat]]
       /\ lastHit' \in [Fighters -> F!Creatures \cup {Nobody}]
       /\ dying' \subseteq Fighters
       /\ F!CreditIsLoss /\ MastersIn(fighter', present')
  BY <1>2, <1>10, ForgetsEffect
<1>13. F!CreditedOnce'
  <2> SUFFICES ASSUME NEW p \in Fighters PROVE credited'[p] <= 1
    BY DEF F!CreditedOnce
  <2> DEFINE a == {x \in {"last"} : p \in asked}
             b == {x \in {"most"} : second(m) /\ F!Responsible(m) = p}
  <2>1. credited'[p] = F!Cardinality(a) + F!Cardinality(b)
    BY <1>1
  <2>2. a = {} \/ b = {}
    BY DEF F!Besides
  <2>3. (a = {} \/ a = {"last"}) /\ (b = {} \/ b = {"most"})
    OBVIOUS
  <2>4. Cardinality({}) = 0 /\ Cardinality({"last"}) = 1 /\ Cardinality({"most"}) = 1
    BY FS_EmptySet, FS_Singleton
  <2>5. \A s : F!Cardinality(s) = Cardinality(s)
    BY DEF F!Cardinality, Cardinality
  <2> HIDE DEF a, b
  <2>6. F!Cardinality(a) = Cardinality(a) /\ F!Cardinality(b) = Cardinality(b)
    BY <2>5
  <2> QED
    BY <2>1, <2>2, <2>3, <2>4, <2>6
<1>14. FightsInv'
  <2>1. F!Creatures' = F!Creatures
    BY DEF F!Creatures
  <2> QED
    BY <1>11, <1>12, <1>13, <2>1 DEF FightsInv, AllMarked, MastersIn
<1> QED
  BY <1>12, <1>14

-----------------------------------------------------------------------------
(* Every step of the fighters keeps the invariant and credits what is lost; *)
(* steps of the parties leave the fighters alone.                          *)
LEMMA FightsStep ==
  ASSUME FightsInv, F!FightsNext
  PROVE  FightsInv' /\ F!CreditIsLoss
<1>1. ASSUME NEW c \in F!Creatures, NEW q \in Fighters, F!Blocked(c, q)
      PROVE  FightsInv' /\ F!CreditIsLoss
  BY <1>1, BlockedKeeps
<1>2. ASSUME NEW c \in F!Creatures, NEW q \in Fighters, NEW blow \in Blows,
             NEW script \in {"none", "raises", "fails"}, NEW spared \in BOOLEAN,
             F!Blow(c, q, blow, script, spared)
      PROVE  FightsInv' /\ F!CreditIsLoss
  BY <1>2, BlowKeeps
<1>3. ASSUME NEW p \in Fighters,
             F!Suffer(p) \/ F!Recover(p) \/ F!ExecuteDeath(p) \/ F!EndFight(p) \/ F!Login(p)
      PROVE  FightsInv' /\ F!CreditIsLoss
  BY <1>3, SufferKeeps, RecoverKeeps, ExecuteDeathKeeps, EndFightKeeps, LoginKeeps
<1>4. ASSUME NEW p \in Fighters, NEW passed \in {0, 1}, F!CheckSkullTicks(p, passed)
      PROVE  FightsInv' /\ F!CreditIsLoss
  BY <1>4, CheckSkullTicksKeeps
<1>5. ASSUME NEW p \in Fighters, NEW kicked \in BOOLEAN, F!Leave(p, kicked)
      PROVE  FightsInv' /\ F!CreditIsLoss
  BY <1>5, LeaveKeeps
<1>6. ASSUME NEW x \in Summons, F!Summon(x) \/ F!Unsummon(x)
      PROVE  FightsInv' /\ F!CreditIsLoss
  BY <1>6, SummonKeeps, UnsummonKeeps
<1> QED
  BY <1>1, <1>2, <1>3, <1>4, <1>5, <1>6 DEF F!FightsNext

(* A step of the parties.                                                  *)
LEMMA FightsRest ==
  ASSUME FightsInv, UNCHANGED fights
  PROVE  FightsInv'
BY DEF FightsInv, AllMarked, IsFighter, Marks, MastersIn, F!Creatures, F!CreditedOnce, fights

(* Every step, as an invariant and as an action.                           *)
LEMMA FightsNext ==
  ASSUME FightsInv, [MCNext]_<<vars, scene, fights, homes>>
  PROVE  FightsInv' /\ [scene = "fights" => F!CreditIsLoss]_fights
<1>1. CASE scene = "fights" /\ F!FightsNext
  BY <1>1, FightsStep
<1>2. CASE UNCHANGED fights
  BY <1>2, FightsRest
<1> QED
  BY <1>1, <1>2 DEF MCNext

(* What the run checks of fights follows from the invariant.               *)
LEMMA FightsInvAgrees == FightsInv => FightsAgree
<1> SUFFICES ASSUME FightsInv PROVE FightsAgree
  OBVIOUS
<1>1. F!MarkedWhileFighting
  BY DEF FightsInv, AllMarked, Marks, F!MarkedWhileFighting
<1>2. F!CreditedOnce /\ F!IdleScriptIsNeutral
  BY IdleIsNeutral DEF FightsInv
<1> QED
  BY <1>1, <1>2 DEF FightsAgree

(* Whoever is marked for an attack fights and is in the world; a death is  *)
(* credited to a player once; a script that changes nothing drains no mana *)
(* a second time (player.cpp:3333, creature.cpp:427, game.cpp:3992).       *)
THEOREM FightsStayFair == MCSpec => []FightsAgree
<1>1. MCInit => FightsInv
  BY FightsStart DEF MCInit
<1>2. FightsInv /\ [MCNext]_<<vars, scene, fights, homes>> => FightsInv'
  BY FightsNext
<1>3. FightsInv => FightsAgree
  BY FightsInvAgrees
<1> QED
  BY <1>1, <1>2, <1>3, PTL DEF MCSpec

(* A step that credits the enemies of a player takes as much of his health *)
(* (game.cpp:4189, creature.cpp:845).                                      *)
THEOREM DamageIsCredited == MCSpec => CreditIsLoss
<1>1. MCInit => FightsInv
  BY FightsStart DEF MCInit
<1>2. FightsInv /\ [MCNext]_<<vars, scene, fights, homes>> => FightsInv'
  BY FightsNext
<1>3. FightsInv /\ [MCNext]_<<vars, scene, fights, homes>> => [scene = "fights" => F!CreditIsLoss]_fights
  BY FightsNext
<1> QED
  BY <1>1, <1>2, <1>3, PTL DEF MCSpec, CreditIsLoss

-----------------------------------------------------------------------------
(* The house.  What is stored of the beds must be whole, too, for a crash  *)
(* falls back to it.                                                       *)
Named == People \cup {Nobody}
Document == [from : People, to : People]
WholeBeds(s) == \A h \in Halves : s[h] = s[Partner[h]]

HousesTypes ==
    /\ house \in [owner : Named, subowners : SUBSET People, guests : SUBSET People,
                  document : {Nobody} \cup Document]
    /\ where \in [People -> {"offline", "out", "room", "bed"}]
    /\ sleeper \in [Halves -> Named]
    /\ bedSleepers \in [People -> Halves \cup {Nobody}]
    /\ bedItem \in [People -> Halves \cup {Nobody}]
    /\ leaving \subseteq People
    /\ savedHouse \in [owner : Named, subowners : SUBSET People, guests : SUBSET People,
                       sleeper : [Halves -> Named]]

HousesInv == HousesTypes /\ H!GuestsOnly /\ H!BedsAgree /\ WholeBeds(savedHouse.sleeper)

(* Who is invited depends on the names of the house only.                  *)
LEMMA InvitedIs ==
  \A h, p : H!Invited(h, p) <=> h.owner = p \/ p \in h.subowners \/ p \in h.guests
BY DEF H!Invited, H!AccessLevel

(* Whoever is put out was inside, and nobody comes in.                     *)
LEMMA PutOutMoves ==
  ASSUME HousesTypes, NEW out, H!PutOut(out)
  PROVE  /\ where' \in [People -> {"offline", "out", "room", "bed"}]
         /\ \A p \in People : /\ H!InHouse(p)' => H!InHouse(p) /\ p \notin out
                              /\ H!Online(p)' => H!Online(p)
BY DEF HousesTypes, H!PutOut, H!InHouse, H!Online

(* Beds that are freed are freed whole, with their sleepers in the         *)
(* register; the others keep theirs.                                       *)
LEMMA WakeUpFrees ==
  ASSUME HousesTypes, H!BedsAgree, NEW woken \in SUBSET Halves, H!WakeUp(woken)
  PROVE  /\ sleeper' \in [Halves -> Named] /\ WholeBeds(sleeper')
         /\ bedSleepers' \in [People -> Halves \cup {Nobody}]
         /\ \A p \in People : bedSleepers'[p] # Nobody =>
               bedSleepers'[p] = bedSleepers[p] /\ sleeper'[bedSleepers'[p]] = p
         /\ \A p \in People : (\E h \in woken : sleeper[h] = p) => bedSleepers'[p] = Nobody
<1>1. /\ sleeper' = [h \in Halves |-> IF h \in woken \/ Partner[h] \in woken
                                      THEN Nobody ELSE sleeper[h]]
      /\ bedSleepers' = [p \in People |-> IF \E h \in woken : sleeper[h] = p
                                          THEN Nobody ELSE bedSleepers[p]]
  BY DEF H!WakeUp
<1>2. /\ \A h \in Halves : Partner[h] \in Halves /\ Partner[Partner[h]] = h
      /\ \A h \in Halves : sleeper[h] = sleeper[Partner[h]]
      /\ sleeper \in [Halves -> Named] /\ bedSleepers \in [People -> Halves \cup {Nobody}]
  BY HousesAssumption DEF HousesTypes, H!BedsAgree
<1>3. sleeper' \in [Halves -> Named] /\ bedSleepers' \in [People -> Halves \cup {Nobody}]
  BY <1>1, <1>2 DEF Named
<1>4. WholeBeds(sleeper')
  BY <1>1, <1>2 DEF WholeBeds
<1>5. ASSUME NEW p \in People, bedSleepers'[p] # Nobody
      PROVE  bedSleepers'[p] = bedSleepers[p] /\ sleeper'[bedSleepers'[p]] = p
  <2>1. bedSleepers'[p] = bedSleepers[p] /\ ~ \E h \in woken : sleeper[h] = p
    BY <1>1, <1>5
  <2>2. bedSleepers[p] \in Halves /\ sleeper[bedSleepers[p]] = p
    BY <1>2, <1>5, <2>1 DEF H!BedsAgree
  <2>3. bedSleepers[p] \notin woken /\ Partner[bedSleepers[p]] \notin woken
    BY <1>2, <2>1, <2>2
  <2> QED
    BY <1>1, <2>1, <2>2, <2>3
<1> QED
  BY <1>1, <1>3, <1>4, <1>5

(* Nobody is in the house at the start.                                    *)
LEMMA HousesStart == H!HousesInit => HousesInv
<1> SUFFICES ASSUME H!HousesInit PROVE HousesInv
  OBVIOUS
<1>1. Partner \in [Halves -> Halves]
  BY HousesAssumption
<1> QED
  BY <1>1 DEF H!HousesInit, HousesInv, HousesTypes, H!GuestsOnly, H!InHouse, H!BedsAgree,
              WholeBeds, Named

(* The owner changes: nobody stays of those who were guests of another.    *)
LEMMA SetOwnerKeeps ==
  ASSUME HousesInv, NEW p \in Named, NEW d \in {Nobody} \cup Document,
         H!SetOwner(p, d), UNCHANGED <<bedItem, leaving>>
  PROVE  HousesInv'
<1>1. HousesTypes /\ H!GuestsOnly /\ H!BedsAgree /\ WholeBeds(savedHouse.sleeper)
  BY DEF HousesInv
<1>2. CASE house.owner = p
  <2>1. /\ house' = [house EXCEPT !.document = d]
        /\ UNCHANGED <<where, sleeper, bedSleepers, savedHouse>>
    BY <1>2 DEF H!SetOwner
  <2>2. HousesTypes'
    BY <1>1, <2>1 DEF HousesTypes
  <2>3. /\ house'.owner = house.owner /\ house'.subowners = house.subowners
        /\ house'.guests = house.guests
    BY <1>1, <2>1 DEF HousesTypes
  <2>4. H!GuestsOnly'
    BY <1>1, <2>1, <2>3, InvitedIs DEF H!GuestsOnly, H!InHouse
  <2>5. H!BedsAgree' /\ WholeBeds(savedHouse'.sleeper)
    BY <1>1, <2>1 DEF H!BedsAgree, H!Online
  <2> QED
    BY <2>2, <2>4, <2>5 DEF HousesInv
<1>3. CASE house.owner # p /\ house.owner # Nobody
  <2>1. /\ savedHouse' = [savedHouse EXCEPT !.owner = p]
        /\ H!PutOut(People) /\ H!WakeUp({h \in Halves : sleeper[h] # Nobody})
        /\ house' = [owner |-> p, subowners |-> {}, guests |-> {}, document |-> d]
    BY <1>3 DEF H!SetOwner
  <2>2. /\ where' \in [People -> {"offline", "out", "room", "bed"}]
        /\ \A q \in People : ~ H!InHouse(q)' /\ (H!Online(q)' => H!Online(q))
    BY <1>1, <2>1, PutOutMoves
  <2>3. /\ sleeper' \in [Halves -> Named] /\ WholeBeds(sleeper')
        /\ bedSleepers' \in [People -> Halves \cup {Nobody}]
        /\ \A q \in People : bedSleepers'[q] # Nobody =>
              bedSleepers'[q] = bedSleepers[q] /\ sleeper'[bedSleepers'[q]] = q
    <3> DEFINE taken == {h \in Halves : sleeper[h] # Nobody}
    <3>1. taken \in SUBSET Halves /\ H!WakeUp(taken)
      BY <2>1
    <3> HIDE DEF taken
    <3> QED
      BY <1>1, <3>1, WakeUpFrees
  <2>4. HousesTypes'
    BY <1>1, <2>1, <2>2, <2>3 DEF HousesTypes
  <2>5. H!GuestsOnly'
    BY <2>2 DEF H!GuestsOnly
  <2>6. H!BedsAgree' /\ WholeBeds(savedHouse'.sleeper)
    BY <1>1, <2>1, <2>2, <2>3 DEF H!BedsAgree, WholeBeds, HousesTypes
  <2> QED
    BY <2>4, <2>5, <2>6 DEF HousesInv
<1>4. CASE house.owner # p /\ house.owner = Nobody
  <2>1. /\ savedHouse' = [savedHouse EXCEPT !.owner = p]
        /\ house' = [house EXCEPT !.owner = p, !.document = d]
        /\ UNCHANGED <<where, sleeper, bedSleepers>>
    BY <1>4 DEF H!SetOwner
  <2>2. HousesTypes'
    BY <1>1, <2>1 DEF HousesTypes
  <2>3. house'.subowners = house.subowners /\ house'.guests = house.guests
    BY <1>1, <2>1 DEF HousesTypes
  <2>4. \A q \in People : H!Invited(house, q) => H!Invited(house', q)
    BY <1>4, <2>3, InvitedIs, HousesAssumption
  <2>5. H!GuestsOnly'
    BY <1>1, <2>1, <2>4 DEF H!GuestsOnly, H!InHouse
  <2>6. H!BedsAgree' /\ WholeBeds(savedHouse'.sleeper)
    BY <1>1, <2>1 DEF H!BedsAgree, H!Online, WholeBeds, HousesTypes
  <2> QED
    BY <2>2, <2>5, <2>6 DEF HousesInv
<1> QED
  BY <1>2, <1>3, <1>4

(* Buying, leaving and handing over, or the trade of the document.         *)
LEMMA OwnersKeep ==
  ASSUME HousesInv,
         \/ \E p \in People : \/ H!Buy(p) \/ H!LeaveHouse(p)
                              \/ \E q \in People : H!StartTrade(p, q)
         \/ \E done \in BOOLEAN : H!TradeEnds(done)
  PROVE  HousesInv'
<1>1. HousesTypes /\ H!GuestsOnly /\ H!BedsAgree /\ WholeBeds(savedHouse.sleeper)
  BY DEF HousesInv
<1>2. house.document \in {Nobody} \cup Document
  BY <1>1 DEF HousesTypes
<1>3. ASSUME NEW d \in {Nobody} \cup Document, house' = [house EXCEPT !.document = d],
             UNCHANGED <<where, sleeper, bedSleepers, bedItem, leaving, savedHouse>>
      PROVE  HousesInv'
  <2>1. HousesTypes'
    BY <1>1, <1>3 DEF HousesTypes
  <2>2. /\ house'.owner = house.owner /\ house'.subowners = house.subowners
        /\ house'.guests = house.guests
    BY <1>1, <1>3 DEF HousesTypes
  <2>3. H!GuestsOnly'
    BY <1>1, <1>3, <2>2, InvitedIs DEF H!GuestsOnly, H!InHouse
  <2>4. H!BedsAgree' /\ WholeBeds(savedHouse'.sleeper)
    BY <1>1, <1>3 DEF H!BedsAgree, H!Online
  <2> QED
    BY <2>1, <2>3, <2>4 DEF HousesInv
<1>4. ASSUME NEW p \in People, H!Buy(p) PROVE HousesInv'
  BY <1>2, <1>4, SetOwnerKeeps DEF H!Buy, Named
<1>5. ASSUME NEW p \in People, H!LeaveHouse(p) PROVE HousesInv'
  BY <1>2, <1>5, SetOwnerKeeps DEF H!LeaveHouse, Named
<1>6. ASSUME NEW p \in People, NEW q \in People, H!StartTrade(p, q) PROVE HousesInv'
  <2>1. [from |-> p, to |-> q] \in Document
    BY DEF Document
  <2> QED
    BY <1>3, <1>6, <2>1 DEF H!StartTrade
<1>7. ASSUME NEW done \in BOOLEAN, H!TradeEnds(done) PROVE HousesInv'
  <2>1. CASE done
    <3>1. house.document.to \in Named
      BY <1>2, <1>7 DEF H!TradeEnds, Document, Named
    <3> QED
      BY <1>7, <2>1, <3>1, SetOwnerKeeps DEF H!TradeEnds
  <2>2. CASE ~ done
    BY <1>3, <1>7, <2>2 DEF H!TradeEnds
  <2> QED
    BY <2>1, <2>2
<1> QED
  BY <1>4, <1>5, <1>6, <1>7

(* Guests are put on and off the lists, kicked, and walk.                  *)
LEMMA GuestsKeep ==
  ASSUME HousesInv, NEW p \in People,
         \/ \E q \in People : H!KickGuest(p, q)
         \/ \E list \in {"guests", "subowners"}, names \in Lists : H!EditList(p, list, names)
         \/ \E to \in {"out", "room"} : H!Walk(p, to)
  PROVE  HousesInv'
<1>1. HousesTypes /\ H!GuestsOnly /\ H!BedsAgree /\ WholeBeds(savedHouse.sleeper)
  BY DEF HousesInv
<1>2. ASSUME NEW q \in People, H!KickGuest(p, q) PROVE HousesInv'
  <2>1. H!PutOut({q}) /\ UNCHANGED <<house, sleeper, bedSleepers, bedItem, leaving, savedHouse>>
    BY <1>2 DEF H!KickGuest
  <2>2. /\ where' \in [People -> {"offline", "out", "room", "bed"}]
        /\ \A r \in People : (H!InHouse(r)' => H!InHouse(r)) /\ (H!Online(r)' => H!Online(r))
    BY <1>1, <2>1, PutOutMoves
  <2>3. HousesTypes'
    BY <1>1, <2>1, <2>2 DEF HousesTypes
  <2>4. H!GuestsOnly'
    BY <1>1, <2>1, <2>2 DEF H!GuestsOnly
  <2>5. H!BedsAgree' /\ WholeBeds(savedHouse'.sleeper)
    BY <1>1, <2>1, <2>2 DEF H!BedsAgree
  <2> QED
    BY <2>3, <2>4, <2>5 DEF HousesInv
<1>3. ASSUME NEW list \in {"guests", "subowners"}, NEW names \in Lists, H!EditList(p, list, names)
      PROVE  HousesInv'
  <2>1. /\ house' = [house EXCEPT ![list] = names]
        /\ H!PutOut({q \in People : ~ H!Invited(house', q)})
        /\ UNCHANGED <<sleeper, bedSleepers, bedItem, leaving, savedHouse>>
    BY <1>3 DEF H!EditList, H!SetAccessList
  <2>2. /\ where' \in [People -> {"offline", "out", "room", "bed"}]
        /\ \A r \in People : /\ H!InHouse(r)' => H!Invited(house', r)
                             /\ H!Online(r)' => H!Online(r)
    BY <1>1, <2>1, PutOutMoves
  <2>3. HousesTypes'
    BY <1>1, <2>1, <2>2, HousesAssumption DEF HousesTypes
  <2>4. H!GuestsOnly'
    BY <2>2 DEF H!GuestsOnly
  <2>5. H!BedsAgree' /\ WholeBeds(savedHouse'.sleeper)
    BY <1>1, <2>1, <2>2 DEF H!BedsAgree
  <2> QED
    BY <2>3, <2>4, <2>5 DEF HousesInv
<1>4. ASSUME NEW to \in {"out", "room"}, H!Walk(p, to) PROVE HousesInv'
  <2>1. /\ H!Online(p) /\ (to = "room" => H!Invited(house, p))
        /\ where' = [where EXCEPT ![p] = to]
        /\ UNCHANGED <<house, sleeper, bedSleepers, bedItem, leaving, savedHouse>>
    BY <1>4 DEF H!Walk
  <2>2. HousesTypes'
    BY <1>1, <2>1 DEF HousesTypes
  <2>3. H!GuestsOnly'
    BY <1>1, <2>1 DEF H!GuestsOnly, H!InHouse, HousesTypes
  <2>4. H!BedsAgree' /\ WholeBeds(savedHouse'.sleeper)
    BY <1>1, <2>1 DEF H!BedsAgree, H!Online, HousesTypes
  <2> QED
    BY <2>2, <2>3, <2>4 DEF HousesInv
<1> QED
  BY <1>2, <1>3, <1>4

(* A bed is used, and the dialog about it answered: who sleeps is about to *)
(* be sent away, and sleeps in a bed that was free.                        *)
LEMMA BedsKeep ==
  ASSUME HousesInv, NEW p \in People,
         \/ \E h \in Halves : H!UseBed(p, h)
         \/ \E trains \in BOOLEAN : H!AnswerDialog(p, trains)
  PROVE  HousesInv'
<1>1. HousesTypes /\ H!GuestsOnly /\ H!BedsAgree /\ WholeBeds(savedHouse.sleeper)
  BY DEF HousesInv
<1>2. ASSUME NEW h \in Halves, H!UseBed(p, h) PROVE HousesInv'
  <2>1. /\ UNCHANGED <<house, where, leaving, savedHouse>>
        /\ bedItem' \in [People -> Halves \cup {Nobody}]
        /\ UNCHANGED <<sleeper, bedSleepers>> \/ H!WakeUp({h})
    BY <1>1, <1>2 DEF H!UseBed, HousesTypes
  <2>2. /\ sleeper' \in [Halves -> Named] /\ WholeBeds(sleeper')
        /\ bedSleepers' \in [People -> Halves \cup {Nobody}]
        /\ \A q \in People : bedSleepers'[q] # Nobody =>
              bedSleepers'[q] = bedSleepers[q] /\ sleeper'[bedSleepers'[q]] = q
    <3>1. CASE H!WakeUp({h})
      <4>1. {h} \in SUBSET Halves
        OBVIOUS
      <4> QED
        BY <1>1, <3>1, <4>1, WakeUpFrees
    <3>2. CASE UNCHANGED <<sleeper, bedSleepers>>
      BY <1>1, <3>2 DEF HousesTypes, WholeBeds, H!BedsAgree
    <3> QED
      BY <2>1, <3>1, <3>2
  <2>3. HousesTypes'
    BY <1>1, <2>1, <2>2 DEF HousesTypes
  <2>4. H!GuestsOnly'
    BY <1>1, <2>1 DEF H!GuestsOnly, H!InHouse
  <2>5. H!BedsAgree' /\ WholeBeds(savedHouse'.sleeper)
    BY <1>1, <2>1, <2>2 DEF H!BedsAgree, WholeBeds, H!Online
  <2> QED
    BY <2>3, <2>4, <2>5 DEF HousesInv
<1>3. ASSUME NEW trains \in BOOLEAN, H!AnswerDialog(p, trains) PROVE HousesInv'
  <2> DEFINE h == bedItem[p]
  <2>1. /\ h \in Halves /\ H!Online(p) /\ bedItem' = [bedItem EXCEPT ![p] = Nobody]
        /\ UNCHANGED <<house, savedHouse>>
        /\ \/ UNCHANGED <<sleeper, bedSleepers, where, leaving>>
           \/ /\ sleeper[h] = Nobody
              /\ sleeper' = [sleeper EXCEPT ![h] = p, ![Partner[h]] = p]
              /\ bedSleepers' = [bedSleepers EXCEPT ![p] = h]
              /\ where' = [where EXCEPT ![p] = "bed"]
              /\ leaving' = leaving \cup {p}
    BY <1>1, <1>3 DEF H!AnswerDialog, H!Sleep, HousesTypes
  <2> HIDE DEF h
  <2>2. CASE UNCHANGED <<sleeper, bedSleepers, where, leaving>>
    <3>1. HousesTypes'
      BY <1>1, <2>1, <2>2 DEF HousesTypes
    <3>2. H!GuestsOnly' /\ H!BedsAgree' /\ WholeBeds(savedHouse'.sleeper)
      BY <1>1, <2>1, <2>2 DEF H!GuestsOnly, H!InHouse, H!BedsAgree, H!Online
    <3> QED
      BY <3>1, <3>2 DEF HousesInv
  <2>3. CASE /\ sleeper[h] = Nobody
             /\ sleeper' = [sleeper EXCEPT ![h] = p, ![Partner[h]] = p]
             /\ bedSleepers' = [bedSleepers EXCEPT ![p] = h]
             /\ where' = [where EXCEPT ![p] = "bed"]
             /\ leaving' = leaving \cup {p}
    <3>1. /\ sleeper \in [Halves -> Named] /\ bedSleepers \in [People -> Halves \cup {Nobody}]
          /\ where \in [People -> {"offline", "out", "room", "bed"}]
          /\ Partner[h] \in Halves /\ Partner[Partner[h]] = h
          /\ \A k \in Halves : Partner[k] \in Halves /\ Partner[Partner[k]] = k
          /\ \A k \in Halves : sleeper[k] = sleeper[Partner[k]]
      BY <1>1, <2>1, HousesAssumption DEF HousesTypes, H!BedsAgree
    <3>2. HousesTypes'
      BY <1>1, <2>1, <2>3, <3>1 DEF HousesTypes, Named
    <3>3. H!GuestsOnly'
      BY <1>1, <2>1, <2>3, <3>1 DEF H!GuestsOnly, H!InHouse
    <3>4. \A k \in Halves : sleeper'[k] = IF k = h \/ k = Partner[h] THEN p ELSE sleeper[k]
      BY <2>1, <2>3, <3>1
    <3>5. \A k \in Halves : sleeper'[k] = sleeper'[Partner[k]]
      BY <3>1, <3>4
    <3>6. ASSUME NEW q \in People, bedSleepers'[q] # Nobody
          PROVE  sleeper'[bedSleepers'[q]] = q /\ (H!Online(q)' => q \in leaving')
      <4>1. CASE q = p
        BY <2>1, <2>3, <3>1, <3>4, <4>1
      <4>2. CASE q # p
        <5>1. bedSleepers'[q] = bedSleepers[q] /\ where'[q] = where[q]
          BY <2>3, <3>1, <4>2
        <5>2. bedSleepers[q] \in Halves /\ sleeper[bedSleepers[q]] = q
              /\ (H!Online(q) => q \in leaving)
          BY <1>1, <3>1, <3>6, <5>1 DEF H!BedsAgree
        <5>3. bedSleepers[q] # h /\ bedSleepers[q] # Partner[h]
          BY <2>1, <2>3, <3>1, <5>2, HousesAssumption
        <5> QED
          BY <2>3, <3>4, <5>1, <5>2, <5>3 DEF H!Online
      <4> QED
        BY <4>1, <4>2
    <3>7. H!BedsAgree' /\ WholeBeds(savedHouse'.sleeper)
      BY <1>1, <2>1, <3>5, <3>6 DEF H!BedsAgree
    <3> QED
      BY <3>2, <3>3, <3>7 DEF HousesInv
  <2> QED
    BY <2>1, <2>2, <2>3
<1> QED
  BY <1>2, <1>3

(* Who comes is awake; who goes may be asleep.                             *)
LEMMA ComingKeeps ==
  ASSUME HousesInv, NEW p \in People,
         H!LogOut(p) \/ H!KickEvent(p) \/ \E to \in {"out", "room"} : H!LogIn(p, to)
  PROVE  HousesInv'
<1>1. HousesTypes /\ H!GuestsOnly /\ H!BedsAgree /\ WholeBeds(savedHouse.sleeper)
  BY DEF HousesInv
<1>2. ASSUME H!Go(p) PROVE HousesInv'
  <2>1. /\ where' = [where EXCEPT ![p] = "offline"]
        /\ bedItem' = [bedItem EXCEPT ![p] = Nobody] /\ leaving' = leaving \ {p}
        /\ house' = house \/ house' = [house EXCEPT !.document = Nobody]
        /\ UNCHANGED <<sleeper, bedSleepers, savedHouse>>
    BY <1>2 DEF H!Go
  <2>2. HousesTypes'
    BY <1>1, <2>1 DEF HousesTypes
  <2>3. /\ house'.owner = house.owner /\ house'.subowners = house.subowners
        /\ house'.guests = house.guests
    BY <1>1, <2>1 DEF HousesTypes
  <2>4. H!GuestsOnly'
    BY <1>1, <2>1, <2>3, InvitedIs DEF H!GuestsOnly, H!InHouse, HousesTypes
  <2>5. H!BedsAgree' /\ WholeBeds(savedHouse'.sleeper)
    BY <1>1, <2>1 DEF H!BedsAgree, H!Online, HousesTypes
  <2> QED
    BY <2>2, <2>4, <2>5 DEF HousesInv
<1>3. ASSUME NEW to \in {"out", "room"}, H!LogIn(p, to) PROVE HousesInv'
  <2>1. /\ where' = [where EXCEPT ![p] = IF H!Invited(house, p) THEN to ELSE "out"]
        /\ UNCHANGED <<house, bedItem, leaving, savedHouse>>
        /\ \/ bedSleepers[p] # Nobody /\ H!WakeUp({bedSleepers[p]})
           \/ bedSleepers[p] = Nobody /\ UNCHANGED <<sleeper, bedSleepers>>
    BY <1>3 DEF H!LogIn
  <2>2. /\ sleeper' \in [Halves -> Named] /\ WholeBeds(sleeper')
        /\ bedSleepers' \in [People -> Halves \cup {Nobody}]
        /\ \A q \in People : bedSleepers'[q] # Nobody =>
              bedSleepers'[q] = bedSleepers[q] /\ sleeper'[bedSleepers'[q]] = q
        /\ bedSleepers'[p] = Nobody
    <3>1. CASE bedSleepers[p] # Nobody /\ H!WakeUp({bedSleepers[p]})
      <4>1. {bedSleepers[p]} \in SUBSET Halves /\ sleeper[bedSleepers[p]] = p
        BY <1>1, <3>1 DEF HousesTypes, H!BedsAgree
      <4> QED
        BY <1>1, <3>1, <4>1, WakeUpFrees
    <3>2. CASE bedSleepers[p] = Nobody /\ UNCHANGED <<sleeper, bedSleepers>>
      BY <1>1, <3>2 DEF HousesTypes, WholeBeds, H!BedsAgree
    <3> QED
      BY <2>1, <3>1, <3>2
  <2>3. HousesTypes'
    BY <1>1, <2>1, <2>2 DEF HousesTypes
  <2>4. H!GuestsOnly'
    BY <1>1, <2>1 DEF H!GuestsOnly, H!InHouse, HousesTypes
  <2>5. H!BedsAgree' /\ WholeBeds(savedHouse'.sleeper)
    BY <1>1, <2>1, <2>2 DEF H!BedsAgree, WholeBeds, H!Online, HousesTypes
  <2> QED
    BY <2>3, <2>4, <2>5 DEF HousesInv
<1> QED
  BY <1>2, <1>3 DEF H!LogOut, H!KickEvent

(* What is stored is whole, and so is what a restart finds.                *)
LEMMA RestartsKeep ==
  ASSUME HousesInv, H!SaveInfo \/ H!SaveItems \/ H!Restart
  PROVE  HousesInv'
<1>1. HousesTypes /\ H!GuestsOnly /\ H!BedsAgree /\ WholeBeds(savedHouse.sleeper)
  BY DEF HousesInv
<1>2. CASE H!SaveInfo \/ H!SaveItems
  <2>1. /\ UNCHANGED <<house, where, sleeper, bedSleepers, bedItem, leaving>>
        /\ \/ savedHouse' = [savedHouse EXCEPT !.owner = house.owner,
                                 !.subowners = house.subowners, !.guests = house.guests]
           \/ savedHouse' = [savedHouse EXCEPT !.sleeper = sleeper]
    BY <1>2 DEF H!SaveInfo, H!SaveItems
  <2>2. HousesTypes'
    BY ZenonT(60), <1>1, <2>1 DEF HousesTypes
  <2>3. WholeBeds(sleeper)
    BY <1>1 DEF H!BedsAgree, WholeBeds
  <2>4. WholeBeds(savedHouse'.sleeper)
    <3>1. savedHouse'.sleeper = savedHouse.sleeper \/ savedHouse'.sleeper = sleeper
      BY <1>1, <2>1 DEF HousesTypes
    <3> QED
      BY <1>1, <2>3, <3>1
  <2>5. H!GuestsOnly' /\ H!BedsAgree'
    BY <1>1, <2>1 DEF H!GuestsOnly, H!InHouse, H!BedsAgree, H!Online
  <2> QED
    BY <2>2, <2>4, <2>5 DEF HousesInv
<1>3. CASE H!Restart
  <2>1. /\ house' = [owner |-> savedHouse.owner, subowners |-> savedHouse.subowners,
                     guests |-> savedHouse.guests, document |-> Nobody]
        /\ where' = [p \in People |-> "offline"]
        /\ sleeper' = savedHouse.sleeper /\ savedHouse' = savedHouse
        /\ bedItem' = [p \in People |-> Nobody] /\ leaving' = {}
        /\ bedSleepers' \in [People -> Halves \cup {Nobody}]
        /\ \A p \in People : bedSleepers'[p] # Nobody => sleeper'[bedSleepers'[p]] = p
    <3>1. ASSUME NEW p \in People, bedSleepers'[p] # Nobody
          PROVE  savedHouse.sleeper[bedSleepers'[p]] = p
      BY <1>3, <3>1 DEF H!Restart
    <3> QED
      BY <1>3, <3>1 DEF H!Restart
  <2>2. HousesTypes'
    BY <1>1, <2>1 DEF HousesTypes
  <2>3. H!GuestsOnly'
    BY <2>1 DEF H!GuestsOnly, H!InHouse
  <2>4. H!BedsAgree' /\ WholeBeds(savedHouse'.sleeper)
    BY <1>1, <2>1 DEF H!BedsAgree, WholeBeds, H!Online
  <2> QED
    BY <2>2, <2>3, <2>4 DEF HousesInv
<1> QED
  BY <1>2, <1>3

(* Nobody stays in a house that he may not enter, the halves of a bed      *)
(* agree, and who is registered as asleep has his bed and is away or about *)
(* to go, also after a crash between two saves: for any people and beds    *)
(* (house.cpp:176, bed.cpp:33).                                            *)
THEOREM HousesStayKept == MCSpec => []HousesAgree
<1>1. MCInit => HousesInv
  BY HousesStart DEF MCInit
<1>2. HousesInv /\ [MCNext]_<<vars, scene, fights, homes>> => HousesInv'
  <2> SUFFICES ASSUME HousesInv, [MCNext]_<<vars, scene, fights, homes>> PROVE HousesInv'
    OBVIOUS
  <2>1. CASE UNCHANGED homes
    BY <2>1 DEF homes, HousesInv, HousesTypes, H!GuestsOnly, H!InHouse, H!BedsAgree,
                H!Online, WholeBeds
  <2>2. CASE H!HousesNext
    BY <2>2, OwnersKeep, GuestsKeep, BedsKeep, ComingKeeps, RestartsKeep DEF H!HousesNext
  <2> QED
    BY <2>1, <2>2 DEF MCNext
<1>3. HousesInv => HousesAgree
  BY DEF HousesInv, HousesAgree
<1> QED
  BY <1>1, <1>2, <1>3, PTL DEF MCSpec

-----------------------------------------------------------------------------
(* Lists of members: nobody is twice in one.                               *)
IsList(m) == m \in Seq(Players) /\ IsInjective(m)

LEMMA NoMember ==
  ASSUME NEW m \in Seq(Players)
  PROVE  (m = <<>> <=> ToSet(m) = {}) /\ ToSet(m) \subseteq Players
<1>1. DOMAIN m = 1 .. Len(m) /\ Len(m) \in Nat /\ \A i \in 1 .. Len(m) : m[i] \in Players
  BY ElementOfSeq, LenProperties
<1>2. m = <<>> <=> Len(m) = 0
  BY EmptySeq
<1>3. ASSUME Len(m) # 0 PROVE m[1] \in ToSet(m)
  BY <1>1, <1>3 DEF ToSet
<1>4. ASSUME Len(m) = 0 PROVE ToSet(m) = {}
  BY <1>1, <1>4 DEF ToSet
<1> QED
  BY <1>1, <1>2, <1>3, <1>4 DEF ToSet

LEMMA FirstMember ==
  ASSUME NEW m, IsList(m), m # <<>>
  PROVE  Head(m) \in ToSet(m) /\ (ToSet(m) = {Head(m)} => Len(m) = 1)
<1>1. DOMAIN m = 1 .. Len(m) /\ Len(m) \in Nat \ {0} /\ Head(m) = m[1]
  BY HeadTailProperties, LenProperties, EmptySeq DEF IsList
<1>2. ASSUME ToSet(m) = {Head(m)}, Len(m) # 1 PROVE FALSE
  <2>1. 2 \in DOMAIN m /\ 1 \in DOMAIN m
    BY <1>1, <1>2
  <2>2. m[2] \in ToSet(m)
    BY <2>1 DEF ToSet
  <2>3. m[2] = m[1]
    BY <1>1, <1>2, <2>2
  <2> QED
    BY <2>1, <2>3 DEF IsList, IsInjective
<1>3. 1 \in DOMAIN m
  BY <1>1
<1>4. Head(m) \in ToSet(m)
  BY <1>1, <1>3 DEF ToSet
<1> QED
  BY <1>2, <1>4

LEMMA MemberLeaves ==
  ASSUME NEW m, IsList(m), NEW p
  PROVE  IsList(Without(m, p)) /\ ToSet(Without(m, p)) = ToSet(m) \ {p}
<1>1. m \in Seq(Players) /\ DOMAIN m = 1 .. Len(m) /\ Len(m) \in Nat
      /\ \A i, j \in DOMAIN m : m[i] = m[j] => i = j
  BY LenProperties DEF IsList, IsInjective
<1>2. CASE p \notin ToSet(m)
  BY <1>2 DEF Without
<1>3. CASE p \in ToSet(m)
  <2>1. PICK k \in DOMAIN m : m[k] = p /\ Without(m, p) = RemoveAt(m, k)
    BY <1>3 DEF Without, ToSet
  <2> DEFINE a == SubSeq(m, 1, k - 1)
             b == SubSeq(m, k + 1, Len(m))
             r == a \o b
             n == Len(m) - 1
  <2>2. k \in 1 .. Len(m) /\ n \in Nat /\ k - 1 \in Nat /\ Len(m) - k \in Nat
    BY <1>1, <2>1
  <2>3. /\ a \in Seq(Players) /\ Len(a) = k - 1
        /\ \A i \in 1 .. (k - 1) : a[i] = m[i]
    <3>1. /\ a \in Seq(Players)
          /\ Len(a) = IF 1 <= k - 1 THEN (k - 1) - 1 + 1 ELSE 0
          /\ \A i \in 1 .. (k - 1) - 1 + 1 : a[i] = m[1 + i - 1]
      BY <1>1, <2>2, SubSeqProperties
    <3> HIDE DEF a
    <3> QED
      BY <2>2, <3>1
  <2>4. /\ b \in Seq(Players) /\ Len(b) = Len(m) - k
        /\ \A i \in 1 .. (Len(m) - k) : b[i] = m[k + i]
    <3>1. /\ b \in Seq(Players)
          /\ Len(b) = IF k + 1 <= Len(m) THEN Len(m) - (k + 1) + 1 ELSE 0
          /\ \A i \in 1 .. Len(m) - (k + 1) + 1 : b[i] = m[(k + 1) + i - 1]
      BY <1>1, <2>2, SubSeqProperties
    <3>2. Len(b) = Len(m) - k
      <4> HIDE DEF b
      <4> QED
        BY <1>1, <2>2, <3>1
    <3>3. \A i \in 1 .. (Len(m) - k) : i \in 1 .. Len(m) - (k + 1) + 1 /\ (k + 1) + i - 1 = k + i
      BY <1>1, <2>2
    <3> HIDE DEF b
    <3> QED
      BY <3>1, <3>2, <3>3
  <2> HIDE DEF a, b
  <2>5. /\ r \in Seq(Players) /\ Len(r) = Len(a) + Len(b)
        /\ \A i \in 1 .. Len(a) + Len(b) : r[i] = IF i <= Len(a) THEN a[i] ELSE b[i - Len(a)]
    BY <2>3, <2>4, ConcatProperties
  <2> HIDE DEF r
  <2>6. r \in Seq(Players) /\ DOMAIN r = 1 .. n
        /\ \A i \in 1 .. n : r[i] = IF i < k THEN m[i] ELSE m[i + 1]
    <3>1. Len(r) = n
      BY <1>1, <2>2, <2>3, <2>4, <2>5
    <3>2. ASSUME NEW i \in 1 .. n PROVE r[i] = IF i < k THEN m[i] ELSE m[i + 1]
      <4>1. CASE i < k
        BY <1>1, <2>2, <2>3, <2>4, <2>5, <4>1
      <4>2. CASE ~ (i < k)
        <5>1. i - (k - 1) \in 1 .. (Len(m) - k) /\ k + (i - (k - 1)) = i + 1
          BY <1>1, <2>2, <4>2
        <5>2. r[i] = b[i - (k - 1)]
          BY <1>1, <2>2, <2>3, <2>4, <2>5, <4>2
        <5> QED
          BY <2>4, <4>2, <5>1, <5>2
      <4> QED
        BY <4>1, <4>2
    <3> QED
      BY <2>5, <3>1, <3>2, LenProperties
  <2>7. IsList(r)
    <3>1. ASSUME NEW i \in 1 .. n, NEW j \in 1 .. n, r[i] = r[j] PROVE i = j
      <4> DEFINE at(x) == IF x < k THEN x ELSE x + 1
      <4>1. at(i) \in DOMAIN m /\ at(j) \in DOMAIN m /\ m[at(i)] = m[at(j)]
        BY <1>1, <2>2, <2>6, <3>1
      <4>2. at(i) = at(j)
        BY <1>1, <4>1
      <4> QED
        BY <2>2, <4>2
    <3> QED
      BY <2>6, <3>1 DEF IsList, IsInjective
  <2>8. ASSUME NEW x PROVE x \in ToSet(r) <=> x \in ToSet(m) /\ x # p
    <3>1. ASSUME x \in ToSet(r) PROVE x \in ToSet(m) /\ x # p
      <4>1. PICK i \in 1 .. n : r[i] = x
        BY <2>6, <3>1 DEF ToSet
      <4> DEFINE y == IF i < k THEN i ELSE i + 1
      <4>2. y \in DOMAIN m /\ m[y] = x /\ y # k
        BY <1>1, <2>2, <2>6, <4>1
      <4> QED
        BY <1>1, <2>1, <4>2 DEF ToSet
    <3>2. ASSUME x \in ToSet(m), x # p PROVE x \in ToSet(r)
      <4>1. PICK i \in DOMAIN m : m[i] = x
        BY <3>2 DEF ToSet
      <4> DEFINE y == IF i < k THEN i ELSE i - 1
      <4>2. i # k
        BY <2>1, <3>2, <4>1
      <4>3. y \in 1 .. n /\ (IF y < k THEN y ELSE y + 1) = i
        BY <1>1, <2>2, <4>1, <4>2
      <4>4. r[y] = x
        BY <2>6, <4>1, <4>3
      <4> QED
        BY <2>6, <4>3, <4>4 DEF ToSet
    <3> QED
      BY <3>1, <3>2
  <2> QED
    BY <2>1, <2>7, <2>8 DEF RemoveAt, r, a, b
<1> QED
  BY <1>2, <1>3

LEMMA MemberJoins ==
  ASSUME NEW m, IsList(m), NEW p \in Players, p \notin ToSet(m)
  PROVE  /\ IsList(Append(m, p)) /\ ToSet(Append(m, p)) = ToSet(m) \cup {p}
         /\ IsList(<<p>> \o m) /\ ToSet(<<p>> \o m) = ToSet(m) \cup {p}
<1>1. m \in Seq(Players) /\ DOMAIN m = 1 .. Len(m) /\ Len(m) \in Nat
      /\ (\A i, j \in DOMAIN m : m[i] = m[j] => i = j) /\ \A i \in DOMAIN m : m[i] # p
  BY LenProperties DEF IsList, IsInjective, ToSet
<1> DEFINE n == Len(m) + 1
           a == Append(m, p)
           c == <<p>> \o m
<1>2. a \in Seq(Players) /\ DOMAIN a = 1 .. n /\ a[n] = p /\ \A i \in 1 .. Len(m) : a[i] = m[i]
  BY <1>1, AppendProperties, LenProperties
<1>3. c \in Seq(Players) /\ DOMAIN c = 1 .. n /\ c[1] = p /\ \A i \in 1 .. Len(m) : c[i + 1] = m[i]
  <2> DEFINE s == <<p>>
  <2>1. s \in Seq(Players) /\ Len(s) = 1 /\ s[1] = p
    OBVIOUS
  <2> HIDE DEF s
  <2>2. /\ s \o m \in Seq(Players) /\ Len(s \o m) = Len(s) + Len(m)
        /\ \A i \in 1 .. Len(s) + Len(m) : (s \o m)[i] = IF i <= Len(s) THEN s[i] ELSE m[i - Len(s)]
    BY <1>1, <2>1, ConcatProperties
  <2> DEFINE d == s \o m
  <2> HIDE DEF d
  <2>3. d \in Seq(Players) /\ Len(d) = n /\ \A i \in 1 .. n : d[i] = IF i <= 1 THEN p ELSE m[i - 1]
    BY <1>1, <2>1, <2>2 DEF d
  <2>4. d[1] = p /\ \A i \in 1 .. Len(m) : d[i + 1] = m[i]
    BY <1>1, <2>3
  <2> QED
    BY <2>3, <2>4, LenProperties DEF d, s
<1> HIDE DEF a, c
<1>4. IsList(a) /\ ToSet(a) = ToSet(m) \cup {p}
  <2>1. ASSUME NEW i \in 1 .. n, NEW j \in 1 .. n, a[i] = a[j] PROVE i = j
    BY <1>1, <1>2, <2>1
  <2>2. \A x : x \in ToSet(a) <=> x \in ToSet(m) \/ x = p
    <3>1. 1 .. n = (1 .. Len(m)) \cup {n}
      BY <1>1
    <3> QED
      BY <1>1, <1>2, <3>1 DEF ToSet
  <2> QED
    BY <1>2, <2>1, <2>2 DEF IsList, IsInjective
<1>5. IsList(c) /\ ToSet(c) = ToSet(m) \cup {p}
  <2>0. \A i \in 1 .. n : i # 1 => i - 1 \in 1 .. Len(m) /\ c[i] = m[i - 1]
    <3>1. ASSUME NEW i \in 1 .. n, i # 1 PROVE i - 1 \in 1 .. Len(m) /\ c[i] = m[i - 1]
      <4>1. i - 1 \in 1 .. Len(m) /\ (i - 1) + 1 = i
        BY <1>1, <3>1
      <4> QED
        BY <1>3, <4>1
    <3> QED
      BY <3>1
  <2>1. ASSUME NEW i \in 1 .. n, NEW j \in 1 .. n, c[i] = c[j] PROVE i = j
    <3>0. \A k \in 1 .. Len(m) : m[k] # p
      BY <1>1 DEF ToSet
    <3>1. CASE i = 1
      <4>1. j = 1
        BY <1>3, <2>0, <2>1, <3>0, <3>1
      <4> QED
        BY <3>1, <4>1
    <3>2. CASE j = 1
      <4>1. i = 1
        BY <1>3, <2>0, <2>1, <3>0, <3>2
      <4> QED
        BY <3>2, <4>1
    <3>3. CASE i # 1 /\ j # 1
      <4>1. i - 1 = j - 1
        BY <1>1, <2>0, <2>1, <3>3
      <4> QED
        BY <4>1
    <3> QED
      BY <3>1, <3>2, <3>3
  <2>2. ASSUME NEW x PROVE x \in ToSet(c) <=> x \in ToSet(m) \/ x = p
    <3>1. ASSUME x \in ToSet(c), x # p PROVE x \in ToSet(m)
      <4>1. PICK i \in 1 .. n : c[i] = x
        BY <1>3, <3>1 DEF ToSet
      <4> QED
        BY <1>1, <1>3, <2>0, <3>1, <4>1 DEF ToSet
    <3>2. ASSUME x \in ToSet(m) PROVE x \in ToSet(c)
      <4>1. PICK i \in 1 .. Len(m) : m[i] = x
        BY <1>1, <3>2 DEF ToSet
      <4>2. i + 1 \in DOMAIN c /\ c[i + 1] = x
        BY <1>1, <1>3, <4>1
      <4> QED
        BY <4>2 DEF ToSet
    <3>3. p \in ToSet(c)
      <4>1. 1 \in DOMAIN c
        BY <1>1, <1>3
      <4> QED
        BY <1>3, <4>1 DEF ToSet
    <3> QED
      BY <3>1, <3>2, <3>3
  <2> QED
    BY <1>3, <2>1, <2>2 DEF IsList, IsInjective
<1> QED
  BY <1>4, <1>5 DEF a, c
-----------------------------------------------------------------------------
(* A party, and who is in it.                                              *)
IsParty(r) ==
    /\ r = [leader |-> r.leader, members |-> r.members, invites |-> r.invites,
            active |-> r.active, enabled |-> r.enabled, ticks |-> r.ticks]
    /\ r.leader \in Players \cup {None} /\ IsList(r.members) /\ r.invites \subseteq Players

Crew(r) == {r.leader} \cup ToSet(r.members)

(* A state of the game as the operators of a party take it.                *)
IsState(s) ==
    /\ s = [online |-> s.online, level |-> s.level, place |-> s.place,
            partyOf |-> s.partyOf, invitedTo |-> s.invitedTo, party |-> s.party,
            channel |-> s.channel]
    /\ s.level = [p \in Players |-> s.level[p]] /\ s.place = [p \in Players |-> s.place[p]]
    /\ s.partyOf \in [Players -> Parties \cup {None}]
    /\ s.invitedTo \in [Players -> SUBSET Parties]
    /\ s.party = [P \in Parties |-> s.party[P]]
    /\ \A P \in Parties : IsParty(s.party[P])

(* Whether a member fits depends on few things.                            *)
FitsIn(l, w, h, m, p) ==
    /\ m # <<>>
    /\ 3 * l[p] >= 2 * Max({l[q] : q \in {h} \cup ToSet(m)})
    /\ w[p] = w[h]

CurrentAt(l, w, r) ==
    r.active =>
        /\ r.enabled => \A p \in Crew(r) : FitsIn(l, w, r.leader, r.members, p)
        /\ (\A p \in Crew(r) : FitsIn(l, w, r.leader, r.members, p) /\ p \in r.ticks)
             => r.enabled

LEMMA FitsIs ==
  \A s, P, p : Fits(s, P, p) <=>
                   FitsIn(s.level, s.place, s.party[P].leader, s.party[P].members, p)
BY DEF Fits, FitsIn

LEMMA StatusIs ==
  \A s, P : GetSharedExperienceStatus(s, P) <=>
      \A p \in Crew(s.party[P]) :
          /\ FitsIn(s.level, s.place, s.party[P].leader, s.party[P].members, p)
          /\ p \in s.party[P].ticks
BY FitsIs DEF GetSharedExperienceStatus, Active, Crew

(* What is true of others does not matter.                                 *)
LEMMA FitsElsewhere ==
  ASSUME NEW l, NEW w, NEW k, NEW v, NEW r,
         \A p \in Crew(r) : k[p] = l[p] /\ v[p] = w[p], CurrentAt(l, w, r)
  PROVE  CurrentAt(k, v, r)
<1>1. {l[q] : q \in Crew(r)} = {k[q] : q \in Crew(r)}
  OBVIOUS
<1>2. \A p \in Crew(r) : FitsIn(l, w, r.leader, r.members, p) <=> FitsIn(k, v, r.leader, r.members, p)
  <2>1. r.leader \in Crew(r)
    BY DEF Crew
  <2> DEFINE most == Max({l[q] : q \in Crew(r)})
  <2>2. \A p : FitsIn(l, w, r.leader, r.members, p) <=>
            r.members # <<>> /\ 3 * l[p] >= 2 * most /\ w[p] = w[r.leader]
    BY DEF FitsIn, Crew
  <2>3. \A p : FitsIn(k, v, r.leader, r.members, p) <=>
            r.members # <<>> /\ 3 * k[p] >= 2 * most /\ v[p] = v[r.leader]
    BY <1>1 DEF FitsIn, Crew
  <2> HIDE DEF most
  <2> QED
    BY <2>1, <2>2, <2>3
<1> QED
  BY <1>2 DEF CurrentAt

(* t differs from s in party P only.                                       *)
Differs(s, t, P) ==
    /\ t.online = s.online /\ t.level = s.level /\ t.place = s.place
    /\ t.partyOf = s.partyOf /\ t.invitedTo = s.invitedTo /\ t.channel = s.channel
    /\ \A Q \in Parties \ {P} : t.party[Q] = s.party[Q]

Put(s, P, r) == [s EXCEPT !.party = [s.party EXCEPT ![P] = r]]

LEMMA PutParty ==
  ASSUME NEW s, IsState(s), NEW P \in Parties, NEW r, IsParty(r)
  PROVE  LET t == Put(s, P, r)
         IN  IsState(t) /\ Differs(s, t, P) /\ t.party[P] = r
<1> DEFINE t == Put(s, P, r)
           f == [s.party EXCEPT ![P] = r]
<1>1. f = [Q \in Parties |-> f[Q]] /\ f[P] = r /\ \A Q \in Parties \ {P} : f[Q] = s.party[Q]
  BY DEF IsState
<1> HIDE DEF f
<1>2. t = [online |-> s.online, level |-> s.level, place |-> s.place,
           partyOf |-> s.partyOf, invitedTo |-> s.invitedTo, party |-> f, channel |-> s.channel]
  BY DEF IsState, Put, f
<1> HIDE DEF t
<1>3. /\ t.online = s.online /\ t.level = s.level /\ t.place = s.place
      /\ t.partyOf = s.partyOf /\ t.invitedTo = s.invitedTo /\ t.channel = s.channel
      /\ t.party = f
  BY <1>2
<1>4. \A Q \in Parties : IsParty(f[Q])
  BY <1>1 DEF IsState
<1> QED
  BY <1>1, <1>2, <1>3, <1>4 DEF IsState, Differs, t

(* updateSharedExperience makes the answer current.                        *)
SameParty(r, q) ==
    q.leader = r.leader /\ q.members = r.members /\ q.invites = r.invites

LEMMA UpdateEffect ==
  ASSUME NEW s, IsState(s), NEW P \in Parties
  PROVE  LET t == UpdateSharedExperience(s, P)
         IN  /\ IsState(t) /\ Differs(s, t, P) /\ SameParty(s.party[P], t.party[P])
             /\ t.party[P].ticks = s.party[P].ticks
             /\ CurrentAt(t.level, t.place, t.party[P])
<1> DEFINE t == UpdateSharedExperience(s, P)
           r == s.party[P]
<1>0. P # None /\ IsParty(r)
  BY PartiesAssumption DEF IsState
<1>1. CASE ~ r.active
  <2>1. t = s
    BY <1>1 DEF UpdateSharedExperience
  <2> QED
    BY <1>1, <2>1 DEF Differs, SameParty, CurrentAt
<1>2. CASE r.active
  <2> DEFINE now == GetSharedExperienceStatus(s, P)
             q == [r EXCEPT !.enabled = now]
  <2>1. t = Put(s, P, q)
    BY <1>0, <1>2 DEF UpdateSharedExperience, Put
  <2>2. q = [leader |-> r.leader, members |-> r.members, invites |-> r.invites,
             active |-> r.active, enabled |-> now, ticks |-> r.ticks]
    <3> HIDE DEF now
    <3> QED
      BY <1>0 DEF IsParty
  <2>3. now <=> \A p \in Crew(r) : FitsIn(s.level, s.place, r.leader, r.members, p) /\ p \in r.ticks
    BY StatusIs
  <2> HIDE DEF now, q, r
  <2>4. /\ q.leader = r.leader /\ q.members = r.members /\ q.invites = r.invites
        /\ q.active = r.active /\ q.ticks = r.ticks /\ q.enabled = now
    BY <2>2
  <2>5. IsParty(q)
    BY <1>0, <2>2, <2>4 DEF IsParty
  <2>6. Crew(q) = Crew(r)
    BY <2>4 DEF Crew
  <2>7. CurrentAt(s.level, s.place, q)
    BY <2>3, <2>4, <2>6 DEF CurrentAt
  <2> HIDE DEF t
  <2>8. IsState(t) /\ Differs(s, t, P) /\ t.party[P] = q
    BY <2>1, <2>5, PutParty
  <2> QED
    BY <2>4, <2>7, <2>8 DEF SameParty, Differs, r, t
<1> QED
  BY <1>1, <1>2

LEMMA PointsEffect ==
  ASSUME NEW s, IsState(s), NEW P \in Parties, NEW p, CurrentAt(s.level, s.place, s.party[P])
  PROVE  LET t == ClearPlayerPoints(s, P, p)
         IN  /\ IsState(t) /\ Differs(s, t, P) /\ SameParty(s.party[P], t.party[P])
             /\ CurrentAt(t.level, t.place, t.party[P])
<1> DEFINE t == ClearPlayerPoints(s, P, p)
           r == s.party[P]
           q == [r EXCEPT !.ticks = @ \ {p}]
           u == [s EXCEPT !.party[P].ticks = @ \ {p}]
<1>0. IsParty(r)
  BY DEF IsState
<1>1. t = s \/ t = UpdateSharedExperience(u, P)
  BY DEF ClearPlayerPoints
<1>2. u = Put(s, P, q)
  BY DEF Put
<1> HIDE DEF t, u, r
<1>3. q = [leader |-> r.leader, members |-> r.members, invites |-> r.invites,
           active |-> r.active, enabled |-> r.enabled, ticks |-> r.ticks \ {p}]
  BY <1>0 DEF IsParty
<1> HIDE DEF q
<1>4. IsParty(q) /\ SameParty(r, q)
  BY <1>0, <1>3 DEF IsParty, SameParty
<1>5. IsState(u) /\ Differs(s, u, P) /\ u.party[P] = q
  BY <1>2, <1>4, PutParty
<1>6. CASE t = s
  BY <1>6 DEF Differs, SameParty, t, r
<1>7. CASE t = UpdateSharedExperience(u, P)
  <2>1. /\ IsState(t) /\ Differs(u, t, P) /\ SameParty(u.party[P], t.party[P])
        /\ CurrentAt(t.level, t.place, t.party[P])
    BY <1>5, <1>7, UpdateEffect
  <2> QED
    BY <1>4, <1>5, <2>1 DEF Differs, SameParty, t, r
<1> QED
  BY <1>1, <1>6, <1>7

-----------------------------------------------------------------------------
(* To disband: everybody loses the party, one after the other.             *)
Freeing(s, S) ==
    [s EXCEPT !.partyOf = [q \in Players |-> IF q \in S THEN None ELSE s.partyOf[q]]]

Expel(t, p) == SendClosePrivate([t EXCEPT !.partyOf[p] = None], p)

Expels(f, s, list) ==
    f = [S \in SUBSET DOMAIN list |->
            IF S = {} THEN s ELSE Expel(f[S \ {Max(S)}], list[Max(S)])]

LEMMA GreatestIn ==
  ASSUME NEW n \in Nat, NEW S \in SUBSET (1 .. n), S # {}
  PROVE  Max(S) \in S
<1> DEFINE T == {n - x : x \in S}
<1>1. T \in SUBSET Nat /\ T # {}
  <2>1. \A x \in S : n - x \in Nat
    OBVIOUS
  <2> QED
    BY <2>1
<1>2. PICK m \in T : \A y \in T : m <= y
  BY <1>1, LeastNatural
<1>3. PICK x \in S : m = n - x
  BY <1>2
<1>4. \A y \in S : n - x <= n - y
  BY <1>2, <1>3
<1>5. \A y \in S : x >= y
  BY <1>4
<1> QED
  BY <1>5 DEF Max

LEMMA FreeingIs ==
  ASSUME NEW s, IsState(s), NEW S
  PROVE  LET t == Freeing(s, S)
         IN  /\ IsState(t)
             /\ t.online = s.online /\ t.level = s.level /\ t.place = s.place
             /\ t.invitedTo = s.invitedTo /\ t.party = s.party /\ t.channel = s.channel
             /\ t.partyOf = [q \in Players |-> IF q \in S THEN None ELSE s.partyOf[q]]
<1> DEFINE t == Freeing(s, S)
           f == [q \in Players |-> IF q \in S THEN None ELSE s.partyOf[q]]
<1>1. f \in [Players -> Parties \cup {None}]
  BY DEF IsState
<1> HIDE DEF f
<1>2. t = [online |-> s.online, level |-> s.level, place |-> s.place, partyOf |-> f,
           invitedTo |-> s.invitedTo, party |-> s.party, channel |-> s.channel]
  BY DEF IsState, Freeing, f
<1> HIDE DEF t
<1>3. /\ t.online = s.online /\ t.level = s.level /\ t.place = s.place /\ t.partyOf = f
      /\ t.invitedTo = s.invitedTo /\ t.party = s.party /\ t.channel = s.channel
  BY <1>2
<1>4. IsState(t)
  BY <1>1, <1>2, <1>3 DEF IsState
<1> QED
  BY <1>3, <1>4 DEF t, f

LEMMA ExpelOne ==
  ASSUME NEW s, IsState(s), NEW S, NEW p \in Players
  PROVE  Expel(Freeing(s, S), p) = Freeing(s, S \cup {p})
<1> DEFINE t == Freeing(s, S)
           f == [q \in Players |-> IF q \in S \cup {p} THEN None ELSE s.partyOf[q]]
           u == [t EXCEPT !.partyOf[p] = None]
<1>1. /\ t = [online |-> s.online, level |-> s.level, place |-> s.place, partyOf |-> t.partyOf,
              invitedTo |-> s.invitedTo, party |-> s.party, channel |-> s.channel]
      /\ t.partyOf = [q \in Players |-> IF q \in S THEN None ELSE s.partyOf[q]]
  <2>1. /\ IsState(t)
        /\ t.online = s.online /\ t.level = s.level /\ t.place = s.place
        /\ t.invitedTo = s.invitedTo /\ t.party = s.party /\ t.channel = s.channel
        /\ t.partyOf = [q \in Players |-> IF q \in S THEN None ELSE s.partyOf[q]]
    BY FreeingIs
  <2> HIDE DEF t
  <2> QED
    BY <2>1 DEF IsState
<1>2. [t.partyOf EXCEPT ![p] = None] = f
  BY <1>1
<1>3. u = [t EXCEPT !.partyOf = [t.partyOf EXCEPT ![p] = None]]
  OBVIOUS
<1> HIDE DEF f, t
<1>4. u = [online |-> s.online, level |-> s.level, place |-> s.place, partyOf |-> f,
           invitedTo |-> s.invitedTo, party |-> s.party, channel |-> s.channel]
  BY <1>1, <1>2, <1>3
<1>5. Freeing(s, S \cup {p}) =
          [online |-> s.online, level |-> s.level, place |-> s.place, partyOf |-> f,
           invitedTo |-> s.invitedTo, party |-> s.party, channel |-> s.channel]
  BY DEF IsState, Freeing, f
<1>6. u.partyOf[p] = None
  BY <1>4 DEF f
<1>7. Expel(t, p) = u
  BY <1>6 DEF Expel, SendClosePrivate
<1> QED
  BY <1>4, <1>5, <1>7 DEF t

LEMMA ExpelNobody ==
  ASSUME NEW s, IsState(s)
  PROVE  Freeing(s, {}) = s
<1>1. [q \in Players |-> IF q \in {} THEN None ELSE s.partyOf[q]] = s.partyOf
  BY DEF IsState
<1> QED
  BY <1>1 DEF IsState, Freeing

LEMMA ExpelsAll ==
  ASSUME NEW s, IsState(s), NEW list \in Seq(Players)
  PROVE  /\ \E f : Expels(f, s, list)
         /\ \A f : Expels(f, s, list) => f[DOMAIN list] = Freeing(s, ToSet(list))
<1> DEFINE D == DOMAIN list
           Names(S) == {list[i] : i \in S}
           g == [S \in SUBSET D |-> Freeing(s, Names(S))]
<1>1. D = 1 .. Len(list) /\ Len(list) \in Nat /\ \A i \in D : list[i] \in Players
  BY LenProperties, ElementOfSeq
<1>2. ASSUME NEW S \in SUBSET D, S # {}
      PROVE  Max(S) \in S /\ S \ {Max(S)} \in SUBSET D
  BY <1>1, <1>2, GreatestIn
<1>3. ASSUME NEW S \in SUBSET D, S # {}
      PROVE  Expel(Freeing(s, Names(S \ {Max(S)})), list[Max(S)]) = Freeing(s, Names(S))
  <2>1. Names(S) = Names(S \ {Max(S)}) \cup {list[Max(S)]}
    BY <1>2, <1>3
  <2>2. list[Max(S)] \in Players
    BY <1>1, <1>2, <1>3
  <2>3. \A X, p : p \in Players => Expel(Freeing(s, X), p) = Freeing(s, X \cup {p})
    BY ExpelOne
  <2> HIDE DEF Names
  <2> QED
    BY <2>1, <2>2, <2>3
<1>4. Freeing(s, Names({})) = s
  BY ExpelNobody
<1>5. Expels(g, s, list)
  <2>1. ASSUME NEW S \in SUBSET D
        PROVE  g[S] = IF S = {} THEN s ELSE Expel(g[S \ {Max(S)}], list[Max(S)])
    <3>1. CASE S = {}
      BY <1>4, <3>1
    <3>2. CASE S # {}
      BY <1>2, <1>3, <3>2
    <3> QED
      BY <3>1, <3>2
  <2> HIDE DEF g
  <2>2. g = [S \in SUBSET D |-> g[S]]
    BY DEF g
  <2>3. [S \in SUBSET D |-> g[S]] =
           [S \in SUBSET D |-> IF S = {} THEN s ELSE Expel(g[S \ {Max(S)}], list[Max(S)])]
    BY <2>1
  <2> QED
    BY <2>2, <2>3 DEF Expels
<1>6. ASSUME NEW f, Expels(f, s, list) PROVE f[D] = Freeing(s, Names(D))
  <2> DEFINE Bad == {S \in SUBSET D : f[S] # Freeing(s, Names(S))}
  <2>1. Bad = {}
    <3> SUFFICES ASSUME Bad # {} PROVE FALSE
      OBVIOUS
    <3>1. IsFiniteSet(D)
      BY <1>1, FS_Interval
    <3>1a. Bad \in SUBSET (SUBSET D)
      OBVIOUS
    <3>2. PICK S \in Bad : \A R \in Bad : R \subseteq S => R = S
      <4> HIDE DEF Bad, D
      <4> QED
        BY <3>1, <3>1a, LeastSubset
    <3>3. S \in SUBSET D /\ f[S] # Freeing(s, Names(S))
      BY <3>2
    <3>4. f[S] = IF S = {} THEN s ELSE Expel(f[S \ {Max(S)}], list[Max(S)])
      BY <1>6, <3>3 DEF Expels
    <3>5. CASE S = {}
      BY <1>4, <3>3, <3>4, <3>5
    <3>6. CASE S # {}
      <4>1. S \ {Max(S)} \in SUBSET D /\ S \ {Max(S)} # S /\ S \ {Max(S)} \subseteq S
        BY <1>2, <3>3, <3>6
      <4>2. f[S \ {Max(S)}] = Freeing(s, Names(S \ {Max(S)}))
        BY <3>2, <4>1
      <4> HIDE DEF Names
      <4> QED
        BY <1>3, <3>3, <3>4, <3>6, <4>2
    <3> QED
      BY <3>5, <3>6
  <2> QED
    BY <2>1
<1> QED
  BY <1>5, <1>6 DEF ToSet

(* In t the party P of s is disbanded and nothing else has changed.        *)
Disbanded(s, t, P) ==
    /\ IsState(t)
    /\ t.online = s.online /\ t.level = s.level /\ t.place = s.place
    /\ t.channel = s.channel
    /\ \A q \in Players :
         /\ t.partyOf[q] = IF q \in Crew(s.party[P]) THEN None ELSE s.partyOf[q]
         /\ t.invitedTo[q] = IF q \in s.party[P].invites THEN s.invitedTo[q] \ {P}
                             ELSE s.invitedTo[q]
    /\ t.party[P] = Freed /\ \A Q \in Parties \ {P} : t.party[Q] = s.party[Q]

LEMMA DisbandEffect ==
  ASSUME NEW s, IsState(s), NEW P \in Parties, s.party[P].leader \in Players
  PROVE  Disbanded(s, Disband(s, P), P)
<1> DEFINE r == s.party[P]
           list == <<r.leader>> \o r.members
           left == FoldLeft(Expel, s, list)
           v == Freeing(s, Crew(r))
           a == [q \in Players |-> IF q \in r.invites THEN v.invitedTo[q] \ {P} ELSE v.invitedTo[q]]
           b == [v.party EXCEPT ![P] = Freed]
           t == Disband(s, P)
<1>1. IsParty(r)
  BY DEF IsState
<1>2. list \in Seq(Players) /\ ToSet(list) = Crew(r)
  <2>1. r.members \in Seq(Players) /\ r.leader \in Players
    BY <1>1 DEF IsParty, IsList
  <2> DEFINE c == <<r.leader>>
  <2>2. c \in Seq(Players) /\ Len(c) = 1 /\ c[1] = r.leader
    BY <2>1
  <2> HIDE DEF c, r
  <2>3. /\ c \o r.members \in Seq(Players) /\ Len(c \o r.members) = 1 + Len(r.members)
        /\ \A i \in 1 .. 1 + Len(r.members) :
              (c \o r.members)[i] = IF i <= 1 THEN c[i] ELSE r.members[i - 1]
    <3>1. /\ c \o r.members \in Seq(Players)
          /\ Len(c \o r.members) = Len(c) + Len(r.members)
          /\ \A i \in 1 .. Len(c) + Len(r.members) : (c \o r.members)[i] =
                 IF i <= Len(c) THEN c[i] ELSE r.members[i - Len(c)]
      BY <2>1, <2>2, ConcatProperties
    <3> QED
      BY <2>2, <3>1
  <2> DEFINE d == c \o r.members
             n == Len(r.members)
  <2>4. DOMAIN d = 1 .. 1 + n /\ DOMAIN r.members = 1 .. n /\ n \in Nat
    BY <2>1, <2>3, LenProperties
  <2> HIDE DEF d, n
  <2>5. d[1] = r.leader /\ \A i \in 1 .. 1 + n : d[i] = IF i <= 1 THEN c[i] ELSE r.members[i - 1]
    BY <2>2, <2>3, <2>4 DEF d, n
  <2>6. ASSUME NEW x PROVE x \in ToSet(d) <=> x \in Crew(r)
    <3>1. ASSUME x \in ToSet(d) PROVE x \in Crew(r)
      <4>1. PICK i \in 1 .. 1 + n : d[i] = x
        BY <2>4, <3>1 DEF ToSet
      <4>2. CASE i <= 1
        BY <2>4, <2>5, <4>1, <4>2 DEF Crew
      <4>3. CASE ~ (i <= 1)
        <5>1. i - 1 \in 1 .. n /\ r.members[i - 1] = x
          BY <2>4, <2>5, <4>1, <4>3
        <5> QED
          BY <2>4, <5>1 DEF Crew, ToSet
      <4> QED
        BY <4>2, <4>3
    <3>2. ASSUME x \in Crew(r) PROVE x \in ToSet(d)
      <4>1. CASE x = r.leader
        <5>1. 1 \in DOMAIN d
          BY <2>4
        <5> QED
          BY <2>5, <4>1, <5>1 DEF ToSet
      <4>2. CASE x \in ToSet(r.members)
        <5>1. PICK i \in 1 .. n : r.members[i] = x
          BY <2>4, <4>2 DEF ToSet
        <5>2. i + 1 \in 1 .. 1 + n /\ d[i + 1] = x
          <6>1. i + 1 \in 1 .. 1 + n /\ ~ (i + 1 <= 1) /\ (i + 1) - 1 = i
            BY <2>4
          <6> QED
            BY <2>5, <5>1, <6>1
        <5> QED
          BY <2>4, <5>2 DEF ToSet
      <4> QED
        BY <3>2, <4>1, <4>2 DEF Crew
    <3> QED
      BY <3>1, <3>2
  <2> QED
    BY <2>3, <2>6 DEF c, d
<1>3. left = v
  <2>1. left = (CHOOSE f : Expels(f, s, list))[DOMAIN list]
    BY DEF FoldLeft, MapThenFoldSet, Expels
  <2> HIDE DEF left, list, v
  <2> QED
    BY <1>2, <2>1, ExpelsAll DEF v
<1>4. t = [left EXCEPT !.invitedTo = [q \in Players |->
                           IF q \in r.invites THEN left.invitedTo[q] \ {P} ELSE left.invitedTo[q]],
                       !.party[P] = Freed]
  BY DEF Disband, Expel
<1> HIDE DEF left, list, t
<1>5. t = [v EXCEPT !.invitedTo = a, !.party = b]
  BY <1>3, <1>4
<1>6. /\ IsState(v)
      /\ v.online = s.online /\ v.level = s.level /\ v.place = s.place
      /\ v.invitedTo = s.invitedTo /\ v.party = s.party /\ v.channel = s.channel
      /\ v.partyOf = [q \in Players |-> IF q \in Crew(r) THEN None ELSE s.partyOf[q]]
  <2> HIDE DEF r
  <2> QED
    BY FreeingIs
<1> HIDE DEF v, r
<1>7. /\ a \in [Players -> SUBSET Parties]
      /\ b = [Q \in Parties |-> b[Q]] /\ b[P] = Freed /\ \A Q \in Parties \ {P} : b[Q] = v.party[Q]
  BY <1>6 DEF IsState
<1>8. IsParty(Freed)
  BY EmptySeq DEF IsParty, Freed, IsList, IsInjective
<1>9. \A q \in Players : a[q] = IF q \in r.invites THEN s.invitedTo[q] \ {P} ELSE s.invitedTo[q]
  BY <1>6
<1> HIDE DEF a, b
<1>10. t = [online |-> s.online, level |-> s.level, place |-> s.place, partyOf |-> v.partyOf,
            invitedTo |-> a, party |-> b, channel |-> s.channel]
  BY <1>5, <1>6 DEF IsState
<1>11. /\ t.online = s.online /\ t.level = s.level /\ t.place = s.place
       /\ t.partyOf = v.partyOf /\ t.invitedTo = a /\ t.party = b /\ t.channel = s.channel
  BY <1>10
<1>12. IsState(t)
  <2>1. \A Q \in Parties : IsParty(b[Q])
    BY <1>6, <1>7, <1>8 DEF IsState
  <2> QED
    BY <1>6, <1>7, <1>10, <1>11, <2>1 DEF IsState
<1> QED
  BY <1>6, <1>7, <1>9, <1>11, <1>12 DEF Disbanded, t, r

-----------------------------------------------------------------------------
(* To take an invitation back, and all of a player's.                      *)
Gone(s, P, p) == s.party[P].members = <<>> /\ s.party[P].invites \ {p} = {}

Uninvited(r, p) == [r EXCEPT !.invites = @ \ {p}]

LEMMA UninvitedIs ==
  ASSUME NEW r, IsParty(r), NEW p
  PROVE  LET q == Uninvited(r, p)
         IN  /\ IsParty(q) /\ q.leader = r.leader /\ q.members = r.members
             /\ q.invites = r.invites \ {p} /\ q.active = r.active
             /\ q.enabled = r.enabled /\ q.ticks = r.ticks
<1> DEFINE q == Uninvited(r, p)
<1>1. q = [leader |-> r.leader, members |-> r.members, invites |-> r.invites \ {p},
           active |-> r.active, enabled |-> r.enabled, ticks |-> r.ticks]
  BY DEF IsParty, Uninvited
<1> HIDE DEF q
<1>2. /\ q.leader = r.leader /\ q.members = r.members /\ q.active = r.active
      /\ q.invites = r.invites \ {p} /\ q.enabled = r.enabled /\ q.ticks = r.ticks
  BY <1>1
<1>3. IsParty(q)
  BY <1>1, <1>2 DEF IsParty
<1> QED
  BY <1>2, <1>3 DEF q

LEMMA StatesEqual ==
  ASSUME NEW s, IsState(s), NEW t, IsState(t),
         t.online = s.online, t.level = s.level, t.place = s.place, t.channel = s.channel,
         \A q \in Players : t.partyOf[q] = s.partyOf[q] /\ t.invitedTo[q] = s.invitedTo[q],
         \A Q \in Parties : t.party[Q] = s.party[Q]
  PROVE  t = s
<1>1. t.partyOf = s.partyOf /\ t.invitedTo = s.invitedTo
  BY DEF IsState
<1>2. t.party = s.party
  BY DEF IsState
<1> QED
  BY <1>1, <1>2 DEF IsState

(* t is s after the invitation of p to P is taken back, which may leave P   *)
(* empty; whether p forgets it depends on who takes it back.               *)
Revoked(s, t, P, p, fromPlayer) ==
    /\ IsState(t)
    /\ t.online = s.online /\ t.level = s.level /\ t.place = s.place
    /\ t.channel = s.channel
    /\ \A q \in Players :
         /\ t.partyOf[q] = IF Gone(s, P, p) /\ q \in Crew(s.party[P]) THEN None
                           ELSE s.partyOf[q]
         /\ t.invitedTo[q] = IF q = p /\ fromPlayer THEN s.invitedTo[q] \ {P}
                             ELSE s.invitedTo[q]
    /\ t.party[P] = IF Gone(s, P, p) THEN Freed ELSE Uninvited(s.party[P], p)
    /\ \A Q \in Parties \ {P} : t.party[Q] = s.party[Q]

LEMMA RemoveInviteEffect ==
  ASSUME NEW s, IsState(s), NEW P \in Parties, s.party[P].leader \in Players,
         NEW p \in Players, p \in s.party[P].invites, NEW fromPlayer \in BOOLEAN
  PROVE  Revoked(s, RemoveInvite(s, P, p, fromPlayer), P, p, fromPlayer)
<1> DEFINE t == RemoveInvite(s, P, p, fromPlayer)
           r == s.party[P]
           u == [s EXCEPT !.party[P].invites = @ \ {p},
                          !.invitedTo[p] = IF fromPlayer THEN @ \ {P} ELSE @]
           a == [s.invitedTo EXCEPT ![p] = IF fromPlayer THEN @ \ {P} ELSE @]
           b == [s.party EXCEPT ![P] = Uninvited(r, p)]
<1>1. t = IF IsEmpty(u, P) THEN Disband(u, P) ELSE u
  BY DEF RemoveInvite
<1>2. u = [s EXCEPT !.party = b, !.invitedTo = a]
  BY DEF Uninvited
<1> HIDE DEF t, u
<1>3. IsParty(r)
  BY DEF IsState
<1>4. /\ a \in [Players -> SUBSET Parties]
      /\ \A q \in Players : a[q] = IF q = p /\ fromPlayer THEN s.invitedTo[q] \ {P}
                                   ELSE s.invitedTo[q]
  BY DEF IsState
<1>5. /\ b = [Q \in Parties |-> b[Q]] /\ b[P] = Uninvited(r, p)
      /\ \A Q \in Parties \ {P} : b[Q] = s.party[Q]
  BY DEF IsState
<1> HIDE DEF a, b, r
<1>6. u = [online |-> s.online, level |-> s.level, place |-> s.place, partyOf |-> s.partyOf,
           invitedTo |-> a, party |-> b, channel |-> s.channel]
  BY <1>2 DEF IsState
<1>7. /\ u.online = s.online /\ u.level = s.level /\ u.place = s.place
      /\ u.partyOf = s.partyOf /\ u.invitedTo = a /\ u.party = b /\ u.channel = s.channel
  BY <1>6
<1>8. IsState(u)
  <2>1. \A Q \in Parties : IsParty(b[Q])
    BY <1>3, <1>5, UninvitedIs DEF IsState
  <2> QED
    BY <1>4, <1>5, <1>6, <1>7, <2>1 DEF IsState
<1>9. /\ u.party[P].leader = r.leader /\ u.party[P].members = r.members
      /\ u.party[P].invites = r.invites \ {p}
  BY <1>3, <1>5, <1>7, UninvitedIs
<1>10. IsEmpty(u, P) <=> Gone(s, P, p)
  BY <1>9 DEF IsEmpty, Gone, r
<1>11. CASE ~ Gone(s, P, p)
  <2>1. t = u
    BY <1>1, <1>10, <1>11
  <2> QED
    BY <1>4, <1>5, <1>7, <1>8, <1>11, <2>1 DEF Revoked, t, r
<1>12. CASE Gone(s, P, p)
  <2>1. t = Disband(u, P)
    BY <1>1, <1>10, <1>12
  <2>2. u.party[P].leader \in Players
    BY <1>9 DEF r
  <2>3. u.party[P].invites = {} /\ Crew(u.party[P]) = Crew(r)
    BY <1>9, <1>12 DEF Gone, Crew, r
  <2>4. /\ IsState(t)
        /\ t.online = u.online /\ t.level = u.level /\ t.place = u.place
        /\ t.channel = u.channel
        /\ \A q \in Players :
             /\ t.partyOf[q] = IF q \in Crew(u.party[P]) THEN None ELSE u.partyOf[q]
             /\ t.invitedTo[q] = IF q \in u.party[P].invites THEN u.invitedTo[q] \ {P}
                                 ELSE u.invitedTo[q]
        /\ t.party[P] = Freed /\ \A Q \in Parties \ {P} : t.party[Q] = u.party[Q]
    <3> DEFINE x == Disband(u, P)
    <3>1. /\ IsState(x)
          /\ x.online = u.online /\ x.level = u.level /\ x.place = u.place
          /\ x.channel = u.channel
          /\ \A q \in Players :
               /\ x.partyOf[q] = IF q \in Crew(u.party[P]) THEN None ELSE u.partyOf[q]
               /\ x.invitedTo[q] = IF q \in u.party[P].invites THEN u.invitedTo[q] \ {P}
                                   ELSE u.invitedTo[q]
          /\ x.party[P] = Freed /\ \A Q \in Parties \ {P} : x.party[Q] = u.party[Q]
      <4>1. Disbanded(u, x, P)
        BY <1>8, <2>2, DisbandEffect
      <4> QED
        BY <4>1 DEF Disbanded
    <3> HIDE DEF x
    <3>2. t = x
      BY <2>1 DEF x
    <3> QED
      BY <3>1, <3>2
  <2>5. \A q \in Players : t.partyOf[q] = IF q \in Crew(r) THEN None ELSE s.partyOf[q]
    BY <1>7, <2>3, <2>4
  <2>6. \A q \in Players : t.invitedTo[q] = a[q]
    BY <1>7, <2>3, <2>4
  <2>7. \A Q \in Parties \ {P} : t.party[Q] = s.party[Q]
    BY <1>5, <1>7, <2>4
  <2>8. /\ t.online = s.online /\ t.level = s.level /\ t.place = s.place /\ t.channel = s.channel
        /\ IsState(t) /\ t.party[P] = Freed
    BY <1>7, <2>4
  <2> QED
    BY <1>4, <1>12, <2>5, <2>6, <2>7, <2>8 DEF Revoked, t, r
<1> QED
  BY <1>11, <1>12

(* What is left when the invitations to the parties B are taken back.      *)
Cleared(s, p, B) ==
    [online |-> s.online, level |-> s.level, place |-> s.place,
     partyOf |-> [q \in Players |->
                     IF \E P \in B : Gone(s, P, p) /\ q \in Crew(s.party[P]) THEN None
                     ELSE s.partyOf[q]],
     invitedTo |-> s.invitedTo,
     party |-> [P \in Parties |->
                   IF P \notin B THEN s.party[P]
                   ELSE IF Gone(s, P, p) THEN Freed ELSE Uninvited(s.party[P], p)],
     channel |-> s.channel]

LEMMA ClearedIs ==
  ASSUME NEW s, IsState(s), NEW p \in Players, NEW B \in SUBSET Parties
  PROVE  LET t == Cleared(s, p, B)
         IN  /\ IsState(t)
             /\ t.online = s.online /\ t.level = s.level /\ t.place = s.place
             /\ t.invitedTo = s.invitedTo /\ t.channel = s.channel
             /\ \A q \in Players : t.partyOf[q] =
                    IF \E P \in B : Gone(s, P, p) /\ q \in Crew(s.party[P]) THEN None
                    ELSE s.partyOf[q]
             /\ \A P \in Parties : t.party[P] =
                    IF P \notin B THEN s.party[P]
                    ELSE IF Gone(s, P, p) THEN Freed ELSE Uninvited(s.party[P], p)
<1> DEFINE t == Cleared(s, p, B)
           a == [q \in Players |->
                     IF \E P \in B : Gone(s, P, p) /\ q \in Crew(s.party[P]) THEN None
                     ELSE s.partyOf[q]]
           b == [P \in Parties |->
                   IF P \notin B THEN s.party[P]
                   ELSE IF Gone(s, P, p) THEN Freed ELSE Uninvited(s.party[P], p)]
<1>1. t = [online |-> s.online, level |-> s.level, place |-> s.place, partyOf |-> a,
           invitedTo |-> s.invitedTo, party |-> b, channel |-> s.channel]
  BY DEF Cleared
<1>2. a \in [Players -> Parties \cup {None}]
  BY DEF IsState
<1>3. IsParty(Freed)
  BY EmptySeq DEF IsParty, Freed, IsList, IsInjective
<1>4. \A P \in Parties : IsParty(b[P])
  <2>1. \A P \in Parties : IsParty(s.party[P]) /\ IsParty(Uninvited(s.party[P], p))
    BY UninvitedIs DEF IsState
  <2> QED
    BY <1>3, <2>1
<1>5. b = [P \in Parties |-> b[P]]
  OBVIOUS
<1>6. /\ \A q \in Players : a[q] =
                    IF \E P \in B : Gone(s, P, p) /\ q \in Crew(s.party[P]) THEN None
                    ELSE s.partyOf[q]
      /\ \A P \in Parties : b[P] =
                    IF P \notin B THEN s.party[P]
                    ELSE IF Gone(s, P, p) THEN Freed ELSE Uninvited(s.party[P], p)
  OBVIOUS
<1> HIDE DEF t, a, b
<1>7. /\ t.online = s.online /\ t.level = s.level /\ t.place = s.place /\ t.partyOf = a
      /\ t.invitedTo = s.invitedTo /\ t.party = b /\ t.channel = s.channel
  BY <1>1
<1>8. IsState(t)
  BY <1>1, <1>2, <1>4, <1>5, <1>7 DEF IsState
<1> QED
  BY <1>6, <1>7, <1>8 DEF t

(* p is invited where he thinks to be.                                     *)
Invites(s, p) ==
    \A P \in s.invitedTo[p] : p \in s.party[P].invites /\ s.party[P].leader \in Players

LEMMA ClearOne ==
  ASSUME NEW s, IsState(s), NEW p \in Players, Invites(s, p),
         NEW B \in SUBSET s.invitedTo[p], NEW P \in B
  PROVE  RemoveInvite(Cleared(s, p, B \ {P}), P, p, FALSE) = Cleared(s, p, B)
<1> DEFINE A == B \ {P}
           u == Cleared(s, p, A)
           t == RemoveInvite(u, P, p, FALSE)
           v == Cleared(s, p, B)
<1>1. B \in SUBSET Parties /\ A \in SUBSET Parties /\ P \in Parties /\ P \notin A
  BY DEF IsState
<1>2. /\ IsState(u)
      /\ u.online = s.online /\ u.level = s.level /\ u.place = s.place
      /\ u.invitedTo = s.invitedTo /\ u.channel = s.channel
      /\ \A q \in Players : u.partyOf[q] =
             IF \E Q \in A : Gone(s, Q, p) /\ q \in Crew(s.party[Q]) THEN None
             ELSE s.partyOf[q]
      /\ \A Q \in Parties : u.party[Q] =
             IF Q \notin A THEN s.party[Q]
             ELSE IF Gone(s, Q, p) THEN Freed ELSE Uninvited(s.party[Q], p)
  <2> HIDE DEF A
  <2> QED
    BY <1>1, ClearedIs
<1>3. /\ IsState(v)
      /\ v.online = s.online /\ v.level = s.level /\ v.place = s.place
      /\ v.invitedTo = s.invitedTo /\ v.channel = s.channel
      /\ \A q \in Players : v.partyOf[q] =
             IF \E Q \in B : Gone(s, Q, p) /\ q \in Crew(s.party[Q]) THEN None
             ELSE s.partyOf[q]
      /\ \A Q \in Parties : v.party[Q] =
             IF Q \notin B THEN s.party[Q]
             ELSE IF Gone(s, Q, p) THEN Freed ELSE Uninvited(s.party[Q], p)
  BY <1>1, ClearedIs
<1> HIDE DEF u, v
<1>4. u.party[P] = s.party[P]
  BY <1>1, <1>2
<1>5. Gone(u, P, p) <=> Gone(s, P, p)
  BY <1>4 DEF Gone
<1>6. /\ IsState(t)
      /\ t.online = u.online /\ t.level = u.level /\ t.place = u.place
      /\ t.channel = u.channel
      /\ \A q \in Players :
           /\ t.partyOf[q] = IF Gone(u, P, p) /\ q \in Crew(u.party[P]) THEN None
                             ELSE u.partyOf[q]
           /\ t.invitedTo[q] = IF q = p /\ FALSE THEN u.invitedTo[q] \ {P}
                               ELSE u.invitedTo[q]
      /\ t.party[P] = IF Gone(u, P, p) THEN Freed ELSE Uninvited(u.party[P], p)
      /\ \A Q \in Parties \ {P} : t.party[Q] = u.party[Q]
  <2>1. u.party[P].leader \in Players /\ p \in u.party[P].invites
    BY <1>4 DEF Invites
  <2> QED
    <3>1. IsState(u) /\ P \in Parties /\ p \in Players
      BY <1>1, <1>2
    <3>2. Revoked(u, t, P, p, FALSE)
      BY <2>1, <3>1, RemoveInviteEffect
    <3> HIDE DEF t
    <3> QED
      BY <3>2 DEF Revoked
<1> HIDE DEF t
<1>7. \A q \in Players : t.partyOf[q] = v.partyOf[q]
  BY <1>2, <1>3, <1>4, <1>5, <1>6
<1>8. \A q \in Players : t.invitedTo[q] = v.invitedTo[q]
  BY <1>2, <1>3, <1>6
<1>9. \A Q \in Parties : t.party[Q] = v.party[Q]
  BY <1>1, <1>2, <1>3, <1>4, <1>5, <1>6
<1>10. t = v
  BY <1>2, <1>3, <1>6, <1>7, <1>8, <1>9, StatesEqual
<1> QED
  BY <1>10 DEF t, u, v

Clears(f, s, p, S) ==
    f = [B \in SUBSET S |->
            IF B = {} THEN s ELSE RemoveInvite(f[B \ {First(B)}], First(B), p, FALSE)]

LEMMA ClearsAll ==
  ASSUME NEW s, IsState(s), NEW p \in Players, Invites(s, p)
  PROVE  LET S == s.invitedTo[p]
         IN  /\ \E f : Clears(f, s, p, S)
             /\ \A f : Clears(f, s, p, S) => f[S] = Cleared(s, p, S)
<1> DEFINE S == s.invitedTo[p]
           g == [B \in SUBSET S |-> Cleared(s, p, B)]
<1>1. S \in SUBSET Parties /\ IsFiniteSet(S)
  BY PartiesAssumption, FS_Subset DEF IsState
<1>2. Cleared(s, p, {}) = s
  <2> DEFINE t == Cleared(s, p, {})
  <2>1. /\ IsState(t)
        /\ t.online = s.online /\ t.level = s.level /\ t.place = s.place
        /\ t.invitedTo = s.invitedTo /\ t.channel = s.channel
        /\ \A q \in Players : t.partyOf[q] = s.partyOf[q]
        /\ \A P \in Parties : t.party[P] = s.party[P]
    BY ClearedIs
  <2> HIDE DEF t
  <2>2. t = s
    BY <2>1, StatesEqual
  <2> QED
    BY <2>2 DEF t
<1>3. ASSUME NEW B \in SUBSET S, B # {}
      PROVE  /\ First(B) \in B
             /\ RemoveInvite(Cleared(s, p, B \ {First(B)}), First(B), p, FALSE) = Cleared(s, p, B)
  <2>1. First(B) \in B
    BY <1>3 DEF First
  <2> QED
    BY <2>1, ClearOne
<1> HIDE DEF S
<1>4. Clears(g, s, p, S)
  <2>1. ASSUME NEW B \in SUBSET S
        PROVE  g[B] = IF B = {} THEN s ELSE RemoveInvite(g[B \ {First(B)}], First(B), p, FALSE)
    <3>1. CASE B = {}
      BY <1>2, <3>1
    <3>2. CASE B # {}
      BY <1>3, <3>2
    <3> QED
      BY <3>1, <3>2
  <2>2. g = [B \in SUBSET S |-> g[B]]
    OBVIOUS
  <2> HIDE DEF g
  <2>3. [B \in SUBSET S |-> g[B]] =
           [B \in SUBSET S |->
               IF B = {} THEN s ELSE RemoveInvite(g[B \ {First(B)}], First(B), p, FALSE)]
    BY <2>1
  <2> QED
    BY <2>2, <2>3 DEF Clears
<1>5. ASSUME NEW f, Clears(f, s, p, S) PROVE f[S] = Cleared(s, p, S)
  <2> DEFINE Bad == {B \in SUBSET S : f[B] # Cleared(s, p, B)}
  <2>1. Bad = {}
    <3> SUFFICES ASSUME Bad # {} PROVE FALSE
      OBVIOUS
    <3>1. Bad \in SUBSET (SUBSET S)
      OBVIOUS
    <3>2. PICK B \in Bad : \A A \in Bad : A \subseteq B => A = B
      <4> HIDE DEF Bad
      <4> QED
        BY <1>1, <3>1, LeastSubset
    <3>3. B \in SUBSET S /\ f[B] # Cleared(s, p, B)
      BY <3>2
    <3>4. f[B] = IF B = {} THEN s ELSE RemoveInvite(f[B \ {First(B)}], First(B), p, FALSE)
      BY <1>5, <3>3 DEF Clears
    <3>5. CASE B = {}
      BY <1>2, <3>3, <3>4, <3>5
    <3>6. CASE B # {}
      <4>1. B \ {First(B)} \in SUBSET S /\ B \ {First(B)} # B /\ B \ {First(B)} \subseteq B
        BY <1>3, <3>3, <3>6
      <4>2. f[B \ {First(B)}] = Cleared(s, p, B \ {First(B)})
        BY <3>2, <4>1
      <4> QED
        BY <1>3, <3>3, <3>4, <3>6, <4>2
    <3> QED
      BY <3>5, <3>6
  <2> QED
    BY <2>1
<1> QED
  BY <1>4, <1>5 DEF S

LEMMA ClearEffect ==
  ASSUME NEW s, IsState(s), NEW p \in Players, Invites(s, p)
  PROVE  LET t == ClearPartyInvitations(s, p)
             B == s.invitedTo[p]
         IN  /\ IsState(t)
             /\ t.online = s.online /\ t.level = s.level /\ t.place = s.place
             /\ t.channel = s.channel
             /\ \A q \in Players :
                  /\ t.invitedTo[q] = IF q = p THEN {} ELSE s.invitedTo[q]
                  /\ t.partyOf[q] =
                         IF \E P \in B : Gone(s, P, p) /\ q \in Crew(s.party[P]) THEN None
                         ELSE s.partyOf[q]
             /\ \A P \in Parties : t.party[P] =
                    IF P \notin B THEN s.party[P]
                    ELSE IF Gone(s, P, p) THEN Freed ELSE Uninvited(s.party[P], p)
<1> DEFINE S == s.invitedTo[p]
           t == ClearPartyInvitations(s, p)
           v == Cleared(s, p, S)
           a == [v.invitedTo EXCEPT ![p] = {}]
           left == FoldSet(LAMBDA P, x : RemoveInvite(x, P, p, FALSE), s, S)
<1>1. left = v
  <2>1. left = (CHOOSE f : Clears(f, s, p, S))[S]
    BY DEF FoldSet, MapThenFoldSet, Clears, First
  <2>2. /\ \E f : Clears(f, s, p, S)
        /\ \A f : Clears(f, s, p, S) => f[S] = Cleared(s, p, S)
    BY ClearsAll
  <2> HIDE DEF left, S
  <2> QED
    BY <2>1, <2>2
<1>2. t = [left EXCEPT !.invitedTo = [left.invitedTo EXCEPT ![p] = {}]]
  BY DEF ClearPartyInvitations
<1> HIDE DEF left, t
<1>3. t = [v EXCEPT !.invitedTo = a]
  BY <1>1, <1>2
<1>4. S \in SUBSET Parties
  BY DEF IsState
<1>5. /\ IsState(v)
      /\ v.online = s.online /\ v.level = s.level /\ v.place = s.place
      /\ v.invitedTo = s.invitedTo /\ v.channel = s.channel
      /\ \A q \in Players : v.partyOf[q] =
             IF \E P \in S : Gone(s, P, p) /\ q \in Crew(s.party[P]) THEN None
             ELSE s.partyOf[q]
      /\ \A P \in Parties : v.party[P] =
             IF P \notin S THEN s.party[P]
             ELSE IF Gone(s, P, p) THEN Freed ELSE Uninvited(s.party[P], p)
  <2> HIDE DEF S
  <2> QED
    BY <1>4, ClearedIs
<1> HIDE DEF v, S
<1>6. /\ a \in [Players -> SUBSET Parties]
      /\ \A q \in Players : a[q] = IF q = p THEN {} ELSE s.invitedTo[q]
  BY <1>5 DEF IsState
<1> HIDE DEF a
<1>7. t = [online |-> s.online, level |-> s.level, place |-> s.place, partyOf |-> v.partyOf,
           invitedTo |-> a, party |-> v.party, channel |-> s.channel]
  BY <1>3, <1>5 DEF IsState
<1>8. /\ t.online = s.online /\ t.level = s.level /\ t.place = s.place /\ t.channel = s.channel
      /\ t.partyOf = v.partyOf /\ t.invitedTo = a /\ t.party = v.party
  BY <1>7
<1>9. IsState(t)
  BY <1>5, <1>6, <1>7, <1>8 DEF IsState
<1> QED
  BY <1>5, <1>6, <1>8, <1>9 DEF t, S

-----------------------------------------------------------------------------
(* Both sides agree on who is in a party and who is invited; a leader is   *)
(* neither a member nor invited; a party has somebody or is freed.         *)
RelatedAt(s, P) ==
    /\ \A p \in Players : s.partyOf[p] = P <=> p \in Crew(s.party[P])
    /\ \A p \in Players : P \in s.invitedTo[p] <=> p \in s.party[P].invites
    /\ s.party[P].leader \notin ToSet(s.party[P].members)
    /\ s.party[P].leader \notin s.party[P].invites
    /\ \/ s.party[P] = Freed
       \/ /\ s.party[P].leader \in Players
          /\ ~ (s.party[P].members = <<>> /\ s.party[P].invites = {})

Related(s) == \A P \in Parties : RelatedAt(s, P)

(* Who is in a party that has formed holds no invitation.                  *)
Formed(s, p) ==
    \A P \in Parties : s.party[P].members # <<>> /\ p \in Crew(s.party[P]) => s.invitedTo[p] = {}

Current(s) == \A P \in Parties : CurrentAt(s.level, s.place, s.party[P])

PartyInv(s) == IsState(s) /\ Related(s) /\ (\A p \in Players : Formed(s, p)) /\ Current(s)

(* One party changes, and who is in it or invited to it.                   *)
Others(s, t, P) ==
    /\ t.level = s.level /\ t.place = s.place
    /\ \A Q \in Parties \ {P} :
         /\ t.party[Q] = s.party[Q]
         /\ \A p \in Players : t.partyOf[p] = Q <=> s.partyOf[p] = Q
         /\ \A p \in Players : Q \in t.invitedTo[p] <=> Q \in s.invitedTo[p]

LEMMA RelatedKept ==
  ASSUME NEW s, Related(s), NEW P \in Parties, NEW t, Others(s, t, P), RelatedAt(t, P)
  PROVE  Related(t)
BY DEF Related, RelatedAt, Others

LEMMA CurrentKept ==
  ASSUME NEW s, Current(s), NEW P \in Parties, NEW t, Others(s, t, P),
         CurrentAt(t.level, t.place, t.party[P])
  PROVE  Current(t)
BY DEF Current, Others

LEMMA FormedKept ==
  ASSUME NEW s, IsState(s), Related(s), NEW P \in Parties, NEW t, IsState(t), Others(s, t, P),
         NEW p \in Players, Formed(s, p),
         t.party[P].members # <<>> /\ p \in Crew(t.party[P]) => t.invitedTo[p] = {},
         s.partyOf[p] \in {P, None} \/ t.invitedTo[p] \subseteq s.invitedTo[p] \cup (Parties \ {P})
  PROVE  Formed(t, p)
<1> SUFFICES ASSUME NEW Q \in Parties, t.party[Q].members # <<>>, p \in Crew(t.party[Q])
             PROVE  t.invitedTo[p] = {}
  BY DEF Formed
<1>1. CASE Q = P
  BY <1>1
<1>2. CASE Q # P
  <2>1. s.party[Q].members # <<>> /\ p \in Crew(s.party[Q])
    BY <1>2 DEF Others
  <2>2. s.invitedTo[p] = {} /\ s.partyOf[p] = Q
    BY <2>1 DEF Formed, Related, RelatedAt
  <2>3. P \notin t.invitedTo[p]
    BY <1>2, <2>2, PartiesAssumption
  <2>4. t.invitedTo[p] \subseteq Parties
    BY DEF IsState
  <2> QED
    BY <2>2, <2>3, <2>4 DEF Others
<1> QED
  BY <1>1, <1>2

(* Nobody comes or goes.                                                   *)
LEMMA SameCrewKept ==
  ASSUME NEW s, IsState(s), Related(s), \A p \in Players : Formed(s, p),
         NEW P \in Parties, s.party[P].leader \in Players,
         NEW t, IsState(t), Differs(s, t, P), SameParty(s.party[P], t.party[P])
  PROVE  Others(s, t, P) /\ Related(t) /\ \A p \in Players : Formed(t, p)
<1>1. Others(s, t, P)
  BY DEF Differs, Others
<1>2. /\ t.partyOf = s.partyOf /\ t.invitedTo = s.invitedTo
      /\ Crew(t.party[P]) = Crew(s.party[P]) /\ t.party[P].leader = s.party[P].leader
      /\ t.party[P].members = s.party[P].members /\ t.party[P].invites = s.party[P].invites
  BY DEF Differs, SameParty, Crew
<1>3. RelatedAt(t, P)
  <2>1. RelatedAt(s, P)
    BY DEF Related
  <2>2. s.party[P] # Freed
    BY PartiesAssumption DEF Freed
  <2> QED
    BY <1>2, <2>1, <2>2 DEF RelatedAt
<1>4. Related(t)
  BY <1>1, <1>3, RelatedKept
<1>5. ASSUME NEW p \in Players PROVE Formed(t, p)
  <2>1. \A Q \in Parties : /\ t.party[Q].members = s.party[Q].members
                           /\ Crew(t.party[Q]) = Crew(s.party[Q])
    BY <1>1, <1>2 DEF Others
  <2>2. Formed(s, p)
    OBVIOUS
  <2> QED
    BY <1>2, <2>1, <2>2 DEF Formed
<1> QED
  BY <1>1, <1>4, <1>5

(* updateSharedExperience, and what else changes in a party only.          *)
LEMMA UpdateKeeps ==
  ASSUME NEW s, IsState(s), Related(s), \A p \in Players : Formed(s, p),
         NEW P \in Parties, s.party[P].leader \in Players,
         \A Q \in Parties \ {P} : CurrentAt(s.level, s.place, s.party[Q])
  PROVE  PartyInv(UpdateSharedExperience(s, P))
<1> DEFINE t == UpdateSharedExperience(s, P)
<1>1. /\ IsState(t) /\ Differs(s, t, P) /\ SameParty(s.party[P], t.party[P])
      /\ CurrentAt(t.level, t.place, t.party[P])
  BY UpdateEffect
<1> HIDE DEF t
<1>2. Others(s, t, P) /\ Related(t) /\ \A p \in Players : Formed(t, p)
  BY <1>1, SameCrewKept
<1>3. Current(t)
  BY <1>1, <1>2 DEF Current, Others
<1> QED
  BY <1>1, <1>2, <1>3 DEF PartyInv, t

(* A party ends.                                                           *)
Ended(s, t, P) ==
    /\ IsState(t) /\ t.level = s.level /\ t.place = s.place
    /\ t.online = s.online /\ t.channel = s.channel
    /\ \A q \in Players :
         /\ t.partyOf[q] = IF q \in Crew(s.party[P]) THEN None ELSE s.partyOf[q]
         /\ t.invitedTo[q] = s.invitedTo[q] \ {P}
    /\ t.party[P] = Freed /\ \A Q \in Parties \ {P} : t.party[Q] = s.party[Q]

LEMMA FreedIs ==
  /\ Freed.members = <<>> /\ Freed.leader = None /\ Freed.invites = {} /\ ~ Freed.active
  /\ ToSet(Freed.members) = {}
BY EmptySeq, NoMember DEF Freed

LEMMA EndKeeps ==
  ASSUME NEW s, PartyInv(s), NEW P \in Parties, NEW t, Ended(s, t, P)
  PROVE  PartyInv(t)
<1>0. /\ IsState(s) /\ Related(s) /\ (\A p \in Players : Formed(s, p)) /\ Current(s)
      /\ IsState(t) /\ None \notin Players /\ None \notin Parties
  BY PartiesAssumption DEF PartyInv, Ended
<1>1. Others(s, t, P)
  <2>1. ASSUME NEW Q \in Parties \ {P}, NEW p \in Players
        PROVE  t.partyOf[p] = Q <=> s.partyOf[p] = Q
    <3>1. s.partyOf[p] = P <=> p \in Crew(s.party[P])
      BY <1>0 DEF Related, RelatedAt
    <3> QED
      BY <1>0, <3>1 DEF Ended
  <2> QED
    BY <2>1 DEF Others, Ended
<1>2. RelatedAt(t, P)
  <2>1. Crew(t.party[P]) = {None} /\ t.party[P].invites = {}
    BY FreedIs DEF Crew, Ended
  <2>2. \A p \in Players : t.partyOf[p] # P
    <3>1. \A p \in Players : s.partyOf[p] = P <=> p \in Crew(s.party[P])
      BY <1>0 DEF Related, RelatedAt
    <3> QED
      BY <1>0, <3>1 DEF Ended
  <2>3. t.party[P] = Freed
    BY DEF Ended
  <2> QED
    BY <1>0, <2>1, <2>2, <2>3, FreedIs DEF RelatedAt, Ended
<1>3. Related(t)
  BY <1>0, <1>1, <1>2, RelatedKept
<1>4. Current(t)
  <2>1. CurrentAt(t.level, t.place, t.party[P])
    BY FreedIs DEF CurrentAt, Ended
  <2> QED
    BY <1>0, <1>1, <2>1, CurrentKept
<1>5. ASSUME NEW p \in Players PROVE Formed(t, p)
  <2>1. t.party[P].members = <<>> /\ t.invitedTo[p] \subseteq s.invitedTo[p]
    BY FreedIs DEF Ended
  <2> QED
    BY <1>0, <1>1, <2>1, FormedKept
<1> QED
  BY <1>0, <1>3, <1>4, <1>5 DEF PartyInv

-----------------------------------------------------------------------------
(* Taking back all invitations of a player, also of one who just joined.   *)
AllTaken(s, t, p) ==
    /\ IsState(t)
    /\ t.online = s.online /\ t.level = s.level /\ t.place = s.place
    /\ t.channel = s.channel
    /\ \A q \in Players :
         /\ t.invitedTo[q] = IF q = p THEN {} ELSE s.invitedTo[q]
         /\ t.partyOf[q] =
                IF \E P \in s.invitedTo[p] : Gone(s, P, p) /\ q \in Crew(s.party[P]) THEN None
                ELSE s.partyOf[q]
    /\ \A P \in Parties : t.party[P] =
           IF P \notin s.invitedTo[p] THEN s.party[P]
           ELSE IF Gone(s, P, p) THEN Freed ELSE Uninvited(s.party[P], p)

LEMMA InvitesIs ==
  ASSUME NEW s, IsState(s), Related(s), NEW p \in Players
  PROVE  Invites(s, p)
<1> SUFFICES ASSUME NEW P \in s.invitedTo[p]
             PROVE  p \in s.party[P].invites /\ s.party[P].leader \in Players
  BY DEF Invites
<1>1. P \in Parties
  BY DEF IsState
<1>2. RelatedAt(s, P) /\ p \in s.party[P].invites
  BY <1>1 DEF Related, RelatedAt
<1> QED
  BY <1>2, FreedIs DEF RelatedAt

LEMMA AllAreTaken ==
  ASSUME NEW s, IsState(s), Related(s), NEW p \in Players
  PROVE  AllTaken(s, ClearPartyInvitations(s, p), p)
BY InvitesIs, ClearEffect DEF AllTaken

LEMMA TakenKeeps ==
  ASSUME NEW s, IsState(s), Related(s), NEW p \in Players,
         \A q \in Players \ {p} : Formed(s, q), NEW t, AllTaken(s, t, p)
  PROVE  /\ Related(t) /\ \A q \in Players : Formed(t, q)
         /\ \A P \in Parties : CurrentAt(s.level, s.place, s.party[P])
                                 => CurrentAt(t.level, t.place, t.party[P])
         /\ t.partyOf[p] = s.partyOf[p]
<1> DEFINE B == s.invitedTo[p]
           Out(P) == P \in B /\ Gone(s, P, p)
<1>0. /\ B \subseteq Parties /\ IsState(t) /\ None \notin Players /\ None \notin Parties
      /\ \A P \in Parties : IsParty(s.party[P])
  BY PartiesAssumption DEF IsState, AllTaken
<1>1. \A P \in Parties : RelatedAt(s, P)
  BY DEF Related
<1>2. ASSUME NEW P \in Parties, NEW q \in Players
      PROVE  t.partyOf[q] = P <=> s.partyOf[q] = P /\ ~ Out(P)
  <2>1. CASE \E Q \in B : Gone(s, Q, p) /\ q \in Crew(s.party[Q])
    <3>1. PICK Q \in B : Gone(s, Q, p) /\ q \in Crew(s.party[Q])
      BY <2>1
    <3>2. s.partyOf[q] = Q
      BY <1>0, <1>1, <3>1 DEF RelatedAt
    <3>3. t.partyOf[q] = None
      BY <2>1 DEF AllTaken
    <3> QED
      BY <1>0, <3>1, <3>2, <3>3
  <2>2. CASE ~ \E Q \in B : Gone(s, Q, p) /\ q \in Crew(s.party[Q])
    <3>1. t.partyOf[q] = s.partyOf[q]
      BY <2>2 DEF AllTaken
    <3>2. s.partyOf[q] = P => q \in Crew(s.party[P])
      BY <1>1 DEF RelatedAt
    <3> QED
      BY <2>2, <3>1, <3>2
  <2> QED
    BY <2>1, <2>2
<1>3. ASSUME NEW P \in Parties
      PROVE  /\ Out(P) => t.party[P] = Freed
             /\ ~ Out(P) => /\ t.party[P].leader = s.party[P].leader
                            /\ t.party[P].members = s.party[P].members
                            /\ t.party[P].invites = s.party[P].invites \ {p}
                            /\ t.party[P].active = s.party[P].active
                            /\ t.party[P].enabled = s.party[P].enabled
                            /\ t.party[P].ticks = s.party[P].ticks
  <2>1. P \notin B => s.party[P].invites = s.party[P].invites \ {p}
    BY <1>1 DEF RelatedAt
  <2>2. t.party[P] = IF P \notin B THEN s.party[P]
                     ELSE IF Gone(s, P, p) THEN Freed ELSE Uninvited(s.party[P], p)
    BY DEF AllTaken
  <2>3. IsParty(s.party[P])
    BY <1>0
  <2>4. LET q == Uninvited(s.party[P], p)
        IN  /\ q.leader = s.party[P].leader /\ q.members = s.party[P].members
            /\ q.invites = s.party[P].invites \ {p} /\ q.active = s.party[P].active
            /\ q.enabled = s.party[P].enabled /\ q.ticks = s.party[P].ticks
    BY <2>3, UninvitedIs
  <2> QED
    BY <2>1, <2>2, <2>4
<1> HIDE DEF Out
<1>4. ASSUME NEW P \in Parties PROVE RelatedAt(t, P)
  <2>1. \A q \in Players : P \in t.invitedTo[q] <=> q # p /\ P \in s.invitedTo[q]
    BY DEF AllTaken
  <2>2. \A q \in Players : P \in s.invitedTo[q] <=> q \in s.party[P].invites
    BY <1>1 DEF RelatedAt
  <2>3. CASE Out(P)
    <3>1. t.party[P] = Freed /\ Crew(t.party[P]) = {None}
      BY <1>3, <2>3, FreedIs DEF Crew
    <3>2. \A q \in Players : t.partyOf[q] # P
      BY <1>2, <2>3
    <3>3. s.party[P].invites \subseteq {p}
      BY <2>3 DEF Out, Gone
    <3> QED
      BY <1>0, <2>1, <2>2, <3>1, <3>2, <3>3, FreedIs DEF RelatedAt
  <2>4. CASE ~ Out(P)
    <3>1. Crew(t.party[P]) = Crew(s.party[P])
      BY <1>3, <2>4 DEF Crew
    <3>2. \A q \in Players : t.partyOf[q] = P <=> q \in Crew(t.party[P])
      BY <1>1, <1>2, <2>4, <3>1 DEF RelatedAt
    <3>3. \A q \in Players : P \in t.invitedTo[q] <=> q \in t.party[P].invites
      BY <1>3, <2>1, <2>2, <2>4
    <3>4. \/ t.party[P] = Freed
          \/ /\ t.party[P].leader \in Players
             /\ ~ (t.party[P].members = <<>> /\ t.party[P].invites = {})
      <4>1. CASE P \in B
        <5>1. s.party[P] # Freed
          BY <2>2, <4>1, FreedIs
        <5> QED
          BY <1>1, <1>3, <2>4, <4>1, <5>1 DEF RelatedAt, Out, Gone
      <4>2. CASE P \notin B
        <5>1. t.party[P] = s.party[P]
          BY <4>2 DEF AllTaken
        <5> QED
          BY <1>1, <5>1 DEF RelatedAt
      <4> QED
        BY <4>1, <4>2
    <3>5. /\ t.party[P].leader \notin ToSet(t.party[P].members)
          /\ t.party[P].leader \notin t.party[P].invites
      BY <1>1, <1>3, <2>4 DEF RelatedAt
    <3> QED
      BY <3>2, <3>3, <3>4, <3>5 DEF RelatedAt
  <2> QED
    BY <2>3, <2>4
<1>5. ASSUME NEW q \in Players PROVE Formed(t, q)
  <2>1. CASE q = p
    BY <2>1 DEF Formed, AllTaken
  <2>2. CASE q # p
    <3>1. t.invitedTo[q] = s.invitedTo[q] /\ Formed(s, q)
      BY <2>2 DEF AllTaken
    <3> SUFFICES ASSUME NEW P \in Parties, t.party[P].members # <<>>, q \in Crew(t.party[P])
                 PROVE  s.invitedTo[q] = {}
      BY <3>1 DEF Formed
    <3>2. ~ Out(P)
      BY <1>3, FreedIs
    <3>3. s.party[P].members # <<>> /\ q \in Crew(s.party[P])
      BY <1>3, <3>2 DEF Crew
    <3> QED
      BY <3>1, <3>3 DEF Formed
  <2> QED
    BY <2>1, <2>2
<1>6. ASSUME NEW P \in Parties, CurrentAt(s.level, s.place, s.party[P])
      PROVE  CurrentAt(t.level, t.place, t.party[P])
  <2>1. CASE Out(P)
    BY <1>3, <2>1, FreedIs DEF CurrentAt
  <2>2. CASE ~ Out(P)
    <3>1. Crew(t.party[P]) = Crew(s.party[P])
      BY <1>3, <2>2 DEF Crew
    <3>2. t.level = s.level /\ t.place = s.place
      BY DEF AllTaken
    <3> QED
      BY <1>3, <1>6, <2>2, <3>1, <3>2 DEF CurrentAt
  <2> QED
    BY <2>1, <2>2
<1>7. t.partyOf[p] = s.partyOf[p]
  <2>1. ~ \E Q \in B : Gone(s, Q, p) /\ p \in Crew(s.party[Q])
    <3> SUFFICES ASSUME NEW Q \in B, Gone(s, Q, p), p \in Crew(s.party[Q]) PROVE FALSE
      OBVIOUS
    <3>1. RelatedAt(s, Q) /\ p \in s.party[Q].invites
      BY <1>0, <1>1 DEF RelatedAt
    <3>2. ToSet(s.party[Q].members) = {}
      BY FreedIs DEF Gone, Freed
    <3> QED
      BY <3>1, <3>2 DEF RelatedAt, Crew
  <2> QED
    BY <2>1 DEF AllTaken
<1> QED
  BY <1>4, <1>5, <1>6, <1>7 DEF Related

-----------------------------------------------------------------------------
(* Nothing but parties changes.                                            *)
OnlyParties(s, t) == t.online = s.online /\ t.channel = s.channel

(* Who is in which party, who is invited, and one party.                   *)
PutSeat(s, a, b, P, r) ==
    [s EXCEPT !.partyOf = a, !.invitedTo = b, !.party = [s.party EXCEPT ![P] = r]]

Seated(s, t, a, b, P, r) ==
    /\ IsState(t) /\ OnlyParties(s, t) /\ t.level = s.level /\ t.place = s.place
    /\ t.partyOf = a /\ t.invitedTo = b
    /\ t.party[P] = r /\ \A Q \in Parties \ {P} : t.party[Q] = s.party[Q]

LEMMA PutSeatIs ==
  ASSUME NEW s, IsState(s), NEW P \in Parties, NEW r, IsParty(r),
         NEW a \in [Players -> Parties \cup {None}], NEW b \in [Players -> SUBSET Parties]
  PROVE  Seated(s, PutSeat(s, a, b, P, r), a, b, P, r)
<1> DEFINE t == PutSeat(s, a, b, P, r)
           f == [s.party EXCEPT ![P] = r]
<1>1. f = [Q \in Parties |-> f[Q]] /\ f[P] = r /\ \A Q \in Parties \ {P} : f[Q] = s.party[Q]
  BY DEF IsState
<1>2a. t = [s EXCEPT !.partyOf = a, !.invitedTo = b, !.party = f]
  BY DEF PutSeat
<1>2b. s = [online |-> s.online, level |-> s.level, place |-> s.place,
            partyOf |-> s.partyOf, invitedTo |-> s.invitedTo, party |-> s.party,
            channel |-> s.channel]
  BY DEF IsState
<1> HIDE DEF f, t
<1>2. t = [online |-> s.online, level |-> s.level, place |-> s.place,
           partyOf |-> a, invitedTo |-> b, party |-> f, channel |-> s.channel]
  BY <1>2a, <1>2b
<1> HIDE DEF t
<1>3. /\ t.online = s.online /\ t.level = s.level /\ t.place = s.place
      /\ t.partyOf = a /\ t.invitedTo = b /\ t.channel = s.channel /\ t.party = f
  BY <1>2
<1>4. \A Q \in Parties : IsParty(f[Q])
  BY <1>1 DEF IsState
<1> QED
  BY <1>1, <1>2, <1>3, <1>4 DEF IsState, Seated, OnlyParties, t

(* A party with another leader, other members and other invitations.       *)
With(r, h, m, i) == [r EXCEPT !.leader = h, !.members = m, !.invites = i]

LEMMA WithIs ==
  ASSUME NEW r, IsParty(r), NEW h \in Players, NEW m, IsList(m), NEW i \in SUBSET Players
  PROVE  LET q == With(r, h, m, i)
         IN  /\ IsParty(q) /\ q.leader = h /\ q.members = m /\ q.invites = i
             /\ q.active = r.active /\ q.enabled = r.enabled /\ q.ticks = r.ticks
<1> DEFINE q == With(r, h, m, i)
<1>0. r = [leader |-> r.leader, members |-> r.members, invites |-> r.invites,
           active |-> r.active, enabled |-> r.enabled, ticks |-> r.ticks]
  BY DEF IsParty
<1>0a. q = [r EXCEPT !.leader = h, !.members = m, !.invites = i]
  BY DEF With
<1> HIDE DEF q
<1>1. q = [leader |-> h, members |-> m, invites |-> i,
           active |-> r.active, enabled |-> r.enabled, ticks |-> r.ticks]
  BY <1>0, <1>0a
<1>2. /\ q.leader = h /\ q.members = m /\ q.invites = i
      /\ q.active = r.active /\ q.enabled = r.enabled /\ q.ticks = r.ticks
  BY <1>1
<1>3. IsParty(q)
  BY <1>1, <1>2 DEF IsParty
<1> QED
  BY <1>2, <1>3 DEF q

-----------------------------------------------------------------------------
(* To pass the leadership to a member.                                     *)
Passed(s, t, P, p) ==
    /\ PartyInv(t) /\ Differs(s, t, P)
    /\ t.party[P].leader = p /\ t.party[P].invites = s.party[P].invites
    /\ Crew(t.party[P]) = Crew(s.party[P])

LEMMA PassKeeps ==
  ASSUME NEW s, PartyInv(s), NEW P \in Parties, NEW p \in ToSet(s.party[P].members)
  PROVE  Passed(s, PassPartyLeadership(s, P, p), P, p)
<1> DEFINE r == s.party[P]
           h == r.leader
           m == <<h>> \o Without(r.members, p)
           q == With(r, p, m, r.invites)
           u == [s EXCEPT !.party[P].members = <<s.party[P].leader>> \o Without(@, p),
                          !.party[P].leader = p]
           t == PassPartyLeadership(s, P, p)
<1>0. /\ IsState(s) /\ Related(s) /\ (\A x \in Players : Formed(s, x)) /\ Current(s)
      /\ RelatedAt(s, P) /\ IsParty(r) /\ IsList(r.members) /\ r.invites \in SUBSET Players
      /\ None \notin Players
  BY PartiesAssumption DEF PartyInv, Related, IsState, IsParty
<1>1. p \in Players /\ r.members # <<>> /\ h \in Players /\ h \notin ToSet(r.members)
  <2>1. p \in Players /\ r.members # <<>>
    BY <1>0, NoMember DEF IsList
  <2> QED
    BY <1>0, <2>1, FreedIs DEF RelatedAt
<1>2. IsList(m) /\ ToSet(m) = {h} \cup (ToSet(r.members) \ {p})
  <2>1. IsList(Without(r.members, p)) /\ ToSet(Without(r.members, p)) = ToSet(r.members) \ {p}
    BY <1>0, MemberLeaves
  <2> DEFINE w == Without(r.members, p)
  <2> HIDE DEF w, r
  <2>2. IsList(w) /\ h \in Players /\ h \notin ToSet(w)
    BY <1>1, <2>1 DEF w
  <2>3. IsList(<<h>> \o w) /\ ToSet(<<h>> \o w) = ToSet(w) \cup {h}
    BY <2>2, MemberJoins
  <2> QED
    BY <2>1, <2>3 DEF w
<1>3. u = Put(s, P, q)
  BY DEF Put, With
<1>4. t = UpdateSharedExperience(u, P)
  BY DEF PassPartyLeadership
<1> HIDE DEF t, u, r, m
<1>5. /\ IsParty(q) /\ q.leader = p /\ q.members = m /\ q.invites = r.invites
  BY <1>0, <1>1, <1>2, WithIs
<1> HIDE DEF q
<1>6. IsState(u) /\ Differs(s, u, P) /\ u.party[P] = q
  BY <1>0, <1>3, <1>5, PutParty
<1>7. Crew(q) = Crew(r)
  <2>1. Crew(r) = {h} \cup ToSet(r.members) /\ Crew(q) = {p} \cup ToSet(m)
    BY <1>5 DEF Crew
  <2>2. ToSet(m) = {h} \cup (ToSet(r.members) \ {p})
    BY <1>2
  <2>3. p \in ToSet(r.members)
    BY DEF r
  <2> QED
    BY <2>1, <2>2, <2>3
<1>8. Others(s, u, P)
  BY <1>6 DEF Differs, Others
<1>9. p \notin r.invites
  <2>1. s.invitedTo[p] = {}
    BY <1>0, <1>1 DEF Formed, Crew, r
  <2> QED
    BY <1>0, <1>1, <2>1 DEF RelatedAt, r
<1>10. RelatedAt(u, P)
  <2>1. u.partyOf = s.partyOf /\ u.invitedTo = s.invitedTo
    BY <1>6 DEF Differs
  <2>2. p \notin ToSet(m) /\ m # <<>>
    BY <1>1, <1>2, NoMember DEF IsList, r
  <2>3. \A x \in Players : u.partyOf[x] = P <=> x \in Crew(q)
    BY <1>0, <1>7, <2>1 DEF RelatedAt, r
  <2>4. \A x \in Players : P \in u.invitedTo[x] <=> x \in q.invites
    BY <1>0, <1>5, <2>1 DEF RelatedAt, r
  <2> QED
    BY <1>1, <1>5, <1>6, <1>9, <2>2, <2>3, <2>4 DEF RelatedAt
<1>11. Related(u)
  BY <1>0, <1>8, <1>10, RelatedKept
<1>12. ASSUME NEW x \in Players PROVE Formed(u, x)
  <2>1. u.invitedTo[x] = s.invitedTo[x]
    BY <1>6 DEF Differs
  <2>2. x \in Crew(r) => s.invitedTo[x] = {}
    BY <1>0, <1>1 DEF Formed, r
  <2>3. Formed(s, x)
    BY <1>0
  <2>4. u.party[P].members # <<>> /\ x \in Crew(u.party[P]) => u.invitedTo[x] = {}
    BY <1>6, <1>7, <2>1, <2>2
  <2> QED
    BY <1>0, <1>6, <1>8, <2>1, <2>3, <2>4, FormedKept
<1>13. \A Q \in Parties \ {P} : CurrentAt(u.level, u.place, u.party[Q])
  BY <1>0, <1>6 DEF Differs, Current
<1>14. PartyInv(t)
  BY <1>1, <1>4, <1>5, <1>6, <1>11, <1>12, <1>13, UpdateKeeps
<1>15. Differs(u, t, P) /\ SameParty(u.party[P], t.party[P])
  BY <1>4, <1>6, UpdateEffect
<1>16. Differs(s, t, P)
  BY <1>6, <1>15 DEF Differs
<1>17. /\ t.party[P].leader = p /\ t.party[P].invites = r.invites
       /\ Crew(t.party[P]) = Crew(r)
  BY <1>5, <1>6, <1>7, <1>15 DEF SameParty, Crew
<1> QED
  BY <1>14, <1>16, <1>17 DEF Passed, t, r

-----------------------------------------------------------------------------
(* A player's leaving: his seat is taken out of the lists, and the party   *)
(* may end by it.                                                          *)
Left(s, t, P, p) ==
    /\ IsState(t) /\ OnlyParties(s, t) /\ t.level = s.level /\ t.place = s.place
    /\ \A x \in Players : t.partyOf[x] = IF x = p THEN None ELSE s.partyOf[x]
    /\ t.invitedTo = s.invitedTo
    /\ t.party[P].leader = s.party[P].leader /\ t.party[P].invites = s.party[P].invites
    /\ ToSet(t.party[P].members) = ToSet(s.party[P].members) \ {p}
    /\ \A Q \in Parties \ {P} : t.party[Q] = s.party[Q]
    /\ CurrentAt(t.level, t.place, t.party[P])

LeaveSeat(s, P, p) ==
    [s EXCEPT !.party[P].members = Without(@, p), !.partyOf[p] = None]

DoneLeaving(s, P, p) ==
    ClearPlayerPoints(
        UpdateSharedExperience(SendClosePrivate(LeaveSeat(s, P, p), p), P), P, p)

LEMMA LeaveSeatEffect ==
  ASSUME NEW s, PartyInv(s), NEW P \in Parties, NEW p \in Players, s.party[P].leader \in Players
  PROVE  Left(s, DoneLeaving(s, P, p), P, p)
<1> DEFINE r == s.party[P]
           m == Without(r.members, p)
           q == With(r, r.leader, m, r.invites)
           a == [s.partyOf EXCEPT ![p] = None]
           u == LeaveSeat(s, P, p)
           v == UpdateSharedExperience(u, P)
           t == DoneLeaving(s, P, p)
<1>0. /\ IsState(s) /\ IsParty(r) /\ IsList(r.members) /\ r.invites \in SUBSET Players
      /\ a \in [Players -> Parties \cup {None}]
      /\ \A x \in Players : a[x] = IF x = p THEN None ELSE s.partyOf[x]
      /\ s.invitedTo \in [Players -> SUBSET Parties]
  BY DEF PartyInv, IsState, IsParty
<1>1. IsList(m) /\ ToSet(m) = ToSet(r.members) \ {p}
  BY <1>0, MemberLeaves
<1>2. u = PutSeat(s, a, s.invitedTo, P, q)
  <2> DEFINE w == [r EXCEPT !.members = m]
  <2>1. u = [s EXCEPT !.party = [s.party EXCEPT ![P] = w], !.partyOf = a]
    BY DEF LeaveSeat
  <2>2. q = w
    <3>1. r = [leader |-> r.leader, members |-> r.members, invites |-> r.invites,
               active |-> r.active, enabled |-> r.enabled, ticks |-> r.ticks]
      BY <1>0 DEF IsParty
    <3>2. q = [r EXCEPT !.leader = r.leader, !.members = m, !.invites = r.invites]
      BY DEF With
    <3> HIDE DEF r, m, q
    <3> QED
      BY <3>1, <3>2
  <2> DEFINE f == [s.party EXCEPT ![P] = q]
  <2>3. u = [s EXCEPT !.party = f, !.partyOf = a]
    BY <2>1, <2>2
  <2>4. PutSeat(s, a, s.invitedTo, P, q) = [s EXCEPT !.partyOf = a, !.invitedTo = s.invitedTo, !.party = f]
    BY DEF PutSeat
  <2>5. s = [online |-> s.online, level |-> s.level, place |-> s.place,
             partyOf |-> s.partyOf, invitedTo |-> s.invitedTo, party |-> s.party,
             channel |-> s.channel]
    BY <1>0 DEF IsState
  <2> HIDE DEF f, a, u
  <2> QED
    BY <2>3, <2>4, <2>5
<1>3. u.partyOf = a => SendClosePrivate(u, p) = u
  BY <1>0 DEF SendClosePrivate
<1>4. t = ClearPlayerPoints(UpdateSharedExperience(SendClosePrivate(u, p), P), P, p)
  BY DEF DoneLeaving
<1> HIDE DEF t, u, r, m, a
<1>5. IsParty(q) /\ q.leader = r.leader /\ q.members = m /\ q.invites = r.invites
  BY <1>0, <1>1, WithIs DEF r
<1> HIDE DEF q
<1>6. Seated(s, u, a, s.invitedTo, P, q)
  BY <1>0, <1>2, <1>5, PutSeatIs
<1>7. t = ClearPlayerPoints(v, P, p)
  BY <1>3, <1>4, <1>6 DEF Seated
<1>8. /\ IsState(v) /\ Differs(u, v, P) /\ SameParty(u.party[P], v.party[P])
      /\ CurrentAt(v.level, v.place, v.party[P])
  BY <1>6, UpdateEffect DEF Seated
<1> HIDE DEF v
<1>9. /\ IsState(t) /\ Differs(v, t, P) /\ SameParty(v.party[P], t.party[P])
      /\ CurrentAt(t.level, t.place, t.party[P])
  BY <1>7, <1>8, PointsEffect
<1>10. Differs(u, t, P) /\ SameParty(u.party[P], t.party[P])
  BY <1>8, <1>9 DEF Differs, SameParty
<1> QED
  BY <1>0, <1>1, <1>5, <1>6, <1>9, <1>10
     DEF Left, Seated, OnlyParties, Differs, SameParty, t, r

(* The last one, or a leader alone, ends the party.                        *)
LEMMA LeavingEnds ==
  ASSUME NEW s, PartyInv(s), NEW P \in Parties, NEW p \in Players, s.partyOf[p] = P,
         NEW t, Left(s, t, P, p)
  PROVE  Ended(s, Disband(t, P), P)
<1> DEFINE u == Disband(t, P)
<1>0. IsState(s) /\ RelatedAt(s, P)
  BY DEF PartyInv, Related
<1>1. p \in Crew(s.party[P]) /\ s.party[P].leader \in Players
  <2>1. p \in Crew(s.party[P])
    BY <1>0 DEF RelatedAt
  <2> QED
    BY <1>0, <2>1, FreedIs, PartiesAssumption DEF RelatedAt, Crew
<1>2. /\ IsState(u)
      /\ u.online = t.online /\ u.level = t.level /\ u.place = t.place
      /\ u.channel = t.channel
      /\ \A q \in Players :
           /\ u.partyOf[q] = IF q \in Crew(t.party[P]) THEN None ELSE t.partyOf[q]
           /\ u.invitedTo[q] = IF q \in t.party[P].invites THEN t.invitedTo[q] \ {P}
                               ELSE t.invitedTo[q]
      /\ u.party[P] = Freed /\ \A Q \in Parties \ {P} : u.party[Q] = t.party[Q]
  <2>1. IsState(t) /\ t.party[P].leader \in Players
    BY <1>1 DEF Left
  <2>2. Disbanded(t, u, P)
    BY <2>1, DisbandEffect
  <2> QED
    BY <2>2 DEF Disbanded
<1> HIDE DEF u
<1>3. Crew(s.party[P]) = Crew(t.party[P]) \cup {p}
  <2>1. Crew(t.party[P]) = {s.party[P].leader} \cup (ToSet(s.party[P].members) \ {p})
    BY DEF Crew, Left
  <2> QED
    BY <1>1, <2>1 DEF Crew
<1>4. \A q \in Players : u.partyOf[q] = IF q \in Crew(s.party[P]) THEN None ELSE s.partyOf[q]
  BY <1>2, <1>3 DEF Left
<1>5. \A q \in Players : u.invitedTo[q] = s.invitedTo[q] \ {P}
  <2>1. \A q \in Players : P \in s.invitedTo[q] <=> q \in s.party[P].invites
    BY <1>0 DEF RelatedAt
  <2>2. t.invitedTo = s.invitedTo /\ t.party[P].invites = s.party[P].invites
    BY DEF Left
  <2>3. \A q \in Players : u.invitedTo[q] = IF q \in s.party[P].invites THEN s.invitedTo[q] \ {P}
                                            ELSE s.invitedTo[q]
    BY <1>2, <2>2
  <2>4. \A q \in Players : P \notin s.invitedTo[q] => s.invitedTo[q] \ {P} = s.invitedTo[q]
    OBVIOUS
  <2> QED
    BY <2>1, <2>3, <2>4
<1> QED
  BY <1>2, <1>4, <1>5 DEF Ended, Left, OnlyParties, u

LEMMA LeavingKeeps ==
  ASSUME NEW s, PartyInv(s), NEW P \in Parties, NEW p \in Players, s.partyOf[p] = P,
         NEW t, Left(s, t, P, p), s.party[P].leader # p, ~ IsEmpty(t, P)
  PROVE  PartyInv(t)
<1>0. /\ IsState(s) /\ Related(s) /\ (\A x \in Players : Formed(s, x)) /\ Current(s)
      /\ RelatedAt(s, P) /\ IsState(t)
      /\ None \notin Players /\ None \notin Parties
  BY PartiesAssumption DEF PartyInv, Related, Left
<1>1. Crew(t.party[P]) = Crew(s.party[P]) \ {p}
  BY DEF Crew, Left
<1>2. Others(s, t, P)
  BY <1>0 DEF Others, Left
<1>3. s.party[P].leader \in Players
  <2>1. p \in Crew(s.party[P])
    BY <1>0 DEF RelatedAt
  <2> QED
    BY <1>0, <2>1, FreedIs DEF RelatedAt, Crew
<1>4. RelatedAt(t, P)
  <2>1. \A x \in Players : t.partyOf[x] = P <=> x \in Crew(t.party[P])
    BY <1>0, <1>1 DEF Left, RelatedAt
  <2>2. \A x \in Players : P \in t.invitedTo[x] <=> x \in t.party[P].invites
    BY <1>0 DEF Left, RelatedAt
  <2>3. /\ t.party[P].leader \notin ToSet(t.party[P].members)
        /\ t.party[P].leader \notin t.party[P].invites
        /\ t.party[P].leader \in Players
    BY <1>0, <1>3 DEF Left, RelatedAt
  <2>4. ~ (t.party[P].members = <<>> /\ t.party[P].invites = {})
    BY DEF IsEmpty
  <2> QED
    BY <2>1, <2>2, <2>3, <2>4 DEF RelatedAt
<1>5. Related(t)
  BY <1>0, <1>2, <1>4, RelatedKept
<1>6. Current(t)
  BY <1>0, <1>2, CurrentKept DEF Left
<1>7. ASSUME NEW x \in Players PROVE Formed(t, x)
  <2>1. t.party[P].members # <<>> => s.party[P].members # <<>>
    <3>1. IsList(t.party[P].members) /\ IsList(s.party[P].members)
      BY <1>0 DEF IsState, IsParty
    <3> QED
      BY <3>1, NoMember DEF IsList, Left
  <2>2. Formed(s, x) /\ t.invitedTo[x] = s.invitedTo[x]
    BY <1>0 DEF Left
  <2>3. t.party[P].members # <<>> /\ x \in Crew(t.party[P]) => t.invitedTo[x] = {}
    BY <1>1, <2>1, <2>2 DEF Formed
  <2> QED
    BY <1>0, <1>2, <2>2, <2>3, FormedKept
<1> QED
  BY <1>0, <1>5, <1>6, <1>7 DEF PartyInv

(* Party::leaveParty.                                                      *)
LEMMA LeavePartyKeeps ==
  ASSUME NEW s, PartyInv(s), NEW P \in Parties, NEW p \in Players, s.partyOf[p] = P
  PROVE  PartyInv(LeaveParty(s, P, p)) /\ OnlyParties(s, LeaveParty(s, P, p))
<1> DEFINE old == s.party[P]
           alone == \/ old.members = <<>>
                    \/ Len(old.members) = 1 /\ old.invites = {}
           missingLeader == old.leader = p /\ alone
           passed == IF old.leader = p /\ ~alone
                     THEN PassPartyLeadership(s, P, Head(old.members)) ELSE s
           done == DoneLeaving(passed, P, p)
           t == LeaveParty(s, P, p)
<1>1. t = IF missingLeader \/ IsEmpty(done, P) THEN Disband(done, P) ELSE done
  BY DEF LeaveParty, DoneLeaving, LeaveSeat
<1>2. /\ PartyInv(passed) /\ OnlyParties(s, passed) /\ passed.partyOf[p] = P
      /\ ~ missingLeader => passed.party[P].leader # p
  <2>1. CASE old.leader = p /\ ~ alone
    <3> DEFINE h == Head(old.members)
    <3>1. IsList(old.members) /\ old.members # <<>>
      BY <2>1 DEF PartyInv, IsState, IsParty
    <3>2. h \in ToSet(old.members)
      BY <3>1, FirstMember
    <3>3. Passed(s, PassPartyLeadership(s, P, h), P, h)
      BY <3>2, PassKeeps
    <3>4. Passed(s, passed, P, h)
      BY <2>1, <3>3
    <3>5. h # p
      BY <2>1, <3>2 DEF PartyInv, Related, RelatedAt
    <3> HIDE DEF passed, h, missingLeader, old
    <3> QED
      BY <3>4, <3>5 DEF Passed, Differs, OnlyParties
  <2>2. CASE ~ (old.leader = p /\ ~ alone)
    <3>1. passed = s
      BY <2>2
    <3> HIDE DEF passed
    <3> QED
      BY <2>2, <3>1 DEF OnlyParties
  <2> QED
    BY <2>1, <2>2
<1> HIDE DEF t, passed, missingLeader, old
<1>3. passed.party[P].leader \in Players
  <2>1. RelatedAt(passed, P) /\ p \in Crew(passed.party[P])
    BY <1>2 DEF PartyInv, Related, RelatedAt
  <2> QED
    BY <2>1, FreedIs, PartiesAssumption DEF RelatedAt, Crew
<1>4. Left(passed, done, P, p)
  BY <1>2, <1>3, LeaveSeatEffect
<1> HIDE DEF done
<1>5. CASE missingLeader \/ IsEmpty(done, P)
  <2>1. Ended(passed, t, P)
    BY <1>1, <1>2, <1>4, <1>5, LeavingEnds
  <2>2. PartyInv(t)
    BY <1>2, <2>1, EndKeeps
  <2> QED
    BY <1>2, <2>1, <2>2 DEF Ended, OnlyParties, t
<1>6. CASE ~ (missingLeader \/ IsEmpty(done, P))
  <2>1. PartyInv(done)
    BY <1>2, <1>4, <1>6, LeavingKeeps
  <2> QED
    BY <1>1, <1>2, <1>4, <1>6, <2>1 DEF Left, OnlyParties, t
<1> QED
  BY <1>5, <1>6

-----------------------------------------------------------------------------
(* Party::joinParty.                                                       *)
LEMMA JoinKeeps ==
  ASSUME NEW s, PartyInv(s), NEW P \in Parties, NEW p \in Players, s.partyOf[p] = None,
         p \in s.party[P].invites, s.party[P].leader \in Players
  PROVE  PartyInv(JoinParty(s, P, p)) /\ OnlyParties(s, JoinParty(s, P, p))
<1> DEFINE h == s.party[P].leader
           formed == IF s.party[P].members = <<>> THEN ClearPartyInvitations(s, h) ELSE s
           r == formed.party[P]
           m == Append(r.members, p)
           q == With(r, r.leader, m, r.invites)
           a == [formed.partyOf EXCEPT ![p] = P]
           joined == [formed EXCEPT !.party[P].members = Append(@, p), !.partyOf[p] = P]
           cleared == ClearPartyInvitations(joined, p)
           t == JoinParty(s, P, p)
<1>0. /\ IsState(s) /\ Related(s) /\ (\A x \in Players : Formed(s, x)) /\ Current(s)
      /\ RelatedAt(s, P)
      /\ None \notin Players /\ None \notin Parties
  BY PartiesAssumption DEF PartyInv, Related
<1>1. t = UpdateSharedExperience(cleared, P)
  BY DEF JoinParty
<1> HIDE DEF t, formed
<1>2. /\ IsState(formed) /\ Related(formed) /\ (\A x \in Players : Formed(formed, x))
      /\ (\A Q \in Parties : CurrentAt(formed.level, formed.place, formed.party[Q]))
      /\ OnlyParties(s, formed)
      /\ formed.invitedTo[h] = {} /\ formed.party[P] = s.party[P] /\ formed.partyOf[p] = None
  <2>1. CASE s.party[P].members = <<>>
    <3>1. AllTaken(s, formed, h)
      <4>1. AllTaken(s, ClearPartyInvitations(s, h), h)
        BY <1>0, AllAreTaken
      <4> QED
        BY <2>1, <4>1 DEF formed
    <3>2. /\ Related(formed) /\ \A x \in Players : Formed(formed, x)
          /\ \A Q \in Parties : CurrentAt(s.level, s.place, s.party[Q])
                                  => CurrentAt(formed.level, formed.place, formed.party[Q])
      BY <1>0, <3>1, TakenKeeps
    <3>3. P \notin s.invitedTo[h]
      BY <1>0 DEF RelatedAt
    <3>4. formed.invitedTo[h] = {} /\ formed.party[P] = s.party[P] /\ formed.partyOf[p] = None
      BY <3>1, <3>3 DEF AllTaken
    <3> QED
      BY <1>0, <3>1, <3>2, <3>4 DEF AllTaken, OnlyParties, Current
  <2>2. CASE s.party[P].members # <<>>
    <3>1. formed = s
      BY <2>2 DEF formed
    <3>2. s.invitedTo[h] = {}
      BY <1>0, <2>2 DEF Formed, Crew
    <3> QED
      BY <1>0, <3>1, <3>2 DEF OnlyParties, Current
  <2> QED
    BY <2>1, <2>2
<1>3. /\ IsParty(r) /\ IsList(r.members) /\ r.invites \in SUBSET Players
      /\ r.leader = h /\ RelatedAt(formed, P)
      /\ a \in [Players -> Parties \cup {None}]
      /\ \A x \in Players : a[x] = IF x = p THEN P ELSE formed.partyOf[x]
      /\ formed.invitedTo \in [Players -> SUBSET Parties]
  BY <1>2 DEF Related, IsState, IsParty
<1>4. p # h /\ p \notin ToSet(r.members)
  BY <1>0, <1>2, <1>3 DEF RelatedAt, Crew
<1>5. IsList(m) /\ ToSet(m) = ToSet(r.members) \cup {p}
  <2> HIDE DEF r
  <2> QED
    BY <1>3, <1>4, MemberJoins
<1>6. joined = PutSeat(formed, a, formed.invitedTo, P, q)
  <2> DEFINE w == [r EXCEPT !.members = m]
  <2>1. joined = [formed EXCEPT !.party = [formed.party EXCEPT ![P] = w], !.partyOf = a]
    OBVIOUS
  <2>2. q = w
    <3>1. r = [leader |-> r.leader, members |-> r.members, invites |-> r.invites,
               active |-> r.active, enabled |-> r.enabled, ticks |-> r.ticks]
      BY <1>3 DEF IsParty
    <3>2. q = [r EXCEPT !.leader = r.leader, !.members = m, !.invites = r.invites]
      BY DEF With
    <3> HIDE DEF r, m, q
    <3> QED
      BY <3>1, <3>2
  <2> DEFINE f == [formed.party EXCEPT ![P] = q]
  <2>3. joined = [formed EXCEPT !.party = f, !.partyOf = a]
    BY <2>1, <2>2
  <2>4. PutSeat(formed, a, formed.invitedTo, P, q) = [formed EXCEPT !.partyOf = a, !.invitedTo = formed.invitedTo, !.party = f]
    BY DEF PutSeat
  <2>5. formed = [online |-> formed.online, level |-> formed.level, place |-> formed.place,
             partyOf |-> formed.partyOf, invitedTo |-> formed.invitedTo, party |-> formed.party,
             channel |-> formed.channel]
    BY <1>2 DEF IsState
  <2> HIDE DEF f, a, joined
  <2> QED
    BY <2>3, <2>4, <2>5
<1> HIDE DEF joined, r, m, a
<1>7. IsParty(q) /\ q.leader = h /\ q.members = m /\ q.invites = r.invites
  BY <1>3, <1>5, WithIs
<1> HIDE DEF q
<1>8. Seated(formed, joined, a, formed.invitedTo, P, q)
  BY <1>2, <1>3, <1>6, <1>7, PutSeatIs
<1>9. Others(formed, joined, P)
  BY <1>0, <1>2, <1>3, <1>8 DEF Others, Seated
<1>10. Crew(q) = Crew(r) \cup {p} /\ m # <<>>
  <2>1. m # <<>>
    BY <1>5, NoMember DEF IsList
  <2> QED
    BY <1>3, <1>5, <1>7, <2>1 DEF Crew
<1>11. Related(joined)
  <2>1. \A x \in Players : joined.partyOf[x] = P <=> x \in Crew(q)
    BY <1>3, <1>8, <1>10 DEF Seated, RelatedAt, r
  <2>2. \A x \in Players : P \in joined.invitedTo[x] <=> x \in q.invites
    BY <1>3, <1>7, <1>8 DEF Seated, RelatedAt, r
  <2>3. h \notin ToSet(m) /\ h \notin r.invites
    BY <1>3, <1>4, <1>5 DEF RelatedAt, r
  <2>4. RelatedAt(joined, P)
    BY <1>7, <1>8, <1>10, <2>1, <2>2, <2>3 DEF Seated, RelatedAt
  <2> QED
    BY <1>2, <1>9, <2>4, RelatedKept
<1>12. ASSUME NEW x \in Players \ {p} PROVE Formed(joined, x)
  <2>1. joined.invitedTo[x] = formed.invitedTo[x] /\ Formed(formed, x) /\ x \in Players
    BY <1>2, <1>8 DEF Seated
  <2>2. x \in Crew(q) => joined.invitedTo[x] = {}
    <3> SUFFICES ASSUME x \in Crew(q) PROVE joined.invitedTo[x] = {}
      OBVIOUS
    <3>1. CASE x = h
      BY <1>2, <2>1, <3>1
    <3>2. CASE x # h
      <4>1. x \in ToSet(r.members)
        BY <1>3, <1>10, <3>2 DEF Crew
      <4>2. r.members # <<>>
        BY <1>3, <4>1, NoMember DEF IsList
      <4> QED
        BY <2>1, <4>1, <4>2 DEF Formed, Crew, r
    <3> QED
      BY <3>1, <3>2
  <2>3. IsState(joined) /\ joined.party[P] = q
    BY <1>8 DEF Seated
  <2> QED
    BY <1>2, <1>9, <2>1, <2>2, <2>3, FormedKept
<1>13. AllTaken(joined, cleared, p)
  BY <1>8, <1>11, AllAreTaken DEF Seated
<1>14. P \in joined.invitedTo[p]
  BY <1>0, <1>2, <1>3, <1>8 DEF Seated, RelatedAt
<1> HIDE DEF cleared
<1>15. /\ Related(cleared) /\ \A x \in Players : Formed(cleared, x)
       /\ \A Q \in Parties : CurrentAt(joined.level, joined.place, joined.party[Q])
                               => CurrentAt(cleared.level, cleared.place, cleared.party[Q])
  BY <1>8, <1>11, <1>12, <1>13, TakenKeeps DEF Seated
<1>16. cleared.party[P].leader \in Players
  <2>1. joined.party[P] = q /\ ~ Gone(joined, P, p)
    BY <1>7, <1>8, <1>10 DEF Gone, Seated
  <2>2. cleared.party[P] = Uninvited(q, p)
    BY <1>13, <1>14, <2>1 DEF AllTaken
  <2> QED
    BY <1>7, <2>2, UninvitedIs
<1>17. \A Q \in Parties \ {P} : CurrentAt(cleared.level, cleared.place, cleared.party[Q])
  BY <1>2, <1>8, <1>15 DEF Seated
<1>18. IsState(cleared)
  BY <1>13 DEF AllTaken
<1>19. PartyInv(t)
  BY <1>1, <1>15, <1>16, <1>17, <1>18, UpdateKeeps
<1>20. OnlyParties(s, t)
  <2>1. Differs(cleared, t, P)
    BY <1>1, <1>18, UpdateEffect
  <2> QED
    BY <1>2, <1>8, <1>13, <2>1 DEF OnlyParties, Seated, AllTaken, Differs
<1> QED
  BY <1>19, <1>20 DEF t

(* To revoke an invitation.                                                *)
LEMMA RevokeKeeps ==
  ASSUME NEW s, PartyInv(s), NEW P \in Parties, s.party[P].leader \in Players,
         NEW p \in Players, p \in s.party[P].invites
  PROVE  PartyInv(RemoveInvite(s, P, p, TRUE)) /\ OnlyParties(s, RemoveInvite(s, P, p, TRUE))
<1> DEFINE t == RemoveInvite(s, P, p, TRUE)
<1>0. /\ IsState(s) /\ Related(s) /\ (\A x \in Players : Formed(s, x)) /\ Current(s)
      /\ RelatedAt(s, P) /\ IsParty(s.party[P])
      /\ None \notin Players /\ None \notin Parties
  BY PartiesAssumption DEF PartyInv, Related, IsState
<1>1. Revoked(s, t, P, p, TRUE)
  BY <1>0, RemoveInviteEffect
<1> HIDE DEF t
<1>2. CASE Gone(s, P, p)
  <2>1. \A q \in Players : t.invitedTo[q] = s.invitedTo[q] \ {P}
    <3>1. \A q \in Players : P \in s.invitedTo[q] => q = p
      BY <1>0, <1>2 DEF RelatedAt, Gone
    <3>2. \A q \in Players : q # p => s.invitedTo[q] \ {P} = s.invitedTo[q]
      BY <3>1
    <3>3. \A q \in Players : t.invitedTo[q] = IF q = p THEN s.invitedTo[q] \ {P}
                                              ELSE s.invitedTo[q]
      BY <1>1 DEF Revoked
    <3> QED
      BY <3>2, <3>3
  <2>2. Ended(s, t, P)
    BY <1>1, <1>2, <2>1 DEF Ended, Revoked
  <2>3. PartyInv(t)
    BY <2>2, EndKeeps
  <2> QED
    BY <2>2, <2>3 DEF Ended, OnlyParties, t
<1>3. CASE ~ Gone(s, P, p)
  <2>1. /\ t.party[P].leader = s.party[P].leader /\ t.party[P].members = s.party[P].members
        /\ t.party[P].invites = s.party[P].invites \ {p}
        /\ t.party[P].active = s.party[P].active /\ t.party[P].enabled = s.party[P].enabled
        /\ t.party[P].ticks = s.party[P].ticks
    <3>1. t.party[P] = Uninvited(s.party[P], p)
      BY <1>1, <1>3 DEF Revoked
    <3> QED
      BY <1>0, <3>1, UninvitedIs
  <2>2. /\ IsState(t) /\ OnlyParties(s, t) /\ t.level = s.level /\ t.place = s.place
        /\ \A x \in Players : t.partyOf[x] = s.partyOf[x]
        /\ \A x \in Players : t.invitedTo[x] = IF x = p THEN s.invitedTo[x] \ {P} ELSE s.invitedTo[x]
        /\ \A Q \in Parties \ {P} : t.party[Q] = s.party[Q]
    BY <1>1, <1>3 DEF Revoked, OnlyParties
  <2>3. Others(s, t, P)
    BY <2>2 DEF Others
  <2>4. Crew(t.party[P]) = Crew(s.party[P])
    BY <2>1 DEF Crew
  <2>5. RelatedAt(t, P)
    <3>1. \A x \in Players : t.partyOf[x] = P <=> x \in Crew(t.party[P])
      BY <1>0, <2>2, <2>4 DEF RelatedAt
    <3>2. \A x \in Players : P \in t.invitedTo[x] <=> x \in t.party[P].invites
      BY <1>0, <2>1, <2>2 DEF RelatedAt
    <3> QED
      BY <1>0, <1>3, <2>1, <3>1, <3>2 DEF RelatedAt, Gone
  <2>6. Related(t)
    BY <1>0, <2>3, <2>5, RelatedKept
  <2>7. Current(t)
    <3>1. CurrentAt(s.level, s.place, s.party[P])
      BY <1>0 DEF Current
    <3>2. CurrentAt(t.level, t.place, t.party[P])
      BY <2>1, <2>2, <2>4, <3>1 DEF CurrentAt
    <3> QED
      BY <1>0, <2>3, <3>2, CurrentKept
  <2>8. ASSUME NEW x \in Players PROVE Formed(t, x)
    <3>1. Formed(s, x) /\ t.invitedTo[x] \subseteq s.invitedTo[x]
      BY <1>0, <2>2
    <3>2. t.party[P].members # <<>> /\ x \in Crew(t.party[P]) => t.invitedTo[x] = {}
      BY <2>1, <2>4, <3>1 DEF Formed
    <3> QED
      BY <1>0, <2>2, <2>3, <3>1, <3>2, FormedKept
  <2> QED
    BY <2>2, <2>6, <2>7, <2>8 DEF PartyInv, t
<1> QED
  BY <1>2, <1>3

-----------------------------------------------------------------------------
(* To invite, which may found a party.                                     *)
LEMMA InviteKeeps ==
  ASSUME NEW s, PartyInv(s), NEW P \in Parties, NEW p \in Players, NEW q \in Players, p # q,
         s.partyOf[q] = None,
         \/ s.partyOf[p] = P /\ s.party[P].leader = p
         \/ s.partyOf[p] = None /\ s.party[P] = Freed
  PROVE  LET t == InvitePlayer([s EXCEPT !.partyOf[p] = P, !.party[P].leader = p], P, q)
         IN  PartyInv(t) /\ OnlyParties(s, t)
<1> DEFINE r == s.party[P]
           i == r.invites \cup {q}
           w == With(r, p, r.members, i)
           a == [s.partyOf EXCEPT ![p] = P]
           b == [s.invitedTo EXCEPT ![q] = @ \cup {P}]
           v == [s EXCEPT !.partyOf[p] = P, !.party[P].leader = p]
           t == InvitePlayer(v, P, q)
<1>0. /\ IsState(s) /\ Related(s) /\ (\A x \in Players : Formed(s, x)) /\ Current(s)
      /\ RelatedAt(s, P) /\ IsParty(r) /\ IsList(r.members) /\ i \in SUBSET Players
      /\ a \in [Players -> Parties \cup {None}]
      /\ \A x \in Players : a[x] = IF x = p THEN P ELSE s.partyOf[x]
      /\ b \in [Players -> SUBSET Parties]
      /\ \A x \in Players : b[x] = IF x = q THEN s.invitedTo[x] \cup {P} ELSE s.invitedTo[x]
      /\ None \notin Players /\ None \notin Parties
  BY PartiesAssumption DEF PartyInv, Related, IsState, IsParty
<1>1. /\ IsParty(w) /\ w.leader = p /\ w.members = r.members /\ w.invites = i
      /\ w.active = r.active /\ w.enabled = r.enabled /\ w.ticks = r.ticks
  BY <1>0, WithIs
<1>2. t = PutSeat(s, a, b, P, w)
  <2> DEFINE g == [s.party EXCEPT ![P] = [r EXCEPT !.leader = p]]
             f == [s.party EXCEPT ![P] = w]
             y == [g[P] EXCEPT !.invites = @ \cup {q}]
             k == [g EXCEPT ![P] = y]
  <2>1. s = [online |-> s.online, level |-> s.level, place |-> s.place,
             partyOf |-> s.partyOf, invitedTo |-> s.invitedTo, party |-> s.party,
             channel |-> s.channel] /\ s.party = [Q \in Parties |-> s.party[Q]]
    BY <1>0 DEF IsState
  <2>2. v = [s EXCEPT !.partyOf = a, !.party = g]
    OBVIOUS
  <2>3. t = [v EXCEPT !.party = [v.party EXCEPT ![P] = [v.party[P] EXCEPT !.invites = @ \cup {q}]],
                      !.invitedTo = [v.invitedTo EXCEPT ![q] = @ \cup {P}]]
    BY DEF InvitePlayer
  <2>4. k = f
    <3>1. y = w
      <4>1. g[P] = [r EXCEPT !.leader = p]
        BY <2>1
      <4>2. r = [leader |-> r.leader, members |-> r.members, invites |-> r.invites,
                 active |-> r.active, enabled |-> r.enabled, ticks |-> r.ticks]
        BY <1>0 DEF IsParty
      <4>3. w = [r EXCEPT !.leader = p, !.members = r.members, !.invites = r.invites \cup {q}]
        BY DEF With
      <4> HIDE DEF g, r, w
      <4> QED
        BY <4>1, <4>2, <4>3
    <3> HIDE DEF y, w, r
    <3> QED
      BY <2>1, <3>1
  <2>5. v = [online |-> s.online, level |-> s.level, place |-> s.place,
             partyOf |-> a, invitedTo |-> s.invitedTo, party |-> g, channel |-> s.channel]
    <3> HIDE DEF v, a, g
    <3> QED
      BY <2>1, <2>2
  <2> HIDE DEF v, t, g
  <2>6. v.party = g /\ v.invitedTo = s.invitedTo
    BY <2>5
  <2>7. t = [v EXCEPT !.party = k, !.invitedTo = b]
    BY <2>3, <2>6
  <2> HIDE DEF k, f, a, b
  <2>8. t = [online |-> s.online, level |-> s.level, place |-> s.place,
             partyOf |-> a, invitedTo |-> b, party |-> f, channel |-> s.channel]
    BY <2>4, <2>5, <2>7
  <2>9. PutSeat(s, a, b, P, w) = [s EXCEPT !.partyOf = a, !.invitedTo = b, !.party = f]
    BY DEF PutSeat, f
  <2> QED
    BY <2>1, <2>8, <2>9
<1> HIDE DEF t, v, w, r, a, b, i
<1>3. Seated(s, t, a, b, P, w)
  BY <1>0, <1>1, <1>2, PutSeatIs
<1>4. /\ IsState(t) /\ OnlyParties(s, t) /\ t.level = s.level /\ t.place = s.place
      /\ t.partyOf = a /\ t.invitedTo = b /\ t.party[P] = w
      /\ \A Q \in Parties \ {P} : t.party[Q] = s.party[Q]
  BY <1>3 DEF Seated
<1>5. Others(s, t, P)
  BY <1>0, <1>4 DEF Others
<1>6. /\ Crew(w) = (Crew(r) \ {None}) \cup {p}
      /\ p \notin ToSet(r.members) /\ p \notin r.invites
      /\ r = Freed \/ r.leader = p
  <2>1. CASE r = Freed
    BY <1>0, <1>1, <2>1, FreedIs DEF Crew
  <2>2. CASE r # Freed
    <3>1. r.leader = p
      BY <2>2 DEF r
    <3>2. None \notin Crew(r)
      BY <1>0, <3>1, NoMember DEF IsList, Crew
    <3> QED
      BY <1>0, <1>1, <3>1, <3>2 DEF Crew, RelatedAt, r
  <2> QED
    BY <2>1, <2>2
<1>7. Related(t)
  <2>1. \A x \in Players : t.partyOf[x] = P <=> x \in Crew(w)
    BY <1>0, <1>4, <1>6 DEF RelatedAt, r
  <2>2. \A x \in Players : P \in t.invitedTo[x] <=> x \in w.invites
    BY <1>0, <1>1, <1>4 DEF RelatedAt, r, i
  <2>3. p \notin w.invites /\ w.invites # {}
    BY <1>1, <1>6 DEF i
  <2>4. RelatedAt(t, P)
    BY <1>1, <1>4, <1>6, <2>1, <2>2, <2>3 DEF RelatedAt
  <2> QED
    BY <1>0, <1>5, <2>4, RelatedKept
<1>8. CurrentAt(t.level, t.place, t.party[P])
  <2>1. CASE r = Freed
    BY <1>1, <1>4, <2>1, FreedIs DEF CurrentAt
  <2>2. CASE r.leader = p
    <3>1. Crew(w) = Crew(r)
      BY <1>1, <2>2 DEF Crew
    <3>2. CurrentAt(s.level, s.place, r)
      BY <1>0 DEF Current, r
    <3> QED
      BY <1>1, <1>4, <2>2, <3>1, <3>2 DEF CurrentAt
  <2> QED
    BY <1>6, <2>1, <2>2
<1>9. Current(t)
  BY <1>0, <1>5, <1>8, CurrentKept
<1>10. ASSUME NEW x \in Players PROVE Formed(t, x)
  <2>1. CASE x = q
    <3>1. s.partyOf[x] \in {P, None} /\ Formed(s, x)
      BY <1>0, <2>1
    <3>2. x \notin Crew(t.party[P])
      <4>1. t.partyOf[x] # P
        BY <1>0, <1>4, <2>1
      <4> QED
        BY <1>7, <4>1 DEF Related, RelatedAt
    <3> QED
      BY <1>0, <1>4, <1>5, <3>1, <3>2, FormedKept
  <2>2. CASE x # q
    <3>1. t.invitedTo[x] = s.invitedTo[x] /\ Formed(s, x)
      BY <1>0, <1>4, <2>2
    <3>2. w.members # <<>> /\ x \in Crew(w) => s.invitedTo[x] = {}
      <4> SUFFICES ASSUME w.members # <<>>, x \in Crew(w) PROVE s.invitedTo[x] = {}
        OBVIOUS
      <4>1. r.leader = p /\ r.members # <<>>
        BY <1>1, <1>6, FreedIs
      <4>2. x \in Crew(r)
        BY <1>1, <4>1 DEF Crew
      <4> QED
        BY <3>1, <4>1, <4>2 DEF Formed, r
    <3> QED
      BY <1>0, <1>4, <1>5, <3>1, <3>2, FormedKept
  <2> QED
    BY <2>1, <2>2
<1> QED
  BY <1>4, <1>7, <1>9, <1>10 DEF PartyInv, t, v

-----------------------------------------------------------------------------
(* What does not change who is in a party.                                 *)
(* In t the party P is r, and whether it fits is all that is open.         *)
Reflagged(s, t, P, r) ==
    /\ IsState(t) /\ Related(t) /\ (\A x \in Players : Formed(t, x))
    /\ \A Q \in Parties \ {P} : CurrentAt(t.level, t.place, t.party[Q])
    /\ OnlyParties(s, t) /\ t.level = s.level /\ t.place = s.place
    /\ t.party[P] = r /\ t.party[P].leader \in Players

LEMMA FlagsKept ==
  ASSUME NEW s, PartyInv(s), NEW P \in Parties, s.party[P].leader \in Players,
         NEW r, IsParty(r), SameParty(s.party[P], r)
  PROVE  Reflagged(s, Put(s, P, r), P, r)
<1> DEFINE t == Put(s, P, r)
<1>0. /\ IsState(s) /\ Related(s) /\ (\A x \in Players : Formed(s, x)) /\ Current(s)
  BY DEF PartyInv
<1>1. IsState(t) /\ Differs(s, t, P) /\ t.party[P] = r
  BY <1>0, PutParty
<1> HIDE DEF t
<1>2. Related(t) /\ \A x \in Players : Formed(t, x)
  BY <1>0, <1>1, SameCrewKept
<1>3. Reflagged(s, t, P, r)
  BY <1>0, <1>1, <1>2 DEF Reflagged, Differs, Current, OnlyParties, SameParty
<1> QED
  BY <1>3 DEF t

LEMMA UpdateOnlyParties ==
  ASSUME NEW s, IsState(s), NEW P \in Parties
  PROVE  OnlyParties(s, UpdateSharedExperience(s, P))
BY UpdateEffect DEF Differs, OnlyParties

(* A party with other flags.                                               *)
Flags(r, x, y, z) == [r EXCEPT !.active = x, !.enabled = y, !.ticks = z]

LEMMA FlagsIs ==
  ASSUME NEW r, IsParty(r), NEW x, NEW y, NEW z
  PROVE  LET q == Flags(r, x, y, z)
         IN  /\ IsParty(q) /\ SameParty(r, q)
             /\ q.active = x /\ q.enabled = y /\ q.ticks = z
             /\ q = [leader |-> r.leader, members |-> r.members, invites |-> r.invites,
                     active |-> x, enabled |-> y, ticks |-> z]
<1> DEFINE q == Flags(r, x, y, z)
<1>0. r = [leader |-> r.leader, members |-> r.members, invites |-> r.invites,
           active |-> r.active, enabled |-> r.enabled, ticks |-> r.ticks]
  BY DEF IsParty
<1>0a. q = [r EXCEPT !.active = x, !.enabled = y, !.ticks = z]
  BY DEF Flags
<1> HIDE DEF q
<1>1. q = [leader |-> r.leader, members |-> r.members, invites |-> r.invites,
           active |-> x, enabled |-> y, ticks |-> z]
  BY <1>0, <1>0a
<1>2. /\ q.leader = r.leader /\ q.members = r.members /\ q.invites = r.invites
      /\ q.active = x /\ q.enabled = y /\ q.ticks = z
  BY <1>1
<1>3. IsParty(q)
  BY <1>1, <1>2 DEF IsParty
<1> QED
  BY <1>1, <1>2, <1>3 DEF SameParty, q

(* Ticks come and go.                                                      *)
Ticks(s, P, z) == [s EXCEPT !.party[P].ticks = z]

LEMMA TicksKept ==
  ASSUME NEW s, PartyInv(s), NEW P \in Parties, s.party[P].leader \in Players, NEW z
  PROVE  LET t == Ticks(s, P, z)
             r == s.party[P]
         IN  /\ IsState(t) /\ Related(t) /\ (\A x \in Players : Formed(t, x))
             /\ \A Q \in Parties \ {P} : CurrentAt(t.level, t.place, t.party[Q])
             /\ OnlyParties(s, t) /\ t.level = s.level /\ t.place = s.place
             /\ t.party[P] = Flags(r, r.active, r.enabled, z) /\ t.party[P].leader \in Players
<1> DEFINE r == s.party[P]
           q == Flags(r, r.active, r.enabled, z)
           t == Ticks(s, P, z)
           u == Put(s, P, q)
           w == [r EXCEPT !.ticks = z]
<1>1. IsParty(r)
  BY DEF PartyInv, IsState
<1>2. IsParty(q) /\ SameParty(r, q)
  BY <1>1, FlagsIs
<1>3. t = Put(s, P, w)
  BY DEF Ticks, Put
<1>4. w = q
  <2>1. r = [leader |-> r.leader, members |-> r.members, invites |-> r.invites,
             active |-> r.active, enabled |-> r.enabled, ticks |-> r.ticks]
    BY <1>1 DEF IsParty
  <2>2. q = [leader |-> r.leader, members |-> r.members, invites |-> r.invites,
             active |-> r.active, enabled |-> r.enabled, ticks |-> z]
    BY <1>1, FlagsIs
  <2> HIDE DEF r, q
  <2> QED
    BY <2>1, <2>2
<1> HIDE DEF q, w, t
<1>5. /\ IsState(u) /\ Related(u) /\ (\A x \in Players : Formed(u, x))
      /\ \A Q \in Parties \ {P} : CurrentAt(u.level, u.place, u.party[Q])
      /\ OnlyParties(s, u) /\ u.level = s.level /\ u.place = s.place
      /\ u.party[P] = q /\ u.party[P].leader \in Players
  <2>1. Reflagged(s, u, P, q)
    BY <1>2, FlagsKept DEF u
  <2> QED
    BY <2>1 DEF Reflagged
<1>6. t = u
  BY <1>3, <1>4
<1> QED
  BY <1>5, <1>6 DEF t, q

LEMMA FightKeeps ==
  ASSUME NEW s, PartyInv(s), NEW P \in Parties, s.party[P].leader \in Players, NEW z
  PROVE  LET t == UpdateSharedExperience(Ticks(s, P, z), P)
         IN  PartyInv(t) /\ OnlyParties(s, t)
<1> DEFINE u == Ticks(s, P, z)
<1>1. /\ IsState(u) /\ Related(u) /\ (\A x \in Players : Formed(u, x))
      /\ \A Q \in Parties \ {P} : CurrentAt(u.level, u.place, u.party[Q])
      /\ OnlyParties(s, u) /\ u.party[P].leader \in Players
  BY TicksKept
<1> HIDE DEF u
<1>2. PartyInv(UpdateSharedExperience(u, P)) /\ OnlyParties(u, UpdateSharedExperience(u, P))
  BY <1>1, UpdateKeeps, UpdateOnlyParties
<1> QED
  BY <1>1, <1>2 DEF OnlyParties, u

LEMMA ExpireKeeps ==
  ASSUME NEW s, PartyInv(s), NEW P \in Parties, s.party[P].leader \in Players,
         NEW z, z \subseteq s.party[P].ticks
  PROVE  PartyInv(Ticks(s, P, z)) /\ OnlyParties(s, Ticks(s, P, z))
<1> DEFINE t == Ticks(s, P, z)
           r == s.party[P]
           q == Flags(r, r.active, r.enabled, z)
<1>1. /\ IsState(t) /\ Related(t) /\ (\A x \in Players : Formed(t, x))
      /\ \A Q \in Parties \ {P} : CurrentAt(t.level, t.place, t.party[Q])
      /\ OnlyParties(s, t) /\ t.level = s.level /\ t.place = s.place /\ t.party[P] = q
  BY TicksKept
<1>2. IsParty(r) /\ CurrentAt(s.level, s.place, r)
  BY DEF PartyInv, IsState, Current
<1>3. SameParty(r, q) /\ q.active = r.active /\ q.enabled = r.enabled /\ q.ticks = z
  BY <1>2, FlagsIs
<1> HIDE DEF t, q
<1>4. CurrentAt(t.level, t.place, q)
  <2>1. Crew(q) = Crew(r)
    BY <1>3 DEF SameParty, Crew
  <2> QED
    BY <1>1, <1>2, <1>3, <2>1 DEF CurrentAt, SameParty
<1> QED
  BY <1>1, <1>4 DEF PartyInv, Current, t

LEMMA IdleKeeps ==
  ASSUME NEW s, PartyInv(s), NEW P \in Parties, s.party[P].leader \in Players, NEW p
  PROVE  LET t == ClearPlayerPoints(s, P, p)
         IN  PartyInv(t) /\ OnlyParties(s, t)
<1> DEFINE t == ClearPlayerPoints(s, P, p)
<1>1. t = s \/ t = UpdateSharedExperience(Ticks(s, P, s.party[P].ticks \ {p}), P)
  BY DEF ClearPlayerPoints, Ticks
<1>2. /\ PartyInv(UpdateSharedExperience(Ticks(s, P, s.party[P].ticks \ {p}), P))
      /\ OnlyParties(s, UpdateSharedExperience(Ticks(s, P, s.party[P].ticks \ {p}), P))
  BY FightKeeps
<1> HIDE DEF t
<1> QED
  BY <1>1, <1>2 DEF OnlyParties, t

(* To switch the sharing on or off.                                        *)
Enable(s, P, on) ==
    LET u == [s EXCEPT !.party[P].active = on]
    IN  [u EXCEPT !.party[P].enabled = IF on THEN GetSharedExperienceStatus(u, P) ELSE @]

LEMMA EnableKeeps ==
  ASSUME NEW s, PartyInv(s), NEW P \in Parties, s.party[P].leader \in Players,
         NEW on \in BOOLEAN
  PROVE  PartyInv(Enable(s, P, on)) /\ OnlyParties(s, Enable(s, P, on))
<1> DEFINE r == s.party[P]
           q == Flags(r, on, r.enabled, r.ticks)
           w == [r EXCEPT !.active = on]
           u == [s EXCEPT !.party[P].active = on]
           v == Put(s, P, q)
           t == Enable(s, P, on)
<1>1. IsParty(r)
  BY DEF PartyInv, IsState
<1>2. /\ IsParty(q) /\ SameParty(r, q) /\ q.active = on
      /\ q = [leader |-> r.leader, members |-> r.members, invites |-> r.invites,
              active |-> on, enabled |-> r.enabled, ticks |-> r.ticks]
  BY <1>1, FlagsIs
<1>3. u = Put(s, P, w)
  BY DEF Put
<1>4. w = q
  <2>1. r = [leader |-> r.leader, members |-> r.members, invites |-> r.invites,
             active |-> r.active, enabled |-> r.enabled, ticks |-> r.ticks]
    BY <1>1 DEF IsParty
  <2> HIDE DEF r, q
  <2> QED
    BY <1>2, <2>1
<1> HIDE DEF q, w
<1>5. /\ IsState(v) /\ Related(v) /\ (\A x \in Players : Formed(v, x))
      /\ \A Q \in Parties \ {P} : CurrentAt(v.level, v.place, v.party[Q])
      /\ OnlyParties(s, v) /\ v.party[P] = q /\ v.party[P].leader \in Players
  <2>1. Reflagged(s, v, P, q)
    BY <1>2, FlagsKept
  <2> HIDE DEF v
  <2> QED
    BY <2>1 DEF Reflagged
<1>6. u = v
  BY <1>3, <1>4
<1>7. t = [u EXCEPT !.party[P].enabled =
               IF on THEN GetSharedExperienceStatus(u, P) ELSE u.party[P].enabled]
  BY DEF Enable
<1> HIDE DEF u, v, t, r
<1>8. CASE on
  <2>1. t = UpdateSharedExperience(v, P)
    BY <1>2, <1>5, <1>6, <1>7, <1>8, PartiesAssumption DEF UpdateSharedExperience
  <2>2. PartyInv(UpdateSharedExperience(v, P)) /\ OnlyParties(v, UpdateSharedExperience(v, P))
    BY <1>5, UpdateKeeps, UpdateOnlyParties
  <2> QED
    BY <1>5, <2>1, <2>2 DEF OnlyParties, t
<1>9. CASE ~ on
  <2>1. t = [v EXCEPT !.party = [v.party EXCEPT ![P] = [v.party[P] EXCEPT !.enabled = v.party[P].enabled]]]
    BY <1>6, <1>7, <1>9
  <2>2. v.party[P] = [v.party[P] EXCEPT !.enabled = v.party[P].enabled]
    <3>1. ASSUME NEW y, IsParty(y) PROVE y = [y EXCEPT !.enabled = y.enabled]
      BY <3>1 DEF IsParty
    <3>2. IsParty(v.party[P])
      BY <1>5 DEF IsState
    <3> QED
      BY <3>1, <3>2
  <2>3. v.party = [v.party EXCEPT ![P] = v.party[P]]
    BY <1>5 DEF IsState
  <2>4. v = [v EXCEPT !.party = v.party]
    BY <1>5 DEF IsState
  <2>5. t = v
    BY <2>1, <2>2, <2>3, <2>4
  <2>6. Current(v)
    BY <1>2, <1>5, <1>9 DEF Current, CurrentAt
  <2> QED
    BY <1>5, <2>5, <2>6 DEF PartyInv, OnlyParties, t
<1> QED
  BY <1>8, <1>9

-----------------------------------------------------------------------------
(* Somebody moves or advances.                                             *)
Moved(s, t, p) ==
    /\ IsState(t) /\ OnlyParties(s, t)
    /\ t.partyOf = s.partyOf /\ t.invitedTo = s.invitedTo /\ t.party = s.party
    /\ \A x \in Players \ {p} : t.level[x] = s.level[x] /\ t.place[x] = s.place[x]

LEMMA MoveIs ==
  ASSUME NEW s, IsState(s), NEW p \in Players, NEW v
  PROVE  Moved(s, [s EXCEPT !.place[p] = v], p) /\ Moved(s, [s EXCEPT !.level[p] = v], p)
<1> DEFINE a == [s.place EXCEPT ![p] = v]
           b == [s.level EXCEPT ![p] = v]
           t == [s EXCEPT !.place = a]
           u == [s EXCEPT !.level = b]
<1>0. s = [online |-> s.online, level |-> s.level, place |-> s.place,
           partyOf |-> s.partyOf, invitedTo |-> s.invitedTo, party |-> s.party,
           channel |-> s.channel]
  BY DEF IsState
<1>1. /\ a = [x \in Players |-> a[x]] /\ \A x \in Players \ {p} : a[x] = s.place[x]
      /\ b = [x \in Players |-> b[x]] /\ \A x \in Players \ {p} : b[x] = s.level[x]
  BY DEF IsState
<1> HIDE DEF a, b
<1>2. /\ t = [online |-> s.online, level |-> s.level, place |-> a,
              partyOf |-> s.partyOf, invitedTo |-> s.invitedTo, party |-> s.party,
              channel |-> s.channel]
      /\ u = [online |-> s.online, level |-> b, place |-> s.place,
              partyOf |-> s.partyOf, invitedTo |-> s.invitedTo, party |-> s.party,
              channel |-> s.channel]
  BY <1>0
<1> HIDE DEF t, u
<1>3. Moved(s, t, p)
  <2>1. /\ t.online = s.online /\ t.level = s.level /\ t.place = a
        /\ t.partyOf = s.partyOf /\ t.invitedTo = s.invitedTo /\ t.party = s.party
        /\ t.channel = s.channel
    BY <1>2
  <2> QED
    BY <1>1, <1>2, <2>1 DEF Moved, IsState, OnlyParties
<1>4. Moved(s, u, p)
  <2>1. /\ u.online = s.online /\ u.level = b /\ u.place = s.place
        /\ u.partyOf = s.partyOf /\ u.invitedTo = s.invitedTo /\ u.party = s.party
        /\ u.channel = s.channel
    BY <1>2
  <2> QED
    BY <1>1, <1>2, <2>1 DEF Moved, IsState, OnlyParties
<1> QED
  BY <1>3, <1>4 DEF t, u, a, b

LEMMA MoveKeeps ==
  ASSUME NEW s, PartyInv(s), NEW p \in Players, NEW t, Moved(s, t, p)
  PROVE  LET u == UpdateSharedExperience(t, s.partyOf[p])
         IN  PartyInv(u) /\ OnlyParties(s, u)
<1> DEFINE P == s.partyOf[p]
           u == UpdateSharedExperience(t, P)
<1>0. /\ IsState(s) /\ Related(s) /\ (\A x \in Players : Formed(s, x)) /\ Current(s)
      /\ IsState(t) /\ OnlyParties(s, t) /\ P \in Parties \cup {None}
      /\ None \notin Players /\ None \notin Parties
  BY PartiesAssumption DEF PartyInv, Moved, IsState
<1>1. Related(t) /\ \A x \in Players : Formed(t, x)
  BY <1>0 DEF Related, RelatedAt, Formed, Moved
<1>2. ASSUME NEW Q \in Parties, Q # P PROVE CurrentAt(t.level, t.place, t.party[Q])
  <2>1. p \notin Crew(s.party[Q])
    BY <1>0, <1>2 DEF Related, RelatedAt
  <2>2. CurrentAt(s.level, s.place, s.party[Q]) /\ t.party[Q] = s.party[Q]
    BY <1>0 DEF Current, Moved
  <2>3. CASE s.party[Q] = Freed
    BY <2>2, <2>3, FreedIs DEF CurrentAt
  <2>4. CASE s.party[Q] # Freed
    <3>1. Crew(s.party[Q]) \subseteq Players \ {p}
      <4>1. s.party[Q].leader \in Players /\ IsList(s.party[Q].members)
        BY <1>0, <2>4 DEF Related, RelatedAt, IsState, IsParty
      <4> QED
        BY <2>1, <4>1, NoMember DEF IsList, Crew
    <3>2. \A x \in Crew(s.party[Q]) : t.level[x] = s.level[x] /\ t.place[x] = s.place[x]
      BY <3>1 DEF Moved
    <3> QED
      BY <2>2, <3>2, FitsElsewhere
  <2> QED
    BY <2>3, <2>4
<1>3. CASE P = None
  <2>1. u = t
    BY <1>3 DEF UpdateSharedExperience
  <2>2. Current(t)
    BY <1>0, <1>2, <1>3 DEF Current
  <2> QED
    BY <1>0, <1>1, <2>1, <2>2 DEF PartyInv
<1>4. CASE P \in Parties
  <2>1. t.party[P].leader \in Players
    <3>1. p \in Crew(s.party[P]) /\ RelatedAt(s, P)
      BY <1>0, <1>4 DEF Related, RelatedAt
    <3> QED
      BY <1>0, <3>1, FreedIs DEF RelatedAt, Crew, Moved
  <2>2. \A Q \in Parties \ {P} : CurrentAt(t.level, t.place, t.party[Q])
    BY <1>2
  <2> HIDE DEF P
  <2>3. PartyInv(u) /\ OnlyParties(t, u)
    BY <1>0, <1>1, <1>4, <2>1, <2>2, UpdateKeeps, UpdateOnlyParties
  <2> HIDE DEF u
  <2>4. PartyInv(u) /\ OnlyParties(s, u)
    BY <1>0, <2>3 DEF OnlyParties
  <2> QED
    BY <2>4 DEF u, P
<1> QED
  BY <1>0, <1>3, <1>4

(* What changes neither levels, places nor parties.                        *)
LEMMA ApartKeeps ==
  ASSUME NEW s, PartyInv(s), NEW t,
         t = [online |-> t.online, level |-> s.level, place |-> s.place,
              partyOf |-> s.partyOf, invitedTo |-> s.invitedTo, party |-> s.party,
              channel |-> t.channel]
  PROVE  PartyInv(t)
<1>1. /\ t.level = s.level /\ t.place = s.place /\ t.partyOf = s.partyOf
      /\ t.invitedTo = s.invitedTo /\ t.party = s.party
  OBVIOUS
<1>2. IsState(s) /\ Related(s) /\ (\A x \in Players : Formed(s, x)) /\ Current(s)
  BY DEF PartyInv
<1>3. IsState(t)
  BY <1>1, <1>2 DEF IsState
<1>4. Related(t) /\ (\A x \in Players : Formed(t, x)) /\ Current(t)
  BY <1>1, <1>2 DEF Related, RelatedAt, Formed, Current
<1> QED
  BY <1>3, <1>4 DEF PartyInv

-----------------------------------------------------------------------------
(* Every operation of players and their parties: the next state is the     *)
(* whole of what the operation returns.                                    *)
LEMMA BecomeIs ==
  ASSUME NEW s, IsState(s), Become(s)
  PROVE  Now' = s
BY DEF Become, Now, IsState

Kept == PartyInv(Now)' /\ online' = online /\ channel' = channel

LEMMA BecomeKeeps ==
  ASSUME NEW s, PartyInv(s), OnlyParties(Now, s), Become(s)
  PROVE  Kept
<1>1. Now' = s
  BY BecomeIs DEF PartyInv
<1>2. PartyInv(Now')
  BY <1>1
<1>3. PartyInv(Now)' = PartyInv(Now')
  BY DEF PartyInv, IsState, Related, RelatedAt, Formed, Current
<1>4. online' = online /\ channel' = channel
  BY DEF Become, OnlyParties, Now
<1> QED
  BY <1>2, <1>3, <1>4 DEF Kept

LEMMA NowIs ==
  /\ Now.online = online /\ Now.level = level /\ Now.place = place
  /\ Now.partyOf = partyOf /\ Now.invitedTo = invitedTo /\ Now.party = party
  /\ Now.channel = channel
BY DEF Now

LEMMA LeaderIs ==
  ASSUME PartyInv(Now), NEW p \in Players, partyOf[p] # None
  PROVE  /\ partyOf[p] \in Parties /\ Now.party[partyOf[p]].leader \in Players
         /\ Now.partyOf[p] = partyOf[p]
<1>1. IsState(Now) /\ Related(Now) /\ Now.partyOf = partyOf
  BY NowIs DEF PartyInv
<1>2. partyOf[p] \in Parties
  BY <1>1 DEF IsState
<1>3. RelatedAt(Now, partyOf[p]) /\ p \in Crew(Now.party[partyOf[p]])
  BY <1>1, <1>2 DEF Related, RelatedAt
<1> QED
  BY <1>1, <1>2, <1>3, FreedIs, PartiesAssumption DEF RelatedAt, Crew

LEMMA PartyStepKeeps ==
  ASSUME PartyInv(Now), NEW p \in Players, NEW q \in Players,
         \/ PlayerInviteToParty(p, q) \/ PlayerJoinParty(p, q)
         \/ PlayerRevokePartyInvitation(p, q) \/ PlayerPassPartyLeadership(p, q)
         \/ PlayerLeaveParty(p)
  PROVE  Kept
<1> USE NowIs
<1>0. IsState(Now) /\ Related(Now) /\ None \notin Players /\ None \notin Parties
  BY PartiesAssumption DEF PartyInv
<1>1. CASE PlayerInviteToParty(p, q)
  <2>1. PICK P \in Parties :
          /\ \/ Leads(p) /\ P = partyOf[p]
             \/ partyOf[p] = None /\ party[P] = Freed
          /\ Become(InvitePlayer([Now EXCEPT !.partyOf[p] = P, !.party[P].leader = p], P, q))
    BY <1>1 DEF PlayerInviteToParty
  <2>2. p # q /\ Now.partyOf[q] = None
    BY <1>1 DEF PlayerInviteToParty
  <2>3. \/ Now.partyOf[p] = P /\ Now.party[P].leader = p
        \/ Now.partyOf[p] = None /\ Now.party[P] = Freed
    BY <2>1 DEF Leads
  <2> DEFINE t == InvitePlayer([Now EXCEPT !.partyOf[p] = P, !.party[P].leader = p], P, q)
  <2>4. PartyInv(t) /\ OnlyParties(Now, t)
    BY <2>2, <2>3, InviteKeeps
  <2> HIDE DEF t
  <2> QED
    BY <2>1, <2>4, BecomeKeeps DEF t
<1>2. CASE PlayerJoinParty(p, q)
  <2> DEFINE P == partyOf[q]
             t == JoinParty(Now, P, p)
  <2>1. /\ P # None /\ p \in party[P].invites /\ partyOf[p] = None /\ Become(t)
    BY <1>2 DEF PlayerJoinParty, IsInviting
  <2>2. P \in Parties /\ Now.party[P].leader \in Players
    BY <2>1, LeaderIs
  <2> HIDE DEF P
  <2>3. PartyInv(t) /\ OnlyParties(Now, t)
    BY <2>1, <2>2, JoinKeeps
  <2> HIDE DEF t
  <2> QED
    BY <2>1, <2>3, BecomeKeeps
<1>3. CASE PlayerRevokePartyInvitation(p, q)
  <2> DEFINE P == partyOf[p]
             t == RemoveInvite(Now, P, q, TRUE)
  <2>1. /\ P # None /\ q \in party[P].invites /\ Become(t)
    BY <1>3 DEF PlayerRevokePartyInvitation, IsInviting
  <2>2. P \in Parties /\ Now.party[P].leader \in Players
    BY <2>1, LeaderIs
  <2> HIDE DEF P
  <2>3. PartyInv(t) /\ OnlyParties(Now, t)
    BY <2>1, <2>2, RevokeKeeps
  <2> HIDE DEF t
  <2> QED
    BY <2>1, <2>3, BecomeKeeps
<1>4. CASE PlayerPassPartyLeadership(p, q)
  <2> DEFINE P == partyOf[p]
             t == PassPartyLeadership(Now, P, q)
  <2>1. /\ P # None /\ party[P].leader = p /\ p # q /\ partyOf[q] = P /\ Become(t)
    BY <1>4 DEF PlayerPassPartyLeadership, Leads
  <2>2. P \in Parties /\ Now.party[P].leader \in Players
    BY <2>1, LeaderIs
  <2>3. q \in ToSet(Now.party[P].members)
    BY <1>0, <2>1, <2>2 DEF Related, RelatedAt, Crew
  <2> HIDE DEF P
  <2>4. Passed(Now, t, P, q)
    BY <2>2, <2>3, PassKeeps
  <2> HIDE DEF t
  <2>5. PartyInv(t) /\ OnlyParties(Now, t)
    BY <2>4 DEF Passed, Differs, OnlyParties
  <2> QED
    BY <2>1, <2>5, BecomeKeeps
<1>5. CASE PlayerLeaveParty(p)
  <2> DEFINE P == partyOf[p]
             t == LeaveParty(Now, P, p)
  <2>1. P # None /\ Become(t)
    BY <1>5 DEF PlayerLeaveParty
  <2>2. P \in Parties /\ Now.partyOf[p] = P
    BY <2>1, LeaderIs
  <2> HIDE DEF P
  <2>3. PartyInv(t) /\ OnlyParties(Now, t)
    BY <2>2, LeavePartyKeeps
  <2> HIDE DEF t
  <2> QED
    BY <2>1, <2>3, BecomeKeeps
<1> QED
  BY <1>1, <1>2, <1>3, <1>4, <1>5

-----------------------------------------------------------------------------
(* What has to do with the sharing of experience.                          *)
LEMMA SharingStepKeeps ==
  ASSUME PartyInv(Now), SharingStep
  PROVE  Kept
<1> USE NowIs
<1>0. IsState(Now)
  BY DEF PartyInv
<1>1. PICK p \in Players :
        \/ Fight(p) \/ Idle(p) \/ Expire(p)
        \/ \E on \in BOOLEAN : PlayerEnableSharedPartyExperience(p, on)
        \/ \E w \in Places : Move(p, w)
        \/ \E n \in Levels : AddExperience(p, n) \/ RemoveExperience(p, n)
  BY DEF SharingStep
<1> DEFINE P == partyOf[p]
<1>2. P # None => P \in Parties /\ Now.party[P].leader \in Players
  BY LeaderIs
<1>3. CASE Fight(p)
  <2> DEFINE t == UpdateSharedExperience(Ticks(Now, P, Now.party[P].ticks \cup {p}), P)
  <2>1. P # None /\ Become(t)
    BY <1>3 DEF Fight, Ticks
  <2> HIDE DEF P
  <2>2. PartyInv(t) /\ OnlyParties(Now, t)
    BY <1>2, <2>1, FightKeeps
  <2> HIDE DEF t
  <2> QED
    BY <2>1, <2>2, BecomeKeeps
<1>4. CASE Idle(p)
  <2> DEFINE t == ClearPlayerPoints(Now, P, p)
  <2>1. P # None /\ Become(t)
    BY <1>4 DEF Idle
  <2> HIDE DEF P
  <2>2. PartyInv(t) /\ OnlyParties(Now, t)
    BY <1>2, <2>1, IdleKeeps
  <2> HIDE DEF t
  <2> QED
    BY <2>1, <2>2, BecomeKeeps
<1>5. CASE Expire(p)
  <2> DEFINE t == Ticks(Now, P, Now.party[P].ticks \ {p})
  <2>1. P # None
    BY <1>5 DEF Expire
  <2>2. Become(t)
    BY <1>5 DEF Expire, Become, Ticks, Now
  <2> HIDE DEF P
  <2>3. PartyInv(t) /\ OnlyParties(Now, t)
    <3>1. Now.party[P].ticks \ {p} \subseteq Now.party[P].ticks
      OBVIOUS
    <3> QED
      BY <1>2, <2>1, <3>1, ExpireKeeps
  <2> HIDE DEF t
  <2> QED
    BY <2>2, <2>3, BecomeKeeps
<1>6. ASSUME NEW on \in BOOLEAN, PlayerEnableSharedPartyExperience(p, on) PROVE Kept
  <2> DEFINE t == Enable(Now, P, on)
  <2>1. P # None /\ Become(t)
    BY <1>6 DEF PlayerEnableSharedPartyExperience, Leads, Enable
  <2> HIDE DEF P
  <2>2. PartyInv(t) /\ OnlyParties(Now, t)
    BY <1>2, <2>1, EnableKeeps
  <2> HIDE DEF t
  <2> QED
    BY <2>1, <2>2, BecomeKeeps
<1>7. ASSUME NEW w \in Places, Move(p, w) PROVE Kept
  <2> DEFINE u == [Now EXCEPT !.place[p] = w]
             t == UpdateSharedExperience(u, Now.partyOf[p])
  <2>1. Become(t)
    BY <1>7 DEF Move
  <2>2. Moved(Now, u, p)
    BY <1>0, MoveIs
  <2> HIDE DEF u
  <2>3. PartyInv(t) /\ OnlyParties(Now, t)
    BY <2>2, MoveKeeps
  <2> HIDE DEF t
  <2> QED
    BY <2>1, <2>3, BecomeKeeps
<1>8. ASSUME NEW n \in Levels, AddExperience(p, n) \/ RemoveExperience(p, n) PROVE Kept
  <2> DEFINE u == [Now EXCEPT !.level[p] = n]
             t == UpdateSharedExperience(u, Now.partyOf[p])
  <2>1. Become(t)
    BY <1>8 DEF AddExperience, RemoveExperience
  <2>2. Moved(Now, u, p)
    BY <1>0, MoveIs
  <2> HIDE DEF u
  <2>3. PartyInv(t) /\ OnlyParties(Now, t)
    BY <2>2, MoveKeeps
  <2> HIDE DEF t
  <2> QED
    BY <2>1, <2>3, BecomeKeeps
<1> QED
  BY <1>1, <1>3, <1>4, <1>5, <1>6, <1>7, <1>8

-----------------------------------------------------------------------------
(* The channels: who is in one is in the game, a private one has an owner  *)
(* as long as it is open and nobody else in it who is not invited, and     *)
(* nobody owns two.                                                        *)
RoomOk(r, c, on) ==
    /\ r = [owner |-> r.owner, users |-> r.users, invites |-> r.invites, open |-> r.open]
    /\ r.users \cup r.invites \subseteq on /\ r.owner \in on \cup {None}
    /\ c[1] = "private" => /\ r.open => r.owner \in on
                           /\ r.users \subseteq {r.owner} \cup r.invites

OneRoomEach(ch) ==
    \A c, d \in Channels : ch[c].owner = ch[d].owner /\ ch[c].owner # None => c = d

ChatOk(ch, on) ==
    /\ on \subseteq Players
    /\ ch = [c \in Channels |-> ch[c]]
    /\ \A c \in Channels : RoomOk(ch[c], c, on)
    /\ OneRoomEach(ch)

ChatInv == ChatOk(channel, online)

LEMMA RoomKeeps ==
  ASSUME NEW ch, NEW on, ChatOk(ch, on), NEW c \in Channels, NEW r, RoomOk(r, c, on),
         \/ r.owner \in {None, ch[c].owner}
         \/ \A d \in Channels : ch[d].owner # r.owner
  PROVE  ChatOk([ch EXCEPT ![c] = r], on)
<1> DEFINE x == [ch EXCEPT ![c] = r]
<1>1. x = [d \in Channels |-> x[d]] /\ x[c] = r /\ \A d \in Channels \ {c} : x[d] = ch[d]
  BY DEF ChatOk
<1> HIDE DEF x
<1>2. \A d \in Channels : RoomOk(x[d], d, on)
  BY <1>1 DEF ChatOk
<1>3. OneRoomEach(x)
  BY <1>1 DEF OneRoomEach, ChatOk
<1> QED
  BY <1>1, <1>2, <1>3 DEF ChatOk, x

Room(o, u, i, n) == [owner |-> o, users |-> u, invites |-> i, open |-> n]

(* Somebody leaves every channel, and perhaps the game.                    *)
WithoutUser(ch, p) ==
    [c \in Channels |->
        IF ch[c].owner = p THEN NoChannel
        ELSE [ch[c] EXCEPT !.users = @ \ {p}, !.invites = @ \ {p}]]

LEMMA AllRoomsKept ==
  ASSUME NEW ch, NEW on, ChatOk(ch, on), NEW p \in Players
  PROVE  ChatOk(WithoutUser(ch, p), on) /\ ChatOk(WithoutUser(ch, p), on \ {p})
<1> DEFINE x == WithoutUser(ch, p)
<1>1. x = [c \in Channels |-> x[c]]
  BY DEF WithoutUser
<1>2. ASSUME NEW c \in Channels
      PROVE  /\ x[c].owner = IF ch[c].owner = p THEN None ELSE ch[c].owner
             /\ RoomOk(x[c], c, on \ {p}) /\ RoomOk(x[c], c, on)
  <2>0. None # p
    BY PartiesAssumption
  <2>1. CASE ch[c].owner = p
    <3>1. x[c] = NoChannel
      BY <2>1 DEF WithoutUser
    <3>2. x[c] = Room(None, {}, {}, FALSE)
      BY <3>1 DEF NoChannel, Room
    <3> HIDE DEF x
    <3>3. /\ x[c].owner = None /\ x[c].users = {} /\ x[c].invites = {} /\ x[c].open = FALSE
          /\ x[c] = [owner |-> x[c].owner, users |-> x[c].users, invites |-> x[c].invites,
                     open |-> x[c].open]
      BY <3>2 DEF Room
    <3> QED
      BY <2>1, <3>3 DEF RoomOk
  <2>2. CASE ch[c].owner # p
    <3> DEFINE r == ch[c]
               q == [r EXCEPT !.users = @ \ {p}, !.invites = @ \ {p}]
    <3>1. x[c] = q
      BY <2>2 DEF WithoutUser
    <3>2. RoomOk(r, c, on)
      BY DEF ChatOk
    <3> HIDE DEF r
    <3>3. q = Room(r.owner, r.users \ {p}, r.invites \ {p}, r.open)
      <4>1. r = [owner |-> r.owner, users |-> r.users, invites |-> r.invites, open |-> r.open]
        BY <3>2 DEF RoomOk
      <4>2. q = [r EXCEPT !.users = r.users \ {p}, !.invites = r.invites \ {p}]
        OBVIOUS
      <4> HIDE DEF q
      <4> QED
        BY <4>1, <4>2 DEF Room
    <3> HIDE DEF q
    <3>4. /\ q.owner = r.owner /\ q.users = r.users \ {p} /\ q.invites = r.invites \ {p}
          /\ q.open = r.open
          /\ q = [owner |-> q.owner, users |-> q.users, invites |-> q.invites, open |-> q.open]
      BY <3>3 DEF Room
    <3>5. r.owner # p
      BY <2>2 DEF r
    <3>6. RoomOk(q, c, on \ {p}) /\ RoomOk(q, c, on)
      BY <3>2, <3>4, <3>5 DEF RoomOk
    <3> QED
      BY <2>2, <3>1, <3>4, <3>6 DEF r
  <2> QED
    BY <2>1, <2>2
<1> HIDE DEF x
<1>3. OneRoomEach(x)
  BY <1>2 DEF OneRoomEach, ChatOk
<1> QED
  BY <1>1, <1>2, <1>3 DEF ChatOk, x

-----------------------------------------------------------------------------
(* Levels, places and parties stay.                                        *)
PartiesStay == UNCHANGED <<level, place, partyOf, invitedTo, party>>

LEMMA StayKeeps ==
  ASSUME PartyInv(Now), PartiesStay
  PROVE  PartyInv(Now)'
<1>1. Now' = [online |-> (Now').online, level |-> Now.level, place |-> Now.place,
              partyOf |-> Now.partyOf, invitedTo |-> Now.invitedTo, party |-> Now.party,
              channel |-> (Now').channel]
  BY DEF Now, PartiesStay
<1>2. PartyInv(Now')
  BY <1>1, ApartKeeps
<1> QED
  BY <1>2 DEF PartyInv, IsState, Related, RelatedAt, Formed, Current

LEMMA RoomStep ==
  ASSUME ChatInv, NEW c \in Channels, NEW r, RoomOk(r, c, online),
         \/ r.owner \in {None, channel[c].owner}
         \/ \A d \in Channels : channel[d].owner # r.owner,
         Become([Now EXCEPT !.channel = [channel EXCEPT ![c] = r]])
  PROVE  ChatInv' /\ PartiesStay
<1>1. PartiesStay /\ channel' = [channel EXCEPT ![c] = r] /\ online' = online
  BY DEF PartiesStay, Become, Now
<1>2. ChatOk([channel EXCEPT ![c] = r], online)
  BY RoomKeeps DEF ChatInv
<1> QED
  BY <1>1, <1>2 DEF ChatInv

LEMMA ChannelIs ==
  /\ \A P \in Parties : <<"party", P>> \in Channels /\ <<"party", P>>[1] = "party"
  /\ \A i \in PrivateIds : <<"private", i>> \in Channels /\ <<"private", i>>[1] = "private"
BY DEF Channels

Opened(r, o) == [r EXCEPT !.open = TRUE, !.owner = o]
Using(r, u) == [r EXCEPT !.users = u]
Inviting(r, i) == [r EXCEPT !.invites = i]

LEMMA OpenedIs ==
  ASSUME NEW o
  PROVE  Opened(NoChannel, o) = Room(o, {}, {}, TRUE)
<1> DEFINE r == NoChannel
           q == Opened(r, o)
<1>1. r = [owner |-> None, users |-> {}, invites |-> {}, open |-> FALSE]
  BY DEF NoChannel
<1>2. q = [r EXCEPT !.open = TRUE, !.owner = o]
  BY DEF Opened
<1> HIDE DEF r, q
<1>3. q = [owner |-> o, users |-> {}, invites |-> {}, open |-> TRUE]
  BY <1>1, <1>2
<1> QED
  BY <1>3 DEF Room, q, r

LEMMA UsingIs ==
  ASSUME NEW o, NEW u, NEW i, NEW n, NEW x
  PROVE  Using(Room(o, u, i, n), x) = Room(o, x, i, n)
BY DEF Using, Room

LEMMA InvitingIs ==
  ASSUME NEW o, NEW u, NEW i, NEW n, NEW x
  PROVE  Inviting(Room(o, u, i, n), x) = Room(o, u, x, n)
BY DEF Inviting, Room

(* A channel with other people in it.                                      *)
Peopled(c, u, i) ==
    [Now EXCEPT !.channel =
        [channel EXCEPT ![c] = Room(channel[c].owner, u, i, channel[c].open)]]

LEMMA PeopleChange ==
  ASSUME ChatInv, NEW c \in Channels, NEW u, NEW i,
         u \cup i \subseteq online,
         c[1] = "private" => u \subseteq {channel[c].owner} \cup i,
         Become(Peopled(c, u, i))
  PROVE  ChatInv' /\ PartiesStay
<1> DEFINE r == channel[c]
           q == Room(r.owner, u, i, r.open)
<1>1. RoomOk(r, c, online)
  BY DEF ChatInv, ChatOk
<1>2. q = [owner |-> r.owner, users |-> u, invites |-> i, open |-> r.open]
  BY DEF Room
<1>3. Become([Now EXCEPT !.channel = [channel EXCEPT ![c] = q]])
  BY DEF Peopled
<1> HIDE DEF q, r
<1>4. /\ q.owner = r.owner /\ q.users = u /\ q.invites = i /\ q.open = r.open
      /\ q = [owner |-> q.owner, users |-> q.users, invites |-> q.invites, open |-> q.open]
  BY <1>2
<1>5. RoomOk(q, c, online) /\ q.owner = channel[c].owner
  BY <1>1, <1>4 DEF RoomOk, r
<1> QED
  BY <1>3, <1>5, RoomStep

(* A channel that is created with nobody or its owner in it, or is deleted. *)
LEMMA NewRoom ==
  ASSUME ChatInv, NEW c \in Channels, NEW o \in online \cup {None}, NEW u \in SUBSET {o},
         NEW n \in BOOLEAN, None \notin u, c[1] = "private" /\ n => o # None,
         o # None => \A d \in Channels : channel[d].owner # o,
         Become([Now EXCEPT !.channel = [channel EXCEPT ![c] = Room(o, u, {}, n)]])
  PROVE  ChatInv' /\ PartiesStay
<1> DEFINE q == Room(o, u, {}, n)
<1>1. /\ q.owner = o /\ q.users = u /\ q.invites = {} /\ q.open = n
      /\ q = [owner |-> q.owner, users |-> q.users, invites |-> q.invites, open |-> q.open]
  BY DEF Room
<1>2. Become([Now EXCEPT !.channel = [channel EXCEPT ![c] = q]])
  OBVIOUS
<1> HIDE DEF q
<1>3. RoomOk(q, c, online)
  BY <1>1 DEF RoomOk
<1> QED
  BY <1>1, <1>2, <1>3, RoomStep

LEMMA ChatStepKeeps ==
  ASSUME PartyInv(Now), ChatInv, ChatStep
  PROVE  ChatInv' /\ PartiesStay
<1> USE NowIs
<1>0. /\ online \subseteq Players /\ None \notin Players
      /\ \A c \in Channels : RoomOk(channel[c], c, online)
      /\ channel = [c \in Channels |-> channel[c]]
  BY PartiesAssumption DEF ChatInv, ChatOk
<1>1. ASSUME NEW p \in Players, PlayerRequestChannels(p) PROVE ChatInv' /\ PartiesStay
  <2> DEFINE c == <<"party", partyOf[p]>>
  <2>1. c \in Channels /\ c[1] # "private"
    BY <1>1, LeaderIs, ChannelIs DEF PlayerRequestChannels
  <2>2. Become(CreateChannel(Now, c, p))
    BY <1>1 DEF PlayerRequestChannels
  <2> HIDE DEF c
  <2>3. [NoChannel EXCEPT !.open = TRUE, !.owner = None] = Room(None, {}, {}, TRUE)
    <3>1. Opened(NoChannel, None) = Room(None, {}, {}, TRUE)
      BY OpenedIs
    <3> QED
      BY <3>1 DEF Opened
  <2>4. CreateChannel(Now, c, p) =
            [Now EXCEPT !.channel = [channel EXCEPT ![c] = Room(None, {}, {}, TRUE)]]
    BY <2>1, <2>3 DEF CreateChannel
  <2>5. Become([Now EXCEPT !.channel = [channel EXCEPT ![c] = Room(None, {}, {}, TRUE)]])
    BY <2>2, <2>4
  <2> QED
    BY <2>1, <2>5, NewRoom
<1>2. ASSUME NEW p \in Players, PlayerCreatePrivateChannel(p) PROVE ChatInv' /\ PartiesStay
  <2>1. PICK i \in PrivateIds :
            Become(AddUser(CreateChannel(Now, <<"private", i>>, p), <<"private", i>>, p))
    BY <1>2 DEF PlayerCreatePrivateChannel
  <2> DEFINE c == <<"private", i>>
             a == [channel EXCEPT ![c] = Room(p, {}, {}, TRUE)]
  <2>2. c \in Channels /\ c[1] = "private"
    BY ChannelIs
  <2>3. p \in online /\ \A d \in Channels : channel[d].owner # p
    BY <1>2 DEF PlayerCreatePrivateChannel
  <2> DEFINE t == AddUser(CreateChannel(Now, c, p), c, p)
  <2>4. Become(t)
    BY <2>1
  <2> HIDE DEF c
  <2>5. [NoChannel EXCEPT !.open = TRUE, !.owner = p] = Room(p, {}, {}, TRUE)
    <3>1. Opened(NoChannel, p) = Room(p, {}, {}, TRUE)
      BY OpenedIs
    <3> QED
      BY <3>1 DEF Opened
  <2>6. CreateChannel(Now, c, p) = [Now EXCEPT !.channel = a]
    BY <2>2, <2>5 DEF CreateChannel
  <2>7. a[c] = Room(p, {}, {}, TRUE)
    BY <1>0, <2>2
  <2>8. t = [[Now EXCEPT !.channel = a] EXCEPT !.channel = [a EXCEPT ![c] = [a[c] EXCEPT !.users = @ \cup {p}]]]
    <3>1. [Now EXCEPT !.channel = a].channel = a
      BY DEF Now
    <3> HIDE DEF a
    <3> QED
      BY <2>6, <3>1 DEF AddUser
  <2>9. [a[c] EXCEPT !.users = @ \cup {p}] = Room(p, {p}, {}, TRUE)
    <3> HIDE DEF a
    <3>1. [a[c] EXCEPT !.users = @ \cup {p}] = Using(a[c], a[c].users \cup {p})
      BY DEF Using
    <3>2. a[c].users = {}
      BY <2>7 DEF Room
    <3>3. a[c].users \cup {p} = {p}
      BY <3>2
    <3>4. Using(Room(p, {}, {}, TRUE), {p}) = Room(p, {p}, {}, TRUE)
      <4> DEFINE none == {}
                 n == TRUE
                 x == {p}
      <4> HIDE DEF none, n, x
      <4>1. Using(Room(p, none, none, n), x) = Room(p, x, none, n)
        BY UsingIs
      <4> QED
        BY <4>1 DEF none, n, x
    <3> QED
      BY <2>7, <3>1, <3>3, <3>4
  <2>10. [a EXCEPT ![c] = Room(p, {p}, {}, TRUE)] = [channel EXCEPT ![c] = Room(p, {p}, {}, TRUE)]
    BY <1>0, <2>2
  <2>11. t = [Now EXCEPT !.channel = [channel EXCEPT ![c] = Room(p, {p}, {}, TRUE)]]
    <3> HIDE DEF t, a
    <3> QED
      BY <2>8, <2>9, <2>10 DEF Now
  <2>12. None \notin {p} /\ p # None
    BY <1>0
  <2> HIDE DEF t
  <2> QED
    BY <2>2, <2>3, <2>4, <2>11, <2>12, NewRoom
<1>3. ASSUME NEW p \in Players, Reconnect(p) PROVE ChatInv' /\ PartiesStay
  <2> DEFINE w == WithoutUser(channel, p)
  <2>0. RemoveUserFromAllChannels(Now, p) = [Now EXCEPT !.channel = w]
    <3>1. RemoveUserFromAllChannels(Now, p) = [Now EXCEPT !.channel = WithoutUser(Now.channel, p)]
      BY DEF RemoveUserFromAllChannels, WithoutUser
    <3> QED
      BY <3>1
  <2> HIDE DEF w
  <2>1. PartiesStay /\ channel' = w /\ online' = online
    BY <1>3, <2>0 DEF Reconnect, Become, PartiesStay, Now
  <2>2. ChatOk(WithoutUser(channel, p), online)
    BY AllRoomsKept DEF ChatInv
  <2> QED
    BY <2>1, <2>2 DEF ChatInv, w
<1>4. ASSUME NEW c \in Channels, NEW p
      PROVE  /\ AddUser(Now, c, p) = Peopled(c, channel[c].users \cup {p}, channel[c].invites)
             /\ RemoveUser(Now, c, p) = Peopled(c, channel[c].users \ {p}, channel[c].invites)
             /\ [Now EXCEPT !.channel[c].invites = @ \cup {p}] =
                    Peopled(c, channel[c].users, channel[c].invites \cup {p})
             /\ RemoveUser([Now EXCEPT !.channel[c].invites = @ \ {p}], c, p) =
                    Peopled(c, channel[c].users \ {p}, channel[c].invites \ {p})
  <2> DEFINE r == channel[c]
  <2>1. r = [owner |-> r.owner, users |-> r.users, invites |-> r.invites, open |-> r.open]
    BY <1>0 DEF RoomOk
  <2> HIDE DEF r
  <2>2. r = Room(r.owner, r.users, r.invites, r.open)
    BY <2>1 DEF Room
  <2>3. AddUser(Now, c, p) = Peopled(c, channel[c].users \cup {p}, channel[c].invites)
    <3>1. Using(r, r.users \cup {p}) = Room(r.owner, r.users \cup {p}, r.invites, r.open)
      BY <2>2, UsingIs, InvitingIs
    <3> QED
      BY <3>1 DEF AddUser, Peopled, Using, r
  <2>4. RemoveUser(Now, c, p) = Peopled(c, channel[c].users \ {p}, channel[c].invites)
    <3>1. Using(r, r.users \ {p}) = Room(r.owner, r.users \ {p}, r.invites, r.open)
      BY <2>2, UsingIs, InvitingIs
    <3> QED
      BY <3>1 DEF RemoveUser, Peopled, Using, r
  <2>5. [Now EXCEPT !.channel[c].invites = @ \cup {p}] =
            Peopled(c, channel[c].users, channel[c].invites \cup {p})
    <3>1. Inviting(r, r.invites \cup {p}) = Room(r.owner, r.users, r.invites \cup {p}, r.open)
      BY <2>2, UsingIs, InvitingIs
    <3> QED
      BY <3>1 DEF Peopled, Inviting, r
  <2>6. RemoveUser([Now EXCEPT !.channel[c].invites = @ \ {p}], c, p) =
            Peopled(c, channel[c].users \ {p}, channel[c].invites \ {p})
    <3> DEFINE e == Room(r.owner, r.users, r.invites \ {p}, r.open)
               g == Room(r.owner, r.users \ {p}, r.invites \ {p}, r.open)
               a == [channel EXCEPT ![c] = e]
    <3>1. [r EXCEPT !.invites = r.invites \ {p}] = e
      <4>1. Inviting(r, r.invites \ {p}) = e
        BY <2>2, UsingIs, InvitingIs
      <4> QED
        BY <4>1 DEF Inviting
    <3>2. [e EXCEPT !.users = r.users \ {p}] = g
      <4>1. Using(e, r.users \ {p}) = g
        BY UsingIs
      <4> QED
        BY <4>1 DEF Using
    <3>3. e.users = r.users
      BY DEF Room
    <3> HIDE DEF e, g
    <3>4. [Now EXCEPT !.channel[c].invites = @ \ {p}] = [Now EXCEPT !.channel = a]
      BY <3>1 DEF r
    <3>5. a[c] = e /\ [a EXCEPT ![c] = g] = [channel EXCEPT ![c] = g]
      BY <1>0
    <3> HIDE DEF a
    <3>6. RemoveUser([Now EXCEPT !.channel = a], c, p) =
             [[Now EXCEPT !.channel = a] EXCEPT !.channel = [a EXCEPT ![c] = [a[c] EXCEPT !.users = @ \ {p}]]]
      <4>1. [Now EXCEPT !.channel = a].channel = a
        BY DEF Now
      <4> QED
        BY <4>1 DEF RemoveUser
    <3>7. [a[c] EXCEPT !.users = @ \ {p}] = g
      BY <3>2, <3>3, <3>5
    <3>8. RemoveUser([Now EXCEPT !.channel = a], c, p) = [Now EXCEPT !.channel = [channel EXCEPT ![c] = g]]
      BY <3>5, <3>6, <3>7 DEF Now
    <3> QED
      BY <3>4, <3>8 DEF Peopled, g, r
  <2> QED
    BY <2>3, <2>4, <2>5, <2>6
<1>5. ASSUME NEW p \in Players, NEW c \in Channels, PlayerOpenChannel(p, c)
      PROVE  ChatInv' /\ PartiesStay
  <2>1. Become(Peopled(c, channel[c].users \cup {p}, channel[c].invites)) /\ p \in online
    BY <1>4, <1>5 DEF PlayerOpenChannel
  <2>2. c[1] = "private" => p \in {channel[c].owner} \cup channel[c].invites
    BY <1>5 DEF PlayerOpenChannel, GetChannel
  <2>3. RoomOk(channel[c], c, online)
    BY <1>0
  <2> QED
    BY <2>1, <2>2, <2>3, PeopleChange DEF RoomOk
<1>6. ASSUME NEW p \in Players, NEW q \in Players, NEW c \in Channels, PlayerChannelInvite(p, q, c)
      PROVE  ChatInv' /\ PartiesStay
  <2>1. Become(Peopled(c, channel[c].users, channel[c].invites \cup {q})) /\ q \in online
    BY <1>4, <1>6 DEF PlayerChannelInvite
  <2>2. RoomOk(channel[c], c, online)
    BY <1>0
  <2> QED
    BY <2>1, <2>2, PeopleChange DEF RoomOk
<1>7. ASSUME NEW p \in Players, NEW q \in Players, NEW c \in Channels, PlayerChannelExclude(p, q, c)
      PROVE  ChatInv' /\ PartiesStay
  <2>1. Become(Peopled(c, channel[c].users \ {q}, channel[c].invites \ {q}))
    BY <1>4, <1>7 DEF PlayerChannelExclude
  <2>2. RoomOk(channel[c], c, online)
    BY <1>0
  <2> QED
    BY <2>1, <2>2, PeopleChange DEF RoomOk
<1>8. ASSUME NEW p \in Players, NEW c \in Channels, PlayerCloseChannel(p, c)
      PROVE  ChatInv' /\ PartiesStay
  <2>0. RoomOk(channel[c], c, online)
    BY <1>0
  <2> DEFINE t == RemoveUserFromChannel(Now, c, p)
  <2>1. Become(t)
    BY <1>8 DEF PlayerCloseChannel
  <2>2. t = Now \/ t = DeleteChannel(Now, c) \/ t = RemoveUser(Now, c, p)
    BY DEF RemoveUserFromChannel
  <2> HIDE DEF t
  <2>3. CASE t = Now
    <3>1. UNCHANGED <<online, channel>> /\ PartiesStay
      BY <2>1, <2>3 DEF Become, PartiesStay
    <3> QED
      BY <3>1 DEF ChatInv
  <2>4. CASE t = DeleteChannel(Now, c)
    <3>1. NoChannel = Room(None, {}, {}, FALSE)
      BY DEF NoChannel, Room
    <3>2. t = [Now EXCEPT !.channel = [channel EXCEPT ![c] = Room(None, {}, {}, FALSE)]]
      BY <2>4, <3>1 DEF DeleteChannel
    <3> QED
      BY <2>1, <3>2, NewRoom
  <2>5. CASE t = RemoveUser(Now, c, p)
    <3>1. Become(Peopled(c, channel[c].users \ {p}, channel[c].invites))
      BY <1>4, <2>1, <2>5
    <3> QED
      BY <2>0, <3>1, PeopleChange DEF RoomOk
  <2> QED
    BY <2>2, <2>3, <2>4, <2>5
<1> QED
  BY <1>1, <1>2, <1>3, <1>5, <1>6, <1>7, <1>8 DEF ChatStep

-----------------------------------------------------------------------------
(* Coming into the game and leaving it.                                    *)
LEMMA EnterGameKeeps ==
  ASSUME PartyInv(Now), ChatInv, NEW p \in Players, Login(p)
  PROVE  PartyInv(Now)' /\ ChatInv'
<1>1. PartiesStay /\ channel' = channel /\ online' = online \cup {p}
  BY DEF Login, Become, PartiesStay, Now
<1>2. ChatOk(channel, online \cup {p})
  BY DEF ChatInv, ChatOk, RoomOk
<1> QED
  BY <1>1, <1>2, StayKeeps DEF ChatInv

LEMMA LeaveGameKeeps ==
  ASSUME PartyInv(Now), ChatInv, NEW p \in Players, Logout(p)
  PROVE  PartyInv(Now)' /\ ChatInv'
<1> DEFINE u == ClearPartyInvitations(Now, p)
           v == IF u.partyOf[p] = None THEN u ELSE LeaveParty(u, u.partyOf[p], p)
           w == WithoutUser(v.channel, p)
           t == [RemoveUserFromAllChannels(v, p) EXCEPT !.online = @ \ {p}]
<1>0. IsState(Now) /\ Related(Now) /\ (\A x \in Players : Formed(Now, x)) /\ Current(Now)
  BY DEF PartyInv
<1>1. PartyInv(u) /\ OnlyParties(Now, u)
  <2>1. AllTaken(Now, u, p)
    BY <1>0, AllAreTaken
  <2> HIDE DEF u
  <2>2. /\ Related(u) /\ \A x \in Players : Formed(u, x)
        /\ \A P \in Parties : CurrentAt(Now.level, Now.place, Now.party[P])
                                => CurrentAt(u.level, u.place, u.party[P])
    BY <1>0, <2>1, TakenKeeps
  <2> QED
    BY <1>0, <2>1, <2>2 DEF PartyInv, Current, AllTaken, OnlyParties
<1>2. Become(t)
  BY DEF Logout
<1> HIDE DEF u
<1>3. PartyInv(v) /\ OnlyParties(Now, v)
  <2>1. CASE u.partyOf[p] = None
    BY <1>1, <2>1
  <2>2. CASE u.partyOf[p] # None
    <3> DEFINE P == u.partyOf[p]
    <3>1. P \in Parties
      BY <1>1, <2>2 DEF PartyInv, IsState
    <3> HIDE DEF P
    <3>2. PartyInv(LeaveParty(u, P, p)) /\ OnlyParties(u, LeaveParty(u, P, p))
      BY <1>1, <3>1, LeavePartyKeeps DEF P
    <3>3. v = LeaveParty(u, P, p)
      BY <2>2 DEF P
    <3> HIDE DEF v
    <3> QED
      BY <1>1, <3>2, <3>3 DEF OnlyParties
  <2> QED
    BY <2>1, <2>2
<1> HIDE DEF v
<1>4. t = [online |-> v.online \ {p}, level |-> v.level, place |-> v.place,
           partyOf |-> v.partyOf, invitedTo |-> v.invitedTo, party |-> v.party, channel |-> w]
  <2>1. v = [online |-> v.online, level |-> v.level, place |-> v.place,
             partyOf |-> v.partyOf, invitedTo |-> v.invitedTo, party |-> v.party,
             channel |-> v.channel]
    BY <1>3 DEF PartyInv, IsState
  <2> DEFINE y == RemoveUserFromAllChannels(v, p)
  <2>2. y = [v EXCEPT !.channel = w]
    BY DEF RemoveUserFromAllChannels, WithoutUser
  <2> HIDE DEF w, y
  <2>3. y = [online |-> v.online, level |-> v.level, place |-> v.place,
             partyOf |-> v.partyOf, invitedTo |-> v.invitedTo, party |-> v.party, channel |-> w]
    BY <2>1, <2>2
  <2>4. t = [y EXCEPT !.online = y.online \ {p}]
    BY DEF y
  <2> HIDE DEF t
  <2> QED
    BY <2>3, <2>4
<1> HIDE DEF t
<1>5. PartyInv(t)
  BY <1>3, <1>4, ApartKeeps
<1>6. IsState(t)
  BY <1>5 DEF PartyInv
<1>7. Now' = t
  BY <1>2, <1>6, BecomeIs
<1>8. PartyInv(Now)'
  <2>1. PartyInv(Now')
    BY <1>5, <1>7
  <2> QED
    BY <2>1 DEF PartyInv, IsState, Related, RelatedAt, Formed, Current
<1>9. v.channel = channel /\ v.online = online
  BY <1>3, NowIs DEF OnlyParties
<1>10. online' = online \ {p} /\ channel' = WithoutUser(channel, p)
  BY <1>2, <1>4, <1>9 DEF Become
<1>11. ChatOk(WithoutUser(channel, p), online \ {p})
  BY AllRoomsKept DEF ChatInv
<1> QED
  BY <1>8, <1>10, <1>11 DEF ChatInv

-----------------------------------------------------------------------------
(* All of it.                                                              *)
PartiesInv == PartyInv(Now) /\ ChatInv

LEMMA PartiesInit ==
  Init => PartiesInv
<1> SUFFICES ASSUME Init PROVE PartiesInv
  OBVIOUS
<1> USE NowIs
<1>0. None \notin Players /\ None \notin Parties
  BY PartiesAssumption
<1>1. IsParty(Freed)
  BY EmptySeq DEF IsParty, Freed, IsList, IsInjective
<1>2. IsState(Now)
  <2>1. /\ level = [p \in Players |-> level[p]] /\ place = [p \in Players |-> place[p]]
        /\ partyOf \in [Players -> Parties \cup {None}]
        /\ invitedTo \in [Players -> SUBSET Parties]
        /\ party = [P \in Parties |-> party[P]] /\ \A P \in Parties : party[P] = Freed
    BY DEF Init
  <2>2. Now = [online |-> Now.online, level |-> Now.level, place |-> Now.place,
               partyOf |-> Now.partyOf, invitedTo |-> Now.invitedTo, party |-> Now.party,
               channel |-> Now.channel]
    BY DEF Now
  <2> QED
    BY <1>1, <2>1, <2>2 DEF IsState
<1>3. \A P \in Parties : Now.party[P] = Freed
  BY DEF Init
<1>4. Related(Now)
  <2>1. Crew(Freed) = {None}
    BY FreedIs DEF Crew
  <2>2. \A p \in Players : Now.partyOf[p] = None /\ Now.invitedTo[p] = {}
    BY DEF Init
  <2> QED
    BY <1>0, <1>3, <2>1, <2>2, FreedIs DEF Related, RelatedAt
<1>5. (\A p \in Players : Formed(Now, p)) /\ Current(Now)
  BY <1>3, FreedIs DEF Formed, Current, CurrentAt
<1>6. ChatInv
  <2>1. online = Players /\ channel = [c \in Channels |-> channel[c]]
    BY DEF Init
  <2>2. ASSUME NEW c \in Channels
        PROVE  channel[c].owner = None /\ RoomOk(channel[c], c, online)
    <3> DEFINE n == c[1] = "public"
               r == channel[c]
    <3>1. r = [NoChannel EXCEPT !.open = n]
      BY DEF Init
    <3>2. c[1] = "private" => n = FALSE
      OBVIOUS
    <3> HIDE DEF n, r
    <3>3. r = [owner |-> None, users |-> {}, invites |-> {}, open |-> n]
      BY <3>1 DEF NoChannel
    <3> QED
      BY <3>2, <3>3 DEF RoomOk, r
  <2> QED
    BY <2>1, <2>2 DEF ChatInv, ChatOk, OneRoomEach
<1> QED
  BY <1>2, <1>4, <1>5, <1>6 DEF PartiesInv, PartyInv

LEMMA PartiesStep ==
  PartiesInv /\ [Next]_vars => PartiesInv'
<1> SUFFICES ASSUME PartiesInv, [Next]_vars PROVE PartiesInv'
  OBVIOUS
<1>0. PartyInv(Now) /\ ChatInv
  BY DEF PartiesInv
<1>1. CASE PartyStep
  <2>1. PICK p \in Players, q \in Players :
            \/ PlayerInviteToParty(p, q) \/ PlayerJoinParty(p, q)
            \/ PlayerRevokePartyInvitation(p, q) \/ PlayerPassPartyLeadership(p, q)
            \/ PlayerLeaveParty(p) \/ Login(p) \/ Logout(p)
    BY <1>1 DEF PartyStep
  <2>2. CASE Login(p) \/ Logout(p)
    BY <1>0, <2>2, EnterGameKeeps, LeaveGameKeeps DEF PartiesInv
  <2>3. CASE ~ (Login(p) \/ Logout(p))
    <3>1. Kept
      BY <1>0, <2>1, <2>3, PartyStepKeeps
    <3> QED
      BY <1>0, <3>1 DEF Kept, PartiesInv, ChatInv
  <2> QED
    BY <2>2, <2>3
<1>2. CASE SharingStep
  <2>1. Kept
    BY <1>0, <1>2, SharingStepKeeps
  <2> QED
    BY <1>0, <2>1 DEF Kept, PartiesInv, ChatInv
<1>3. CASE ChatStep
  BY <1>0, <1>3, ChatStepKeeps, StayKeeps DEF PartiesInv
<1>4. CASE UNCHANGED vars
  <2>1. PartiesStay /\ UNCHANGED <<online, channel>>
    BY <1>4 DEF vars, PartiesStay
  <2> QED
    BY <1>0, <2>1, StayKeeps DEF PartiesInv, ChatInv
<1> QED
  BY <1>1, <1>2, <1>3, <1>4 DEF Next

LEMMA PartiesHold ==
  PartiesInv => Membership /\ SharingIsCurrent /\ ChannelsAreClean
<1> SUFFICES ASSUME PartiesInv PROVE Membership /\ SharingIsCurrent /\ ChannelsAreClean
  OBVIOUS
<1> USE NowIs
<1>0. /\ IsState(Now) /\ Related(Now) /\ (\A p \in Players : Formed(Now, p)) /\ Current(Now)
      /\ ChatInv /\ None \notin Players /\ None \notin Parties
  BY PartiesAssumption DEF PartiesInv, PartyInv
<1>1. \A P \in Parties : RelatedAt(Now, P) /\ IsParty(party[P])
  BY <1>0 DEF Related, IsState
<1>2. Membership
  <2>1. ASSUME NEW p \in Players, NEW P \in Parties
        PROVE  /\ partyOf[p] = P <=> p = party[P].leader \/ p \in ToSet(party[P].members)
               /\ P \in invitedTo[p] <=> p \in party[P].invites
               /\ p \in ToSet(party[P].members) => invitedTo[p] = {}
               /\ p = party[P].leader /\ party[P].members # <<>> => invitedTo[p] = {}
    <3>1. p \in ToSet(party[P].members) => party[P].members # <<>>
      BY <1>1, NoMember DEF IsParty, IsList
    <3>2. Formed(Now, p)
      BY <1>0
    <3> QED
      BY <1>1, <3>1, <3>2 DEF RelatedAt, Formed, Crew
  <2>2. ASSUME NEW P \in Parties
        PROVE  /\ party[P] # Freed => party[P].leader # None /\ ~ IsEmpty(Now, P)
               /\ party[P].leader \notin ToSet(party[P].members)
               /\ IsInjective(party[P].members)
    <3>1. RelatedAt(Now, P) /\ IsList(party[P].members)
      BY <1>1 DEF IsParty
    <3>2. IsInjective(party[P].members)
      BY <3>1 DEF IsList
    <3>3. IsEmpty(Now, P) <=> party[P].members = <<>> /\ party[P].invites = {}
      BY DEF IsEmpty
    <3> QED
      BY <1>0, <3>1, <3>2, <3>3 DEF RelatedAt
  <2> QED
    BY <2>1, <2>2 DEF Membership
<1>3. SharingIsCurrent
  <2> SUFFICES ASSUME NEW P \in Parties, party[P].active
               PROVE  /\ party[P].enabled => \A p \in Crew(party[P]) : Fits(Now, P, p)
                      /\ GetSharedExperienceStatus(Now, P) => party[P].enabled
    BY DEF SharingIsCurrent, Crew
  <2>1. CurrentAt(level, place, party[P])
    BY <1>0 DEF Current
  <2>2. \A p : Fits(Now, P, p) <=> FitsIn(level, place, party[P].leader, party[P].members, p)
    BY FitsIs
  <2>3. GetSharedExperienceStatus(Now, P) <=>
            \A p \in Crew(party[P]) :
                FitsIn(level, place, party[P].leader, party[P].members, p) /\ p \in party[P].ticks
    BY StatusIs
  <2> QED
    BY <2>1, <2>2, <2>3 DEF CurrentAt
<1>4. ChannelsAreClean
  BY <1>0 DEF ChannelsAreClean, ChatInv, ChatOk, RoomOk, OneRoomEach
<1> QED
  BY <1>2, <1>3, <1>4

(* Whatever players do in parties and channels.                            *)
THEOREM PartiesInvariant == MCSpec => []PartiesInv
<1>1. MCInit => PartiesInv
  BY PartiesInit DEF MCInit
<1>2. PartiesInv /\ [MCNext]_<<vars, scene, fights, homes>> => PartiesInv'
  <2> SUFFICES ASSUME PartiesInv, [MCNext]_<<vars, scene, fights, homes>> PROVE PartiesInv'
    OBVIOUS
  <2>1. [Next]_vars
    BY DEF MCNext, InParty
  <2> QED
    BY <2>1, PartiesStep
<1> QED
  BY <1>1, <1>2, PTL DEF MCSpec

(* Both sides agree on who is in a party and who is invited, and whether   *)
(* it shares experience is decided on what holds now (party.cpp:60, :320). *)
THEOREM PartiesStayAgreed == MCSpec => []PartiesAgree
<1>1. PartiesInv => PartiesAgree
  BY PartiesHold DEF PartiesAgree
<1> QED
  BY <1>1, PartiesInvariant, PTL

(* A channel holds players who are in the game only, and a private one has *)
(* one owner, who owns no other (chat.cpp:311, :426).                      *)
THEOREM ChannelsStayClean == MCSpec => []ChannelsAreClean
<1>1. PartiesInv => ChannelsAreClean
  BY PartiesHold
<1> QED
  BY <1>1, PartiesInvariant, PTL
=============================================================================
