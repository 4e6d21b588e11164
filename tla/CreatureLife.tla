----------------------------- MODULE CreatureLife -----------------------------
(***************************************************************************)
(* The life of creatures: placing, seeing, moving, fighting, dying and     *)
(* removing them, their masters and summons, the lists of monsters, the    *)
(* list the server thinks through, and a spawn (src/src/creature.cpp,      *)
(* monster.cpp, spawn.cpp, game.cpp).                                      *)
(*                                                                         *)
(* A creature is deleted when its reference counter falls to zero.  Some   *)
(* pointers to creatures count: those of the map, of the list of checks,   *)
(* of followers, summons, and the target and friend lists.  Others do not: *)
(* attackedCreature, followCreature and master; they are good only because *)
(* whoever has one is told when the creature goes.                         *)
(*                                                                         *)
(* Places lie on a line.  A creature sees those at most View away, and     *)
(* those are its spectators.  Every object lives once; nothing is          *)
(* invisible, and no condition keeps a monster awake.  The reference that  *)
(* a tile takes and releases when a creature steps on it is left out: it   *)
(* is gone at the next cleanup, as the one the map had of a removed one.   *)
(***************************************************************************)
EXTENDS Integers, FiniteSets, FiniteSetsExt, SequencesExt

CONSTANTS
    Players,
    Wild,              \* the monsters a spawn makes
    Called,            \* those that are summoned
    Places,            \* 0 .. some number
    View,              \* how far creatures see each other
    FollowRange,       \* how far away a follower is forgotten
    SummonRange,       \* how far from its master a summon may be
    SpawnPlace, SpawnRange,
    Despawn,           \* what becomes of a strayed monster: "overspawn", "remove"
    MaxActs            \* bound: moves, orders and blows

ASSUME CreatureLifeAssumption ==
    /\ Players \cap (Wild \cup Called) = {}
    /\ SpawnPlace \in Places
    /\ Despawn \subseteq {"overspawn", "remove", "return"}
    /\ MaxActs \in Nat
    /\ View \in Nat /\ SummonRange \in Nat /\ SpawnRange \in Nat

Monsters == Wild \cup Called
Creatures == Players \cup Monsters
CONSTANT NoOne         \* a null pointer

VARIABLES
    state,      \* "new", "placed", "removed" (isInternalRemoved) or "deleted"
    place,      \* position, kept by a removed creature
    dead,       \* no health left
    refs,       \* referenceCounter
    pending,    \* how often it is in ToReleaseCreatures
    listed,     \* inCheckCreaturesVector
    check,      \* creatureCheck
    attacked, follow, master,
    followers, summons, targets, friends,
    deaths,     \* the creatures whose death is a task of the dispatcher
    spawned,    \* the monster in Spawn::spawnedMap, or NoOne
    spawn,      \* Monster::spawn
    respawn,    \* whether checkSpawnEvent is set
    acts        \* how many moves, orders and blows there were

vars == <<state, place, dead, refs, pending, listed, check, attacked, follow, master,
          followers, summons, targets, friends, deaths, spawned, spawn, respawn, acts>>

Now == [state |-> state, place |-> place, dead |-> dead, refs |-> refs,
        pending |-> pending, listed |-> listed, check |-> check, attacked |-> attacked,
        follow |-> follow, master |-> master, followers |-> followers,
        summons |-> summons, targets |-> targets, friends |-> friends,
        deaths |-> deaths, spawned |-> spawned, spawn |-> spawn, respawn |-> respawn]

Distance(p, q) == IF p < q THEN q - p ELSE p - q
CanSee(s, c, d) == Distance(s.place[c], s.place[d]) <= View
Placed(s, c) == s.state[c] = "placed"
Spectators(s, p) == {c \in Creatures : Placed(s, c) /\ Distance(s.place[c], p) <= View}

(* One thing after another for every creature of a set.                    *)
Order == SetToSeq(Creatures)
ForAll(op(_, _), s, set) ==
    LET step[n \in 0..Len(Order)] ==
            IF n = 0 THEN s
            ELSE LET r == step[n - 1]
                 IN IF Order[n] \in set THEN op(r, Order[n]) ELSE r
    IN IF set = {} THEN s ELSE step[Len(Order)]

-----------------------------------------------------------------------------
(* References.                                                             *)

Inc(s, c) == [s EXCEPT !.refs[c] = @ + 1]
DecAll(s, set) == [s EXCEPT !.refs = [c \in Creatures |-> @[c] - (IF c \in set THEN 1 ELSE 0)]]
Release(s, c) == [s EXCEPT !.pending[c] = @ + 1]

(* ~Creature and ~Monster.                                                 *)
Delete(s, c) ==
    LET left == s.summons[c]
        orphans == {m \in left : s.master[m] # NoOne}
        gone == DecAll(DecAll(DecAll(s, orphans), s.targets[c]), s.friends[c])
    IN [gone EXCEPT !.state[c] = "deleted", !.place[c] = SpawnPlace, !.dead[c] = FALSE,
                     !.targets[c] = {}, !.friends[c] = {},
                    !.summons[c] = {}, !.followers[c] = {},
                    !.attacked = [x \in Creatures |-> IF x \in left \cup {c} THEN NoOne ELSE @[x]],
                    !.follow[c] = NoOne,
                    !.master = [x \in Creatures |-> IF x \in left \cup {c} THEN NoOne ELSE @[x]],
                    !.check[c] = FALSE]

DeleteUnreferenced(s) ==
    LET unreferenced(r) == {c \in Creatures : r.refs[c] = 0 /\ r.state[c] \in {"placed", "removed"}}
        step[n \in 0..Cardinality(Creatures)] ==
            IF n = 0 THEN s
            ELSE LET r == step[n - 1]
                     zero == unreferenced(r)
                 IN IF zero = {} THEN r ELSE ForAll(Delete, r, zero)
    IN IF unreferenced(s) = {} THEN s ELSE step[Cardinality(Creatures)]

(* What follows an event is the state with all unreferenced creatures      *)
(* deleted.                                                                *)
Become(event) ==
    LET assign(s) ==
            /\ state' = s.state /\ place' = s.place /\ dead' = s.dead /\ refs' = s.refs
            /\ pending' = s.pending /\ listed' = s.listed /\ check' = s.check
            /\ attacked' = s.attacked /\ follow' = s.follow /\ master' = s.master
            /\ followers' = s.followers /\ summons' = s.summons
            /\ targets' = s.targets /\ friends' = s.friends /\ deaths' = s.deaths
            /\ spawned' = s.spawned /\ spawn' = s.spawn /\ respawn' = s.respawn
    IN assign(DeleteUnreferenced(event))

(* Game::cleanup.                                                          *)
Cleanup(s) ==
    [s EXCEPT !.refs = [c \in Creatures |-> @[c] - s.pending[c]],
              !.pending = [c \in Creatures |-> 0]]

AddCreatureCheckMutant(s, c) ==         \* a listed one is not woken
    IF s.listed[c] THEN s ELSE Inc([s EXCEPT !.check[c] = TRUE, !.listed[c] = TRUE], c)

AddCreatureCheck(s, c) ==
    IF s.listed[c] THEN [s EXCEPT !.check[c] = TRUE]
    ELSE Inc([s EXCEPT !.check[c] = TRUE, !.listed[c] = TRUE], c)

RemoveCreatureCheck(s, c) == IF s.listed[c] THEN [s EXCEPT !.check[c] = FALSE] ELSE s

(* Creature::setMaster.                                                    *)
SetMaster(s, m, new) ==
    LET old == s.master[m]
        joined == IF new = NoOne \/ m \in s.summons[new] THEN s
                  ELSE Inc([s EXCEPT !.summons[new] = @ \cup {m}], m)
        named == [joined EXCEPT !.master[m] = new]
    IN IF old # NoOne /\ old # new /\ m \in named.summons[old]
       THEN DecAll([named EXCEPT !.summons[old] = @ \ {m}], {m})
       ELSE named

(* Creature::addFollower.                                                  *)
AddFollower(s, c, x) ==
    IF x \in s.followers[c] THEN s ELSE Inc([s EXCEPT !.followers[c] = @ \cup {x}], x)

-----------------------------------------------------------------------------
(* The lists of a monster.                                                 *)

IsSummon(s, m) == s.master[m] # NoOne

IsFriend(s, m, c) ==
    IF s.master[m] \in Players
    THEN c = s.master[m] \/ (c \in Monsters /\ s.master[c] = s.master[m])
    ELSE c \in Monsters /\ ~ IsSummon(s, c)

IsOpponent(s, m, c) ==
    IF s.master[m] \in Players THEN c # s.master[m]
    ELSE c \in Players \/ s.master[c] \in Players

ClearLists(s, m) ==
    [DecAll(DecAll(s, s.targets[m]), s.friends[m]) EXCEPT !.targets[m] = {}, !.friends[m] = {}]

SetIdle(s, m, idle) ==
    IF s.state[m] = "removed" \/ s.dead[m] THEN s
    ELSE IF idle THEN RemoveCreatureCheck(ClearLists(s, m), m)
    ELSE AddCreatureCheck(s, m)

UpdateIdleStatus(s, m) == SetIdle(s, m, ~ IsSummon(s, m) /\ s.targets[m] = {})

OnCreatureFound(s, m, c) ==
    LET befriended == IF IsFriend(s, m, c) /\ c \notin s.friends[m]
                      THEN Inc([s EXCEPT !.friends[m] = @ \cup {c}], c) ELSE s
        targeted == IF IsOpponent(s, m, c) /\ c \notin s.targets[m]
                    THEN Inc([befriended EXCEPT !.targets[m] = @ \cup {c}], c) ELSE befriended
    IN IF CanSee(s, m, c) THEN UpdateIdleStatus(targeted, m) ELSE s

OnCreatureLeave(s, m, c) ==
    LET unfriended == IF IsFriend(s, m, c) /\ c \in s.friends[m]
                      THEN DecAll([s EXCEPT !.friends[m] = @ \ {c}], {c}) ELSE s
        untargeted == IF c \in unfriended.targets[m]
                      THEN DecAll([unfriended EXCEPT !.targets[m] = @ \ {c}], {c})
                      ELSE unfriended
    IN IF IsOpponent(s, m, c) THEN UpdateIdleStatus(untargeted, m) ELSE unfriended

UpdateTargetList(s, m) ==
    LET lost == {c \in Creatures : s.dead[c] \/ ~ CanSee(s, m, c)}
        kept == [DecAll(DecAll(s, s.targets[m] \cap lost), s.friends[m] \cap lost)
                    EXCEPT !.targets[m] = @ \ lost, !.friends[m] = @ \ lost]
    IN ForAll(LAMBDA r, c : OnCreatureFound(r, m, c), kept,
              Spectators(s, s.place[m]) \ {m})

-----------------------------------------------------------------------------
(* Attacking and following.                                                *)

(* removeAttackedCreature, which the summons obey.                         *)
RemoveAttackedCreature(s, x) ==
    LET obey == {x} \cup s.summons[x] \cup UNION {s.summons[m] : m \in s.summons[x]}
    IN [s EXCEPT !.attacked = [c \in Creatures |-> IF c \in obey THEN NoOne ELSE @[c]],
                 !.follow[x] = IF x \in Players THEN NoOne ELSE @]

SetFollowCreature(s, x, c) ==
    IF s.follow[x] = c THEN s
    ELSE IF ~ CanSee(s, x, c)
    THEN LET lost == [s EXCEPT !.follow[x] = NoOne]
         IN IF x \in Players THEN RemoveAttackedCreature(lost, x) ELSE lost
    ELSE AddFollower([s EXCEPT !.follow[x] = c], c, x)

SetAttacked(s, x, c) ==
    IF s.attacked[x] = c THEN s
    ELSE IF ~ CanSee(s, x, c) THEN RemoveAttackedCreature(s, x)
    ELSE AddFollower([s EXCEPT !.attacked[x] = c], c, x)

(* setAttackedCreature; the summons attack the same, and a player who      *)
(* chases follows it.                                                      *)
SetAttackedCreature(s, x, c, chase) ==
    LET sent(r) == ForAll(LAMBDA q, m : SetAttacked(q, m, c), r, s.summons[x])
        chased(r) == CASE x \notin Players -> r
                       [] x \in Players /\ chase -> SetFollowCreature(r, x, c)
                       [] OTHER -> [r EXCEPT !.follow[x] = NoOne]
        aimed(r) == IF r.attacked[x] = c THEN chased(sent(r)) ELSE r
    IN IF s.attacked[x] = c THEN s ELSE aimed(SetAttacked(s, x, c))

SelectTarget(s, m, c) ==
    IF ~ Placed(s, c) \/ c \notin s.targets[m] \/ ~ CanSee(s, m, c) THEN s
    ELSE SetFollowCreature(SetAttackedCreature(s, m, c, FALSE), m, c)

(* Creature::onCreatureDisappear.                                          *)
OnCreatureDisappear(s, x, c) ==
    LET disarmed == IF s.attacked[x] = c THEN RemoveAttackedCreature(s, x) ELSE s
    IN IF disarmed.follow[x] = c THEN [disarmed EXCEPT !.follow[x] = NoOne] ELSE disarmed

-----------------------------------------------------------------------------
(* Placing and removing.                                                   *)

OnCreatureAppear(s, x, c) ==
    CASE x \in Players -> s
      [] x = c -> UpdateIdleStatus(UpdateTargetList(s, c), c)
      [] OTHER -> OnCreatureFound(s, x, c)

PlaceCreature(s, c, p) ==
    LET there == Inc([s EXCEPT !.state[c] = "placed", !.place[c] = p], c)
        seen == ForAll(LAMBDA r, x : OnCreatureAppear(r, x, c), there, Spectators(there, p))
    IN AddCreatureCheck(seen, c)

OnRemoveCreatureMutant(s, x, c) ==       \* the attacked creature is not forgotten
    CASE x = c /\ x \in Monsters ->
            SetIdle([s EXCEPT !.respawn = @ \/ s.spawn[c]], c, TRUE)
      [] x # c /\ x \in Monsters -> OnCreatureLeave(s, x, c)
      [] OTHER -> s

OnRemoveCreature(s, x, c) ==
    LET own(told) == SetIdle([told EXCEPT !.respawn = @ \/ s.spawn[c]], c, TRUE)
        others(told) == IF x = c THEN own(told) ELSE OnCreatureLeave(told, x, c)
    IN IF x \in Players THEN OnCreatureDisappear(s, x, c)
       ELSE others(OnCreatureDisappear(s, x, c))

(* Game::removeCreature, but for the summons.                              *)
RemoveOne(s, c) ==
    LET released == DecAll(s, s.followers[c])
        freed(told) == IF told.master[c] # NoOne /\ told.state[told.master[c]] # "removed"
                       THEN SetMaster(told, c, NoOne) ELSE told
        gone(r) == RemoveCreatureCheck(Release([r EXCEPT !.state[c] = "removed"], c), c)
    IN IF ~ Placed(s, c) THEN s
       ELSE gone(freed(ForAll(LAMBDA r, x : OnRemoveCreature(r, x, c), released,
                              Spectators(s, s.place[c]))))

RemoveCreatureMutant(s, c) == RemoveOne(s, c)       \* summons stay

RemoveCreature(s, c) ==
    LET without(r, x, todo) == [s |-> r, todo |-> SetToSeq(r.summons[x]) \o todo]
        next(r) == IF r.todo = <<>> THEN r
                   ELSE without(RemoveOne(r.s, Head(r.todo)), Head(r.todo), Tail(r.todo))
        step[n \in 0..Cardinality(Creatures)] ==
            IF n = 0 THEN [s |-> s, todo |-> <<c>>] ELSE next(step[n - 1])
    IN step[Cardinality(Creatures)].s

-----------------------------------------------------------------------------
(* Moving.                                                                 *)

(* Creature::onCreatureMove and Monster::onCreatureMove of the creature x  *)
(* that sees c go from one place to another.                               *)
LoseSight(s, x, c) ==
    LET lost(r, y) == y # NoOne /\ c \in {x, y} /\ ~ CanSee(r, x, y)
        lose(r, y) == IF lost(r, y) THEN OnCreatureDisappear(r, x, y) ELSE r
        unfollowed(r) == lose(r, r.attacked[x])
    IN unfollowed(lose(s, s.follow[x]))

SeeMove(s, x, c, from) ==
    LET saw == Distance(s.place[x], from) <= View
        sees == CanSee(s, x, c)
        choose(r) == IF /\ ~ IsSummon(r, x) /\ r.follow[x] = NoOne
                        /\ IsOpponent(r, x, c)
                     THEN SelectTarget(r, x, c) ELSE r
        noticed == CASE sees /\ ~ saw -> OnCreatureFound(s, x, c)
                     [] saw /\ ~ sees -> OnCreatureLeave(s, x, c)
                     [] OTHER -> s
    IN choose(UpdateIdleStatus(noticed, x))

OnCreatureMove(s, x, c, from) ==
    LET far == IF x = c THEN {m \in s.summons[c] : Distance(s.place[c], s.place[m]) > SummonRange}
               ELSE {}
        monster(r) == IF x = c THEN UpdateIdleStatus(UpdateTargetList(r, x), x)
                      ELSE SeeMove(r, x, c, from)
        seen(r) == IF x \in Players THEN r ELSE monster(r)
    IN seen(LoseSight(ForAll(RemoveCreature, s, far), x, c))

(* Map::moveCreature: those who see it at either end are told.             *)
MoveCreature(s, c, to) ==
    LET from == s.place[c]
        there == [s EXCEPT !.place[c] = to]
        watching == (Spectators(s, from) \cup Spectators(there, to)) \ {c}
    IN ForAll(LAMBDA r, x : OnCreatureMove(r, x, c, from),
              OnCreatureMove(there, c, c, from), watching)

RemoveFollowersMutant(s, c) ==          \* the references stay
    [s EXCEPT !.followers[c] = {x \in @ : Distance(s.place[x], s.place[c]) < FollowRange}]

(* Creature::removeFollowers at the end of a walk.                         *)
RemoveFollowers(s, c) ==
    LET far == {x \in s.followers[c] : Distance(s.place[x], s.place[c]) >= FollowRange}
    IN DecAll([s EXCEPT !.followers[c] = @ \ far], far)

-----------------------------------------------------------------------------
(* Thinking and dying.                                                     *)

(* Creature::onThink.                                                      *)
LookAround(s, x) ==
    LET lost(r, c) == c # NoOne /\ c # r.master[x] /\ ~ CanSee(r, x, c)
        r1 == IF lost(s, s.follow[x]) THEN OnCreatureDisappear(s, x, s.follow[x]) ELSE s
    IN IF lost(r1, r1.attacked[x]) THEN OnCreatureDisappear(r1, x, r1.attacked[x]) ELSE r1

InSpawnRange(s, m) == ~ s.spawn[m] \/ Distance(s.place[m], SpawnPlace) <= SpawnRange

(* Spawn::removeMonster, and startSpawnCheck, for a monster that strayed.  *)
Overspawn(s, m) ==
    LET left == [s EXCEPT !.spawn[m] = FALSE, !.respawn = TRUE]
    IN IF s.spawned = m THEN DecAll([left EXCEPT !.spawned = NoOne], {m}) ELSE left

Strayed(s, m, how) ==
    CASE how = "overspawn" -> Overspawn(s, m)
      [] how = "remove" -> RemoveCreature(s, m)
      [] how = "return" -> SetIdle(MoveCreature(s, m, SpawnPlace), m, TRUE)

(* A summon does what its master does, or goes after it.                   *)
Serve(s, m) ==
    LET a == s.attacked[m]
        b == s.attacked[s.master[m]]
    IN CASE a = NoOne /\ b # NoOne -> SelectTarget(s, m, b)
         [] a = NoOne /\ b = NoOne -> SetFollowCreature(s, m, s.master[m])
         [] a = m -> [s EXCEPT !.follow[m] = NoOne]
         [] OTHER -> SetFollowCreature(s, m, a)

SummonAt(s, x, c) == SetMaster(PlaceCreature(s, c, s.place[x]), c, x)

(* What Monster::searchTarget may find, and the summons it may make when   *)
(* it follows somebody: choices.                                           *)
SearchTarget(s, m) == s.targets[m] \cup {NoOne}

OnThinkDefense(s, m, summon) ==
    IF summon # NoOne /\ ~ IsSummon(s, m) /\ s.follow[m] # NoOne THEN SummonAt(s, m, summon) ELSE s

(* Monster::onThink.                                                       *)
MonsterThink(s, m, how, target, summon) ==
    LET awake == UpdateIdleStatus(s, m)
        acted == CASE IsSummon(awake, m) -> Serve(awake, m)
                   [] ~ IsSummon(awake, m) /\ target # NoOne -> SelectTarget(awake, m, target)
                   [] OTHER -> awake
    IN IF ~ InSpawnRange(s, m) THEN Strayed(s, m, how)
       ELSE IF ~ awake.check[m] THEN awake
       ELSE OnThinkDefense(acted, m, summon)

Think(s, x, how, target, summon) ==
    IF x \in Players THEN LookAround(s, x)
    ELSE MonsterThink(LookAround(s, x), x, how, target, summon)

(* Monster::changeHealth to nothing left.                                  *)
Kill(s, c) ==
    LET stirred == IF c \in Monsters THEN SetIdle(s, c, FALSE) ELSE s
    IN [stirred EXCEPT !.dead[c] = TRUE, !.deaths = @ \cup {c}]

(* Monster::death: its summons are killed and let go.                      *)
MonsterDeath(s, m) ==
    LET killed == ForAll(Kill, RemoveAttackedCreature(s, m), s.summons[m])
        owned == {x \in s.summons[m] : killed.master[x] # NoOne}
        alone == [DecAll(killed, owned) EXCEPT
                     !.master = [x \in Creatures |-> IF x \in owned THEN NoOne ELSE @[x]],
                     !.summons[m] = {}]
    IN ClearLists(alone, m)

OnDeath(s, c) ==
    LET died == IF c \in Monsters THEN MonsterDeath(s, c) ELSE s
    IN RemoveCreature(SetMaster(died, c, NoOne), c)

-----------------------------------------------------------------------------

Init ==
    /\ state = [c \in Creatures |-> "new"] /\ place = [c \in Creatures |-> SpawnPlace]
    /\ dead = [c \in Creatures |-> FALSE]
    /\ refs = [c \in Creatures |-> 0] /\ pending = [c \in Creatures |-> 0]
    /\ listed = [c \in Creatures |-> FALSE] /\ check = [c \in Creatures |-> FALSE]
    /\ attacked = [c \in Creatures |-> NoOne] /\ follow = [c \in Creatures |-> NoOne]
    /\ master = [c \in Creatures |-> NoOne]
    /\ followers = [c \in Creatures |-> {}] /\ summons = [c \in Creatures |-> {}]
    /\ targets = [c \in Creatures |-> {}] /\ friends = [c \in Creatures |-> {}]
    /\ deaths = {} /\ spawned = NoOne /\ spawn = [c \in Creatures |-> FALSE]
    /\ respawn = TRUE /\ acts = 0

Act == acts < MaxActs /\ acts' = acts + 1

(* A player enters the world.                                              *)
Login(p, at) == UNCHANGED acts /\ state[p] = "new" /\ Become(PlaceCreature(Now, p, at))

(* Spawn::checkSpawn.                                                      *)
SpawnMonster(s, c) ==
    LET appeared == PlaceCreature(s, c, SpawnPlace)
    IN Inc([appeared EXCEPT !.spawn[c] = TRUE, !.spawned = c], c)

SpawnCleanup(s) ==
    IF s.spawned # NoOne /\ s.state[s.spawned] = "removed"
    THEN DecAll([s EXCEPT !.spawned = NoOne], {s.spawned}) ELSE s

CheckSpawn ==
    /\ UNCHANGED acts /\ respawn
    /\ \E c \in {m \in Wild : state[m] = "new"} \cup {NoOne} :
          LET tidy == SpawnCleanup(Now)
              blocked == \/ c = NoOne \/ tidy.spawned # NoOne
                         \/ Spectators(tidy, SpawnPlace) \cap Players # {}
              after == IF blocked THEN tidy ELSE SpawnMonster(tidy, c)
          IN Become([after EXCEPT !.respawn = after.spawned = NoOne])

(* A script summons a monster or gives a monster in sight another master.  *)
ScriptSummon(p, c) ==
    /\ UNCHANGED acts /\ state[p] = "placed" /\ ~ dead[p] /\ state[c] = "new"
    /\ Become(SummonAt(Now, p, c))

ScriptSetMaster(m, p) ==
    /\ Act /\ state[m] = "placed" /\ state[p] = "placed" /\ ~ dead[m] /\ ~ dead[p]
    /\ CanSee(Now, p, m) /\ summons[m] = {} /\ master[m] # p
    /\ Become(SetMaster(Now, m, p))

(* Creature::onWalk to a neighbouring place, and a teleport.               *)
Walk(c, to) ==
    /\ Act /\ state[c] = "placed" /\ ~ dead[c] /\ Distance(place[c], to) = 1
    /\ Become(RemoveFollowers(MoveCreature(Now, c, to), c))

Teleport(c, to) ==
    /\ Act /\ state[c] = "placed" /\ to # place[c]
    /\ Become(MoveCreature(Now, c, to))

(* A player chooses whom to attack or to follow, or nobody.                *)
Attack(p, c, chase) ==
    /\ Act /\ state[p] = "placed" /\ c # p
    /\ IF c = NoOne THEN Become(RemoveAttackedCreature(Now, p))
       ELSE state[c] = "placed" /\ Become(SetAttackedCreature(Now, p, c, chase))

Follow(p, c) ==
    /\ Act /\ state[p] = "placed" /\ c # p
    /\ LET free == RemoveAttackedCreature(Now, p)
       IN IF c = NoOne THEN Become([free EXCEPT !.follow[p] = NoOne])
          ELSE state[c] = "placed" /\ Become(SetFollowCreature(free, p, c))

(* The last blow, and the task it leaves.                                  *)
Hit(c) == Act /\ state[c] = "placed" /\ c \notin deaths /\ Become(Kill(Now, c))

ExecuteDeath(c) ==
    /\ UNCHANGED acts /\ c \in deaths
    /\ LET done == [Now EXCEPT !.deaths = @ \ {c}]
       IN IF state[c] = "placed" THEN Become(OnDeath(done, c)) ELSE Become(done)

(* Game::removeCreature by a logout or a script.                           *)
LogOut(c) == Act /\ state[c] = "placed" /\ Become(RemoveCreature(Now, c))

(* Game::checkCreatures for one creature of a list.                        *)
CheckCreatures(c) ==
    /\ UNCHANGED acts /\ listed[c]
    /\ \E how \in Despawn, target \in SearchTarget(Now, c),
          summon \in {m \in Called : state[m] = "new"} \cup {NoOne} :
          LET thought == IF dead[c] THEN Now ELSE Think(Now, c, how, target, summon)
              unlisted == Release([Now EXCEPT !.listed[c] = FALSE], c)
          IN Become(Cleanup(IF check[c] THEN thought ELSE unlisted))

Next ==
    \/ \E p \in Players, at \in Places : Login(p, at)
    \/ CheckSpawn
    \/ \E p \in Players, m \in Monsters :
          (m \in Called /\ ScriptSummon(p, m)) \/ ScriptSetMaster(m, p)
    \/ \E c \in Creatures, to \in Places : Walk(c, to) \/ Teleport(c, to)
    \/ \E p \in Players, c \in Creatures \cup {NoOne} :
          Follow(p, c) \/ \E chase \in BOOLEAN : Attack(p, c, chase)
    \/ \E c \in Creatures : Hit(c) \/ ExecuteDeath(c) \/ LogOut(c) \/ CheckCreatures(c)

Spec == Init /\ [][Next]_vars

-----------------------------------------------------------------------------

References(c) ==
    (IF state[c] = "placed" THEN 1 ELSE 0) + (IF listed[c] THEN 1 ELSE 0)
    + Cardinality({x \in Creatures : state[x] = "placed" /\ c \in followers[x]})
    + Cardinality({x \in Creatures : c \in summons[x]})
    + Cardinality({x \in Creatures : c \in targets[x]})
    + Cardinality({x \in Creatures : c \in friends[x]})
    + (IF spawned = c THEN 1 ELSE 0) + pending[c]

(* The reference counter of a creature is the number of those that hold    *)
(* it, so it is deleted when the last lets go, and not before              *)
(* (creature.h:474).                                                       *)
Counted == \A c \in Creatures : state[c] \in {"placed", "removed"} => refs[c] = References(c)

(* Nobody in the world attacks or follows a creature that has left it, and *)
(* the master of one that was removed is still there: pointers that        *)
(* nothing counts, cleared by those who are told (creature.cpp:312).       *)
NoDangling ==
    \A c \in Creatures :
        /\ state[c] = "placed" =>
             \A x \in {attacked[c], follow[c]} \ {NoOne} : state[x] = "placed"
        /\ state[c] = "removed" /\ master[c] # NoOne => state[master[c]] # "deleted"

(* The summons of a creature that died or left are gone or free            *)
(* (game.cpp:606, monster.cpp:1830).                                       *)
NoOrphans ==
    \A m \in Creatures : state[m] = "placed" /\ master[m] # NoOne =>
        state[master[m]] = "placed" /\ m \in summons[master[m]]

(* A living monster that is a summon or sees a player it hunts is thought  *)
(* about, and a spawn whose monster is gone will be checked again: neither *)
(* an idle monster nor a spawn sleeps for good (monster.cpp:698,           *)
(* spawn.cpp:361).                                                         *)
Awake ==
    /\ \A m \in Monsters : state[m] = "placed" /\ ~ dead[m] =>
         /\ (master[m] # NoOne \/ targets[m] # {}) => listed[m] /\ check[m]
         /\ master[m] = NoOne =>
              \A p \in Players : state[p] = "placed" /\ CanSee(Now, m, p) => p \in targets[m]
    /\ spawned = NoOne \/ state[spawned] # "placed" => respawn

=============================================================================
