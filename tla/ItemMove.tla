------------------------------- MODULE ItemMove -------------------------------
(***************************************************************************)
(* Moving, adding and removing items: internalMoveItem, internalAddItem,   *)
(* internalRemoveItem, removeMoney and addMoney of src/src/game.cpp over   *)
(* the three kinds of holders of src/src/thing.h: a player's inventory     *)
(* (src/src/player.cpp), containers (src/src/container.cpp) and a tile     *)
(* (src/src/tile.cpp), with the weights each of them caches.               *)
(*                                                                         *)
(* One player stands on one tile; every item is pickupable and moveable.   *)
(* A holder answers queryDestination, queryAdd, queryMaxCount and          *)
(* queryRemove, and changes by addThing, updateThing and removeThing; the  *)
(* operators of these names take the state and return the next one.  An    *)
(* item is an object with an identity: the lists of the holders and the    *)
(* parent of the item are separate state, as in the code, and need not     *)
(* agree.                                                                  *)
(***************************************************************************)
EXTENDS Integers, Sequences, FiniteSets, FiniteSetsExt, SequencesExt

CONSTANTS
    Bags,            \* containers, which live throughout
    Objects,         \* the other items there can be at once
    Size,            \* capacity of each bag
    StackSize,       \* ITEM_STACK_SIZE; also the worth of a platinum coin
    Capacity,        \* weight the player can carry
    MaxWealth        \* bound on the worth of all coins

ASSUME ItemMoveAssumption ==
    /\ Bags \cap Objects = {}
    /\ Bags \cup Objects \subseteq Nat \ {0}
    /\ StackSize \in Nat \ {0, 1}

Items == Bags \cup Objects
None == 0
Tile == <<"tile", 0>>
Player == <<"player", 0>>
Bag(b) == <<"bag", b>>
Holders == {Tile, Player} \cup {Bag(b) : b \in Bags}
Nowhere == <<"none", 0>>

(* Indexes: a position in a bag, a slot of the player, or INDEX_WHEREEVER. *)
Anywhere == -1
Back == 1                  \* takes bags only
Hand == 2                  \* takes anything (CLASSIC_EQUIPMENT_SLOTS)
Slots == {Back, Hand}
Positions(to) == CASE to = Tile -> {0}
                   [] to = Player -> Slots \cup {Anywhere}
                   [] OTHER -> 0..(Size[to[2]] - 1)

VARIABLES
    kind,       \* "bag", "sword", "gold", "platinum", or "free": no object
    count,      \* Item::count
    parent,     \* Item::parent
    list,       \* itemlist of the containers and of the tile
    slot,       \* Player::inventory
    weight,     \* Container::totalWeight
    carried,    \* Player::inventoryWeight
    misplaced,  \* history: a part of a stack met a full one and was put in a
                \* second place, or over it (see MoveSome and AddTo)
    wealth,     \* history: the worth of the coins there should be
    swords      \* history: the number of swords there should be

vars == <<kind, count, parent, list, slot, weight, carried, misplaced, wealth, swords>>

Now == [kind |-> kind, count |-> count, parent |-> parent, list |-> list,
        slot |-> slot, weight |-> weight, carried |-> carried,
        misplaced |-> misplaced]

Become(s) ==
    /\ kind' = s.kind
    /\ count' = s.count
    /\ parent' = s.parent
    /\ list' = s.list
    /\ slot' = s.slot
    /\ weight' = s.weight
    /\ carried' = s.carried
    /\ misplaced' = s.misplaced

Stackable(s, i) == s.kind[i] \in {"gold", "platinum"}
Equals(s, i, j) == j # None /\ s.kind[i] = s.kind[j]
Joins(s, i, j) == Stackable(s, i) /\ Equals(s, i, j) /\ s.count[j] < StackSize
Worth(s, i) == CASE s.kind[i] = "gold" -> s.count[i]
                 [] s.kind[i] = "platinum" -> StackSize * s.count[i]
                 [] OTHER -> 0

-----------------------------------------------------------------------------
(* Places and weights.                                                     *)

(* The bags an item or bag lies in, innermost first.                       *)
Enclosing(s, holder) ==
    LET up[n \in 0..Cardinality(Bags)] ==
            IF n = 0 THEN <<holder>>
            ELSE LET h == Last(up[n - 1])
                 IN IF h[1] = "bag" THEN Append(up[n - 1], s.parent[h[2]])
                    ELSE up[n - 1]
    IN up[Cardinality(Bags)]

TopHolder(s, holder) == Last(Enclosing(s, holder))

GetWeight(s, i) ==
    CASE i \in Bags -> 1 + s.weight[i]
      [] Stackable(s, i) -> s.count[i]
      [] OTHER -> 2

(* Container::updateItemWeight: the bag and every bag around it.           *)
UpdateItemWeightMutant(s, holder, diff) ==       \* the bag only
    IF holder[1] # "bag" THEN s
    ELSE [s EXCEPT !.weight[holder[2]] = @ + diff]

UpdateItemWeight(s, holder, diff) ==
    LET bags == {h[2] : h \in {h \in ToSet(Enclosing(s, holder)) : h[1] = "bag"}}
    IN [s EXCEPT !.weight = [b \in Bags |-> IF b \in bags THEN @[b] + diff ELSE @[b]]]

UpdateInventoryWeight(s) ==
    [s EXCEPT !.carried = MapThenSumSet(LAMBDA k : IF s.slot[k] = None THEN 0
                                                   ELSE GetWeight(s, s.slot[k]), Slots)]

(* postAddNotification and postRemoveNotification of the holder that       *)
(* changed, which reach the player who carries it.                         *)
Notify(s, holder) ==
    IF TopHolder(s, holder) = Player THEN UpdateInventoryWeight(s) ELSE s

GetThingIndex(s, holder, i) ==
    IF holder = Player
    THEN IF \E k \in Slots : s.slot[k] = i THEN CHOOSE k \in Slots : s.slot[k] = i ELSE -1
    ELSE IF Contains(s.list[holder], i)
         THEN SelectInSeq(s.list[holder], LAMBDA j : j = i) - 1 ELSE -1

ItemAt(s, holder, index) ==
    CASE holder = Player -> IF index \in Slots THEN s.slot[index] ELSE None
      [] OTHER -> IF index \in 0..(Len(s.list[holder]) - 1)
                  THEN s.list[holder][index + 1] ELSE None

-----------------------------------------------------------------------------
(* What a holder answers.                                                  *)

HasCapacity(s, i, n) ==
    \/ TopHolder(s, s.parent[i]) = Player
    \/ (IF Stackable(s, i) THEN n ELSE GetWeight(s, i)) <= Capacity - s.carried

(* Player::queryAdd.                                                       *)
PlayerQueryAdd(s, index, i, n) ==
    LET there == ItemAt(s, Player, index)
    IN CASE index = Back /\ i \notin Bags -> "NOTPOSSIBLE"
         [] ~ HasCapacity(s, i, n) -> "NOTENOUGHCAPACITY"
         [] index = Anywhere -> "NOTENOUGHROOM"
         [] there # None /\ ~ (Stackable(s, there) /\ Equals(s, i, there)) -> "NEEDEXCHANGE"
         [] OTHER -> "NOERROR"

ContainerQueryAddMutant(s, b, index, i, n) ==   \* not into itself, but deeper
    LET above == Enclosing(s, Bag(b))
    IN CASE i = b -> "THISISIMPOSSIBLE"
         [] index = Anywhere /\ Len(s.list[Bag(b)]) >= Size[b] -> "CONTAINERNOTENOUGHROOM"
         [] Last(above) = Player /\ ~ HasCapacity(s, i, n) -> "NOTENOUGHCAPACITY"
         [] OTHER -> "NOERROR"

(* Container::queryAdd: not into itself, and the player who carries the    *)
(* outermost bag must be able to carry it.                                 *)
ContainerQueryAdd(s, b, index, i, n) ==
    LET above == Enclosing(s, Bag(b))
    IN CASE i \in Bags /\ Contains(above, Bag(i)) -> "THISISIMPOSSIBLE"
         [] index = Anywhere /\ Len(s.list[Bag(b)]) >= Size[b] -> "CONTAINERNOTENOUGHROOM"
         [] Last(above) = Player /\ ~ HasCapacity(s, i, n) -> "NOTENOUGHCAPACITY"
         [] OTHER -> "NOERROR"

QueryAdd(s, to, index, i, n) ==
    CASE to = Tile -> "NOERROR"
      [] to = Player -> PlayerQueryAdd(s, index, i, n)
      [] OTHER -> ContainerQueryAdd(s, to[2], index, i, n)

(* Container::queryMaxCount.                                               *)
ContainerMaxCount(s, b, index, i, n) ==
    LET free == Max({Size[b] - Len(s.list[Bag(b)]), 0})
        fits(j) == /\ j # None /\ j # i /\ Equals(s, i, j) /\ s.count[j] < StackSize
                   /\ ContainerQueryAdd(s, b, 0, i, n) = "NOERROR"
        room(j) == IF fits(j) THEN StackSize - s.count[j] ELSE 0
    IN IF ~ Stackable(s, i) THEN free
       ELSE free * StackSize +
            (IF index = Anywhere THEN MapThenSumSet(room, ToSet(s.list[Bag(b)]))
             ELSE room(ItemAt(s, Bag(b), index)))

(* The bags given and those in them, in the order they are searched.       *)
BagsIn(s, first) ==
    LET inBag(b) == SelectSeq(s.list[Bag(b)], LAMBDA j : j \in Bags)
        level[n \in 1..Cardinality(Bags)] ==
            IF n = 1 THEN first
            ELSE FlattenSeq([k \in DOMAIN level[n - 1] |-> inBag(level[n - 1][k])])
    IN FlattenSeq(level)

CarriedBags(s) ==
    BagsIn(s, SelectSeq(<<s.slot[Back], s.slot[Hand]>>, LAMBDA j : j \in Bags))

Contents(s, bags) == FlattenSeq([k \in DOMAIN bags |-> s.list[Bag(bags[k])]])

(* Player::queryMaxCount.                                                  *)
PlayerMaxCount(s, index, i, n) ==
    LET unit == IF Stackable(s, i) THEN StackSize ELSE 1
        room(k) == LET j == s.slot[k]
                   IN IF j = None
                      THEN IF PlayerQueryAdd(s, k, i, n) = "NOERROR" THEN unit ELSE 0
                      ELSE IF Joins(s, i, j) THEN StackSize - s.count[j] ELSE 0
        allowed(k) == \/ s.slot[k] = None
                      \/ PlayerQueryAdd(s, k, i, room(k)) = "NOERROR"
    IN IF index = Anywhere
       THEN MapThenSumSet(LAMBDA k : IF allowed(k) THEN room(k) ELSE 0, Slots)
            + MapThenSumSet(LAMBDA b : ContainerMaxCount(s, b, Anywhere, i, s.count[i]),
                            ToSet(CarriedBags(s)))
       ELSE room(index)

QueryMaxCount(s, to, index, i, n) ==
    CASE to = Tile -> n
      [] to = Player -> PlayerMaxCount(s, index, i, n)
      [] OTHER -> ContainerMaxCount(s, to[2], index, i, n)

QueryRemove(s, from, i, n) ==
    /\ GetThingIndex(s, from, i) # -1
    /\ n # 0
    /\ Stackable(s, i) => n <= s.count[i]

(* A destination: the holder, the index there, and the item found there.   *)
Dest(to, index, item) == [to |-> to, index |-> index, item |-> item]

(* Container::queryDestination: into a bag at that position, else onto an  *)
(* equal stack, there or elsewhere in the bag, unless i comes from it.     *)
ContainerDestination(s, b, index, i) ==
    LET there == ItemAt(s, Bag(b), index)
        joins(j) == j # i /\ Equals(s, i, j) /\ s.count[j] < StackSize
        k == SelectInSeq(s.list[Bag(b)], joins)
    IN CASE there \in Bags -> Dest(Bag(there), Anywhere, None)
         [] /\ there \notin Bags /\ ~ (there # None /\ joins(there))
            /\ Stackable(s, i) /\ s.parent[i] # Bag(b) /\ k # 0
            -> Dest(Bag(b), k - 1, s.list[Bag(b)][k])
         [] OTHER -> Dest(Bag(b), index, there)

(* Player::queryDestination without a slot: the first slot that is empty   *)
(* or has a stack to join, else the first bag with a stack to join or room.*)
NoDest == Dest(Player, Anywhere, None)

BagSearch(s, b, i) ==
    LET others == SelectSeq(s.list[Bag(b)], LAMBDA j : j # i)
        end == IF Stackable(s, i) THEN Len(others) ELSE Len(s.list[Bag(b)])
        hasRoom == /\ end < Size[b]
                   /\ ContainerQueryAdd(s, b, end, i, s.count[i]) = "NOERROR"
        at(k) == CASE k # 0 -> Dest(Bag(b), k - 1, others[k])
                   [] k = 0 /\ hasRoom -> Dest(Bag(b), end, None)
                   [] OTHER -> NoDest
    IN at(SelectInSeq(others, LAMBDA j : Joins(s, i, j)))

PlayerSearch(s, i) ==
    LET slotFits(k) == /\ PlayerQueryAdd(s, k, i, s.count[i]) = "NOERROR"
                       /\ s.slot[k] # i
                       /\ s.slot[k] = None \/ Joins(s, i, s.slot[k])
        bags == SelectSeq(CarriedBags(s), LAMBDA b : b # i)
        inBags == [n \in DOMAIN bags |-> BagSearch(s, bags[n], i)]
        first(k) == Dest(Player, k, s.slot[k])
        head(found) == IF found = <<>> THEN NoDest ELSE Head(found)
    IN IF \E k \in Slots : slotFits(k) THEN first(Min({k \in Slots : slotFits(k)}))
       ELSE head(SelectSeq(inBags, LAMBDA d : d # NoDest))

PlayerDestination(s, index, i) ==
    LET there == ItemAt(s, Player, index)
    IN CASE index = Anywhere -> PlayerSearch(s, i)
         [] there \in Bags -> Dest(Bag(there), Anywhere, None)
         [] OTHER -> Dest(Player, index, there)

(* Tile::queryDestination: the topmost item.                               *)
QueryDestination(s, to, index, i) ==
    CASE to = Tile -> Dest(Tile, index, IF s.list[Tile] = <<>> THEN None
                                        ELSE Head(s.list[Tile]))
      [] to = Player -> PlayerDestination(s, index, i)
      [] OTHER -> ContainerDestination(s, to[2], index, i)

-----------------------------------------------------------------------------
(* How a holder changes.                                                   *)

(* addThing.  A bag does nothing with an index it does not have, and the   *)
(* player with anything that is no slot; a slot loses what it held.        *)
TileAddThing(s, i) == [s EXCEPT !.list[Tile] = <<i>> \o @, !.parent[i] = Tile]

PlayerAddThing(s, index, i) ==
    IF index \in Slots THEN [s EXCEPT !.slot[index] = i, !.parent[i] = Player] ELSE s

ContainerAddThing(s, b, index, i) ==
    IF index >= Size[b] THEN s
    ELSE UpdateItemWeight([s EXCEPT !.list[Bag(b)] = <<i>> \o @, !.parent[i] = Bag(b)],
                          Bag(b), GetWeight(s, i))

AddThing(s, to, index, i) ==
    CASE to = Tile -> TileAddThing(s, i)
      [] to = Player -> PlayerAddThing(s, index, i)
      [] OTHER -> ContainerAddThing(s, to[2], index, i)

(* updateThing, and the part of removeThing that only lowers a count.      *)
SetCount(s, holder, i, n) ==
    UpdateItemWeight([s EXCEPT !.count[i] = n], holder, n - s.count[i])

Orphan(s, i) == [s EXCEPT !.parent[i] = Nowhere]

TileRemoveThing(s, i) == [Orphan(s, i) EXCEPT !.list[Tile] = SelectSeq(@, LAMBDA j : j # i)]

PlayerRemoveThing(s, i) ==
    [Orphan(s, i) EXCEPT !.slot[GetThingIndex(s, Player, i)] = None]

ContainerRemoveThing(s, b, i) ==
    UpdateItemWeight([Orphan(s, i) EXCEPT !.list[Bag(b)] = SelectSeq(@, LAMBDA j : j # i)],
                     Bag(b), 0 - GetWeight(s, i))

RemoveThing(s, from, i, n) ==
    CASE GetThingIndex(s, from, i) = -1 -> s
      [] GetThingIndex(s, from, i) # -1 /\ Stackable(s, i) /\ n # s.count[i] ->
            SetCount(s, from, i, Max({0, s.count[i] - n}))
      [] from = Tile -> TileRemoveThing(s, i)
      [] from = Player -> PlayerRemoveThing(s, i)
      [] OTHER -> ContainerRemoveThing(s, from[2], i)

(* ReleaseItem of an item that no holder has any more.                     *)
Release(s, i) == [s EXCEPT !.kind[i] = "free", !.count[i] = 0]

(* CreateItem and clone.                                                   *)
FreeObject(s) == Min({i \in Objects : s.kind[i] = "free"})
CanCreate(s) == \E i \in Objects : s.kind[i] = "free"
Create(s, k, n) ==
    [s EXCEPT !.kind[FreeObject(s)] = k, !.count[FreeObject(s)] = n,
              !.parent[FreeObject(s)] = Nowhere]

-----------------------------------------------------------------------------
(* Game::internalMoveItem.                                                 *)

(* The destination is asked again until it names itself.                   *)
FinalDestination(s, to, index, i) ==
    LET step[n \in 0..(Cardinality(Bags) + 1)] ==
            IF n = 0 THEN Dest(to, index, None)
            ELSE QueryDestination(s, step[n - 1].to, step[n - 1].index, i)
    IN step[Cardinality(Bags) + 1]

(* The item in the way changes places with i, when the holder of i takes   *)
(* it: it moves there before i leaves.                                     *)
Exchange(s, from, d, i) ==
    LET there == d.item
        n == s.count[there]
    IN IF /\ QueryAdd(s, from, GetThingIndex(s, from, i), there, n) = "NOERROR"
          /\ QueryMaxCount(s, from, Anywhere, there, n) > 0
          /\ QueryRemove(s, d.to, there, n)
       THEN LET gone == RemoveThing(s, d.to, there, n)
            IN Notify(Notify(AddThing(gone, from, 0, there), d.to), from)
       ELSE s

(* What is left of moved after a stack at the destination was filled; a    *)
(* part that is not merged is a clone.                                     *)
Merge(s, from, d, i, moved) ==
    LET n == Min({StackSize - s.count[d.item], moved})
    IN SetCount(RemoveThing(s, from, i, n), d.to, d.item, s.count[d.item] + n)

Transfer(s, from, d, i, moved) ==
    LET merges == Stackable(s, i) /\ Equals(s, i, d.item) /\ moved # StackSize
        splits == ~ merges /\ Stackable(s, i) /\ moved # s.count[i]
        kept(r) == IF r.parent[i] = Nowhere THEN Release(r, i) ELSE r
        place(r, it, left) == IF left = 0 THEN kept(r)
                              ELSE AddThing(RemoveThing(r, from, i, left), d.to, d.index, it)
        merged(r) == place(r, i, moved - (r.count[d.item] - s.count[d.item]))
        told(r) == Notify(Notify(r, from), d.to)
    IN told(CASE merges -> merged(Merge(s, from, d, i, moved))
              [] splits -> place(Create(s, s.kind[i], moved), FreeObject(s), moved)
              [] OTHER -> place(s, i, moved))

(* A part of a stack for which the stack it is dropped onto has no room:   *)
(* no clone is made of what does not fit, and the stack itself is added.   *)
OntoFullStack(s, d, i, moved) ==
    /\ Stackable(s, i) /\ Equals(s, i, d.item) /\ moved # StackSize
    /\ moved # s.count[i]
    /\ moved > StackSize - s.count[d.item]

(* What the destination has room for, unless the holder keeps it.          *)
MoveSome(s, from, d, i, moved) ==
    IF ~ QueryRemove(s, from, i, moved) THEN s
    ELSE [Transfer(s, from, d, i, moved) EXCEPT
             !.misplaced = @ \/ OntoFullStack(s, d, i, moved)]

MoveOnto(s, from, d, i, n) ==
    LET most == QueryMaxCount(s, d.to, d.index, i, n)
    IN IF QueryAdd(s, d.to, d.index, i, n) # "NOERROR" THEN s
       ELSE MoveSome(s, from, d, i, IF Stackable(s, i) THEN Min({n, most}) ELSE most)

MoveTowards(s, from, first, i, n) ==
    LET cleared(r) == IF r = s THEN first ELSE [first EXCEPT !.item = None]
        finish(r) == MoveOnto(r, from, cleared(r), i, n)
        exchanges == QueryAdd(s, first.to, first.index, i, n) = "NEEDEXCHANGE"
    IN CASE i = first.item -> s
         [] i # first.item /\ exchanges -> finish(Exchange(s, from, first, i))
         [] OTHER -> finish(s)

InternalMoveItem(s, from, to, index, i, n) ==
    MoveTowards(s, from, FinalDestination(s, to, index, i), i, n)

-----------------------------------------------------------------------------
(* Adding and removing.                                                    *)

InternalRemoveItem(s, i, n) ==
    LET from == s.parent[i]
        gone == RemoveThing(s, from, i, n)
    IN IF from = Nowhere \/ ~ QueryRemove(s, from, i, n) THEN s
       ELSE Notify(IF gone.parent[i] = Nowhere THEN Release(gone, i) ELSE gone, from)

(* Game::internalAddItem of the item i, which no holder has, or of the     *)
(* remainder it leaves: the result has the state, whether an error was     *)
(* returned, and the remainder that found no place.                        *)
Added(s, ok, remainder) == [s |-> s, ok |-> ok, remainder |-> remainder]

Place(s, to, index, i) ==
    Notify(AddThing(s, to, index, i), to)

CanAdd(s, to, index, i) ==
    LET n == s.count[i]
        fits(d) == QueryAdd(s, d.to, d.index, i, n) = "NOERROR"
        enough(most) == most > 0 /\ (Stackable(s, i) => most >= n)
    IN fits(QueryDestination(s, to, index, i)) /\ enough(QueryMaxCount(s, to, Anywhere, i, n))

(* A full stack in the slot is no reason to refuse: the slot loses it.     *)
OverFullStack(s, d, i) ==
    d.to = Player /\ Stackable(s, i) /\ Equals(s, i, d.item) /\ s.count[d.item] = StackSize

AddTo(s, d, i) ==
    LET n == Min({StackSize - s.count[d.item], s.count[i]})
        filled == SetCount(s, d.to, d.item, s.count[d.item] + n)
        left == s.count[i] - n
    IN CASE ~ (Stackable(s, i) /\ Equals(s, i, d.item)) ->
              Added(Place(s, d.to, d.index, i), TRUE, 0)
         [] left = 0 -> Added(Notify(Release(filled, i), d.to), TRUE, 0)
         [] n = 0 -> Added([Place(s, d.to, d.index, i) EXCEPT
                               !.misplaced = @ \/ OverFullStack(s, d, i)], TRUE, 0)
         [] OTHER -> Added([filled EXCEPT !.count[i] = left], TRUE, left)

AddOnce(s, to, index, i) == AddTo(s, QueryDestination(s, to, index, i), i)

(* A remainder is a clone that is added again, anywhere; the item it comes *)
(* from is never seen again.                                               *)
InternalAddItem(s, to, index, i) ==
    LET more(r) == IF r.remainder = 0 \/ ~ CanAdd(r.s, to, Anywhere, i) THEN r
                   ELSE AddOnce(r.s, to, Anywhere, i)
        again[k \in 0..Cardinality(Objects)] ==
            IF k > 0 THEN more(again[k - 1])
            ELSE IF CanAdd(s, to, index, i) THEN AddOnce(s, to, index, i) ELSE Added(s, FALSE, 0)
        given(last) == IF last.remainder = 0 THEN last
                       ELSE Added(Release(last.s, i), TRUE, last.remainder)
    IN given(again[Cardinality(Objects)])

(* Game::internalPlayerAddItem: what does not fit falls on the tile.       *)
DropOnTile(s, i) == InternalAddItem(s, Tile, Anywhere, i).s

InternalPlayerAddItem(s, k, n, index) ==
    LET made == Create(s, k, n)
        i == FreeObject(s)
        fall(r) == CASE ~ r.ok -> DropOnTile(made, i)
                     [] r.remainder > 0 ->
                           DropOnTile(Create(r.s, k, r.remainder), FreeObject(r.s))
                     [] OTHER -> r.s
    IN fall(InternalAddItem(made, Player, index, i))

(* Game::addMoney: the largest coins first, at most a stack at a time.     *)
Coin(k) == IF k = "gold" THEN 1 ELSE StackSize

AddCoins(s, to, k, n) ==
    LET made == Create(s, k, n)
        fall(r) == IF r.ok THEN r.s ELSE DropOnTile(made, FreeObject(s))
    IN IF n = 0 THEN s ELSE fall(InternalAddItem(made, to, Anywhere, FreeObject(s)))

AddMoney(s, to, money) ==
    LET platinum == money \div StackSize
    IN AddCoins(AddCoins(s, to, "platinum", platinum), to, "gold", money % StackSize)

(* Game::removeMoney: coins of the least worth first, and change for what  *)
(* the last stack is worth more.                                           *)
Coins(s) ==
    LET found == SelectSeq(<<s.slot[Back], s.slot[Hand]>> \o Contents(s, CarriedBags(s)),
                           LAMBDA j : j # None)
    IN FlattenSeq([w \in 1..MaxWealth |-> SelectSeq(found, LAMBDA j : Worth(s, j) = w)])

MoneyOf(s) == MapThenSumSet(LAMBDA j : Worth(s, j), ToSet(Coins(s)))

RemoveMoneyMutant(s, money) ==          \* no change is given
    FoldLeft(LAMBDA r, i :
                 IF r.left = 0 THEN r
                 ELSE LET n == Min({s.count[i], (r.left + Coin(s.kind[i]) - 1) \div Coin(s.kind[i])})
                      IN [s |-> InternalRemoveItem(r.s, i, n),
                          left |-> Max({0, r.left - n * Coin(s.kind[i])})],
             [s |-> s, left |-> money], Coins(s)).s

RemoveMoney(s, money) ==
    FoldLeft(LAMBDA r, i :
                 LET coin == Coin(s.kind[i])
                     n == (r.left + coin - 1) \div coin
                 IN CASE r.left = 0 -> r
                      [] r.left > 0 /\ Worth(s, i) <= r.left ->
                            [s |-> InternalRemoveItem(r.s, i, s.count[i]),
                             left |-> r.left - Worth(s, i)]
                      [] OTHER ->
                            [s |-> InternalRemoveItem(AddMoney(r.s, Player, n * coin - r.left), i, n),
                             left |-> 0],
             [s |-> s, left |-> money], Coins(s)).s

(* Player::removeItemOfType and Game::internalRemoveItems.                 *)
OfType(s, k) ==
    LET inSlot(i) == IF i \in Bags THEN Contents(s, BagsIn(s, <<i>>)) ELSE <<i>>
    IN SelectSeq(inSlot(s.slot[Back]) \o inSlot(s.slot[Hand]),
                 LAMBDA j : j # None /\ s.kind[j] = k)

RemoveItemOfType(s, k, n) ==
    FoldLeft(LAMBDA r, i :
                 LET some == Min({r.left, s.count[i]})
                 IN IF r.left = 0 THEN r
                    ELSE [s |-> InternalRemoveItem(r.s, i, some), left |-> r.left - some],
             [s |-> s, left |-> n], OfType(s, k)).s

-----------------------------------------------------------------------------
(* What happens in the game.                                               *)

Held(i) == kind[i] # "free" /\ parent[i] # Nowhere

(* Game::playerMoveItem of something in reach.                             *)
PlayerMoveItem(i, to, index, n) ==
    /\ Held(i)
    /\ Stackable(Now, i) => CanCreate(Now)
    /\ Become(InternalMoveItem(Now, parent[i], to, index, i, n))
    /\ UNCHANGED <<wealth, swords>>

PlayerAddMoney(n) ==
    /\ wealth + n <= MaxWealth
    /\ Cardinality({i \in Objects : kind[i] = "free"}) > 1
    /\ Become(AddMoney(Now, Player, n))
    /\ wealth' = wealth + n
    /\ UNCHANGED swords

PlayerRemoveMoney(n) ==
    /\ MoneyOf(Now) >= n
    /\ CanCreate(Now)
    /\ Become(RemoveMoney(Now, n))
    /\ wealth' = wealth - n
    /\ UNCHANGED swords

(* Player:addItem of the scripts: to a slot or wherever there is room.     *)
PlayerAddItem(k, n, index) ==
    /\ CanCreate(Now)
    /\ CASE k = "sword" -> n = 1 /\ swords' = swords + 1 /\ UNCHANGED wealth
         [] k = "gold" -> wealth + n <= MaxWealth /\ wealth' = wealth + n /\ UNCHANGED swords
    /\ Become(InternalPlayerAddItem(Now, k, n, index))

PlayerRemoveItem(k, n) ==
    /\ MapThenSumSet(LAMBDA j : count[j], ToSet(OfType(Now, k))) >= n
    /\ Become(RemoveItemOfType(Now, k, n))
    /\ wealth' = IF k = "gold" THEN wealth - n ELSE wealth
    /\ swords' = IF k = "sword" THEN swords - n ELSE swords

(* The player has a bag on his back; another lies on the tile.             *)
Init ==
    /\ \E worn \in Bags :
          /\ parent = [i \in Items |-> CASE i = worn -> Player
                                        [] i \in Bags \ {worn} -> Tile
                                        [] OTHER -> Nowhere]
          /\ slot = [k \in Slots |-> IF k = Back THEN worn ELSE None]
          /\ list = [h \in Holders \ {Player} |->
                        IF h = Tile THEN SetToSeq(Bags \ {worn}) ELSE <<>>]
    /\ kind = [i \in Items |-> IF i \in Bags THEN "bag" ELSE "free"]
    /\ count = [i \in Items |-> IF i \in Bags THEN 1 ELSE 0]
    /\ weight = [b \in Bags |-> 0]
    /\ carried = 1
    /\ misplaced = FALSE
    /\ wealth = 0
    /\ swords = 0

(* An item that is misplaced is in two lists, or in none and lost: what    *)
(* happens after that is not followed.                                     *)
Next ==
    /\ ~ misplaced
    /\ \/ \E i \in Items, to \in Holders : \E index \in Positions(to), n \in 1..count[i] :
             PlayerMoveItem(i, to, index, n)
       \/ \E n \in 1..MaxWealth : PlayerAddMoney(n) \/ PlayerRemoveMoney(n)
       \/ \E k \in {"sword", "gold"}, n \in 1..StackSize :
             \/ PlayerRemoveItem(k, n)
             \/ \E index \in {Anywhere, Hand} : PlayerAddItem(k, n, index)

Spec == Init /\ [][Next]_vars

-----------------------------------------------------------------------------
(* The lists and slots that hold an item, once for each time it is there.  *)
Places(i) ==
    {<<h, k>> : h \in {h \in Holders \ {Player} : Contains(list[h], i)},
                k \in {0}} \cup {<<Player, k>> : k \in {k \in Slots : slot[k] = i}}

Placed == {i \in Items : Places(i) # {}}

(* The three below hold of the code as long as nothing is misplaced, and   *)
(* not afterwards: game.cpp:1191-1220 adds to the destination the very     *)
(* stack it took the part from, which then lies in two places, and the     *)
(* next change of it corrects the weight of only one; game.cpp:1310-1327   *)
(* puts coins in the slot of a full stack, which is lost.                  *)

(* Nothing is made or lost by moving: the coins in the inventory, the bags *)
(* and on the tile are worth what was given less what was taken, whatever  *)
(* was moved, split, merged, exchanged or changed in between; and so for   *)
(* what does not stack (Game::internalMoveItem, addMoney, removeMoney).    *)
Conservation ==
    /\ MapThenSumSet(LAMBDA i : Cardinality(Places(i)) * Worth(Now, i), Objects) = wealth
    /\ Cardinality({i \in Placed : kind[i] = "sword"}) = swords

(* Each item lies in one place, its parent is the holder that has it, no   *)
(* bag is, however deep, in itself, and no stack outgrows ITEM_STACK_SIZE  *)
(* (Item::parent, Item::count and the item lists).                         *)
OnePlace ==
    \A i \in Items :
        /\ (kind[i] # "free") <=> (Cardinality(Places(i)) = 1)
        /\ \A p \in Places(i) : parent[i] = p[1]
        /\ i \in Bags => TopHolder(Now, Bag(i)) \in {Tile, Player}
        /\ count[i] \in 0..StackSize

(* The weights the holders cache are the weights of what they hold, and    *)
(* the player carries no more than he can (Container::updateItemWeight,    *)
(* Player::updateInventoryWeight, Player::hasCapacity).                    *)
WeightsAreCurrent ==
    /\ \A b \in Bags : weight[b] =
          MapThenSumSet(LAMBDA i : GetWeight(Now, i), ToSet(list[Bag(b)]))
    /\ carried = MapThenSumSet(LAMBDA k : IF slot[k] = None THEN 0
                                          ELSE GetWeight(Now, slot[k]), Slots)
    /\ carried <= Capacity

=============================================================================
