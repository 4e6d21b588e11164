-------------------------------- MODULE Trade --------------------------------
(***************************************************************************)
(* The trade of items between players: playerRequestTrade,                 *)
(* internalStartTrade, playerAcceptTrade and internalCloseTrade of         *)
(* src/src/game.cpp, with the notifications by which moves, removals,      *)
(* walks and logouts close a trade (src/src/player.cpp, container.cpp,     *)
(* tile.cpp), and the references a trade holds to the items on offer.      *)
(*                                                                         *)
(* All of this runs on the game thread, so a handler is one step.  Items   *)
(* lie in a slot of a player, in a bag, or on the one tile of the model;   *)
(* a player is within reach of that tile and of the players there          *)
(* ("here"), out of reach of everybody ("away"), or offline.  A slot is    *)
(* "back", which takes bags only, or "hand", which takes anything.         *)
(* Whole items are moved, and only empty bags are destroyed.               *)
(***************************************************************************)
EXTENDS Naturals, FiniteSets, FiniteSetsExt, Nesting

CONSTANTS
    Players,
    Items,
    Bags,          \* the items that are containers
    Stacks,        \* the stackable items, all of one type
    BagSize,       \* capacity of a bag
    StackSize,     \* ITEM_STACK_SIZE
    MaxPending     \* bound on the releases of an item that await cleanup

ASSUME ItemsAssumption ==
    /\ IsFiniteSet(Items) /\ Bags \subseteq Items /\ Stacks \subseteq Items \ Bags
    /\ BagSize \in Nat /\ StackSize \in Nat \ {0} /\ MaxPending \in Nat

None == "none"
Tile == <<"tile", "ground">>
Gone == <<"removed", "nowhere">>
Slots(p) == {p} \X {"back", "hand"}
AllSlots == Players \X {"back", "hand"}
Where == AllSlots \cup Bags \cup {Tile, Gone}

ASSUME PlacesAssumption ==
    /\ Items \cap (AllSlots \cup {Tile, Gone, None}) = {}
    /\ Players \cap {Tile, Gone, None} = {}

VARIABLES
    at,            \* the place of every item (Item::parent)
    amount,        \* the count of a stackable item
    refs,          \* Item::referenceCounter
    toRelease,     \* how often each item is in Game::ToReleaseItems
    place,         \* "here", "away" or "offline", for every player
    tradeState,    \* Player::tradeState
    tradePartner,  \* Player::tradePartner
    tradeItem,     \* Player::tradeItem
    tradeItems,    \* Game::tradeItems: who offers an item, or None
    clicked,       \* players whose message "accept" is under way
    shown,         \* history: an offer with its contents, as both were shown
    agreed,        \* history: the two offers a player clicked "accept" for
    fault          \* history: how a trade both accepted went wrong, if one did

items == <<at, amount>>
counts == <<refs, toRelease>>
trades == <<tradeState, tradePartner, tradeItem, tradeItems>>
client == <<clicked, shown, agreed>>
vars == <<items, counts, place, trades, client, fault>>

Init ==
    /\ at \in [Items -> AllSlots \cup {Tile}]
    /\ \A s \in AllSlots : Cardinality({i \in Items : at[i] = s}) <= 1
    /\ \A i \in Items : at[i] \in AllSlots /\ at[i][2] = "back" => i \in Bags
    /\ amount = [i \in Items |-> IF i \in Stacks THEN StackSize ELSE 1]
    /\ refs = [i \in Items |-> 1]
    /\ toRelease = [i \in Items |-> 0]
    /\ place = [p \in Players |-> "here"]
    /\ tradeState = [p \in Players |-> "NONE"]
    /\ tradePartner = [p \in Players |-> None]
    /\ tradeItem = [p \in Players |-> None]
    /\ tradeItems = [i \in Items |-> None]
    /\ clicked = {}
    /\ shown = [p \in Players |-> {}]
    /\ agreed = [p \in Players |-> <<>>]
    /\ fault = None

-----------------------------------------------------------------------------
(***************************************************************************)
(* Places.  l is the place of every item.                                  *)
(***************************************************************************)
(* Everything above item i: its parent, the parent of that, and so on.     *)
Above(l, i) == Over(Bags, l, i)

(* Container::isHoldingItem.                                               *)
IsHoldingItem(l, b, i) == b \in Above(l, i)

(* getTopParent: the player who carries the item, or the tile, or Gone.    *)
TopParent(l, i) ==
    LET top == CHOOSE t \in Above(l, i) : t \notin Bags
    IN IF top \in AllSlots THEN top[1] ELSE top

(* The players next to what lies at a place with this top parent.          *)
NextTo(top) ==
    CASE top = Gone -> {}
      [] top = Tile -> {p \in Players : place[p] = "here"}
      [] OTHER -> IF place[top] = "here" THEN {p \in Players : place[p] = "here"}
                  ELSE {top}

Reachable(p, i) == p \in NextTo(TopParent(at, i)) /\ TopParent(at, i) \in {p, Tile}

(* The offer with its contents and counts: what the trade window lists.    *)
Contents(l, i) ==
    {<<j, amount[j]>> : j \in {j \in Items : j = i \/ i \in Above(l, j)}}

-----------------------------------------------------------------------------
(***************************************************************************)
(* Notifications: the players whose trade an operation closes.             *)
(***************************************************************************)
(* Player::checkTradeState(item): item is the offer, or lies inside it.    *)
CheckTradeState(l, p, i) ==
    tradeItem[p] # None /\ (tradeItem[p] = i \/ tradeItem[p] \in Above(l, i))

(* Removing i from its place: on[Remove]TileItem, on[Remove]InventoryItem, *)
(* onRemoveContainerItem.  The last one looks for the offer anywhere below *)
(* the container, except directly in it.                                   *)
ClosedByRemoval(l, i) ==
    {p \in NextTo(TopParent(l, i)) :
        \/ CheckTradeState(l, p, i)
        \/ /\ tradeItem[p] # None
           /\ \/ IsHoldingItem(l, i, tradeItem[p])
              \/ /\ l[i] \in Bags
                 /\ l[tradeItem[p]] # l[i]
                 /\ IsHoldingItem(l, l[i], tradeItem[p])}

(* Adding i to a bag: onAddContainerItem.  Tiles and slots tell nobody     *)
(* who would close a trade.                                                *)
ClosedByAdding(l, i) ==
    IF l[i] \in Bags
    THEN {p \in NextTo(TopParent(l, i)) : CheckTradeState(l, p, i)}
    ELSE {}

(* Moving i from l[i] to place d.                                          *)
ClosedByMove(l, i, d) ==
    ClosedByRemoval(l, i) \cup ClosedByAdding([l EXCEPT ![i] = d], i)

(* onUpdateTileItem, onUpdateContainerItem, onUpdateInventoryItem with the *)
(* same item before and after.                                             *)
ClosedByUpdate(l, i) ==
    {p \in NextTo(TopParent(l, i)) : CheckTradeState(l, p, i)}

(* Player p has walked to place w: onCreatureMove.                         *)
ClosedByWalk(p, w) ==
    IF \/ (tradeItem[p] # None /\ TopParent(at, tradeItem[p]) # p /\ w # "here")
       \/ (tradePartner[p] # None /\ ~(w = "here" /\ place[tradePartner[p]] = "here"))
    THEN {p}
    ELSE {}

-----------------------------------------------------------------------------
(* internalCloseTrade for the players in S, each with its partner.  more   *)
(* is the set of items that are put into ToReleaseItems besides.           *)
Parties(S) == {p \in Players : p \in S \/ tradePartner[p] \in S}

OffersOf(S) == {i \in Items : tradeItems[i] # None /\ \E p \in S : tradeItem[p] = i}

CloseForMutant(closed, released, more) ==     \* erases without ReleaseItem
    /\ tradeState' = [p \in Players |-> IF p \in closed THEN "NONE" ELSE tradeState[p]]
    /\ tradePartner' = [p \in Players |-> IF p \in closed THEN None ELSE tradePartner[p]]
    /\ tradeItem' = [p \in Players |-> IF p \in closed THEN None ELSE tradeItem[p]]
    /\ tradeItems' = [i \in Items |-> IF i \in released THEN None ELSE tradeItems[i]]
    /\ toRelease' = [i \in Items |-> toRelease[i] + (IF i \in more THEN 1 ELSE 0)]
    /\ shown' = [p \in Players |-> IF p \in closed THEN {} ELSE shown[p]]
    /\ UNCHANGED agreed

WithdrawMutant(closed, released, more) ==     \* withdraws the offers only
    /\ tradeItem' = [p \in Players |-> IF p \in closed THEN None ELSE tradeItem[p]]
    /\ tradeItems' = [i \in Items |-> IF i \in released THEN None ELSE tradeItems[i]]
    /\ toRelease' = [i \in Items |-> toRelease[i]
                        + (IF i \in released \cup more THEN 1 ELSE 0)]
    /\ UNCHANGED <<tradeState, tradePartner, shown, agreed>>

CloseFor(closed, released, more) ==
    /\ tradeState' = [p \in Players |-> IF p \in closed THEN "NONE" ELSE tradeState[p]]
    /\ tradePartner' = [p \in Players |-> IF p \in closed THEN None ELSE tradePartner[p]]
    /\ tradeItem' = [p \in Players |-> IF p \in closed THEN None ELSE tradeItem[p]]
    /\ tradeItems' = [i \in Items |-> IF i \in released THEN None ELSE tradeItems[i]]
    /\ toRelease' = [i \in Items |-> toRelease[i]
                        + (IF i \in released THEN 1 ELSE 0)
                        + (IF i \in more THEN 1 ELSE 0)]
    /\ shown' = [p \in Players |-> IF p \in closed THEN {} ELSE shown[p]]
    /\ agreed' = [p \in Players |->
                    IF p \in closed /\ p \notin clicked' THEN <<>> ELSE agreed[p]]

CloseTrades(S, more) == CloseFor(Parties(S), OffersOf(Parties(S)), more)

-----------------------------------------------------------------------------
(***************************************************************************)
(* What players and the world do to the items.                             *)
(***************************************************************************)
Children(l, t) == {i \in Items : l[i] = t}

(* A place that takes one more item of i's kind.                           *)
HasRoom(l, t, i) ==
    \/ t = Tile
    \/ t \in Bags /\ i # t /\ i \notin Above(l, t) /\ Cardinality(Children(l, t)) < BagSize
    \/ t \in AllSlots /\ Children(l, t) = {} /\ (t[2] = "back" => i \in Bags)

(* playerMoveItem, as far as a whole item goes to an empty place.          *)
MoveItem(p, i) ==
    /\ p \notin clicked
    /\ place[p] # "offline"
    /\ Reachable(p, i)
    /\ \E t \in Slots(p) \cup Bags \cup {Tile} :
        /\ t = Tile => place[p] = "here"
        /\ t \in Bags => Reachable(p, t)
        /\ t # at[i]
        /\ HasRoom(at, t, i)
        /\ at' = [at EXCEPT ![i] = t]
        /\ clicked' = clicked
        /\ CloseTrades(ClosedByMove(at, i, t), {})
    /\ UNCHANGED <<amount, refs, place, fault>>

(* One of a stack is used up: removeThing with a smaller count.            *)
UseOne(i) ==
    /\ at[i] # Gone
    /\ amount[i] > 1
    /\ amount' = [amount EXCEPT ![i] = @ - 1]
    /\ clicked' = clicked
    /\ CloseTrades(ClosedByUpdate(at, i), {})
    /\ UNCHANGED <<at, refs, place, fault>>

(* internalRemoveItem, by decay, a script or the use of the last one.      *)
RemoveItem(i) ==
    /\ at[i] # Gone
    /\ Children(at, i) = {}
    /\ at' = [at EXCEPT ![i] = Gone]
    /\ clicked' = clicked
    /\ CloseTrades(ClosedByRemoval(at, i), {i})
    /\ UNCHANGED <<amount, refs, place, fault>>

(* Game::cleanup, for items.                                               *)
Cleanup ==
    /\ \E i \in Items : toRelease[i] > 0
    /\ refs' = [i \in Items |-> refs[i] - toRelease[i]]
    /\ toRelease' = [i \in Items |-> 0]
    /\ UNCHANGED <<items, place, trades, client, fault>>

(* A walk to or from the tile and the players around it.                   *)
Walk(p) ==
    /\ place[p] # "offline"
    /\ place' = [place EXCEPT ![p] = IF @ = "here" THEN "away" ELSE "here"]
    /\ clicked' = clicked
    /\ CloseTrades(ClosedByWalk(p, place'[p]), {})
    /\ UNCHANGED <<items, refs, fault>>

(* onRemoveCreature of the player itself.                                  *)
Logout(p) ==
    /\ place[p] # "offline"
    /\ place' = [place EXCEPT ![p] = "offline"]
    /\ clicked' = clicked \ {p}
    /\ CloseTrades(IF tradePartner[p] # None THEN {p} ELSE {}, {})
    /\ UNCHANGED <<items, refs, fault>>

Login(p) ==
    /\ place[p] = "offline"
    /\ place' = [place EXCEPT ![p] = "here"]
    /\ UNCHANGED <<items, counts, trades, client, fault>>

-----------------------------------------------------------------------------
(***************************************************************************)
(* The trade.                                                              *)
(***************************************************************************)
(* playerRequestTrade: the offer overlaps nothing that is on offer.        *)
OverlapsMutant(i) == tradeItems[i] # None     \* the same item only

Overlaps(i) ==
    \E j \in Items :
        /\ tradeItems[j] # None
        /\ j = i \/ IsHoldingItem(at, i, j) \/ IsHoldingItem(at, j, i)

(* internalStartTrade: its two refusals, then the offer.  The window shows *)
(* an offer to both when the counter-offer is made.                        *)
MayStart(p, q) ==
    /\ tradeState[p] = "NONE" \/ (tradeState[p] = "ACKNOWLEDGE" /\ tradePartner[p] = q)
    /\ tradeState[q] = "NONE" \/ tradePartner[q] = p

InternalStartTrade(p, q, i) ==
    /\ MayStart(p, q)
    /\ tradePartner' = [tradePartner EXCEPT ![p] = q,
                            ![q] = IF tradeState[q] = "NONE" THEN p ELSE @]
    /\ tradeItem' = [tradeItem EXCEPT ![p] = i]
    /\ tradeState' = [tradeState EXCEPT ![p] = "INITIATED",
                            ![q] = IF @ = "NONE" THEN "ACKNOWLEDGE" ELSE @]
    /\ refs' = [refs EXCEPT ![i] = @ + 1]
    /\ tradeItems' = [tradeItems EXCEPT ![i] = p]
    /\ shown' = [shown EXCEPT ![p] = Contents(at, i)]

(* Both stand next to each other; p offers an item it carries or one that  *)
(* lies on the tile.  onTradeRequest may refuse, as if nothing was asked.  *)
PlayerRequestTrade(p, q, i) ==
    /\ p \notin clicked
    /\ p # q
    /\ place[p] = "here" /\ place[q] = "here"
    /\ Reachable(p, i)
    /\ toRelease[i] < MaxPending
    /\ ~Overlaps(i)
    /\ InternalStartTrade(p, q, i)
    /\ UNCHANGED <<items, toRelease, place, clicked, agreed, fault>>

(* The client of p, which can accept once its window shows both offers.    *)
ClickAccept(p) ==
    /\ p \notin clicked
    /\ tradeItem[p] # None
    /\ tradePartner[p] # None
    /\ tradeItem[tradePartner[p]] # None
    /\ tradeState[p] # "ACCEPT"
    /\ clicked' = clicked \cup {p}
    /\ agreed' = [agreed EXCEPT ![p] = <<tradeItem[p], tradeItem[tradePartner[p]]>>]
    /\ UNCHANGED <<items, counts, place, trades, shown, fault>>

PlayerCloseTrade(p) ==
    /\ p \notin clicked
    /\ tradeState[p] # "NONE"
    /\ clicked' = clicked
    /\ CloseTrades({p}, {})
    /\ UNCHANGED <<items, refs, place, fault>>

(***************************************************************************)
(* playerAcceptTrade by the second of the two: p accepts, q has accepted.  *)
(***************************************************************************)
(* The bags of player p in which queryDestination looks for room: not      *)
(* those in cut, nor what is in them.                                      *)
Visited(l, p, cut) ==
    {b \in Bags : TopParent(l, b) = p /\ b \notin cut
                  /\ \A c \in cut : ~IsHoldingItem(l, c, b)}

(* The offer of p is left out only if it lies in a slot.                   *)
InSlot(l, S) == {i \in S \cap Items : l[i] \in AllSlots}

FreeSlots(l, p, i) == {s \in Slots(p) : HasRoom(l, s, i)}

(* Player::queryDestination without stacking: a free slot, or else a bag.  *)
Destinations(l, p, i) ==
    IF FreeSlots(l, p, i) # {}
    THEN FreeSlots(l, p, i)
    ELSE {b \in Visited(l, p, InSlot(l, {tradeItem[p], i})) : HasRoom(l, b, i)}

(* The same with stacking: a stack with room is a destination as well, and *)
(* the offer is left out wherever it lies.                                 *)
StackDestinations(l, p, i) ==
    LET bags == Visited(l, p, {tradeItem[p], i} \cap Items)
    IN FreeSlots(l, p, i)
       \cup {s \in Stacks \ {tradeItem[p], i} : l[s] \in Slots(p) \cup bags /\ amount[s] < StackSize}
       \cup {b \in bags : HasRoom(l, b, i)}

(* Player::queryMaxCount for the whole inventory.                          *)
MaxCount(l, p, i) ==
    LET free(b) == StackSize * (BagSize - Cardinality(Children(l, b)))
        left(s) == StackSize - amount[s]
        of(S) == {j \in S : TopParent(l, j) = p}
    IN StackSize * Cardinality(FreeSlots(l, p, i))
       + MapThenSumSet(free, of(Bags)) + MapThenSumSet(left, of(Stacks))

(* internalAddItem(p, i, INDEX_WHEREEVER, 0, test).                        *)
TestAdd(l, p, i) ==
    IF i \in Stacks
    THEN StackDestinations(l, p, i) # {} /\ MaxCount(l, p, i) >= amount[i]
    ELSE Destinations(l, p, i) # {}

(* Who gives its own backpack away needs a free slot for the other offer.  *)
SlotType(i) == IF i \in Bags THEN "back" ELSE "hand"

BackpackAllowed(l, p, mine, other) ==
    l[mine] = <<p, "back">> => Children(l, <<p, SlotType(other)>>) = {}

(* The first internalMoveItem, with the other offer as its tradeItem.      *)
FirstMoves(p, q, mine, theirs) ==
    IF /\ BackpackAllowed(at, q, theirs, mine)
       /\ BackpackAllowed(at, p, mine, theirs)
       /\ TestAdd(at, q, mine)
       /\ TestAdd(at, p, theirs)
    THEN Destinations(at, q, mine)
    ELSE {}

Within(l, b, d) == d = b \/ (d \in Bags /\ IsHoldingItem(l, b, d))

(* The second, whose result is not looked at.                              *)
SecondMove(l, p, theirs, l2) ==
    LET to == Destinations(l, p, theirs)
    IN IF to = {} THEN l2 = l ELSE \E d \in to : l2 = [l EXCEPT ![theirs] = d]

(* Everything from the two tests on; trades other than this one that the   *)
(* moves close are closed as well.                                         *)
Transfer(p, q) ==
    LET mine == tradeItem[p]
        theirs == tradeItem[q]
        first == FirstMoves(p, q, mine, theirs)
    IN \/ /\ first = {} \/ \E d \in first : Within(at, theirs, d)
          /\ CloseTrades({p}, {})
          /\ UNCHANGED <<at, fault>>
       \/ \E d \in first :
            LET l == [at EXCEPT ![mine] = d]
                places == {l} \cup {[l EXCEPT ![theirs] = e] : e \in Destinations(l, p, theirs)}
            IN /\ ~Within(at, theirs, d)
               /\ at' \in {m \in places : SecondMove(l, p, theirs, m)}
               /\ fault' = IF \/ TopParent(at', mine) = q /\ TopParent(at', theirs) = p
                              \/ theirs \in Stacks
                           THEN fault ELSE "half"
               /\ CloseTrades({p} \cup ClosedByMove(at, mine, d)
                                  \cup (IF at' = l THEN {}
                                        ELSE ClosedByMove(l, theirs, at'[theirs])), {})

(* Both have accepted: the view between them may be blocked, or the script *)
(* onTradeAccept may refuse, either of which closes the trade.             *)
Complete(p, q) ==
    \/ (CloseTrades({p}, {}) /\ UNCHANGED <<at, fault>>)
    \/ IF None \in {tradeItem[p], tradeItem[q]}
       THEN fault' = "no offer" /\ CloseTrades({p}, {}) /\ UNCHANGED at
       ELSE Transfer(p, q)

PlayerAcceptTrade(p) ==
    /\ p \in clicked
    /\ clicked' = clicked \ {p}
    /\ IF tradeState[p] \notin {"ACKNOWLEDGE", "INITIATED"} \/ tradePartner[p] = None
       THEN /\ agreed' = [agreed EXCEPT ![p] = IF tradeState[p] = "NONE" THEN <<>> ELSE @]
            /\ UNCHANGED <<items, counts, trades, shown, fault>>
       ELSE IF tradeState[tradePartner[p]] # "ACCEPT"
       THEN /\ tradeState' = [tradeState EXCEPT ![p] = "ACCEPT"]
            /\ UNCHANGED <<items, counts, tradePartner, tradeItem, tradeItems, shown,
                           agreed, fault>>
       ELSE Complete(p, tradePartner[p]) /\ UNCHANGED <<amount, refs>>
    /\ UNCHANGED place

Next ==
    \/ \E p \in Players :
        \/ \E i \in Items :
            \/ MoveItem(p, i)
            \/ \E q \in Players : PlayerRequestTrade(p, q, i)
        \/ ClickAccept(p)
        \/ PlayerAcceptTrade(p)
        \/ PlayerCloseTrade(p)
        \/ Walk(p)
        \/ Logout(p)
        \/ Login(p)
    \/ \E i \in Items : UseOne(i) \/ RemoveItem(i)
    \/ Cleanup

Spec == Init /\ [][Next]_vars

-----------------------------------------------------------------------------
TypeOK ==
    /\ at \in [Items -> Where]
    /\ amount \in [Items -> 1..StackSize]
    /\ refs \in [Items -> Nat]
    /\ toRelease \in [Items -> Nat]
    /\ place \in [Players -> {"here", "away", "offline"}]
    /\ tradeState \in [Players -> {"NONE", "INITIATED", "ACKNOWLEDGE", "ACCEPT"}]
    /\ tradePartner \in [Players -> Players \cup {None}]
    /\ tradeItem \in [Players -> Items \cup {None}]
    /\ tradeItems \in [Items -> Players \cup {None}]
    /\ clicked \subseteq Players
    /\ fault \in {None, "half", "no offer"}

(* A trade is of two: who trades is the partner of its partner, and who    *)
(* does not trade has neither partner nor offer.  tradeItems, by which     *)
(* new offers are refused, lists exactly the offers of the players.        *)
Mutual ==
    \A p \in Players :
        /\ IF tradeState[p] = "NONE"
           THEN tradePartner[p] = None /\ tradeItem[p] = None
           ELSE /\ tradePartner[p] \in Players \ {p}
                /\ tradePartner[tradePartner[p]] = p
        /\ \A i \in Items : tradeItems[i] = p <=> tradeItem[p] = i

(* No two offers overlap, whatever is moved into or out of bags meanwhile. *)
Disjoint ==
    \A i, j \in Items :
        i # j /\ tradeItems[i] # None /\ tradeItems[j] # None
            => ~IsHoldingItem(at, i, j)

(* An offer is what the trade window listed: nothing is put into it, taken *)
(* out of it or used up while the trade is open.                           *)
AsShown ==
    \A p \in Players : tradeItem[p] # None => shown[p] = Contents(at, tradeItem[p])

(* A player who has accepted with an offer of its own gets what the window *)
(* showed when it clicked, however late the message arrives, and no trade  *)
(* is completed without two offers, or with one of them left where it was  *)
(* (but for a stack, whose test counts on merging; game.cpp:2784).         *)
AsAgreed ==
    /\ fault = None
    /\ \A p \in Players :
        tradeState[p] = "ACCEPT" /\ tradeItem[p] # None
            => agreed[p] = <<tradeItem[p], tradeItem[tradePartner[p]]>>

(* Who trades is next to its partner, and next to its own offer.           *)
InReach ==
    \A p \in Players :
        /\ tradeState[p] # "NONE" => place[p] = "here" /\ place[tradePartner[p]] = "here"
        /\ tradeItem[p] # None => TopParent(at, tradeItem[p]) \in {p, Tile}

(* An item has one reference for its place and one for being on offer;     *)
(* what was given up awaits cleanup, so nothing is freed in use or leaked. *)
Counted ==
    \A i \in Items :
        refs[i] = (IF at[i] # Gone THEN 1 ELSE 0)
                  + (IF tradeItems[i] # None THEN 1 ELSE 0) + toRelease[i]

(* The two players and the table of offers agree (game.cpp:2679), offers   *)
(* are as both sides saw them (:2714), near, and counted (:2903).          *)
Agreement == Mutual /\ Disjoint
NoSurprise == AsShown /\ AsAgreed
Tangible == InReach /\ Counted
=============================================================================
