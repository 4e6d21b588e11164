-------------------------------- MODULE Windows --------------------------------
(***************************************************************************)
(* The windows a client has open on containers: Player::openContainers of  *)
(* src/src/player.cpp, the notices of src/src/container.cpp, and the       *)
(* requests to open, close, turn and leaf through a container of           *)
(* src/src/game.cpp and actions.cpp.                                       *)
(*                                                                         *)
(* openContainers holds plain pointers.  They are good because whoever     *)
(* moves or removes a container tells all players who see its place, and   *)
(* those close the windows of what went out of their reach, with all that  *)
(* is inside of it.  The client is modelled by what each message means: it *)
(* shows a page of the list, of which it is told the changes.              *)
(*                                                                         *)
(* One player looks; things are moved and removed by anybody, whole, and   *)
(* may change their looks.  The tiles are so near that he sees them all,   *)
(* and may be so far apart that he does not reach from one to another.     *)
(* Browse fields and stacks are left out.                                  *)
(***************************************************************************)
EXTENDS Integers, Sequences, FiniteSets, SequencesExt, Nesting

CONSTANTS
    Bags, Plain,        \* things, with and without room in them
    Fixed,              \* those bags that nobody moves
    Size,               \* how many things a bag, or one page of it, takes (> 0)
    Paged,              \* those bags that take any number, shown page by page
    Tiles,              \* places on a line: integers
    Cids                \* the windows of the client: naturals

Things == Bags \cup Plain

(* A thing lies in a bag, or in one of these.                              *)
Tile(n) == <<"tile", n>>
Mine == <<"mine", 0>>           \* the inventory of the player who looks
Theirs == <<"theirs", 0>>       \* of another player, who stands somewhere
Nowhere == <<"nowhere", 0>>
None == <<"none", 0>>           \* no container
Shut == [bag |-> None, index |-> 0, items |-> <<>>, size |-> 0]

VARIABLES
    parent,         \* Thing::parent
    itemlist,       \* Container::itemlist
    look,           \* what a thing looks like
    at,             \* where the player stands
    openContainers, \* the bag and the first index of a window
    window,         \* what the client shows in it
    misled          \* history: windows that were told of a thing that is not
                    \* on their page, until they show their page again

windowVars == <<parent, itemlist, look, at, openContainers, window, misled>>

Now == [parent |-> parent, list |-> itemlist, look |-> look, at |-> at,
        open |-> openContainers, window |-> window]

-----------------------------------------------------------------------------
(* What a client does with a message.                                      *)

Seen(s, x) == <<x, s.look[x]>>

(* Up to n members of a list, from an index on.                            *)
Slice(list, index, n) ==
    SubSeq(list, index + 1, IF index + n < Len(list) THEN index + n ELSE Len(list))

Page(s, b, index) ==
    LET shown == Slice(s.list[b], index, Size[b])
    IN [bag |-> b, index |-> index, size |-> Len(s.list[b]),
        items |-> [k \in DOMAIN shown |-> Seen(s, shown[k])]]

(* What the window shows is what the server believes it shows.             *)
InStep(cid) ==
    /\ openContainers[cid].bag # None
    /\ window[cid] = Page(Now, openContainers[cid].bag, openContainers[cid].index)

(* The next state; a message has misled some of the windows.               *)
Misleading(s, wronged) ==
    /\ parent' = s.parent /\ itemlist' = s.list /\ look' = s.look /\ at' = s.at
    /\ openContainers' = s.open /\ window' = s.window
    /\ misled' = {cid \in misled \cup wronged : window'[cid] # Shut /\ ~ InStep(cid)'}

Become(s) == Misleading(s, {})

ClientClose(s, cid) == [s EXCEPT !.window[cid] = Shut]

(* A new thing comes to the front of a page, whose last one may fall off.  *)
ClientAdd(w, b, item) ==
    [w EXCEPT !.items = Slice(<<item>> \o @, 0, Size[b]), !.size = @ + 1]

(* A thing of the page goes and the first of the next page follows; one    *)
(* behind the page only counts.                                            *)
ClientRemove(w, slot, last) ==
    LET k == slot - w.index + 1
    IN IF k \notin DOMAIN w.items THEN [w EXCEPT !.size = @ - 1]
       ELSE [w EXCEPT !.items = RemoveAt(@, k) \o last, !.size = @ - 1]

ClientUpdate(w, slot, item) ==
    IF slot - w.index + 1 \in DOMAIN w.items
    THEN [w EXCEPT !.items[slot - w.index + 1] = item] ELSE w

-----------------------------------------------------------------------------
(* Where things are.                                                       *)

(* Who or what holds thing x, with all that it lies in, in the end.        *)
Holder(s, x) == CHOOSE h \in Over(Bags, s.parent, x) : h \notin Bags
IsRemoved(s, x) == Holder(s, x) = Nowhere

(* Container::isHoldingItem, and the bag itself.                           *)
Within(s, x, b) == x = b \/ b \in Over(Bags, s.parent, x)

(* isInRange of the position of x; the other player stands out of reach or *)
(* within it, which "near" tells.                                          *)
InRange(s, x, near) ==
    LET h == Holder(s, x)
    IN CASE h = Mine -> TRUE
         [] h = Theirs -> near
         [] OTHER -> h[2] - s.at \in -1..1

-----------------------------------------------------------------------------
(* Windows.                                                                *)

Showing(s, b) == {cid \in Cids : s.open[cid].bag = b}

SendContainer(s, cid, b, index) == [s EXCEPT !.window[cid] = Page(s, b, index)]

OnSendContainer(s, b) ==
    [s EXCEPT !.window = [cid \in Cids |-> IF cid \in Showing(s, b)
                                           THEN Page(s, b, s.open[cid].index) ELSE @[cid]]]

AddContainer(s, cid, b) == [s EXCEPT !.open[cid] = [bag |-> b, index |-> 0]]

CloseContainer(s, cid) == [s EXCEPT !.open[cid] = [bag |-> None, index |-> 0]]

OnCloseContainer(s, b) ==
    [s EXCEPT !.window = [cid \in Cids |-> IF cid \in Showing(s, b) THEN Shut ELSE @[cid]]]

(* autoCloseContainers of each of some bags: the windows of those, of all  *)
(* that is in them, and of what is in nothing any more.                    *)
CloseAll(s, closed) ==
    [s EXCEPT !.open = [cid \in Cids |-> IF cid \in closed THEN [bag |-> None, index |-> 0]
                                         ELSE @[cid]],
              !.window = [cid \in Cids |-> IF cid \in closed THEN Shut ELSE @[cid]]]

AutoCloseContainersMutant(s, bs) ==      \* not of what is in them
    CloseAll(s, {cid \in Cids : s.open[cid].bag \in bs})

AutoCloseContainers(s, bs) ==
    LET closes(b) == IsRemoved(s, b) \/ \E c \in bs : Within(s, b, c)
    IN IF bs = {} THEN s
       ELSE CloseAll(s, {cid \in Cids : s.open[cid].bag # None /\ closes(s.open[cid].bag)})

(* sendAddContainerItem, sendUpdateContainerItem and                       *)
(* sendRemoveContainerItem to the player, who reaches the bag.             *)
(* The windows are told in the order of their numbers; an item that was    *)
(* looked up for one, to whose page it moves on, is kept for those after   *)
(* it (see Wronged).                                                       *)
Turned(s, b, cid) == {d \in Showing(s, b) : d <= cid /\ s.open[d].index >= Size[b]}

SendAdd(s, b, x) ==
    LET item(cid) == IF Turned(s, b, cid) = {} THEN x
                     ELSE s.list[b][s.open[Max(Turned(s, b, cid))].index + 1]
    IN [s EXCEPT !.window = [cid \in Cids |->
            IF cid \in Showing(s, b) /\ @[cid] # Shut
            THEN ClientAdd(@[cid], b, Seen(s, item(cid))) ELSE @[cid]]]

(* The windows on the first page of a bag that are told, in place of the   *)
(* thing added to it, of one looked up for a window before them.           *)
Wronged(s, b) ==
    {cid \in Showing(s, b) : s.open[cid].index < Size[b] /\ Turned(s, b, cid) # {}}

SendUpdate(s, b, slot, x) ==
    LET shows(cid) == slot - s.open[cid].index \in 0..(Size[b] - 1)
    IN [s EXCEPT !.window = [cid \in Cids |->
            IF cid \in Showing(s, b) /\ @[cid] # Shut /\ shows(cid)
            THEN ClientUpdate(@[cid], slot, Seen(s, x)) ELSE @[cid]]]

(* The thing is still in the list.  A page that would be empty is turned   *)
(* back.                                                                   *)
SendRemoveMutant(s, b, slot) ==         \* what moves up is forgotten
    LET first(cid) == LET k == s.open[cid].index
                      IN IF k > 0 /\ k >= Len(s.list[b]) - 1 THEN k - Size[b] ELSE k
        sent(cid, w) == ClientRemove(IF first(cid) = s.open[cid].index THEN w
                                     ELSE Page(s, b, first(cid)), slot, <<>>)
    IN [s EXCEPT !.open = [cid \in Cids |->
                    IF cid \in Showing(s, b) THEN [@[cid] EXCEPT !.index = first(cid)] ELSE @[cid]],
                 !.window = [cid \in Cids |->
                    IF cid \in Showing(s, b) /\ @[cid] # Shut THEN sent(cid, @[cid]) ELSE @[cid]]]

SendRemove(s, b, slot) ==
    LET first(cid) == LET k == s.open[cid].index
                      IN IF k > 0 /\ k >= Len(s.list[b]) - 1 THEN k - Size[b] ELSE k
        next(cid) == LET shown == Slice(s.list[b], first(cid) + Size[b], 1)
                     IN [k \in DOMAIN shown |-> Seen(s, shown[k])]
        from(cid) == IF slot < first(cid) THEN first(cid) ELSE slot
        sent(cid, w) == ClientRemove(IF first(cid) = s.open[cid].index THEN w
                                     ELSE Page(s, b, first(cid)), from(cid), next(cid))
    IN [s EXCEPT !.open = [cid \in Cids |->
                    IF cid \in Showing(s, b) THEN [@[cid] EXCEPT !.index = first(cid)] ELSE @[cid]],
                 !.window = [cid \in Cids |->
                    IF cid \in Showing(s, b) /\ @[cid] # Shut THEN sent(cid, @[cid]) ELSE @[cid]]]

-----------------------------------------------------------------------------
(* Things come and go.                                                     *)

AddThing(s, to, x, near) ==
    LET there == [s EXCEPT !.parent[x] = to]
        added == [there EXCEPT !.list[to] = <<x>> \o @]
    IN CASE to \notin Bags -> there
         [] to \in Bags /\ InRange(added, to, near) -> SendAdd(added, to, x)
         [] OTHER -> added

(* Container::getThingIndex.                                               *)
SlotOf(s, b, x) == CHOOSE slot \in 0..(Len(s.list[b]) - 1) : s.list[b][slot + 1] = x

RemoveThing(s, x, near) ==
    LET b == s.parent[x]
        slot == SlotOf(s, b, x)
        told == IF InRange(s, b, near) THEN SendRemove(s, b, slot) ELSE s
    IN IF b \notin Bags THEN [s EXCEPT !.parent[x] = Nowhere]
       ELSE [told EXCEPT !.parent[x] = Nowhere, !.list[b] = RemoveAt(@, slot + 1)]

(* Whether a notice from a place reaches the player: by the tile it is on, *)
(* which he sees, or by his own inventory.                                 *)
Reaches(s, to) == (IF to \in Bags THEN Holder(s, to) ELSE to) \notin {Theirs, Nowhere}

(* Player::postAddNotification and postRemoveNotification.                 *)
PostAdd(s, to, x) ==
    IF Reaches(s, to) /\ x \in Bags THEN OnSendContainer(s, x) ELSE s

PostRemove(s, from, x, near) ==
    CASE ~ Reaches(s, from) \/ x \notin Bags -> s
      [] Reaches(s, from) /\ x \in Bags /\ (IsRemoved(s, x) \/ ~ InRange(s, x, near)
                                            \/ Holder(s, x) = Theirs) ->
            AutoCloseContainers(s, {x})
      [] OTHER -> OnSendContainer(s, x)

(* Game::internalMoveItem of a thing that fits, and internalRemoveItem.    *)
InternalMoveItem(s, x, to, near) ==
    LET from == s.parent[x]
        moved == AddThing(RemoveThing(s, x, near), to, x, near)
    IN PostAdd(PostRemove(moved, from, x, near), to, x)

InternalRemoveItem(s, x, near) ==
    PostRemove(RemoveThing(s, x, near), s.parent[x], x, near)

-----------------------------------------------------------------------------

Exists(x) == ~ IsRemoved(Now, x)
Fits(x, to) ==
    /\ to \in Bags => /\ to \in Paged \/ Len(itemlist[to]) < Size[to]
                      /\ ~ Within(Now, to, x)
                      /\ Exists(to)
    /\ to # parent[x]

Move(x, to, near) ==
    /\ x \notin Fixed /\ Exists(x) /\ Fits(x, to)
    /\ Misleading(InternalMoveItem(Now, x, to, near),
                  IF to \in Bags THEN Wronged(Now, to) ELSE {})

TakeAway(x, near) ==
    /\ x \notin Fixed /\ Exists(x)
    /\ Become(InternalRemoveItem(Now, x, near))

(* Container::updateThing, of a thing in a bag.                            *)
Change(x, near) ==
    /\ Exists(x) /\ parent[x] \in Bags
    /\ LET b == parent[x]
           slot == SlotOf(Now, b, x)
           changed == [Now EXCEPT !.look[x] = 1 - @]
       IN Become(IF InRange(Now, b, near) THEN SendUpdate(changed, b, slot, x) ELSE changed)

(* The player steps to another tile: what he does not reach any more is    *)
(* closed.                                                                 *)
Step(to) ==
    /\ to # at
    /\ LET there == [Now EXCEPT !.at = to]
           far == {b \in Bags : Showing(Now, b) # {} /\ ~ InRange(there, b, FALSE)}
       IN Become(AutoCloseContainers(there, far))

(* Actions::internalUseItem of a container.                                *)
Use(b, cid) ==
    /\ Exists(b) /\ Holder(Now, b) # Theirs /\ InRange(Now, b, FALSE)
    /\ IF Showing(Now, b) = {}
       THEN Become(OnSendContainer(AddContainer(Now, cid, b), b))
       ELSE Become(CloseContainer(OnCloseContainer(Now, b),
                                  CHOOSE c \in Showing(Now, b) : \A d \in Showing(Now, b) : c <= d))

(* Game::playerCloseContainer, playerMoveUpContainer,                      *)
(* playerUpdateContainer and playerSeekInContainer.                        *)
PlayerClose(cid) == Become(ClientClose(CloseContainer(Now, cid), cid))

PlayerMoveUp(cid) ==
    /\ openContainers[cid].bag # None
    /\ LET up == parent[openContainers[cid].bag]
       IN up \in Bags /\ Become(SendContainer(AddContainer(Now, cid, up), cid, up, 0))

PlayerUpdate(cid) ==
    /\ openContainers[cid].bag # None
    /\ Become(SendContainer(Now, cid, openContainers[cid].bag, openContainers[cid].index))

PlayerSeek(cid, index) ==
    LET b == openContainers[cid].bag
    IN /\ openContainers[cid].bag # None /\ b \in Paged
       /\ index % Size[b] = 0 /\ index < Len(itemlist[b])
       /\ Become(SendContainer([Now EXCEPT !.open[cid].index = index], cid, b, index))

WindowsInit ==
    /\ at \in Tiles
    /\ \E p \in Tiles : parent = [x \in Things |-> Tile(p)]
    /\ itemlist = [b \in Bags |-> <<>>]
    /\ look = [x \in Things |-> 0]
    /\ openContainers = [cid \in Cids |-> [bag |-> None, index |-> 0]]
    /\ window = [cid \in Cids |-> Shut]
    /\ misled = {}

(* Where the other player stands matters when something is his.            *)
Nears == IF \E x \in Things : parent[x] = Theirs THEN BOOLEAN ELSE {FALSE}

WindowsNext ==
    \/ \E x \in Things, near \in Nears :
          \/ \E to \in {Tile(p) : p \in Tiles} \cup Bags \cup {Mine, Theirs} :
                Move(x, to, near)
          \/ TakeAway(x, near)
    \/ \E x \in Plain, near \in Nears : Change(x, near)
    \/ \E to \in Tiles : Step(to)
    \/ \E cid \in Cids :
          \/ \E b \in Bags : Use(b, cid)
          \/ PlayerClose(cid) \/ PlayerMoveUp(cid) \/ PlayerUpdate(cid)
          \/ \E index \in 0..(Cardinality(Things) - 1) : PlayerSeek(cid, index)

-----------------------------------------------------------------------------
(* openContainers holds no container that has been removed, and none that  *)
(* the player does not reach any more: on a tile too far off or in the     *)
(* hands of another player (Player::autoCloseContainers).                  *)
OpenIsThere ==
    \A cid \in Cids : openContainers[cid].bag # None =>
        LET b == openContainers[cid].bag
        IN ~ IsRemoved(Now, b) /\ Holder(Now, b) # Theirs /\ InRange(Now, b, FALSE)

(* Every window of the client is open for the server too, and shows the    *)
(* page of the container the server believes it shows, however things came *)
(* and went (Player::sendAddContainerItem, sendRemoveContainerItem).  The  *)
(* code breaks this when a thing comes into a container that is open in    *)
(* two windows, the first of them turned to a later page: the second is    *)
(* told of the wrong thing (player.cpp:925).  Such a window is excepted    *)
(* until it shows its page again.                                          *)
WindowsInSync == \A cid \in Cids \ misled : window[cid] # Shut => InStep(cid)

=============================================================================
