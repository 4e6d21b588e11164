------------------------------ MODULE ClientView ------------------------------
(***************************************************************************)
(* What a player's client shows of the map (src/src/protocolgame.cpp,      *)
(* tile.cpp, map.cpp, player.h).                                           *)
(*                                                                         *)
(* The client has a copy of the tiles in view and is told of every change  *)
(* by the place of a thing in the tile's stack.  A tile may hold more      *)
(* things than the MAX_STACKPOS a client shows, and creatures that the     *)
(* player cannot see, so the server counts the place as the client would.  *)
(* Full descriptions of a creature are sent once: the server remembers     *)
(* whom a client knows, and tells it whom to forget.                       *)
(*                                                                         *)
(* One player looks at a line of tiles; the client is modelled by what     *)
(* each message means.  Floors, effects and the size of a scroll to the    *)
(* sides are left out.                                                     *)
(***************************************************************************)
EXTENDS Integers, FiniteSets, SequencesExt

CONSTANTS
    O,                  \* the player that looks
    Others,             \* the other creatures
    Top, Down,          \* items that are always on top, and the others
    TopOrder,           \* alwaysOnTopOrder
    Splashes,           \* the items on top of which a tile has one
    Places, Back, Ahead,   \* a line of tiles, and how much of it is in view
    MaxStackPos,        \* MAX_STACKPOS
    UpdateThreshold,    \* TILE_UPDATE_THRESHOLD
    KnownMax,           \* 1300
    Hiders,             \* creatures that become invisible
    Garbage             \* what an uninitialised removedKnown may hold

Creatures == Others \cup {O}

ASSUME ClientViewAssumption ==
    /\ O \notin Others /\ Hiders \subseteq Others /\ Garbage \subseteq Creatures
    /\ Splashes \subseteq Top /\ TopOrder \in [Top -> Nat]
    /\ Back \in Nat /\ Ahead \in Nat /\ KnownMax \in Nat \ {0}
    /\ UpdateThreshold < MaxStackPos

Items == Top \cup Down
Ground == "ground"

VARIABLES
    top, creatures, down,   \* the stack of each tile; creatures, newest first
    at,                     \* where each creature and item is, or -1
    look,                   \* the type of an item, which a transformation changes
    hidden,                 \* the creatures that are invisible
    tiles,                  \* the client's copy of each tile, empty out of view
    known,                  \* knownCreatureSet
    clientKnown,            \* the creatures the client knows
    torn,                   \* history: tiles the client was told to drop one thing too
                            \* many from, or to overwrite one of by a creature not seen
    dropped                 \* history: the creatures the client was told to forget by
                            \* an uninitialised word, or as more were in view than it
                            \* can know, while they are in view or taken for known

vars == <<top, creatures, down, at, look, hidden, tiles, known, clientKnown, torn,
          dropped>>

Now == [top |-> top, creatures |-> creatures, down |-> down, at |-> at, look |-> look,
        hidden |-> hidden, tiles |-> tiles, known |-> known, clientKnown |-> clientKnown,
        torn |-> torn, dropped |-> dropped]

CanSee(s, p) == p # -1 /\ s.at[O] - Back <= p /\ p <= s.at[O] + Ahead

(* What a client has of a torn tile is not followed further.               *)
Become(s) ==
    /\ tiles' = [p \in Places |-> IF p \in s.torn THEN <<>> ELSE s.tiles[p]]
    /\ top' = s.top /\ creatures' = s.creatures /\ down' = s.down /\ at' = s.at
    /\ look' = s.look /\ hidden' = s.hidden /\ known' = s.known
    /\ clientKnown' = s.clientKnown /\ torn' = s.torn
    /\ dropped' = {c \in s.dropped : c \in s.known \/ CanSee(s, s.at[c])}

-----------------------------------------------------------------------------
(* What the player sees.                                                   *)

CanSeeCreature(s, c) == c = O \/ c \notin s.hidden

Show(s, t) == <<t, IF t \in Items THEN s.look[t] ELSE 0>>
Visible(s, p) == SelectSeq(s.creatures[p], LAMBDA c : CanSeeCreature(s, c))
Stack(s, p) == <<Ground>> \o s.top[p] \o Reverse(Visible(s, p)) \o s.down[p]
ThingCount(s, p) == 1 + Len(s.top[p]) + Len(s.creatures[p]) + Len(s.down[p])

Clip(list) == SubSeq(list, 1, IF Len(list) < MaxStackPos THEN Len(list) ELSE MaxStackPos)
Described(s, p) ==
    LET stack == Stack(s, p) IN Clip([n \in 1..Len(stack) |-> Show(s, stack[n])])

(* Tile::getStackposOfItem.                                                *)
StackposOfItem(s, p, i) ==
    LET before == IF i \in Top THEN 1 ELSE 1 + Len(s.top[p]) + Len(Visible(s, p))
        n == before - 1 + (CHOOSE k \in 1..Len(IF i \in Top THEN s.top[p] ELSE s.down[p]) :
                              (IF i \in Top THEN s.top[p] ELSE s.down[p])[k] = i)
    IN IF n >= MaxStackPos THEN -1 ELSE n

(* Tile::getClientIndexOfCreature: those that came before it and are seen. *)
ClientIndexMutant(s, p, c) ==         \* as if the player saw everybody
    LET k == CHOOSE n \in 1..Len(s.creatures[p]) : s.creatures[p][n] = c
    IN 1 + Len(s.top[p]) + Len(s.creatures[p]) - k

ClientIndex(s, p, c) ==
    LET list == s.creatures[p]
        k == CHOOSE n \in 1..Len(list) : list[n] = c
    IN 1 + Len(s.top[p])
         + Cardinality({n \in k + 1..Len(list) : CanSeeCreature(s, list[n])})

-----------------------------------------------------------------------------
(* What messages do to the client.                                         *)

ClientAdd(s, p, n, t) ==
    LET where == IF n > Len(s.tiles[p]) THEN Len(s.tiles[p]) ELSE n
    IN [s EXCEPT !.tiles[p] = Clip(InsertAt(@, where + 1, Show(s, t)))]

ClientUpdate(s, p, n, t) ==
    IF n >= Len(s.tiles[p]) THEN s ELSE [s EXCEPT !.tiles[p][n + 1] = Show(s, t)]

ClientRemove(s, p, n) ==
    IF n >= Len(s.tiles[p]) THEN s ELSE [s EXCEPT !.tiles[p] = RemoveAt(@, n + 1)]

ClientForget(s, c) ==
    [s EXCEPT !.tiles = [p \in Places |-> SelectSeq(@[p], LAMBDA e : e[1] # c)]]

(* The client puts a creature that steps on a tile above the others.       *)
ClientMove(s, c, q) ==
    LET gone == ClientForget(s, c)
        above == {n \in DOMAIN gone.tiles[q] : gone.tiles[q][n][1] \in {Ground} \cup Top \cup Creatures}
    IN ClientAdd(gone, q, Cardinality(above), c)

-----------------------------------------------------------------------------
(* Sending.                                                                *)

CheckCreatureAsKnownMutant(s, c) ==     \* the one to forget stays in the set
    LET full == s.known \cup {c}
        victim == CHOOSE x \in full : x # c
    IN IF Cardinality(full) <= KnownMax
       THEN [s EXCEPT !.known = full, !.clientKnown = @ \cup {c}]
       ELSE [s EXCEPT !.known = full, !.clientKnown = (@ \ {victim}) \cup {c},
                      !.dropped = @ \ {c}]

(* ProtocolGame::checkCreatureAsKnown, and what AddCreature tells.         *)
CheckCreatureAsKnown(s, c) ==
    LET full == [s EXCEPT !.known = @ \cup {c}, !.dropped = @ \ {c}]
        unseen == {x \in full.known :
                     s.at[x] = -1 \/ ~ CanSee(s, s.at[x]) \/ ~ CanSeeCreature(s, x)}
        victim == CHOOSE x \in full.known : IF unseen = {} THEN x # c ELSE x \in unseen
    IN CASE c \in s.known -> s
         [] c \notin s.known /\ Cardinality(full.known) <= KnownMax ->
              [full EXCEPT !.clientKnown = @ \cup {c}]
         [] OTHER -> [full EXCEPT !.known = @ \ {victim},
                                  !.clientKnown = (@ \ {victim}) \cup {c},
                                  !.dropped = IF unseen = {} THEN @ \cup {victim} ELSE @]

GetTileDescription(s, p) ==
    [FoldLeft(CheckCreatureAsKnown, s, Reverse(Visible(s, p)))
        EXCEPT !.tiles[p] = Described(s, p), !.torn = @ \ {p}]

SendMapDescription(s) ==
    LET seen == SetToSeq({p \in Places : CanSee(s, p)})
        blank == [s EXCEPT !.tiles = [p \in Places |-> <<>>], !.torn = {}]
    IN FoldLeft(GetTileDescription, blank, seen)

SendUpdateTile(s, p) == IF CanSee(s, p) THEN GetTileDescription(s, p) ELSE s

SendAddTileItem(s, p, i) ==
    IF StackposOfItem(s, p, i) = -1 \/ ~ CanSee(s, p) THEN s
    ELSE ClientAdd(s, p, StackposOfItem(s, p, i), i)

SendUpdateTileItem(s, p, i) ==
    IF StackposOfItem(s, p, i) = -1 \/ ~ CanSee(s, p) THEN s
    ELSE ClientUpdate(s, p, StackposOfItem(s, p, i), i)

SendRemoveTileThing(s, p, n) ==
    IF n = -1 \/ ~ CanSee(s, p) THEN s ELSE ClientRemove(s, p, n)

SendRemoveTileCreature(s, c, p, n) ==
    IF n # -1 /\ n < MaxStackPos
    THEN IF CanSee(s, p) THEN ClientRemove(s, p, n) ELSE s
    ELSE ClientForget(s, c)

SendAddCreature(s, c, p) ==
    LET n == ClientIndex(s, p, c)
    IN CASE ~ CanSee(s, p) -> s
         [] CanSee(s, p) /\ n >= MaxStackPos -> SendUpdateTile(s, p)
         [] OTHER -> ClientAdd(CheckCreatureAsKnown(s, c), p, n, c)

(* A step of the player itself: the new edge of the view is described.     *)
SendOwnStep(s, p, q) ==
    LET moved == ClientMove(s, O, q)
        edge == IF q > p THEN q + Ahead ELSE q - Back
        kept == [moved EXCEPT !.tiles = [x \in Places |-> IF CanSee(s, x) THEN @[x] ELSE <<>>]]
    IN IF edge \in Places THEN GetTileDescription(kept, edge) ELSE kept

(* ProtocolGame::sendMoveCreature: s is after the move from p to q, and n  *)
(* the place the creature had.                                             *)
SendMoveCreature(s, c, p, q, n, teleport) ==
    CASE c = O /\ teleport -> SendMapDescription(SendRemoveTileCreature(s, c, p, n))
      [] c = O /\ ~ teleport -> SendOwnStep(s, p, q)
      [] c # O /\ CanSee(s, p) /\ CanSee(s, q) /\ teleport ->
           SendAddCreature(SendRemoveTileCreature(s, c, p, n), c, q)
      [] c # O /\ CanSee(s, p) /\ CanSee(s, q) /\ ~ teleport -> ClientMove(s, c, q)
      [] c # O /\ CanSee(s, p) /\ ~ CanSee(s, q) -> SendRemoveTileCreature(s, c, p, n)
      [] c # O /\ ~ CanSee(s, p) /\ CanSee(s, q) -> SendAddCreature(s, c, q)
      [] OTHER -> s

(* Tile::postRemoveNotification.                                           *)
PostRemove(s, p) == IF ThingCount(s, p) > UpdateThreshold THEN SendUpdateTile(s, p) ELSE s

-----------------------------------------------------------------------------
(* Tiles.                                                                  *)

(* Tile::removeThing of an item.                                           *)
RemoveItem(s, i) ==
    LET p == s.at[i]
        n == StackposOfItem(s, p, i)
        gone == [s EXCEPT !.top[p] = SelectSeq(@, LAMBDA x : x # i),
                          !.down[p] = SelectSeq(@, LAMBDA x : x # i), !.at[i] = -1]
    IN SendRemoveTileThing(gone, p, n)

(* Tile::addThing of an item; a new splash takes the place of an old one.  *)
AddItem(s, p, i) ==
    LET old == IF i \in Splashes THEN {x \in Splashes : s.at[x] = p} ELSE {}
        dried == IF old = {} THEN s ELSE PostRemove(RemoveItem(s, CHOOSE x \in old : TRUE), p)
        list == dried.top[p]
        higher == {n \in 1..Len(list) : TopOrder[i] < TopOrder[list[n]]}
        where == IF higher = {} THEN Len(list) + 1 ELSE CHOOSE n \in higher : \A m \in higher : n <= m
        there == IF i \in Top
                 THEN [dried EXCEPT !.top[p] = InsertAt(@, where, i), !.at[i] = p]
                 ELSE [dried EXCEPT !.down[p] = <<i>> \o @, !.at[i] = p]
    IN SendAddTileItem(there, p, i)

(* Tile::addThing and removeThing of a creature.                           *)
Enter(s, c, p) == [s EXCEPT !.creatures[p] = <<c>> \o @, !.at[c] = p]
Leave(s, c) == [s EXCEPT !.creatures[s.at[c]] = SelectSeq(@, LAMBDA x : x # c)]

(* Map::moveCreature.                                                      *)
MoveCreature(s, c, q, teleport) ==
    LET p == s.at[c]
        moved == Enter(Leave(s, c), c, q)
        told == IF CanSeeCreature(s, c)
                THEN SendMoveCreature(moved, c, p, q, ClientIndex(s, p, c), teleport)
                ELSE moved
    IN PostRemove(told, p)

(* Game::placeCreature and removeCreature.                                 *)
PlaceCreature(s, c, p) == SendAddCreature(Enter(s, c, p), c, p)

RemoveCreature(s, c) ==
    LET p == s.at[c]
        n == IF CanSeeCreature(s, c) THEN ClientIndex(s, p, c) ELSE -1
        gone == [Leave(s, c) EXCEPT !.at[c] = -1, !.hidden = @ \ {c}]
    IN PostRemove(SendRemoveTileCreature(gone, c, p, n), p)

(* Player::sendCreatureChangeVisible before a monster hides or after it    *)
(* shows itself again.                                                     *)
Hide(s, c) ==
    LET p == s.at[c]
        full == Len(Stack(s, p)) > MaxStackPos
    IN [SendRemoveTileCreature(s, c, p, ClientIndex(s, p, c)) EXCEPT
           !.hidden = @ \cup {c}, !.torn = IF full /\ CanSee(s, p) THEN @ \cup {p} ELSE @]

Reveal(s, c) == LET seen == [s EXCEPT !.hidden = @ \ {c}]
                IN SendAddCreature(seen, c, s.at[c])

(* Game::updateKnownCreature: sent also of a creature that is not seen,    *)
(* and, when the client knows it, with an uninitialised word for the one   *)
(* that the client is to forget.                                           *)
UpdateKnownCreature(s, c, garbage) ==
    LET p == s.at[c]
        n == ClientIndex(s, p, c)
        told == CheckCreatureAsKnown(s, c)
        forgot == IF c \in s.known
                  THEN [told EXCEPT !.clientKnown = (@ \ garbage) \cup {c},
                                    !.dropped = (@ \cup garbage) \ {c}] ELSE told
        wrong == ~ CanSeeCreature(s, c) /\ n < Len(s.tiles[p])
    IN IF ~ CanSee(s, p) THEN s
       ELSE [ClientUpdate(forgot, p, n, c) EXCEPT !.torn = IF wrong THEN @ \cup {p} ELSE @]

-----------------------------------------------------------------------------

Init ==
    /\ top = [p \in Places |-> <<>>] /\ down = [p \in Places |-> <<>>]
    /\ hidden = {} /\ look = [i \in Items |-> 0] /\ torn = {} /\ dropped = {}
    /\ \E p \in Places :
         /\ at = [t \in Items \cup Creatures |-> IF t = O THEN p ELSE -1]
         /\ creatures = [q \in Places |-> IF q = p THEN <<O>> ELSE <<>>]
         /\ tiles = [q \in Places |->
                       CASE q = p -> << <<Ground, 0>>, <<O, 0>> >>
                         [] q # p /\ p - Back <= q /\ q <= p + Ahead -> << <<Ground, 0>> >>
                         [] OTHER -> <<>>]
    /\ known = {O} /\ clientKnown = {O}

Appear(i, p) == at[i] = -1 /\ Become(AddItem(Now, p, i))

(* The item is freed: what comes by this name later is another one.        *)
Vanish(i) ==
    /\ at[i] # -1
    /\ Become([PostRemove(RemoveItem(Now, i), at[i]) EXCEPT !.look[i] = 0])

Carry(i, p) ==
    /\ at[i] \notin {-1, p}
    /\ Become(PostRemove(AddItem(RemoveItem(Now, i), p, i), at[i]))

(* Tile::updateThing.                                                      *)
Transform(i) ==
    /\ at[i] # -1
    /\ Become(SendUpdateTileItem([Now EXCEPT !.look[i] = 1 - @], at[i], i))

Arrive(c, p) == at[c] = -1 /\ Become(PlaceCreature(Now, c, p))
Depart(c) == at[c] # -1 /\ Become(RemoveCreature(Now, c))
Step(c, q) ==
    /\ at[c] # -1 /\ (at[c] - q) \in {-1, 1}
    /\ Become(MoveCreature(Now, c, q, FALSE))
Teleport(c, q) == at[c] \notin {-1, q} /\ Become(MoveCreature(Now, c, q, TRUE))

Vary(c) ==
    /\ at[c] # -1
    /\ IF c \in hidden THEN Become(Reveal(Now, c)) ELSE Become(Hide(Now, c))

Update(c) ==
    /\ at[c] # -1
    /\ \E garbage \in {{}} \cup {{g} : g \in Garbage} :
          Become(UpdateKnownCreature(Now, c, garbage))

Next ==
    \/ \E i \in Items : Vanish(i) \/ \E p \in Places : Appear(i, p) \/ Carry(i, p)
    \/ \E i \in Down : Transform(i)
    \/ \E c \in Others : Depart(c) \/ Update(c) \/ \E p \in Places : Arrive(c, p)
    \/ \E c \in Creatures, q \in Places : Step(c, q) \/ Teleport(c, q)
    \/ \E c \in Hiders : Vary(c)

Spec == Init /\ [][Next]_vars

-----------------------------------------------------------------------------

(* The client shows of every tile in view what a full description would    *)
(* say, item for item and in order (tile.cpp:1327), except on a tile where *)
(* a creature hid among more things than fit, as that removal is not       *)
(* followed by a description, or where an update of a creature the player  *)
(* does not see was written over another thing (player.h:707,              *)
(* protocolgame.cpp:2376), until the tile is described again.              *)
InSync ==
    \A p \in Places \ torn :
        tiles[p] = IF CanSee(Now, p) THEN Described(Now, p) ELSE <<>>

(* Whom the server takes for known the client knows, so it is never sent   *)
(* less than it needs, and the client knows every creature it shows, except *)
(* those it was told to forget, and that were not described since, by the  *)
(* uninitialised word of protocolgame.cpp:2387, or when there were more in *)
(* view than it can know (protocolgame.cpp:682).                           *)
KnownAgree ==
    /\ known \ dropped \subseteq clientKnown
    /\ \A p \in Places : \A n \in DOMAIN tiles[p] :
          tiles[p][n][1] \in Creatures => tiles[p][n][1] \in clientKnown \cup dropped

=============================================================================
