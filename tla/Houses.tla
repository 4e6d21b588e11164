-------------------------------- MODULE Houses --------------------------------
(***************************************************************************)
(* A house with its owner, its lists of guests, its beds and its transfer  *)
(* document: src/src/house.cpp, housetile.cpp, bed.cpp and                 *)
(* iomapserialize.cpp.  The owner is written to the database at once, the  *)
(* lists and the beds with the map; a crash falls back to what is stored.  *)
(***************************************************************************)
EXTENDS Integers

CONSTANTS
    People,
    Halves,         \* the halves of the beds in the house
    Partner,        \* bedPartnerDir: the other half, or the same if there is none
    Lists,          \* the lists of names somebody may write
    None

VARIABLES
    house,          \* owner, subowners, guests, and the open transfer document
    where,          \* "offline", "out", "room", or "bed": on one of the beds
    sleeper,        \* sleeperGUID of each half
    bedSleepers,    \* Game::bedSleepersMap
    bedItem,        \* Player::bedItem of each, while his dialog is open
    leaving,        \* who is kicked by an event in 50 ms, for he sleeps
    stored          \* the database

houseVars == <<house, where, sleeper, bedSleepers, bedItem, leaving, stored>>

HousesInit ==
    /\ house = [owner |-> None, subowners |-> {}, guests |-> {}, document |-> None]
    /\ where = [p \in People |-> "offline"]
    /\ sleeper = [b \in Halves |-> None]
    /\ bedSleepers = [p \in People |-> None]
    /\ bedItem = [p \in People |-> None]
    /\ leaving = {}
    /\ stored = [owner |-> None, subowners |-> {}, guests |-> {},
                 sleeper |-> [b \in Halves |-> None]]

-----------------------------------------------------------------------------
Online(p) == where[p] # "offline"
InHouse(p) == where[p] \in {"room", "bed"}

(* House::getHouseAccessLevel.                                             *)
AccessLevel(h, p) ==
    CASE h.owner = p -> 3
      [] h.owner # p /\ p \in h.subowners -> 2
      [] h.owner # p /\ p \notin h.subowners /\ p \in h.guests -> 1
      [] OTHER -> 0

Invited(h, p) == AccessLevel(h, p) > 0

(* kickPlayer(nullptr, ...) of some players: to the entry of the house.    *)
PutOut(out) == where' = [p \in People |-> IF p \in out /\ InHouse(p) THEN "out" ELSE where[p]]

(* wakeUp(nullptr) of some halves: the halves and their partners are free. *)
WakeUp(woken) ==
    /\ sleeper' = [b \in Halves |->
                      IF b \in woken \/ Partner[b] \in woken THEN None ELSE sleeper[b]]
    /\ bedSleepers' = [p \in People |->
                          IF \E b \in woken : sleeper[b] = p THEN None ELSE bedSleepers[p]]

(* setOwner: a house that had an owner is cleared of everybody and of its  *)
(* lists; the document stays what it is.                                   *)
SetOwner(p, document) ==
    IF house.owner = p
    THEN /\ house' = [house EXCEPT !.document = document]
         /\ UNCHANGED <<where, sleeper, bedSleepers, stored>>
    ELSE /\ stored' = [stored EXCEPT !.owner = p]
         /\ IF house.owner # None
            THEN /\ PutOut(People)
                 /\ WakeUp({b \in Halves : sleeper[b] # None})
                 /\ house' = [owner |-> p, subowners |-> {}, guests |-> {},
                              document |-> document]
            ELSE /\ house' = [house EXCEPT !.owner = p, !.document = document]
                 /\ UNCHANGED <<where, sleeper, bedSleepers>>

-----------------------------------------------------------------------------
(* The talk actions: to buy, to leave, and to hand over by a trade.        *)
Buy(p) ==
    /\ Online(p) /\ house.owner = None
    /\ SetOwner(p, house.document)
    /\ UNCHANGED <<bedItem, leaving>>

LeaveHouse(p) ==
    /\ InHouse(p) /\ house.owner = p
    /\ SetOwner(None, house.document)
    /\ UNCHANGED <<bedItem, leaving>>

(* luaHouseStartTrade; internalStartTrade refuses who trades already.      *)
StartTrade(p, q) ==
    /\ InHouse(p) /\ Online(q) /\ p # q
    /\ house.owner = p /\ house.document = None
    /\ house' = [house EXCEPT !.document = [from |-> p, to |-> q]]
    /\ UNCHANGED <<where, sleeper, bedSleepers, bedItem, leaving, stored>>

(* onTradeEvent: both agreed, or one of them closed the trade or left.     *)
TradeEnds(agreed) ==
    /\ house.document # None
    /\ IF agreed
       THEN SetOwner(house.document.to, None)
       ELSE /\ house' = [house EXCEPT !.document = None]
            /\ UNCHANGED <<where, sleeper, bedSleepers, stored>>
    /\ UNCHANGED <<bedItem, leaving>>

(* setAccessList puts out whom the new list does not name.                 *)
SetAccessListMutant(h) ==        \* nobody is put out
    house' = h /\ UNCHANGED where

SetAccessList(h) ==
    /\ house' = h
    /\ PutOut({p \in People : ~ Invited(h, p)})

(* playerUpdateHouseWindow asks again whether the player may.              *)
EditList(p, list, names) ==
    /\ Online(p)
    /\ AccessLevel(house, p) >= (IF list = "guests" THEN 2 ELSE 3)
    /\ SetAccessList([house EXCEPT ![list] = names])
    /\ UNCHANGED <<sleeper, bedSleepers, bedItem, leaving, stored>>

(* The spell of the owner or a subowner against somebody else.             *)
KickGuest(p, target) ==
    /\ Online(p) /\ InHouse(target)
    /\ AccessLevel(house, p) >= AccessLevel(house, target)
    /\ PutOut({target})
    /\ UNCHANGED <<house, sleeper, bedSleepers, bedItem, leaving, stored>>

-----------------------------------------------------------------------------
(* HouseTile::queryAdd.                                                    *)
Walk(p, to) ==
    /\ Online(p) /\ to # where[p]
    /\ to = "room" => Invited(house, p)
    /\ where' = [where EXCEPT ![p] = to]
    /\ UNCHANGED <<house, sleeper, bedSleepers, bedItem, leaving, stored>>

(* Actions::internalUseItem: a free bed opens the dialog, an occupied one  *)
(* is freed by the owner of the house.                                     *)
UseBed(p, b) ==
    /\ where[p] \in {"room", "bed"}
    /\ sleeper[b] # None =>
          AccessLevel(house, p) = 3 \/ AccessLevel(house, sleeper[b]) <= AccessLevel(house, p)
    /\ IF sleeper[b] = None
       THEN /\ bedItem' = [bedItem EXCEPT ![p] = b]
            /\ UNCHANGED <<sleeper, bedSleepers>>
       ELSE /\ house.owner = p
            /\ WakeUp({b})
            /\ bedItem' = bedItem
    /\ UNCHANGED <<house, where, leaving, stored>>

(* playerAnswerModalWindow and BedItem::sleep: the answer comes any time   *)
(* later, wherever the player is by then.                                  *)
Sleep(p, b) ==
    IF sleeper[b] = None
    THEN /\ sleeper' = [sleeper EXCEPT ![b] = p, ![Partner[b]] = p]
         /\ bedSleepers' = [bedSleepers EXCEPT ![p] = b]
         /\ where' = [where EXCEPT ![p] = "bed"]
         /\ leaving' = leaving \cup {p}
    ELSE UNCHANGED <<sleeper, bedSleepers, where, leaving>>

AnswerDialog(p, trains) ==
    /\ Online(p) /\ bedItem[p] # None
    /\ bedItem' = [bedItem EXCEPT ![p] = None]
    /\ IF trains
       THEN Sleep(p, bedItem[p])
       ELSE UNCHANGED <<sleeper, bedSleepers, where, leaving>>
    /\ UNCHANGED <<house, stored>>

-----------------------------------------------------------------------------
(* The player goes, by himself or by the event of sleep; he may also lie   *)
(* in his bed meanwhile.  A trade of his is closed.                        *)
Go(p) ==
    /\ where' = [where EXCEPT ![p] = "offline"]
    /\ bedItem' = [bedItem EXCEPT ![p] = None]
    /\ leaving' = leaving \ {p}
    /\ house' = IF house.document # None /\ p \in {house.document.from, house.document.to}
                THEN [house EXCEPT !.document = None] ELSE house
    /\ UNCHANGED <<sleeper, bedSleepers, stored>>

LogOut(p) == Online(p) /\ Go(p)
KickEvent(p) == p \in leaving /\ Go(p)

(* Player::onCreatureAppear wakes him; who is no longer invited appears at *)
(* the entry.                                                              *)
LogInMutant(p, to) ==            \* nobody wakes him
    /\ ~ Online(p)
    /\ where' = [where EXCEPT ![p] = IF Invited(house, p) THEN to ELSE "out"]
    /\ UNCHANGED <<house, sleeper, bedSleepers, bedItem, leaving, stored>>

LogIn(p, to) ==
    /\ ~ Online(p)
    /\ where' = [where EXCEPT ![p] = IF Invited(house, p) THEN to ELSE "out"]
    /\ IF bedSleepers[p] # None
       THEN WakeUp({bedSleepers[p]})
       ELSE UNCHANGED <<sleeper, bedSleepers>>
    /\ UNCHANGED <<house, bedItem, leaving, stored>>

(* saveHouseInfo and saveHouseItems are two transactions.                  *)
SaveInfo ==
    /\ stored' = [stored EXCEPT !.owner = house.owner, !.subowners = house.subowners,
                                !.guests = house.guests]
    /\ UNCHANGED <<house, where, sleeper, bedSleepers, bedItem, leaving>>

SaveItems ==
    /\ stored' = [stored EXCEPT !.sleeper = sleeper]
    /\ UNCHANGED <<house, where, sleeper, bedSleepers, bedItem, leaving>>

(* The server ends somehow and starts again: BedItem::readAttr of each     *)
(* half in turn enters it for its sleeper, so the last one counts.         *)
Restart ==
    /\ house' = [owner |-> stored.owner, subowners |-> stored.subowners,
                 guests |-> stored.guests, document |-> None]
    /\ where' = [p \in People |-> "offline"]
    /\ sleeper' = stored.sleeper
    /\ bedSleepers' \in {f \in [People -> Halves \cup {None}] :
          \A p \in People :
              LET beds == {b \in Halves : stored.sleeper[b] = p}
              IN  f[p] \in (IF beds = {} THEN {None} ELSE beds)}
    /\ bedItem' = [p \in People |-> None]
    /\ leaving' = {}
    /\ UNCHANGED stored

HousesNext ==
    \/ \E p \in People :
          \/ Buy(p) \/ LeaveHouse(p) \/ LogOut(p) \/ KickEvent(p)
          \/ \E q \in People : StartTrade(p, q) \/ KickGuest(p, q)
          \/ \E list \in {"guests", "subowners"}, names \in Lists :
                EditList(p, list, names)
          \/ \E to \in {"out", "room"} : Walk(p, to) \/ LogIn(p, to)
          \/ \E b \in Halves : UseBed(p, b)
          \/ \E trains \in BOOLEAN : AnswerDialog(p, trains)
    \/ \E agreed \in BOOLEAN : TradeEnds(agreed)
    \/ SaveInfo \/ SaveItems \/ Restart

-----------------------------------------------------------------------------
(* Nobody stays in a house that he may not enter: lists, owners and        *)
(* documents change while people are inside, asleep, logged off on its     *)
(* tiles or about to answer a dialog (house.cpp:140, :50; an answer from   *)
(* afar puts the player on the bed unasked: the one exception).            *)
GuestsOnly ==
    \A p \in People : InHouse(p) => Invited(house, p) \/ p \in leaving

(* Both halves of a bed have the same sleeper; who is entered as asleep    *)
(* has that bed and is away or about to be sent away, also after a crash   *)
(* between the saving of the map and of the players (bed.cpp:123, :160).   *)
BedsAgree ==
    /\ \A b \in Halves : sleeper[b] = sleeper[Partner[b]]
    /\ \A p \in People :
          bedSleepers[p] # None =>
              /\ sleeper[bedSleepers[p]] = p
              /\ Online(p) => p \in leaving
=============================================================================
