------------------------------- MODULE ItemStore -------------------------------
(***************************************************************************)
(* How the things of a player are stored and loaded again: saveItems,      *)
(* loadItems, loadPlayer and savePlayer of src/src/iologindata.cpp, with   *)
(* those who load, change and store a player who is not online: the        *)
(* mailbox (src/src/mailbox.cpp) and a house that is given up (house.cpp). *)
(*                                                                         *)
(* Rows have a running number and the number of their parent, so a forest  *)
(* of containers comes back only if the numbers and the order of the rows  *)
(* agree on both sides; the depots are stored only for a player who has    *)
(* opened one.                                                             *)
(*                                                                         *)
(* The player may log in and out.  A tile of his house, with a mailbox, is *)
(* the rest of the world.  Saving succeeds: what happens when it does not  *)
(* is PlayerSave's.  Attributes of items are abstracted to whether a piece *)
(* of mail has its stamp.                                                  *)
(***************************************************************************)
EXTENDS Integers, Sequences, FiniteSets, SequencesExt

CONSTANTS
    Bags, Plain,        \* things, with and without room in them
    Mailable,           \* parcels and letters
    Slots, Depots       \* of the player

Things == Bags \cup Plain

ASSUME ItemStoreAssumption ==
    /\ Mailable \subseteq Things
    /\ Slots \subseteq 1..10 /\ Depots \subseteq 0..99      \* see loadPlayer

Ground == <<"ground", 0>>
Inbox == <<"inboxitems", 0>>
In(b) == <<"bag", b>>
Numbers == [items |-> Slots, depotitems |-> Depots, inboxitems |-> {0}]
Tables == DOMAIN Numbers
Own == UNION {{<<t, n>> : n \in Numbers[t]} : t \in Tables}
Places == {Ground} \cup Own \cup {In(b) : b \in Bags}

VARIABLES
    online,
    list,               \* what lies where, in memory
    stamped,            \* the mail that was sent, in memory
    lastDepotId,
    stored,             \* the rows of each table
    kept                \* what lies where and is stamped, if all goes well

storeVars == <<online, list, stamped, lastDepotId, stored, kept>>

Now == [list |-> list, stamped |-> stamped, last |-> lastDepotId, stored |-> stored]

-----------------------------------------------------------------------------
(* Things and places.                                                      *)

(* What lies in the places ps, in their bags, and so on.                   *)
Within(l, ps) ==
    LET all[n \in 0..Cardinality(Bags)] ==
            IF n = 0 THEN UNION {ToSet(l[p]) : p \in ps}
            ELSE all[n - 1] \cup UNION {ToSet(l[In(b)]) : b \in all[n - 1] \cap Bags}
    IN all[Cardinality(Bags)]

PutFront(l, p, x) == [l EXCEPT ![p] = <<x>> \o @]

MoveTo(l, p, x) ==
    PutFront([q \in Places |-> SelectSeq(l[q], LAMBDA y : y # x)], p, x)

(* The player goes from memory with all that is his.                       *)
Forget(s) ==
    LET rest == Within(s.list, {Ground})
    IN [s EXCEPT !.list = [p \in Places |->
                            IF p = Ground \/ p \in {In(b) : b \in rest \cap Bags}
                            THEN @[p] ELSE <<>>],
                 !.stamped = @ \cap rest]

-----------------------------------------------------------------------------
(* Storing.                                                                *)

FirstId == 100

(* What lies directly in the places of a table, by their numbers.          *)
Roots(s, table) ==
    LET at(n) == [k \in DOMAIN s.list[<<table, n>>] |->
                    [pid |-> n, item |-> s.list[<<table, n>>][k]]]
    IN FoldLeft(LAMBDA rows, n : rows \o at(n), <<>>, SetToSortSeq(Numbers[table], <))

(* The rows of roots and of all that is in them, bag after bag.  The n-th  *)
(* row has the number FirstId + n.                                         *)
SaveItemsMutant(s, roots) ==        \* the number of the row before
    LET inside(row, n) ==
            IF row.item \notin Bags THEN <<>>
            ELSE [k \in DOMAIN s.list[In(row.item)] |->
                    [pid |-> FirstId + n - 1, item |-> s.list[In(row.item)][k]]]
        rows[n \in 0..Cardinality(Things)] ==
            IF n = 0 THEN roots
            ELSE IF n > Len(rows[n - 1]) THEN rows[n - 1]
            ELSE rows[n - 1] \o inside(rows[n - 1][n], n)
        full == rows[Cardinality(Things)]
    IN [k \in DOMAIN full |-> [pid |-> full[k].pid, item |-> full[k].item,
                               stamped |-> full[k].item \in s.stamped]]

SaveItems(s, roots) ==
    LET inside(row, n) ==
            IF row.item \notin Bags THEN <<>>
            ELSE [k \in DOMAIN s.list[In(row.item)] |->
                    [pid |-> FirstId + n, item |-> s.list[In(row.item)][k]]]
        rows[n \in 0..Cardinality(Things)] ==
            IF n = 0 THEN roots
            ELSE IF n > Len(rows[n - 1]) THEN rows[n - 1]
            ELSE rows[n - 1] \o inside(rows[n - 1][n], n)
        full == rows[Cardinality(Things)]
    IN [k \in DOMAIN full |-> [pid |-> full[k].pid, item |-> full[k].item,
                               stamped |-> full[k].item \in s.stamped]]

SavePlayer(s) ==
    [s EXCEPT !.stored = [t \in Tables |->
        IF t = "depotitems" /\ s.last = -1 THEN @[t] ELSE SaveItems(s, Roots(s, t))]]

-----------------------------------------------------------------------------
(* Loading.                                                                *)

(* Where the thing of a row goes, if anywhere: a low number is a place of  *)
(* the player, another the row it lies in.                                 *)
PlaceOf(table, rows, row) ==
    Places \cap (IF row.pid < FirstId THEN {<<table, row.pid>>}
                 ELSE {In(rows[n].item) : n \in {row.pid - FirstId} \cap DOMAIN rows})

PutRow(l, p, x) == [q \in Places |-> IF q \in p THEN <<x>> \o l[q] ELSE l[q]]

(* From the last row to the first, each in front of what is there.         *)
LoadItemsMutant(s, table) ==
    FoldLeft(LAMBDA l, row : PutRow(l, PlaceOf(table, s.stored[table], row), row.item),
             s.list, s.stored[table])

LoadItems(s, table) ==
    FoldRight(LAMBDA row, l : PutRow(l, PlaceOf(table, s.stored[table], row), row.item),
              s.stored[table], s.list)

LoadPlayer(s) ==
    LET stamps == {x \in Things : \E t \in Tables : \E k \in DOMAIN s.stored[t] :
                        s.stored[t][k].item = x /\ s.stored[t][k].stamped}
    IN [FoldLeft(LAMBDA r, t : [r EXCEPT !.list = LoadItems(r, t)], s,
                 <<"items", "depotitems", "inboxitems">>)
        EXCEPT !.stamped = @ \cup stamps, !.last = -1]

-----------------------------------------------------------------------------
(* Operations.                                                             *)

Becomes(s) ==
    /\ list' = s.list /\ stamped' = s.stamped
    /\ lastDepotId' = s.last /\ stored' = s.stored

Whole(s) == [list |-> s.list, stamped |-> s.stamped]

(* What is done to an online player is done in memory; another is loaded   *)
(* for it, stored and forgotten.                                           *)
Reached == IF online THEN Now ELSE LoadPlayer(Now)
Left(s) == IF online THEN s ELSE [Forget(SavePlayer(s)) EXCEPT !.last = -1]
Expected == [Now EXCEPT !.list = kept.list, !.stamped = kept.stamped]

Login == ~ online /\ online' = TRUE /\ Becomes(LoadPlayer(Now)) /\ UNCHANGED kept

Logout ==
    /\ online /\ online' = FALSE
    /\ Becomes([Forget(SavePlayer(Now)) EXCEPT !.last = -1])
    /\ UNCHANGED kept

(* Game::saveGameState.                                                    *)
SaveGameState == online /\ Becomes(SavePlayer(Now)) /\ UNCHANGED <<online, kept>>

(* Actions::internalUseItem of a locker.                                   *)
OpenDepot(d) ==
    /\ online /\ lastDepotId' = d
    /\ UNCHANGED <<online, list, stamped, stored, kept>>

(* The player puts a thing he reaches somewhere.  He reaches the depot he  *)
(* has opened last and with it the inbox, into which he puts nothing.      *)
PlayerMove(x, p) ==
    LET open == {Ground} \cup {<<"items", n>> : n \in Slots}
                \cup {q \in Own : q[1] = "depotitems" /\ q[2] = lastDepotId}
        near == open \cup {q \in {Inbox} : lastDepotId # -1}
    IN /\ online
       /\ x \in Within(list, near)
       /\ \/ p \in open /\ (p[1] = "items" => list[p] = <<>>)
          \/ \E b \in (Bags \cap Within(list, near)) \ {x} :
                p = In(b) /\ (x \in Bags => b \notin Within(list, {In(x)}))
       /\ x \notin ToSet(list[p])
       /\ Becomes([Now EXCEPT !.list = MoveTo(@, p, x)])
       /\ kept' = Whole([Now EXCEPT !.list = MoveTo(@, p, x)])
       /\ UNCHANGED online

(* Mailbox::sendItem, to him.                                              *)
Sent(s, x) == [s EXCEPT !.list = MoveTo(@, Inbox, x), !.stamped = @ \cup {x}]

SendItem(x) ==
    /\ x \in Mailable \ stamped /\ x \in ToSet(list[Ground])
    /\ Becomes(Left(Sent(Reached, x)))
    /\ kept' = Whole(Sent(Expected, x)) /\ UNCHANGED online

(* House::transferToDepot.                                                 *)
Given(s) == [s EXCEPT !.list = FoldLeft(LAMBDA l, x : MoveTo(l, Inbox, x), @, @[Ground])]

TransferToDepot ==
    /\ list[Ground] # <<>>
    /\ Becomes(Left(Given(Reached)))
    /\ kept' = Whole(Given(Expected)) /\ UNCHANGED online

StoreInit ==
    /\ online = FALSE /\ lastDepotId = -1 /\ stamped = {}
    /\ list = [p \in Places |-> IF p = Ground THEN SetToSeq(Things) ELSE <<>>]
    /\ stored = [t \in Tables |-> <<>>]
    /\ kept = Whole(Now)

StoreNext ==
    \/ Login \/ Logout \/ SaveGameState \/ TransferToDepot
    \/ \E d \in Depots : OpenDepot(d)
    \/ \E x \in Things : SendItem(x) \/ \E p \in Places : PlayerMove(x, p)

-----------------------------------------------------------------------------
(* Whatever was moved, mailed or handed over while the player was online or *)
(* not, he has, or is going to load, each thing where it was put and in the *)
(* order it was left, with its stamp (IOLoginData::saveItems, loadItems).   *)
StoredIsKept == Whole(Reached) = kept
=============================================================================
