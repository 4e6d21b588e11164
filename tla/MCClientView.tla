----------------------------- MODULE MCClientView -----------------------------
(* A client's copy of a line of tiles, and of the containers it has opened,  *)
(* small instances: a behaviour is of the one or of the other.               *)
EXTENDS ClientView, TLC
CONSTANTS t1, t2, d, e
CONSTANTS bag, chest, Bags, Plain, Fixed, Paged, Tiles, Cids

VARIABLES part, parent, itemlist, looks, stands, openContainers, window, misled

windows == <<parent, itemlist, looks, stands, openContainers, window, misled>>

MCPlaces == 0..1
MCTopOrder == [t \in Top |-> IF t = t1 THEN 1 ELSE 2]
MCSize == [b \in Bags |-> IF b = bag THEN 2 ELSE 1]

W == INSTANCE Windows WITH look <- looks, at <- stands, Size <- MCSize

ASSUME WindowsAssumption ==
    /\ IsFiniteSet(Bags \cup Plain) /\ Tiles \subseteq Int /\ 0 \in Tiles /\ Cids \subseteq Nat
    /\ (Bags \cup Plain) \cap ({W!Tile(p) : p \in Tiles} \cup {W!Mine, W!Theirs, W!Nowhere, W!None}) = {}

MCInit ==
    /\ part \in {"tiles", "windows"}
    /\ Init /\ W!WindowsInit
    /\ part = "windows" => at[O] = 0
    /\ part = "tiles" => stands = 0 /\ parent = [x \in W!Things |-> W!Tile(0)]

MCNext ==
    /\ UNCHANGED part
    /\ \/ part = "tiles" /\ Next /\ UNCHANGED windows
       \/ part = "windows" /\ W!WindowsNext /\ UNCHANGED vars

MCSpec == MCInit /\ [][MCNext]_<<part, vars, windows>>

(* The two items d and e differ by nothing but their names.                  *)
Interchangeable == Permutations({d, e})

-----------------------------------------------------------------------------
(* The player holds open only containers that are there, within his reach    *)
(* and in nobody else's hands (player.cpp:2196), and every window of his     *)
(* client shows the page of the container the server believes it shows       *)
(* (player.cpp:903, 955), except one that was told of a thing looked up for  *)
(* another window on the container (player.cpp:925), until it is in step.    *)
WindowsAgree == part = "windows" => W!OpenIsThere /\ W!WindowsInSync
=============================================================================
