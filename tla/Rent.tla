--------------------------------- MODULE Rent ---------------------------------
(***************************************************************************)
(* The rent of a house over many days: Houses::payHouses of                *)
(* src/src/house.cpp runs when the server starts, on what the last save of *)
(* the map has stored.                                                     *)
(***************************************************************************)
EXTENDS Integers

CONSTANTS
    Period,         \* days of a rent period
    MaxWarnings,    \* letters before the house is lost: 7
    MaxDay, MaxBank \* bounds on the days and on the owner's balance

VARIABLES
    day, up, bank,
    house,          \* whether it has its owner, paidUntil and rentWarnings
    stored,         \* the same, as in the database
    deadline        \* the day the last letter gave him, 0 without a letter

rentVars == <<day, up, bank, house, stored, deadline>>

RentInit ==
    /\ day = 1 /\ up = FALSE /\ bank = 0 /\ deadline = 0
    /\ stored = [owned |-> TRUE, paidUntil |-> 1, warnings |-> 0]
    /\ house = stored

(* payHouses for a house that is owned and not paid for; the owner and his *)
(* balance are saved at once, the rest with the map.                       *)
PayHouses(h) ==
    IF ~ h.owned \/ h.paidUntil > day
    THEN house' = h /\ UNCHANGED <<bank, stored, deadline>>
    ELSE IF bank > 0
    THEN /\ bank' = bank - 1
         /\ house' = [h EXCEPT !.paidUntil = day + Period, !.warnings = 0]
         /\ deadline' = 0
         /\ UNCHANGED stored
    ELSE IF h.warnings < MaxWarnings
    THEN /\ deadline' = day + MaxWarnings - h.warnings
         /\ house' = [h EXCEPT !.warnings = @ + 1]
         /\ UNCHANGED <<bank, stored>>
    ELSE /\ house' = [h EXCEPT !.owned = FALSE, !.warnings = 0]
         /\ stored' = [stored EXCEPT !.owned = FALSE]
         /\ UNCHANGED <<bank, deadline>>

StartServer == ~ up /\ up' = TRUE /\ PayHouses(stored) /\ UNCHANGED day

SaveMap == up /\ stored' = house /\ UNCHANGED <<day, up, bank, house, deadline>>

(* An orderly end saves the map before, a crash does not.                  *)
StopServer == up /\ up' = FALSE /\ UNCHANGED <<day, bank, house, stored, deadline>>

Deposit == up /\ bank < MaxBank /\ bank' = bank + 1 /\ UNCHANGED <<day, up, house, stored, deadline>>

NextDay == day < MaxDay /\ day' = day + 1 /\ UNCHANGED <<up, bank, house, stored, deadline>>

RentSpec ==
    RentInit /\ [][StartServer \/ SaveMap \/ StopServer \/ Deposit \/ NextDay]_rentVars

(* "Have it within N days or you will lose this house": nobody loses it    *)
(* before the day the last letter named (house.cpp:676).                   *)
LetterKeepsItsWord == [][house.owned /\ ~ house'.owned => day >= deadline]_rentVars
=============================================================================
