------------------------------- MODULE MCTrade -------------------------------
(* Two ways to sell.  Players that trade face to face: three, so that a    *)
(* third can come between the other two, and a few items, one of them a    *)
(* bag.  And two merchants with a purse, a bank account and a few wares on *)
(* the market.  A behaviour is of the one or of the other.                 *)
EXTENDS Trade, TLC

CONSTANTS a, b, c, bag, coin, coins, gem

CONSTANTS
    Venues, x, y,
    Merchants, StartCash, StartBank, StartWares, Prices, MinFee, MaxFee,
    MaxOffersOfPlayer, MaxOffers, MaxChecks

ASSUME MarketAssumption ==
    /\ IsFiniteSet(Merchants)
    /\ Prices \subseteq Nat
    /\ {StartCash, StartBank, StartWares, MinFee, MaxFee, MaxOffers} \subseteq Nat

Symmetry == Permutations(Players) \cup Permutations(Merchants)

Account == [p \in Merchants |-> p]

VARIABLES
    venue,
    online, inMarket, cash, bank, wares, row, offers, made, asked, answers,
    listed, settled, fees, stale

marketState == <<online, inMarket, cash, bank, wares, row, offers, made, asked, answers,
                 listed, settled, fees, stale>>

M == INSTANCE Market

MCInit ==
    /\ venue \in Venues
    /\ Init /\ M!MarketInit
    /\ venue = "market" => \A i \in Items : at[i] = Tile

MCNext ==
    /\ UNCHANGED venue
    /\ \/ venue = "street" /\ Next /\ UNCHANGED marketState
       \/ venue = "market" /\ M!MarketNext /\ UNCHANGED vars

MCSpec == MCInit /\ [][MCNext]_<<vars, venue, marketState>>

-----------------------------------------------------------------------------
(* Two traders name each other and what they offer, nobody else offers it,  *)
(* and everything offered is in its owner's hands (game.cpp:2679).          *)
OffersAgree == venue = "street" => TypeOK /\ Agreement /\ Tangible

(* Gold and wares are conserved and the history of offers is complete, also *)
(* with old answers to the search for expired offers (iomarket.cpp:113).     *)
MarketKept == venue = "market" => M!Kept /\ M!HistoryAddsUp
=============================================================================
