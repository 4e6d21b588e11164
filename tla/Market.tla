-------------------------------- MODULE Market --------------------------------
(***************************************************************************)
(* The market: offers of src/src/iomarket.cpp and the player's requests of *)
(* src/src/game.cpp.  An offer is a row of the database; what it is worth  *)
(* has been taken from the purse and bank (an offer to buy) or the depot   *)
(* (an offer to sell) of a player in memory.  Whoever accepts an offer     *)
(* deals with the owner in memory, if online, and with its row otherwise.  *)
(*                                                                         *)
(* Requests run on the game thread, one after the other, and query the     *)
(* database themselves.  The search for expired offers is a task of the    *)
(* database thread: its answer is older than what the game thread finds    *)
(* when it comes to give back what the offers were worth.                  *)
(*                                                                         *)
(* There is one kind of ware, and the queries succeed.                     *)
(***************************************************************************)
EXTENDS Naturals, Sequences, FiniteSets, Functions

CONSTANTS
    Merchants,              \* players
    Account,                \* the account of each
    StartCash, StartBank, StartWares,
    Prices,
    MinFee, MaxFee,         \* 20 and 1000
    MaxOffersOfPlayer,      \* MAX_MARKET_OFFERS_AT_A_TIME_PER_PLAYER
    MaxOffers,              \* bound on the offers made
    MaxChecks               \* bound on the searches for expired offers under way

VARIABLES
    online,     \* the players in the game
    inMarket,   \* Player::inMarket
    cash, bank, wares,      \* of a player in the game
    row,        \* its row: [cash, bank, wares]
    offers,     \* table market_offers
    made,       \* offers made so far, the identifier of the last one
    asked,      \* searches that wait for the database thread
    answers,    \* their results, which wait for the game thread
    listed,     \* history: the amount each offer was made for
    settled,    \* history: the amounts of market_history for each offer
    fees,       \* history: gold paid in fees
    stale       \* history: gold and wares given back beyond what offers held

purses == <<cash, bank, wares, row>>
ledger == <<listed, settled, fees, stale>>
marketVars == <<online, inMarket, purses, offers, made, asked, answers, ledger>>

Ids == 1..MaxOffers
Ghost == [cash |-> 0, bank |-> 0, wares |-> 0]

MarketInit ==
    /\ online = {} /\ inMarket = {}
    /\ cash = [p \in Merchants |-> 0] /\ bank = [p \in Merchants |-> 0]
    /\ wares = [p \in Merchants |-> 0]
    /\ row = [p \in Merchants |->
                [cash |-> StartCash, bank |-> StartBank, wares |-> StartWares]]
    /\ offers = {} /\ made = 0
    /\ asked = 0 /\ answers = <<>>
    /\ listed = [n \in Ids |-> 0] /\ settled = [n \in Ids |-> 0]
    /\ fees = 0 /\ stale = [gold |-> 0, wares |-> 0]

-----------------------------------------------------------------------------

Login(p) ==
    /\ p \notin online
    /\ online' = online \cup {p}
    /\ cash' = [cash EXCEPT ![p] = row[p].cash] /\ bank' = [bank EXCEPT ![p] = row[p].bank]
    /\ wares' = [wares EXCEPT ![p] = row[p].wares]
    /\ UNCHANGED <<inMarket, row, offers, made, asked, answers, ledger>>

Logout(p) ==
    /\ p \in online
    /\ online' = online \ {p} /\ inMarket' = inMarket \ {p}
    /\ row' = [row EXCEPT ![p] = [cash |-> cash[p], bank |-> bank[p], wares |-> wares[p]]]
    /\ cash' = [cash EXCEPT ![p] = 0] /\ bank' = [bank EXCEPT ![p] = 0]
    /\ wares' = [wares EXCEPT ![p] = 0]
    /\ UNCHANGED <<offers, made, asked, answers, ledger>>

(* At a depot; a step, or the client, ends it.                             *)
EnterMarket(p) ==
    /\ p \in online \ inMarket
    /\ inMarket' = inMarket \cup {p}
    /\ UNCHANGED <<online, purses, offers, made, asked, answers, ledger>>

LeaveMarket(p) ==
    /\ p \in inMarket
    /\ inMarket' = inMarket \ {p}
    /\ UNCHANGED <<online, purses, offers, made, asked, answers, ledger>>

-----------------------------------------------------------------------------

Least(m, n) == IF m <= n THEN m ELSE n
Fee(price, amount) ==
    LET part == (price * amount) \div 100
    IN IF part < MinFee THEN MinFee ELSE Least(part, MaxFee)

(* Cash first, the rest from the bank.                                     *)
CanPay(p, gold) == gold <= cash[p] + bank[p]
Pay(p, gold) ==
    LET debit == Least(cash[p], gold)
    IN /\ cash' = [cash EXCEPT ![p] = @ - debit]
       /\ bank' = [bank EXCEPT ![p] = @ - (gold - debit)]

PlayerCreateMarketOffer(p, sale, amount, price) ==
    LET fee == Fee(price, amount)
        id == made + 1
    IN /\ p \in inMarket /\ id \in Ids
       /\ Cardinality({o \in offers : o.owner = p}) < MaxOffersOfPlayer
       /\ IF sale
          THEN /\ CanPay(p, fee) /\ amount <= wares[p]
               /\ wares' = [wares EXCEPT ![p] = @ - amount]
               /\ Pay(p, fee)
          ELSE /\ CanPay(p, price * amount + fee)
               /\ Pay(p, price * amount + fee)
               /\ UNCHANGED wares
       /\ offers' = offers \cup {[id |-> id, owner |-> p, sale |-> sale,
                                  amount |-> amount, price |-> price, old |-> FALSE]}
       /\ made' = id
       /\ listed' = [listed EXCEPT ![id] = amount]
       /\ fees' = fees + fee
       /\ UNCHANGED <<online, inMarket, row, asked, answers, settled, stale>>

(* What the offers of an identifier hold.                                  *)
AmountOf(set, id) == SumFunction([o \in {x \in set : x.id = id} |-> o.amount])

(* moveOfferToHistory: with the amount that the row has now.               *)
Settle(set) ==
    /\ offers' = offers \ set
    /\ settled' = [n \in Ids |-> settled[n] + AmountOf(set, n)]

PlayerCancelMarketOffer(p, o) ==
    /\ p \in inMarket /\ o \in offers /\ o.owner = p
    /\ IF o.sale
       THEN wares' = [wares EXCEPT ![p] = @ + o.amount] /\ UNCHANGED bank
       ELSE bank' = [bank EXCEPT ![p] = @ + o.price * o.amount] /\ UNCHANGED wares
    /\ Settle({o})
    /\ UNCHANGED <<online, inMarket, cash, row, made, asked, answers, listed, fees, stale>>

(* What an offer holds after amount of it was accepted: acceptOffer, or    *)
(* deleteOffer when nothing is left.                                       *)
AcceptOfferMutant(o, amount) ==     \* deletes the row of what is left, too
    offers' = offers \ {o}

AcceptOffer(o, amount) ==
    offers' = (offers \ {o})
                \cup (IF amount = o.amount THEN {} ELSE {[o EXCEPT !.amount = @ - amount]})

(* The wares of an offer to buy go to its owner's inbox, loaded and saved  *)
(* for it if it is offline; the gold for an offer to sell to its bank.     *)
PlayerAcceptMarketOffer(p, o, amount) ==
    LET q == o.owner
        gold == o.price * amount
    IN /\ p \in inMarket /\ o \in offers /\ Account[q] # Account[p]
       /\ amount <= o.amount
       /\ IF o.sale
          THEN /\ CanPay(p, gold)
               /\ LET debit == Least(cash[p], gold)
                  IN /\ cash' = [cash EXCEPT ![p] = @ - debit]
                     /\ bank' = [bank EXCEPT ![p] = @ - (gold - debit),
                                             ![q] = IF q \in online THEN @ + gold ELSE @]
               /\ wares' = [wares EXCEPT ![p] = @ + amount]
               /\ row' = [row EXCEPT ![q].bank = IF q \in online THEN @ ELSE @ + gold]
          ELSE /\ amount <= wares[p]
               /\ wares' = [wares EXCEPT ![p] = @ - amount,
                                         ![q] = IF q \in online THEN @ + amount ELSE @]
               /\ bank' = [bank EXCEPT ![p] = @ + gold]
               /\ row' = [row EXCEPT ![q].wares = IF q \in online THEN @ ELSE @ + amount]
               /\ UNCHANGED cash
       /\ AcceptOffer(o, amount)
       /\ settled' = [settled EXCEPT ![o.id] = @ + amount]
       /\ UNCHANGED <<online, inMarket, made, asked, answers, listed, fees, stale>>

-----------------------------------------------------------------------------

GrowOld(o) ==
    /\ o \in offers /\ ~ o.old
    /\ offers' = (offers \ {o}) \cup {[o EXCEPT !.old = TRUE]}
    /\ UNCHANGED <<online, inMarket, purses, made, asked, answers, ledger>>

CheckExpiredOffers ==
    /\ asked + Len(answers) < MaxChecks
    /\ asked' = asked + 1
    /\ UNCHANGED <<online, inMarket, purses, offers, made, answers, ledger>>

(* The database thread runs the query and posts the callback.              *)
AnswerQuery ==
    /\ asked > 0
    /\ asked' = asked - 1
    /\ answers' = Append(answers, {o \in offers : o.old})
    /\ UNCHANGED <<online, inMarket, purses, offers, made, ledger>>

(* The rows that moveOfferToHistory still finds.                           *)
StillThereMutant(answer) == answer
StillThere(answer) == {a \in answer : \E o \in offers : o.id = a.id}

(* Wares or gold given back for the offers in set, by what they say.       *)
WaresFor(set, p) == SumFunction([a \in {a \in set : a.owner = p /\ a.sale} |-> a.amount])
GoldFor(set, p) ==
    SumFunction([a \in {a \in set : a.owner = p /\ ~ a.sale} |-> a.price * a.amount])
AllWares(set) == SumFunction([p \in Merchants |-> WaresFor(set, p)])
AllGold(set) == SumFunction([p \in Merchants |-> GoldFor(set, p)])

ProcessExpiredOffers ==
    /\ answers # <<>> /\ answers' = Tail(answers)
    /\ LET back == StillThere(Head(answers))
           gone == {o \in offers : \E a \in back : a.id = o.id}
       IN /\ wares' = [p \in Merchants |->
                         wares[p] + IF p \in online THEN WaresFor(back, p) ELSE 0]
          /\ bank' = [p \in Merchants |->
                        bank[p] + IF p \in online THEN GoldFor(back, p) ELSE 0]
          /\ row' = [p \in Merchants |->
                       IF p \in online THEN row[p]
                       ELSE [row[p] EXCEPT !.wares = @ + WaresFor(back, p),
                                           !.bank = @ + GoldFor(back, p)]]
          /\ Settle(gone)
          /\ stale' = IF gone = {} THEN stale
                      ELSE [gold |-> stale.gold + AllGold(back) - AllGold(gone),
                            wares |-> stale.wares + AllWares(back) - AllWares(gone)]
    /\ UNCHANGED <<online, inMarket, cash, made, asked, listed, fees>>

-----------------------------------------------------------------------------

MarketNext ==
    \/ \E p \in Merchants :
        \/ Login(p) \/ Logout(p) \/ EnterMarket(p) \/ LeaveMarket(p)
        \/ \E sale \in BOOLEAN, amount \in 1..StartWares, price \in Prices :
              PlayerCreateMarketOffer(p, sale, amount, price)
        \/ \E o \in offers :
            \/ PlayerCancelMarketOffer(p, o)
            \/ \E amount \in 1..o.amount : PlayerAcceptMarketOffer(p, o, amount)
    \/ \E o \in offers : GrowOld(o)
    \/ CheckExpiredOffers \/ AnswerQuery \/ ProcessExpiredOffers

MarketSpec == MarketInit /\ [][MarketNext]_marketVars

-----------------------------------------------------------------------------

GoldOf(p) == IF p \in online THEN cash[p] + bank[p] ELSE row[p].cash + row[p].bank
WaresOf(p) == IF p \in online THEN wares[p] ELSE row[p].wares

(* Gold and wares are neither made nor lost, whoever is online when an     *)
(* offer is made, accepted in parts, cancelled or expires, except for what *)
(* was accepted between the query for expired offers and the refund, which *)
(* is of the older amount (iomarket.cpp:113).                              *)
Kept ==
    /\ SumFunction([p \in Merchants |-> GoldOf(p)]) + AllGold(offers) + fees
          = Cardinality(Merchants) * (StartCash + StartBank) + stale.gold
    /\ SumFunction([p \in Merchants |-> WaresOf(p)]) + AllWares(offers)
          = Cardinality(Merchants) * StartWares + stale.wares

(* The history of an offer and what is left of it add up to what it was    *)
(* made for, also when it expires with an old answer (iomarket.cpp:240).   *)
HistoryAddsUp == \A n \in Ids : listed[n] = settled[n] + AmountOf(offers, n)
=============================================================================
