CONSTANTS
    a = a
    b = b
    c = c
    bag = bag
    coin = coin
    coins = coins
    gem = gem
    Players = {a, b, c}
    Items = {bag, coin}
    Bags = {bag}
    Stacks = {coin}
    BagSize = 1
    StackSize = 2
    MaxPending = 1
    Venues = {"street", "market"}
    x = x
    y = y
    Merchants = {x, y}
    StartCash = 1
    StartBank = 2
    StartWares = 2
    Prices = {1}
    MinFee = 1
    MaxFee = 2
    MaxOffersOfPlayer = 1
    MaxOffers = 2
    MaxChecks = 2
SPECIFICATION MCSpec
SYMMETRY Symmetry
INVARIANTS
    OffersAgree
    NoSurprise
    MarketKept
