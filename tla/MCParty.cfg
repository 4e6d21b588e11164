CONSTANTS
    Players = {p, q, r}
    Parties = {P, Q}
    PrivateIds = {100, 101}
    Levels = {1, 3}
    Places = {"here", "far"}
    knight = knight
    mage = mage
    wolf = wolf
    Fighters = {knight, mage}
    Summons = {wolf}
    Master <- MCMaster
    Friends = {}
    Shielded = {mage}
    MaxHealth = 2
    MaxMana = 1
    KillsToRed = 1
    KillsToBlack = 2
    MaxKills = 2
    MaxCredit = 2
    Nobody = Nobody
    Blows <- MCBlows
    host = host
    guest = guest
    leftHalf = leftHalf
    rightHalf = rightHalf
    People = {host, guest}
    Halves = {leftHalf, rightHalf}
    Partner <- MCPartner
    Lists <- MCLists
SPECIFICATION MCSpec
SYMMETRY Symmetry
INVARIANTS
    PartiesAgree
    ChannelsAreClean
    FightsAgree
    HousesAgree
PROPERTY CreditIsLoss
