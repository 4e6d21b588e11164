SPECIFICATION MCSpec
CONSTANTS
    Bags <- MCBags
    Size <- MCSize
    Objects = {3, 4, 5}
    StackSize = 2
    Capacity = 6
    MaxWealth = 4
    Types = {"torch", "stump", "ash", "out", "stone"}
    DecayTo <- MCDecayTo
    DecayTime <- MCDecayTime
    StopTime = {"out"}
    Kind <- MCKind
    Durations = {3, 15}
    MaxEntries = 2
INVARIANTS ItemsAreKept WeightsAgree ItemsDecay
CHECK_DEADLOCK FALSE
