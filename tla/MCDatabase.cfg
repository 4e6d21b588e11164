CONSTANTS
    MaxTasks = 3
    MaxVersion = 3
    MaxFailures = 6
    p1 = p1
    p2 = p2
    p3 = p3
    Protocols = {p1, p2, p3}
    NoOne = NoOne
    Bags = {parcel, sack}
    Plain = {coin}
    Mailable = {parcel}
    Slots = {3}
    Depots = {0}
SPECIFICATION MCSpec
INVARIANTS
    QueriesRunOnce
    CallbacksFollow
    SavesAreWhole
    SessionsKept
    ThingsAreStored
PROPERTIES
    QueriesRun
    SessionsEnd
