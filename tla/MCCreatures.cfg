CONSTANTS
    MaxEvents = 3
    MaxPath = 2
    MaxDeaths = 1
    Players = {p}
    Wild = {m1}
    Called = {m2}
    NoOne = NoOne
    Places <- MCPlaces
    View = 1
    SummonRange = 1
    FollowRange = 2
    SpawnPlace = 0
    SpawnRange = 0
    Despawn = {"overspawn", "remove"}
    MaxActs = 3
SPECIFICATION MCSpec
INVARIANTS
    PlayersWalk
    CreaturesAreHeld
    CreaturesThink
CHECK_DEADLOCK FALSE
