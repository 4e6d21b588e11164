CONSTANTS
    MaxMessages = 3
    MaxPackets = 2
    c1 = c1
    c2 = c2
    Clients = {c1, c2}
    BufferSize = 1
    MaxWrites = 3
    game = game
    status = status
    Ports = {game, status}
    MaxFailures = 3
    Gaps = {1, 2, 3, 12, 13, 20, 21}
    MaxRefused = 4
    o1 = o1
    o2 = o2
    o3 = o3
    p1 = p1
    gm = gm
    Ordinary = {o1, o2, o3}
    Premium = {p1}
    Staff = {gm}
    MaxPlayers = 2
    MaxEvents = 3
SPECIFICATION MCSpec
INVARIANTS
    MessagesInOrder
    PortsKept
    TimersAreOwned
PROPERTIES
    ConnectionsClose
    BuffersAreSent
    ServerGoesOn
    PlacesKept
    TimersRun
CHECK_DEADLOCK FALSE
