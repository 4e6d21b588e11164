\* Two tiles, both in view from the first; four things of a stack are shown.
\* Two tiles out of each other's reach; a chest of pages of one, a bag for two, a pouch for one.
CONSTANTS
    O = o
    Others = {a, b}
    t1 = t1
    t2 = t2
    d = d
    e = e
    Top = {t1, t2}
    Down = {d, e}
    TopOrder <- MCTopOrder
    Splashes = {t2}
    Places <- MCPlaces
    Back = 0
    Ahead = 1
    MaxStackPos = 4
    UpdateThreshold = 2
    KnownMax = 2
    Hiders = {b}
    Garbage = {a}
    bag = bag
    chest = chest
    Bags = {bag, pouch, chest}
    Plain = {coin}
    Fixed = {chest}
    Paged = {chest}
    Tiles = {0, 2}
    Cids = {0, 1}
SPECIFICATION MCSpec
SYMMETRY Interchangeable
INVARIANTS
    InSync
    KnownAgree
    WindowsAgree
