CONSTANTS
    i1 = i1
    i2 = i2
    head = head
    ring = ring
    Items = {i1, i2}
    Slots = {head, ring}
    Bag = Bag
    Gone = Gone
    None = None
    Types = {"ring", "ringOn", "boots", "bootsOn", "worn", "deep", "helmet", "charm", "dull"}
    EquipTo <- MCEquipTo
    DeEquipTo <- MCDeEquipTo
    DecayTo <- MCDecayTo
    Charged = {"charm"}
    Plain = {"worn", "dull"}
    Speed <- MCSpeed
    Shields = {"bootsOn"}
    FirstTypes = {"ring", "boots", "deep", "charm"}
    Castable <- MCCastable
    MaxEvents = 1
SPECIFICATION MCSpec
INVARIANTS
    EffectsAgree
CHECK_DEADLOCK FALSE
