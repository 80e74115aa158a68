SPECIFICATION MCSpec
CONSTANTS
    Hotkeys = {h1, h2, h3}
    Netuid = 1
    Tempo = 1
    MaxChildren = 2
    MaxProportion = 2
    Proportions = {1, 2}
    Cooldown = 1
    MaxBlock = 6
    AnyBlocks = 3
SYMMETRY Symm
CHECK_DEADLOCK FALSE
INVARIANT FamiliesSound
PROPERTY ChildrenHaveWaited
