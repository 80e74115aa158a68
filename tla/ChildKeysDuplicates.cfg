SPECIFICATION MCSpec
CONSTANTS
    Hotkeys = {h1, h2, h3}
    Netuid = 1
    Tempo = 1
    MaxChildren = 2
    MaxProportion = 2
    Proportions = {1}
    Cooldown = 1
    MaxBlock = 7
    AnyBlocks = 7
SYMMETRY Symm
CHECK_DEADLOCK FALSE
INVARIANT NoDuplicateParents
