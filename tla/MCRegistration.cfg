SPECIFICATION MCSpec
CONSTANTS
    Hotkeys = {g, h1, h2, h3}
    GenesisHotkey = g
    NoKey = NoKey
    LastNetuid = 1
    UidLimit = 3
    DefaultMaxUids = 3
    RootMaxUids = 1
    MaxRegistrationsPerBlock = 1
    TargetRegistrationsPerInterval = 1
    AdjustmentInterval = 2
    ImmunityPeriod = 2
    NetworkRateLimit = 1
    Tempo = 1
    MaxScore = 1
    MaxBlock = 3
    MaxSteps = 5
SYMMETRY Symm
CHECK_DEADLOCK FALSE
INVARIANTS
    NeuronsInv
    RegistrationsSound
    PrunesAsDocumented
PROPERTIES
    ImplementsNeurons
    CountedIsRegistered
    OwnerKeepsSlot
    UidsAreStable
