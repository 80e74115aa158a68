SPECIFICATION Spec
CONSTANTS
    Hotkeys = {g, h1, h2}
    GenesisHotkey = g
    NoKey = NoKey
    LastNetuid = 1
    UidLimit = 3
    DefaultMaxUids = 2
    RootMaxUids = 1
INVARIANT SpecificMeansRegistered
