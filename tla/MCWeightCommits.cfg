SPECIFICATION MCSpec
CONSTANTS
    Hotkeys = {h1, h2, h3}
    Netuid = 1
    Slots = 2
    Payloads = {p, q}
    NoWeights = NoWeights
    MaxCommits = 2
    RateLimit = 2
    Tempos = {0, 1, 2}
    Periods = {1, 2}
    MaxBlock = 7
    MaxCalls = 3
    FewBlocks = 5
SYMMETRY Symm
CHECK_DEADLOCK FALSE
INVARIANT CommitsSound
PROPERTIES RevealsSound EncryptedRevealsOnTime
