SPECIFICATION Spec
CONSTANTS
    MaxSteps <- MCMaxSteps
    MaxEvmBlock = 2
    \* TickBitmap
    TickMax = 4
    WordSize = 3
    SqrtPriceAt <- MCPrice
    \* Epoch
    UBits = 4
    Exp <- MCExp
    EpochUids = 3
    EpochNetuid = 1
    EpochTempo = 1
    MinAllowedWeights = 2
    ActivityCutoff = 3
    MinStake = 1
    MaxAllowedValidators = 2
    RaoEmission = 100
    AlphaFloorDivisor = 8
    SigmoidDivisor = 100
    AverageUnit = 10
    EpochParameters <- MCParams
    EpochStakes <- MCStakes
    WeightRows <- MCRows
    AlphaPairs <- MCPairs
    MaxEpochBlock = 6
    \* Dividends
    Kin = {"k1", "k2", "k3"}
    KinOwner <- MCOwner
    Whole = 3
    Full = 5
    Unit = 64
    KinStarts <- MCStarts
    KinOrder <- MCOrder
    OwnerKin = "k1"
    KinTake = 1
    Proportions = {1, 2}
    Takes = {1}
    Pays <- MCPays
    TaoWeight = 1
    MaxKinSteps = 3
    \* BlockTerms
    TermNets = {1}
    Grain = 64
    TotalSupply = 60
    DefaultBlockEmission = 8
    Issuances <- MCIssuances
    adjustment_interval = 2
    target_registrations = 2
    adjustment_alpha = 16
    InitialBurn = 10
    InitialMinBurn = 2
    InitialMaxBurn = 20
    InitialDifficulty = 5
    U64Max = 30
    TermBounds = {4, 12}
    EMAPriceHalvingBlocks = 2
    SubnetMovingAlpha = 48
    Prices = {0, 32, 128}
    MaxTermBlock = 4
    \* Hyperparameters and SubnetViews
    HyperNetuids = {1}
    HyperColdkeys = {"c1", "c2"}
    HyperValues <- MCValues
    InitialTempo = 1
    InitialNetworkRateLimit = 1
    InitialLock = 4
    InitialLockReductionInterval = 4
    InitialIssuance = 31
    OwnerHotkeyRateLimit = 2
    VersionKeyRateLimit = 2
    DurationOfStartCall = 1
    MaxHyperBlock = 3
    Huge = 2147483647
    ViewBlocks = {3}
    \* Precompiles
    Wei = 2
    EvmValues = {0, 3}
    StakeAmounts = {1}
    EvmFunds = 2
INVARIANTS
    LayersSound
    EpochSound
    KinSound
    TermsSound
    ViewsSound
    PrecompilesSound
PROPERTIES
    ImplementsTickSet
    EpochStepsSound
    ParametersSound
    CallsSound
CHECK_DEADLOCK FALSE
