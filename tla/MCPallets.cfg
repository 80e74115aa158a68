SPECIFICATION Spec
CONSTANTS
    MaxSteps <- MCMaxSteps
    \* Swap
    TickMax = 2
    SqrtPriceAt <- MCPrice
    FixedOne = 512
    RateOne = 16
    MaxFeeRate = 4
    MaxPositions = 1
    MinimumLiquidity = 2
    MinimumReserve = 2
    Providers = {p1}
    ProviderTao = 40
    ProviderAlpha = 40
    ReserveTao = 20
    ReserveAlpha = 20
    SwapAmounts = {5, 17}
    SwapLimits = {0, 700, 1024}
    LiquidityAmounts = {5}
    LiquidityDeltas <- MCDeltas
    FeeRates = {4}
    TickRanges <- MCRanges
    Emissions = {0, 3}
    MaxSwapOps = 4
    \* Governance
    GovHotkeys = {1, 2, 3}
    GovOwner <- MCGovOwner
    Triumvirs = {2}
    Motions = {m1}
    SenateMaxMembers = 2
    CouncilMaxProposals = 2
    CouncilMotionDuration = 1
    MotionDurations = {0, 1}
    NoPrime = 99
    GovStakes <- MCGovStakes
    GovSenate = {1, 2}
    MaxMotions = 2
    MaxGovBlock = 2
    \* Proxy
    ProxyAccounts <- MCAccounts
    ProxyExtrinsics <- MCCalls
    RootExtrinsics <- MCRoot
    ProxyFunds = 6
    ProxyDepositBase = 1
    ProxyDepositFactor = 1
    AnnouncementDepositBase = 1
    AnnouncementDepositFactor = 1
    MaxProxies = 2
    MaxPending = 2
    NoType = "none"
    MaxProxyBlock = 3
    MaxExtrinsics = 4
    \* Commitments and Drand
    MaxRound = 3
    MaxDrandBlock = 3
    MAX_PULSES_TO_FETCH = 2
    BadPulses = {"wrong"}
    MaxPool = 2
    CommitNets = {1}
    CommitAccounts = {"a"}
    CommitFields <- MCFields
    MaxFields = 2
    InitialDeposit = 1
    FieldDeposit = 1
    MinUsedSpace = 1
    DefaultMaxSpace = 4
    SpaceLimits = {1}
    MAX_REVEALS = 1
    CommitTempo = 1
    CommitFunds = 5
    \* Registry
    RegAccounts = {c1, c2, h1}
    RegHotkeys = {h1}
    MaxAdditionalFields = 1
    RegistryInitialDeposit = 2
    RegistryFieldDeposit = 1
    Funds = 6
    \* Serving
    ServeNets = {1}
    ServeHotkeys = {s1, s2, s3}
    ServeColdkeys = {d1, d2}
    SlotsPerNet = 2
    ServeInputs <- MCInputs
    Certificates = {"cert", "too long"}
    EvmKeys = {e1}
    IdentityInputs <- MCIdentities
    serving_rate_limit = 1
    MaxServeBlock = 2
    \* Migrations
    InitialMinBurn = 5
    MinDifficulty = 6
    MaxBonds = 9
    MaxBurnReset = 100
    PoolInitialTao = 2
    ExistingChoices <- MCChoices
    MaxUpgrades = 2
    MaxMigBlock = 2
    \* Transactions
    Signers = {ann, ben}
    Spare = spare
    Nonces = {0, 1, 2}
    TxNet = 1
    SwapCost = 1
    ScheduleDuration = 2
    RescheduleDuration = 0
    HotkeySwapOnSubnetInterval = 2
    RegistrationTarget = 1
    AdjustmentInterval = 3
    SetChildrenLimit = 2
    NetworkRateLimit = 2
    U32Max = 10
    MaxTxBlock = 6
    TxCalls = {"set_weights", "add_stake", "remove_stake_limit", "unstake_all", "move_stake", "burned_register", "register_network",
               "transfer_keep_alive", "transfer_all", "serve_axon", "schedule_swap_coldkey", "swap_hotkey", "set_children"}
INVARIANTS
    PositionsSound
    MotionsSound
    ProxiesSound
    CommitmentsSound
    RegistrySound
    RecordsSound
    MigrationsSound
    TransactionsSound
PROPERTIES
    TradesSound
    SeatsFollowStake
    RevealsComeAtOnce
CHECK_DEADLOCK FALSE
