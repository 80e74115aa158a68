CONSTANTS
  h1=h1 h2=h2 c1=c1 c2=c2 NoColdkey=NoColdkey NoTake=NoTake
  Hotkeys <- MCHotkeys
  Coldkeys <- MCColdkeys
  Netuids <- MCNetuids
  Root = 0
  One = 64
  DustRatio = 3
  YearOfEmission = 1
  MaxValuePerShare = 1000
  MinStake = 2
  MinimumReserve = 1
  MinTake = 0
  MaxTake = 1
  TakeUnit = 2
  NominatorMinima = {0, 2}
  Slippage <- MCSlippage
  Registered <- MCRegistered
  Tempo <- MCTempo
  BlocksPerDay = 8
  PerThousand = 10
  SwapFees = {0, 1}
  Amounts = {1, 2, 3}
  SubnetOwner = c1
  SubnetOwnerHotkey = h1
  AlphaEmission = 3
  TaoIn = {1}
  AlphaIn = {1}
  OwnerCut = {1}
  MaxBlocks = 1
  Balance = 3
  Reserve = 3
  RootStake = 3
  Takings = {0}
  Staked = 3
  Starts = {TRUE, FALSE}
  MaxCalls = 2
SPECIFICATION EconomySpec
CHECK_DEADLOCK FALSE
INVARIANT MoneySound
PROPERTY OthersKeepStake
