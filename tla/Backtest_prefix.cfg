SPECIFICATION Spec
CONSTANTS
  Tol = 0
  MinGap = 1
  ObLookback = 5
  MaxObjects = 32
  AtrBars = 2
  Atr = 2
  Left <- MCLeft
  Right <- MCRight
  Windows <- MCWindows
  PreBars <- MCPre
  LockBars <- MCLock
  ReleaseBars = 1
  ObserveBars = 1
  ConfirmBars = 6
  NormalBars = 10
  ReactionBars <- MCReactions
  BaselineBars = 2
  MinSamples = 1
  QuoteAge = 1
  Directional = 3
  Whipsaw = 3
  MinBars = 4
  CoarseBars = 4
  Lookback = 8
  Expiry = 10
  StopBuffer = 1
  PatternTol = 0
  MaxPeriod = 40
  DataSets <- MCPrefixSets
  QuoteFreshness = 1
  AccountFreshness = 1
  SpecFreshness = 1
  MaxSpread = 2
  DailyLossLimit = 3
  WeeklyLossLimit = 6
  MaxDrawdown = 10
  CooldownLosses = 3
  CooldownPeriod = 2
  BlackoutPre = 1
  WindowPre = 2
  WindowPost = 2
  RiskBudget = 12
  MinVolume = 1
  MaxVolume = 4
  Spread = 1
  Slippage = 1
  Commission = 1
  InitialBalance = 100
PROPERTY
  PrefixInvariance
CHECK_DEADLOCK FALSE
