SPECIFICATION Spec
CHECK_DEADLOCK FALSE
CONSTANTS
  Names <- MCNames
  Micro = 2
  MaxFaults = 1
  Callers = {a, b}
  MaxCalls = 2
  PriceInputs <- MCPriceInputs
  PriceNames <- MCPriceNames
  Feeds <- MCFeeds
  ExchangeRates = {0, 2}
  HeaderNames = {"X-Session-Id", "X-Conversation"}
  RuleModels = {"m1", "m2"}
  Targets = {"enabled"}
  Years <- MCYears
  YearData <- MCYearData
  Entities = {"a", "b"}
  Secrets = {"s1", "s2"}
  ProtocolSets = {{}, {"chat"}}
  InitPrices <- MCInitPrices
  InitRate = 2
  InitRules <- MCInitRules
  InitHolidays <- MCInitHolidays
  InitChannels <- MCInitChannels
  Requests <- MCRequests
INVARIANT OffPeakAsDocumented
