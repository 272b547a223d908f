SPECIFICATION Spec
CONSTANTS
  Conns = {1, 2, 3}
  Addresses = {"a", "b"}
  Works = {"w"}
  MaxPerIp = 2
  MaxPerAddress = 1
  OffenseLimit <- OffenseLimits
  MaxSessions = 2
  MaxRestarts = 1
  MinDifficulty = 8
  MaxDifficulty = 512
  InitialDifficulty = 8
  MinAdjust = 90000
  Grace = 120000
  Rates = {3, 8, 13, 60, 300}
  Suggestions = {1, 9, 100}
  MaxRateChanges = 1
  MaxAdjustments = 6
  Clients = {1, 2}
  MaxEvents = 2
  MaxJobs = 2
  MaxInFlight = 2
  MaxTracked = 2
  Templates <- NodeTemplates
  MaxEntries = 2
  MaxSlots = 4
  MaxTasks = 3
  RelayBlocks = {1, 2}
  Lifetime = 0
  QueueCapacity = 2
  MaxDeliveries = 2
  MaxTokens = 1
  Stages = {"request"}
  Failures = {"timeout"}
  MaxTime = 1
  Subjects <- AlertSubjects
  AlertLimit = 2
  MaxChanges = 3
  MaxRuns = 2
  Miners = {1, 2, 3}
  Difficulties = {0, 1, 5}
  Rewards = {7}
  Fees = {0, 1500, 10001}
  MaxShares = 3
  BalanceAmounts = {1, 2, 3}
  MaxBalances = 3
  Minimum = 2
  MaxRecipients = 2
  Owners = {1, 2}
  MaxPayouts = 3
  MaxFinds = 2
  Coinbase = 10
  Depth = 2
  MaxCalls = 3
  Payees = {1, 2}
  Sums = {1, 2}
  MaxRequested = 2
  MaxTxOutputs = 2
  Scale = 2
  MaxUnits = 1500
  MaxDigits = 4
  MinimumTexts <- PolicyMinimumTexts
  LimitTexts <- PolicyLimitTexts
  PreviewTexts <- PolicyPreviewTexts
  RecipientLimit = 2
  Balances <- PolicyBalances
  UsedToday = {0, 30}
  Files <- StartFiles
  NodeUrls <- StartNodeUrls
  SubmitUrls <- StartSubmitUrls
  SecondaryUrls <- StartSecondaryUrls
  SentinelUrls <- StartSentinelUrls
  Processes = {1, 2}
  Versions = 3
  MaxStarts = 3
INVARIANTS
  PermitsExact
  RowsAreLive
  WorkCountedOnce
  BanCutsOff
  GraceHonoured
  Settles
  CompleteMeansEveryone
  MaterialMatchesJob
  LanesConserved
  AckMeansAccepted
  QuietRunRepairs
  SumsToReward
  StartIsSafe
  DoubleAgrees
  PaysTheRequest
  PreviewTellsTruth
  MigratesOnce
PROPERTIES
  OwnShareNeverHurts
CHECK_DEADLOCK FALSE
