SPECIFICATION FairSpec
CONSTANTS
  p1 = p1
  p2 = p2
  k1 = k1
  k2 = k2
  NoProc = NoProc
  Procs = {p1, p2}
  Blocks = {k1, k2}
  Miners = {1, 2, 3}
  Reward <- MCReward
  MayRun <- MCTimers
  MaxBatches = 2
  MaxCrashes = 0
  DayTurns = TRUE
  CancelPolicy = "drained"
  MinPayout = 2
  MaxRecipients = 2
  MaxBatchTotal = 6
  MaxDaily = 6
  ManualApproval = 9
INVARIANTS
  DailyCap
PROPERTIES
  EveryBatchSettles
