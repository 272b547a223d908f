SPECIFICATION FairSpec
CONSTANTS
  p1 = p1
  p2 = p2
  k1 = k1
  k2 = k2
  NoProc = NoProc
  Procs = {p1, p2}
  Blocks = {k1, k2}
  Miners = {1}
  Reward <- MCReward
  MayRun <- MCTimers
  MaxBatches = 1
  MaxCrashes = 1
  DayTurns = FALSE
  CancelPolicy = "drained"
  MinPayout = 1
  MaxRecipients = 2
  MaxBatchTotal = 3
  MaxDaily = 2
  ManualApproval = 4
PROPERTIES
  TerminalIsSettled
