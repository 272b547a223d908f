SPECIFICATION Spec
CONSTANTS
  p1 = p1
  p2 = p2
  k1 = k1
  k2 = k2
  NoProc = NoProc
  Procs = {p1, p2}
  Blocks = {k1, k2}
  Miners = {1}
  Reward <- MCReward
  MayRun <- MCOperator
  MaxBatches = 2
  MaxCrashes = 1
  DayTurns = FALSE
  CancelPolicy = "drained"
  MinPayout = 1
  MaxRecipients = 2
  MaxBatchTotal = 3
  MaxDaily = 4
  ManualApproval = 1
INVARIANTS
  MoneySound
