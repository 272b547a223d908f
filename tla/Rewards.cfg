SPECIFICATION Spec
CONSTANTS
  p1 = p1
  p2 = p2
  Pool = Pool
  Procs = {p1, p2}
  Miners = {1, 2}
  MaxBlocks = 2
  BlockReward <- MCBlockReward
  Window <- MCWindow
  FeeBps = 1500
  ConfirmDepth = 2
  MaxConf = 3
  MaxReorgs = 2
  BodyMayLag = TRUE
  MaxLocks = 1
  MayRun <- MCMayRun
  MaxCrashes = 1
INVARIANTS
  CreditedOnlyWhenDeep
  RewardConserved
  CacheRecomputable
