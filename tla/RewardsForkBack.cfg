SPECIFICATION FairSpec
CONSTANTS
  p1 = p1
  p2 = p2
  Pool = Pool
  Procs = {p1, p2}
  Miners = {1, 2}
  MaxBlocks = 1
  BlockReward <- MCBlockReward
  Window <- MCWindow
  FeeBps = 1500
  ConfirmDepth = 2
  MaxConf = 3
  MaxReorgs = 2
  BodyMayLag = FALSE
  MaxLocks = 0
  MayRun <- MCMayRun
  MaxCrashes = 0
PROPERTIES
  CanonicalIsCredited
