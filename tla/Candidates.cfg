SPECIFICATION Spec
CONSTANTS
  Subs = {1, 2}
  Hashes = {1, 2}
  Modes = {"single", "one_shot", "continuous_bounded"}
  MaxInFlight = 1
  Threshold = 1
  MaxCrashes = 1
INVARIANTS
  RowTellsTruth
PROPERTIES
  ClaimsAreOnce
CHECK_DEADLOCK FALSE
