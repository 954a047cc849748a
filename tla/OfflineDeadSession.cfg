CONSTANTS
  Mutation = {m1}
  MaxDisturbances = 0
SPECIFICATION FairSpec
INVARIANT NothingVanishes
CHECK_DEADLOCK FALSE
