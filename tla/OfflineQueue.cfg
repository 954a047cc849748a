CONSTANTS
  Mutation = {m1, m2}
  MaxDisturbances = 2
SPECIFICATION FairSpec
INVARIANT TypeOK
INVARIANT OneEffectPerKey
INVARIANT LostOnlyToA401
INVARIANT ReviewedIsNotDone
PROPERTY QueueDrains
CHECK_DEADLOCK FALSE
