CONSTANTS
  Batch = {1, 2, 3, 4}
  Product = {1, 2}
  ProductOf <- OddEven
  Opening <- OneEach
  Tx = {1, 2, 3, 4}
  Key = {"k1", "k2", "k3", "k4"}
  Workload <- ConsumerLoad
  Crashable = {2}
  None = None
SPECIFICATION FairHistorySpec
INVARIANTS OneEffectPerKey NoDeadlock AllLinesCommitTogether ShortageIsReal
PROPERTY EveryRequestAnswered FifoAtCommit
CHECK_DEADLOCK FALSE
