CONSTANTS
  Batch = {1, 2, 3}
  Product = {1, 2}
  ProductOf <- OddEven
  Opening <- OneEach
  Tx = {1, 2, 3, 4}
  Key = {"k1", "k2", "k3", "k4"}
  Workload <- ShortageLoad
  Crashable = {}
  None = None
SPECIFICATION HistorySpec
INVARIANT ShortageIsReal
CHECK_DEADLOCK FALSE
