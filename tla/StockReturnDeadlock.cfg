CONSTANTS
  Batch = {1, 2}
  Product = {1, 2}
  ProductOf <- OddEven
  Opening <- TwoEach
  Tx = {1, 2, 3, 4}
  Key = {"k1", "k2", "k3", "k4"}
  Workload <- TwoLineLoad
  Crashable = {}
  None = None
SPECIFICATION Spec
INVARIANT NoDeadlock
CHECK_DEADLOCK FALSE
