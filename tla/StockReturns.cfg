CONSTANTS
  Batch = {1, 2, 3, 4, 5}
  Product = {1, 2}
  ProductOf <- OddEven
  Opening <- GapAtThree
  Tx = {1, 2, 3, 4}
  Key = {"k1", "k2", "k3", "k4", "k5"}
  Workload <- ReturnLoad
  Crashable = {1}
  None = None
SPECIFICATION FairSpec
INVARIANTS TypeOK LedgerBalances LockedCopyIsCurrent ReturnsUndoTheSale
PROPERTY ImplementsLedger
CHECK_DEADLOCK FALSE
