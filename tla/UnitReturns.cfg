CONSTANTS
  Unit = {1, 2}
  Override = {1, 2}
  Pull = {"p1"}
  Product = {"fridge"}
  ProductOf <- OneProduct
  PullUnits <- FirstTwo
  OverrideOf <- SaleThenTicket
  AutoApproved = {2}
  Tx = {1, 2, 3, 4}
  Key = {"k1", "k2", "k3", "k4"}
  Workload <- ReturnLoad
  Crashable = {}
  None = None
SPECIFICATION FairSpec
INVARIANTS TypeOK MovementsTellTheState
PROPERTY EveryRequestAnswered
CHECK_DEADLOCK FALSE
