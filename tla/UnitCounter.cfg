CONSTANTS
  Unit = {1, 2, 3}
  Override = {1, 2}
  Pull = {"p1"}
  Product = {"fridge"}
  ProductOf <- OneProduct
  PullUnits <- FirstTwo
  OverrideOf <- SaleThenTicket
  AutoApproved = {2}
  Tx = {1, 2, 3, 4}
  Key = {"k1", "k2", "k3", "k4"}
  Workload <- CounterLoad
  Crashable = {1}
  None = None
SPECIFICATION Spec
INVARIANTS UnitHasOneHolder PullAgreesWithMovements NoDeadlock OverridePricesOneLine
PROPERTY ImplementsCustody
CHECK_DEADLOCK FALSE
