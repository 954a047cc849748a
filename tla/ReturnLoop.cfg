CONSTANTS
  Batch = {1, 2, 3}
  MaxQty = 3
  MaxNeed = 10
SPECIFICATION LineSpec
INVARIANTS LoopIsFifo PartialReturnsCompose WalkIsThePlan
PROPERTY EndsAsTheTotalSays
CHECK_DEADLOCK FALSE
