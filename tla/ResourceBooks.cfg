CONSTANTS
  NumGPUs = 4
  NodeOf <- TwoNodes
  Ids = {"a1", "a2", "b1"}
  Scales = {"up", "down"}
  TaskOf <- PairTasks
  Amount <- PairAmounts
  SizesOf <- PairSizes
  MaxCalls = 5
SPECIFICATION MCSpec
INVARIANTS UsedAreOwned NoGPULost
PROPERTIES EveryCallReturns
