CONSTANTS
  Tasks = {"unit", "composite"}
  Descriptors = {"descriptor"}
  Imports <- ImportsOf
  TaskOf <- DescriptorOf
  Batches <- TwoRequests
  Control = {"gateway"}
  Managers = {"manager"}
  Served = {"unit", "descriptor"}
  MaxRounds = 1
  MaxFaults = 1
SPECIFICATION MCSpec
INVARIANTS PromisedAreLoaded WaitsForAReason
PROPERTIES Converges
