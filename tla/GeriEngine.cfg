CONSTANTS
  Requests = {"a", "b", "c"}
  Length <- Lengths
  Params <- TwoParams
  MaxBatch = 2
SPECIFICATION FairGeriSpec
INVARIANTS WholeAnswers
PROPERTIES EveryRequestEnds
