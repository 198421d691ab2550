CONSTANTS
  Tasks = {"A", "B", "C"}
  Apps = {"a", "b", "h", "g"}
  Sessions = {"s"}
  Uses <- ManyUses
  Invocations = {"i", "j"}
  Needs <- TwoNeeds
  By <- TwoBy
  Flaky = {"A", "C"}
  Hasty = {"h", "g"}
  Casts <- TwoCasts
SPECIFICATION FairSpec
INVARIANTS UsageIsCounted RunningIsKnown InvokedAreReady
PROPERTIES ImplementsLease EveryRequestEnds
