CONSTANTS
  NumGPUs = 3
  NodeOf <- OneNode
  Sizes = {1, 2}
  Initial = {0}
  MaxUpdates = 2
  Troubles = {"none", "api", "net"}
  Replicas = {"r1", "r2"}
  Invocations = {"v"}
  MaxInstances = 2
  Additions = {{1, 2}}
  Removals = {{0, 1}}
  Modalities <- ImageThenAudio
  MaxContents = 3
  Routes = {1, 2}
SPECIFICATION MCSpec
INVARIANTS PodsAreDisjoint AnsweredAreFree FoundWhenTold SentIsAwaited
PROPERTIES EveryCallEnds
