SPECIFICATION AllSpec
CONSTANTS
  None = None
  Keys = {k1, k2, k3}
  Values = {v1, v2}
  TTLs = {0, 1}
  Loaders = {c1}
  Capacity = 2
  MaxTime = 3
  MaxFreq = 3
  HeapKeys = {k1, k2, k3, k4, k5}
  HeapRoom = 4
  Patterns <- SomePatterns
  Paths <- SomePaths
  MaxNodes = 5
  MaxLoose = 3
  Items = {1, 2, 3, 4}
  Key <- HalfOf
  MaxLen = 4
  Callers = {1, 2, 3}
  MaxElements = 4
  Types = {"A", "B", "C"}
  Ids = {"i"}
  Resolvers <- SomeResolvers
  Ins <- InsOf
  Outs <- OutsOf
  ReturnsNil = {"nothing"}
  Requests <- SomeRequests
  MaxInstances = 3
  Runs = {1, 2}
  LastVersion = 2
  LastText = 2
SYMMETRY Symmetry
INVARIANTS TypesOK CachesConsistent MatchIsRight  OneInstance ScriptsOnce
PROPERTIES EvictsInOrder ImplementCache ImplementsTable
CHECK_DEADLOCK FALSE
