SPECIFICATION Spec
CONSTANTS
  t1 = t1
  t2 = t2
  t3 = t3
  s1 = s1
  s2 = s2
  r1 = r1
  Client = Client
  NoOne = NoOne
  Tasks = {t1, t2, t3}
  Stoppers = {s1, s2}
  Resizers = {r1}
  ResizeTo <- GrowToTwo
  Origin <- FromClients
  NilResult = {}
  NumWorkers = 1
  MaxPoolSize = 9
  MaxOutPolicies = {"Wait"}
  ParentCancels = FALSE
  Capacity = 2
INVARIANTS TypeOK WorkerAccounting WorkersWithinMax StoppedIsQuiet TaskOwnership
PROPERTIES NoWorkAfterStop ImplementsTaskPool
CHECK_DEADLOCK FALSE
