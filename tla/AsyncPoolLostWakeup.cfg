SPECIFICATION FairSpec
CONSTANTS
  t1 = t1
  t2 = t2
  t3 = t3
  s1 = s1
  s2 = s2
  r1 = r1
  Client = Client
  NoOne = NoOne
  Tasks = {t1, t2}
  Stoppers = {}
  Resizers = {}
  ResizeTo <- GrowToTwo
  Origin <- FromClients
  NilResult = {}
  NumWorkers = 1
  MaxPoolSize = 9
  MaxOutPolicies = {"Wait"}
  ParentCancels = FALSE
  Capacity = 1
PROPERTIES QueuedTaskEnds
CHECK_DEADLOCK FALSE
