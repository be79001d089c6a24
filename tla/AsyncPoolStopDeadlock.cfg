SPECIFICATION FairSpec
CONSTANTS
  t1 = t1
  t2 = t2
  t3 = t3
  s1 = s1
  s2 = s2
  r1 = r1
  Client = Client
  NoOne = NoOne
  Tasks = {t1, t2}
  Stoppers = {s1}
  Resizers = {}
  ResizeTo <- GrowToTwo
  Origin <- NestedSchedule
  NilResult = {}
  NumWorkers = 2
  MaxPoolSize = 9
  MaxOutPolicies = {"Wait"}
  ParentCancels = FALSE
  Capacity = 2
PROPERTIES StopReturns
CHECK_DEADLOCK FALSE
