SPECIFICATION FairSpec
CONSTANTS
  t1 = t1
  t2 = t2
  t3 = t3
  s1 = s1
  s2 = s2
  r1 = r1
  Client = Client
  NoOne = NoOne
  Tasks = {t1, t2}
  Stoppers = {s1, s2}
  Resizers = {}
  ResizeTo <- GrowToTwo
  Origin <- FromClients
  NilResult = {}
  NumWorkers = 2
  MaxPoolSize = 1
  MaxOutPolicies = {"Discard"}
  ParentCancels = TRUE
  Capacity = 2
PROPERTIES QueuedTaskEnds StopReturns ScheduleReturns
CHECK_DEADLOCK FALSE
