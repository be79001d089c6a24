SPECIFICATION Spec
CONSTANTS
  t1 = t1
  t2 = t2
  t3 = t3
  s1 = s1
  s2 = s2
  r1 = r1
  Client = Client
  NoOne = NoOne
  Tasks = {t1, t2, t3}
  Stoppers = {s1, s2}
  Resizers = {}
  ResizeTo <- GrowToTwo
  Origin <- NestedSchedule
  NilResult = {t3}
  NumWorkers = 1
  MaxPoolSize = 1
  MaxOutPolicies = {"RunOnNewRoutine", "Panic", "Discard", "RunOnCaller", "Other"}
  ParentCancels = TRUE
  Capacity = 3
PROPERTIES ImplementsTaskPool
CHECK_DEADLOCK FALSE
