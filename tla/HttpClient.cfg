SPECIFICATION FairSpec
CONSTANTS
  a1 = a1
  a2 = a2
  a3 = a3
  w1 = w1
  w2 = w2
  s1 = s1
  s2 = s2
  NoOne = NoOne
  Requests = {a1, a2, a3}
  Workers = {w1, w2}
  Stoppers = {s1, s2}
  MaxQueueSize = 2
  MaxRetries = 2
  Deadlines = {a1}
  Interceptor <- OneOfEach
INVARIANTS TypeOK StoppedIsDrained AnswersAreTrue
PROPERTIES CallsReturn ImplementsTaskPool
CHECK_DEADLOCK FALSE
