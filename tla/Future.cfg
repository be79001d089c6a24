SPECIFICATION FairSpec
CONSTANTS
  r = r
  a = a
  b = b
  e = e
  q = q
  i = i
  l = l
  NoFuture = NoFuture
  Futures = {r, a, b, e, q, i, l}
  Kind <- KindOf
  Executor <- ExecutorOf
  Inner <- InnerOf
  Link <- LinkOf
  Outcomes <- AllOutcomes
  Programs <- SmallPrograms
INVARIANTS TypeOK TaskRunsOnce CanceledIsNeverCalled
 
CHECK_DEADLOCK FALSE
