SPECIFICATION FairSpec
CONSTANTS
  r = r
  a = a
  b = b
  e = e
  q = q
  i = i
  l = l
  NoFuture = NoFuture
  Futures = {r, a, b, e, q, i, l}
  Kind <- KindOf
  Executor <- ExecutorOf
  Inner <- InnerOf
  Link <- LinkOf
  Outcomes <- Values
  Programs <- LateThen
PROPERTIES ChainCompletes
CHECK_DEADLOCK FALSE
