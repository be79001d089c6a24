SPECIFICATION BothSpec
CONSTANTS
  c1 = c1
  c2 = c2
  c3 = c3
  c4 = c4
  k1 = k1
  k2 = k2
  w1 = w1
  w2 = w2
  o1 = o1
  o2 = o2
  o3 = o3
  o4 = o4
  l1 = l1
  l2 = l2
  v1 = v1
  v2 = v2
  v3 = v3
  Nil = Nil
  None = None
  Calls = {c1, c2, c3, c4}
  Keys = {k1, k2}
  KeyOf <- MostlyOneKey
  Panics = {c3}
  Waiters = {w1, w2}
  Openers = {o1, o2, o3, o4}
  Lockers = {l1, l2}
  Value <- Values
  TypeOf <- TypesOf
INVARIANTS TypesOK OneExecution FreshResult GateKept
PROPERTIES DoReturns OpenReleases
CHECK_DEADLOCK FALSE
