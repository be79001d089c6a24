SPECIFICATION Spec
CONSTANTS
  l1 = l1
  l2 = l2
  l3 = l3
  Requested = {0, 1, 3}
  Setters = {"s1", "s2"}
  Registrars = {"r1", "r2"}
  OnceCallers = {"o1"}
  Disposers = {"d1"}
  Getting = {"r2"}
  NoOne = NoOne
  Listeners = {l1, l2, l3}
  Onces = {l1, l2}
  Site <- SiteOf
  Panicking = {l2, l3}
  Notifiers = {"n1"}
  Asyncs = {"n2"}
  MaxListeners = 2
  TimerWaiters = {"w1", "w2"}
  MaxCalls = 3
  MaxRuns = 3
  Root = "root"
  Makers = {"m1", "m2"}
  Propagators = {"p1", "p2"}
  Writers = {1, 2, 3, 4}
  Waiters = {"w1"}
  FlushThreshold = 2
  Ticking = TRUE
  MaxAttempts = 2
  MayCancel = TRUE
  Room = 2
  Prefixes = {"app", "apperr", "web"}
  Matches <- PrefixMatches
  LogDataSize = 1
  MaxRecords = 3
  Kinds = {"retry", "observable", "emitter", "timer", "logger", "buffered", "remote", "file"}
INVARIANTS TypesOK NothingLost CalledAsRegistered DoneAsAsked
PROPERTIES EverythingSettles
CHECK_DEADLOCK FALSE
