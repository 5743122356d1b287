\* A joinable thread, a joiner and a late joiner.
SPECIFICATION Spec
CONSTANTS
  main = main
  t1 = t1
  t2 = t2
  Threads = {main, t1, t2}
  Primordial = main
  Idle = idle
  None = None
  Conds = {}
  Mutexes = {}
  Timeouts = {}
  NoTimeout = NoTimeout
  Elapsed = {1}
INVARIANT
  NoJoinerLeftBehind
