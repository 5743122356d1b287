\* Three threads are enough for an owner, two waiters of which one is
\* interrupted, and for a joiner, its target and a second joiner.  Timeouts 0
\* and 1 with a clock that may or may not advance give two threads due at once,
\* one after the other, and one due while another is signalled.
SPECIFICATION Spec
CONSTANTS
  main = main
  t1 = t1
  t2 = t2
  Threads = {main, t1, t2}
  Primordial = main
  Idle = idle
  None = None
  Conds = {c}
  Mutexes = {m}
  Timeouts = {0, 1}
  NoTimeout = NoTimeout
  Elapsed = {0, 1}
SYMMETRY ThreadSymmetry
INVARIANTS
  TypeOK
  QueuesExact
  NextIsRunnable
  DispatchFindsWaiters
  SleepersBlocked
  WaitQueuesExact
  MutexExact
  ResultsTruthful
  ActiveCountExact
