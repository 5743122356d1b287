\* Three threads, so that two can keep each other busy while the third waits.
\* A timeout of 2 needs two advances of the clock.
SPECIFICATION FairSpec
CONSTANTS
  main = main
  t1 = t1
  t2 = t2
  Threads = {main, t1, t2}
  Primordial = main
  Idle = idle
  None = None
  Conds = {}
  Mutexes = {}
  Timeouts = {2}
  NoTimeout = NoTimeout
  Elapsed = {0, 1}
PROPERTIES
  RunnableRuns
  TimersFireWhenIdle
