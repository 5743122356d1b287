\* The library as five small applications use it, with the C++ port's scheduler
\* shown to act as StSched.  Two threads besides the primordial one, enough for
\* one to wait, one to close or interrupt and one to run; two descriptors, a table
\* and an event list of one entry, so that both must grow;
\* sizes 3 (the default) and 1 round to different numbers of pages.
SPECIFICATION Spec
CONSTANTS
  Threads = {main, t1, t2}
  Primordial = main
  Idle = idle
  None = None
  Conds = {c}
  Timeouts = {1}
  NoTimeout = NoTimeout
  Elapsed = {1}
  PageSize = 2
  DefaultSize = 3
  Osfds = {1, 2}
  FdHint = 1
  Refusals <- SomeRefusals
  KeysMax = 1
  MaxValues = 2
  Apps <- SomeApps
SYMMETRY WorkerSymmetry
INVARIANTS PolledIsOpen StacksPrivate OsfdsOwned DestroyedOnce
PROPERTY ActsAsScheduler
