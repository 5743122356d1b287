\* The smallest heap in which a deleted thread's replacement comes from
\* another branch and rises has six threads.  Due times reach 4, which is up to
\* 4 units or two milliseconds away when the clock is set back; an int of two
\* bits holds one millisecond.
SPECIFICATION Spec
CONSTANTS
  Threads = {t1, t2, t3, t4, t5, t6}
  None = None
  Timeouts = {0, 1, 2}
  Clocks = {0, 1, 2}
  UtimeBits = 3
  IntBits = 2
  Milli = 2
SYMMETRY ThreadSymmetry
INVARIANT
  HeapShape
PROPERTY
  ImplementsSleepQueue
