\* Two threads and two descriptors are enough for one descriptor polled by both
\* threads and one named twice by a pollset.  The arrays start too small for what
\* the threads poll.  A child shares its parent's epoll set.
SPECIFICATION Spec
CONSTANTS
  Pollers = {a, b}
  Fds = {1, 2}
  Pollsets <- SomePollsets
  Conditions <- SomeConditions
  MinSize = 2
  Spare = 1
  FdHint = 1
  Refusals <- SomeRefusals
  KqMin = 2
  MaxAdd = 2
  Parent = parent
  Children = {c1}
  MaxCount = 2
  None = none
  ForkFds = {1}
  ForkPollsets <- PollsetsOfForked
  ForkConditions <- ConditionsOfForked
SYMMETRY EventSymmetry
INVARIANTS
  CountsExact
  KernelSetExact
PROPERTY
  KeepsContract
