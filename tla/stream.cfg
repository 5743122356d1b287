\* Up to three buffers of up to two bytes, empty ones among them, and a kernel
\* that moves up to three bytes: a transfer can end inside a buffer, at its end,
\* and after passing one or two buffers.  A vector of two has to be allocated.
SPECIFICATION FairSpec
CONSTANTS
  Vectors <- WithEmpty
  LocalMaxiov = 1
  MaxAvail = 3
  MaxRoom = 3
INVARIANTS DataInOrder ResidExact
PROPERTY CallReturns
