\* Six entries, two of one key and one heavier than the cache; the limits
\* make an insertion evict for its number, for its weight, or several entries.
CONSTANTS
  Entries <- Six
  KeyOf <- SixKeys
  WeightOf <- SixWeights
  MaxSize = 3
  MaxWeight = 5
  Users = {u1, u2, u3}
  None = None
SPECIFICATION Spec
INVARIANTS HeldStays ListExact WithinLimits
PROPERTY EvictsOldest
