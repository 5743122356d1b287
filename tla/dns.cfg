\* Two threads, two hosts with two answers each, two servers and a search
\* domain; a time to live of one and two readings of the clock, so that an
\* entry is found fresh, found expired, and replaced while another resolves.
CONSTANTS
  Entries <- Four
  KeyOf <- FourHosts
  WeightOf <- FourWeights
  MaxSize = 2
  MaxWeight = 2
  Threads = {t1, t2}
  None = None
  Dots <- TwoNames
  TrailingDot = {"a."}
  Ndots = 1
  Defnames = TRUE
  Dnsrch = TRUE
  NDomains = 1
  NServers = 2
  Ttls = {1}
  Counts = {0, 2}
  MaxTime = 2
SPECIFICATION FairSpec
INVARIANTS AnswersQuestion CacheTruthful TriesEverything
PROPERTY LookupReturns
