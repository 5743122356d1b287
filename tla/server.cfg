\* Two VPs with shares, rounded up, of one spare thread and two threads: two
\* connections make a VP create a thread, reach its limit, and end a thread.
\* SIGHUP and SIGTERM meet each other and the replacement of a VP that died;
\* one fault is enough for every error path, as SIGHUP kills a VP that starts.
SPECIFICATION Spec
CONSTANTS
  Procs = {1, 2}
  MaxWaitThreads = 1
  MaxThreads = 3
  MaxConns = 2
  MaxFaults = 1
INVARIANTS ThreadsThrottled AcceptSerialized
PROPERTIES TermEndsAll ReloadReachesAll ConnectionsServed
\* An idle server waits, and a terminated one has stopped.
CHECK_DEADLOCK FALSE
