\* Two threads and timeouts, so that answers are taken by the wrong call and fill
\* the out pipe, which has room for one answer; the control pipe has room for one
\* command.  A file of two units has a whole section, a short one and an empty one.
\* After a timeout the close may wait for ever, so a state without a successor is
\* no error.
SPECIFICATION FairSpec
CONSTANTS
  Threads = {t1, t2}
  None = None
  Size = 2
  Sections <- FewSections
  FirstOffset = 0
  OutCap = 3
  FILEREADER_MAX_READ = 2
  ControlCap = 1
INVARIANTS
  CleanReads
PROPERTIES
  ReadReturns
  CloseReturns
CHECK_DEADLOCK FALSE
