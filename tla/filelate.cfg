\* One thread whose calls may time out.
SPECIFICATION Spec
CONSTANTS
  Threads = {t1}
  None = None
  Size = 4
  Sections <- AllSections
  FirstOffset = 0
  OutCap = 4
  FILEREADER_MAX_READ = 3
  ControlCap = 2
INVARIANT
  ReadsSection
