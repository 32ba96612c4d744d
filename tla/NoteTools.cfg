SPECIFICATION FairSpec
CONSTANTS
  Paths = {p, q}
  Seeded = {p}
  Calls = {c1, c2}
  Edits = {e1}
  Front = {c1}
  NoFile = NoFile
  NoCall = NoCall
  MaxNotes = 3
  MaxMishaps = 1
INVARIANTS
  NoteToolsInv
  NothingVanishes
  DriftIsSignalled
PROPERTIES
  ToolsConverge
CHECK_DEADLOCK FALSE
