SPECIFICATION Spec
CONSTANTS
  Paths = {pa, pb}
  Urls = {leak}
  Leaks = {leak}
  NoPath = NoPath
  NoFile = NoFile
  Clients = {mcp, cli}
  Worker = worker
  Blocking = {cli, worker}
  Retries = 0
  MaxNotes = 2
  MaxEdits = 1
  MaxMishaps = 1
SYMMETRY PathSymmetry
INVARIANTS
  ResearchInv
  UsersFilesKept
  SecretsAccounted
  ResultIsTraced
  NothingForgotten
CHECK_DEADLOCK FALSE
