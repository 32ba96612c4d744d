SPECIFICATION Spec
CONSTANTS
  Paths = {pa, pb}
  Contents = {ca, cb}
  NoFile = NoFile
  Secrets = {cb}
  BlockOnHigh = TRUE
  Worker = worker
  Clis = {cli}
  NoProc = NoProc
  NoPath = NoPath
  Vaults <- OneNote
  pa = pa
  pb = pb
  ca = ca
  cb = cb
  Retries = 1
  Edits = {"write", "rename"}
  Faults = {"scan", "persist", "report"}
  MaxEdits = 1
  MaxFaults = 1
  MaxCrashes = 1
INVARIANTS
  IngestionInv
  NoPathCollision
CHECK_DEADLOCK FALSE
