SPECIFICATION FairSpec
CONSTANTS
  Paths = {pa, pb}
  Contents = {ca, cb}
  NoFile = NoFile
  Secrets = {}
  BlockOnHigh = FALSE
  Worker = worker
  Clis = {}
  NoProc = NoProc
  NoPath = NoPath
  Vaults <- OneNote
  pa = pa
  pb = pb
  ca = ca
  cb = cb
  Retries = 1
  Edits = {"write", "delete", "rename"}
  Faults = {"settle", "commit"}
  MaxEdits = 2
  MaxFaults = 1
  MaxCrashes = 1
PROPERTIES
  Converges
CHECK_DEADLOCK FALSE
