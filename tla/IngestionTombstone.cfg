SPECIFICATION Spec
CONSTANTS
  Paths = {pa, pb}
  Contents = {ca}
  NoFile = NoFile
  Secrets = {}
  BlockOnHigh = TRUE
  Worker = worker
  Clis = {cli}
  NoProc = NoProc
  NoPath = NoPath
  Vaults <- OneNote
  pa = pa
  pb = pb
  ca = ca
  cb = cb
  Retries = 1
  Edits = {"rename"}
  Faults = {}
  MaxEdits = 1
  MaxFaults = 0
  MaxCrashes = 0
PROPERTIES
  TombstonesOwnPath
CHECK_DEADLOCK FALSE
