SPECIFICATION Spec
CONSTANTS
  Notes = {n1}
  NoNote = NoNote
  long = long
  short = short
  blank = blank
  Texts = {long, blank}
  NoText = NoText
  Size <- MCSize
  Batches = {b1, b2, b3, b4, b5, b6}
  NoBatch = NoBatch
  Worker = worker
  Clis = {cli}
  Retries = 0
  Faulty = {"client", "connect", "scan", "ingest", "record", "drop", "upsert", "purge", "insert", "mark", "promote", "report"}
  Undo = TRUE
  MaxEdits = 1
  MaxFaults = 1
  MaxCrashes = 0
INVARIANTS
  IndexingInv
  
PROPERTIES
  PromotedIsSearchable
CHECK_DEADLOCK FALSE
