SPECIFICATION FairSpec
CONSTANTS
  Notes = {n1}
  NoNote = NoNote
  long = long
  short = short
  blank = blank
  Texts = {long, blank}
  NoText = NoText
  Size <- MCSize
  Batches = {b1, b2, b3, b4, b5, b6}
  NoBatch = NoBatch
  Worker = worker
  Clis = {}
  Retries = 1
  Faulty = {"connect", "scan", "ingest", "record", "drop", "upsert", "purge", "insert", "mark", "promote", "report"}
  Undo = FALSE
  MaxEdits = 2
  MaxFaults = 2
  MaxCrashes = 1
INVARIANTS
  IndexingInv

  
CHECK_DEADLOCK FALSE
