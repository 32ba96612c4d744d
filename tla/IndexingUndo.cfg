SPECIFICATION FairSpec
CONSTANTS
  Notes = {n1}
  NoNote = NoNote
  long = long
  short = short
  blank = blank
  Texts = {long, short}
  NoText = NoText
  Size <- MCSize
  Batches = {b1, b2, b3, b4, b5, b6}
  NoBatch = NoBatch
  Worker = worker
  Clis = {}
  Retries = 1
  Faulty = {"drop", "upsert", "purge", "insert", "mark", "promote", "report"}
  Undo = TRUE
  MaxEdits = 2
  MaxFaults = 0
  MaxCrashes = 0
PROPERTY IndexMatchesHash
CHECK_DEADLOCK FALSE
