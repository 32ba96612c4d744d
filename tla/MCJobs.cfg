SPECIFICATION FairSpec
CONSTANTS
  Clients = {mcp, cli}
  Kinds = {"research_start", "duplicates_scan"}
  Limited = {"research_start", "reindex_start"}
  MaxPerDay = 1
  Retries = 2
  NoKind = NoKind
  MaxTasks = 2
  MaxDay = 1
  MaxFaults = 1
  MaxCrashes = 1
INVARIANTS
  JobsInv
  DispatchCeiling
  CompletedHasDraft
PROPERTIES
  CancelledNeverStarts
  SucceededDraftIsFinal
  ResearchCompletes
CHECK_DEADLOCK FALSE
