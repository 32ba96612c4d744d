SPECIFICATION FairSpec
CONSTANTS
  Paths = {pa, pb, pgit}
  Excluded = {pgit}
  NoPath = NoPath
  MaxEvents = 4
INVARIANTS
  WatcherInv
  NewestEventKept
PROPERTIES
  SettleOnlyNewest
  NoSettleDecidedAfterStop
  Debounces
  EveryChangeSettles
CHECK_DEADLOCK FALSE
