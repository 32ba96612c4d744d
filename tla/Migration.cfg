SPECIFICATION FairSpec
CONSTANTS
  Commands = {c1, c2}
  Nobody = Nobody
  Last = 3
  Revisions = {1, 2}
  Objects = {"a", "b", "c", "d", "e"}
  Script <- MCScript
  MaxEdits = 1
  MaxCrashes = 1
INVARIANTS
  MigrationInv
PROPERTIES
  KeepsPromise
  Recovers
