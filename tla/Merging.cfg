SPECIFICATION Spec
CONSTANTS
  head1 = head1
  head2 = head2
  shared1 = shared1
  shared2 = shared2
  Notes = {1, 2, 3}
  Calls = {c1, c2}
  Server = {c1}
  Edits = {e1}
  Pieces <- MCPieces
  Opening <- MCOpening
  Signed = {1, 2}
  Reviewed <- MCReviewed
  Similar <- MCSimilar
  Drafts = {3}
  Old = {1}
  Asked = {3}
  Handled = {2}
  NoFile = NoFile
  NoNote = 0
  MaxScans = 1
  MaxAnswers = 1
  MaxOthers = 1
INVARIANTS
  MergingInv
  KeptAlive
  MergedOnce
  AlikeAreProposed
PROPERTIES
  NeverReopened
CHECK_DEADLOCK FALSE
