SPECIFICATION Spec
CONSTANTS
  COMPACT_BATCH = 2
  BatchText = 2
  MaxMessages = 4
  KeepRecents = {1, 2}
  Targets = {5}
  NoWindow = NoWindow
  Size <- MCSize
  SystemSize = 1
  SummarySize = 1
  MaxResults = 2
  MaxThread = 7
INVARIANTS
  SentIsAnswerable
  TextIsAccounted
PROPERTY
  CursorAdvances
