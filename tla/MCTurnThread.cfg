SPECIFICATION Spec
CONSTANTS
  MaxToolRounds = 1
  MaxCalls = 2
  MaxTurns = 2
  MaxTroubles = 2
INVARIANTS
  ResultsFollowCalls
  ResultsAreShown
  PartialRowsAreExplained
PROPERTY
  HistoryIsKept
CHECK_DEADLOCK FALSE
