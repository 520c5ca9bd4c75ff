CONSTANTS
  Responses <- MCResponses
  Arguments <- MCArguments
  MaxChunk = 5
  MaxPings = 2
SPECIFICATION StreamSpec
INVARIANTS
  MessageIsAsSent
  StoredIsShown
  SeenIsShown
PROPERTIES
  EveryStreamEnds
\* a stream that is over, and read to its end, stops
CHECK_DEADLOCK FALSE
