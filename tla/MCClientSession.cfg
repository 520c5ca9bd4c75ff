SPECIFICATION Spec
CONSTANTS
  None = None
  a = a
  b = b
  Sessions = {a, b}
  First = a
  MaxSends = 2
  MaxTroubles = 1
INVARIANTS
  SendsGoOnceInOrder
  StreamOwnsUpdates
PROPERTIES
  QueuedSendGoesOut
  BubbleEnds
CHECK_DEADLOCK FALSE
