SPECIFICATION FairLockSpec
CONSTANTS
  c1 = c1
  c2 = c2
  c3 = c3
  c4 = c4
  c5 = c5
  s1 = s1
  s2 = s2
  NoCall = NoCall
  DropsTail = TRUE
  Calls <- MCCalls
  Sessions <- MCSessions
  SessionOf <- MCSessionOf
INVARIANTS
  IdleSessionHasNoTail
PROPERTIES
  ImplementsFifoLock
  EveryCallGetsIn
\* every call is made once, so the system stops when all have left
CHECK_DEADLOCK FALSE
