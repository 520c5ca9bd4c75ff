SPECIFICATION FairSpec
CONSTANTS
  a = a
  b = b
  c = c
  k1 = k1
  Session = Session
  NoCall = NoCall
  Sends <- MCSends
  Cancels <- MCCancels
PROPERTIES
  ImplementsSerialTurns
  EverySendIsTaken
  EveryCancelReturns
CHECK_DEADLOCK FALSE
