SPECIFICATION FairSpec
CONSTANTS
  d1 = d1
  d2 = d2
  NoGate = NoGate
  NoCall = NoCall
  Decisions <- MCDecisions
  Modes <- MCModes
  MaxTurns = 2
  MaxGates = 2
  MaxCrashes = 1
INVARIANTS
  OpenGateIsPending
  RunsAreAuthorized
  PlanMintsOnce
PROPERTIES
  ImplementsTurnLife
  CancelEndsTurn
CHECK_DEADLOCK FALSE
