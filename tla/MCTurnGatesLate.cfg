SPECIFICATION Spec
CONSTANTS
  d1 = d1
  d2 = d2
  NoGate = NoGate
  NoCall = NoCall
  Decisions <- MCDecisions
  Modes <- MCModes
  MaxTurns = 2
  MaxGates = 2
  MaxCrashes = 0
INVARIANT
  LateDecisionExecutesNothing
CHECK_DEADLOCK FALSE
