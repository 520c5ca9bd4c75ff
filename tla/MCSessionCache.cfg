SPECIFICATION Spec
CONSTANTS
  c1 = c1
  c2 = c2
  c3 = c3
  c4 = c4
  c5 = c5
  s1 = s1
  s2 = s2
  NoCall = NoCall
  NoRecord = NoRecord
  MaxEntries = 1
  HasTtl = TRUE
  Calls <- MCCalls
  Sessions <- MCSessions
  SessionOf <- MCSessionOf
  OpOf <- MCOpOf
INVARIANTS
  Coherent
PROPERTIES
  ImplementsRegister
SYMMETRY MCSymmetry
CHECK_DEADLOCK FALSE
