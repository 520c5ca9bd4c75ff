SPECIFICATION Spec
CONSTANTS
  s1 = s1
  s2 = s2
  q1 = q1
  q2 = q2
  ann = ann
  tom = tom
  root = root
  m1 = m1
  m2 = m2
  None = None
  Nobody = Nobody
  Gone = Gone
  Ids <- MCIds
  Workspaces = {w}
  Existing = {s1}
  Calls <- MCCalls
  Requests <- MCRequests
  Actors = {ann, tom, root}
  Can <- MCCan
  Fields = {"mode"}
  Values = {"ask", "agent"}
  Default = "ask"
  AgentMode = "agent"
  MemoryIds = {m1, m2}
  Texts = {}
  Edits <- MCEdits
  FirstRules <- MCFirstRules
  MaxTurns = 2
  MaxLive = 1
  MaxGates = 2
INVARIANTS
  RunsAreCovered
  PinsAreLastSet
PROPERTIES
  DeletedStaysGone
  MemoryIsGuarded
SYMMETRY Symmetry
CHECK_DEADLOCK FALSE
