SPECIFICATION SettingsSpec
CONSTANTS
  o1 = o1
  o2 = o2
  k1 = k1
  k2 = k2
  m1 = m1
  note = note
  None = None
  Unreadable = Unreadable
  Ops <- MCOps
  ProviderIds <- MCProviderIds
  AgentIds <- MCAgentIds
  SearchIds <- MCSearchIds
  McpIds <- MCMcpIds
  Keys <- MCKeys
  Models = {m1}
  Windows = {4, 8}
  PromptTexts = {note}
  ModeIds <- MCModeIds
  ToolIds <- MCToolIds
  Tools <- MCTools
  HostPrompts <- MCHostPrompts
  RemoteTools = {"read"}
  Patches <- MCPatches
  Listings <- MCListings
  OldRows <- MCOldRows
  SeedProviders <- MCSeedProviders
  SeedDefault = None
  SeedAskUser = TRUE
  SeedRounds = 12
  WebSearch = TRUE
  Overrides <- MCOverrides
  MaxOps = 3
INVARIANTS
  DefaultsExist
  ShownIsApplied
  TurnIsAsChosen

  
SYMMETRY OpSymmetry
CHECK_DEADLOCK FALSE
