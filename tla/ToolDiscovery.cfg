SPECIFICATION DiscoverySpec
CONSTANTS
  Getters = {g1, g2, g3}
  Invalidators = {i1, i2}
  MaxVersion = 2
  ToolLists = {0, 1, 2}
  NoTools = NoTools
INVARIANTS
  DiscoveryTypeOK
  SingleFlight
  CacheTurns
  FreshAfterInvalidate
  ReadsNeverGoBack
PROPERTIES
  EveryGetEnds
