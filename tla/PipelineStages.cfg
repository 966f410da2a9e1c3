SPECIFICATION Spec
CONSTANTS
  Calls = {c1, c2, c3}
  Listers = {l1}
  Principals = {alice, bob}
  Tools = {read, write}
  PrincipalOf <- TwoPrincipals
  Allowed <- AllowRead
  Requests <- EveryRequest
  UpstreamLists <- MayLackRead
  NoTools = NoTools
  Burst = 1
  MaxConcurrent = 1
  HasTimeout = TRUE
  MaxFaults = 0
  c1 = c1
  c2 = c2
  c3 = c3
  l1 = l1
  alice = alice
  bob = bob
  read = read
  write = write
SYMMETRY CallSymmetry
INVARIANTS
  PipelineTypeOK
  SlotsAccounted
  RecordsTellTheStage
  ListedToolsAreKnown
