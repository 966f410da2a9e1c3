SPECIFICATION FairSpec
CONSTANTS
  Calls = {c1, c2}
  Listers = {}
  Principals = {alice}
  Tools = {read, write}
  PrincipalOf <- OnePrincipal
  Allowed <- AllowRead
  Requests <- GoodRequest
  UpstreamLists <- ReadOnly
  NoTools = NoTools
  Burst = 2
  MaxConcurrent = 1
  HasTimeout = TRUE
  MaxFaults = 2
  c1 = c1
  c2 = c2
  c3 = c3
  l1 = l1
  alice = alice
  bob = bob
  read = read
  write = write
INVARIANTS
  ReplyHasOneRecord
  OneFaultLosesNoRecord
  ContactIsRecorded
  NothingLeftHeld
PROPERTIES
  ImplementsLedger
  EveryCallEnds
