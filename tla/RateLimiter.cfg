SPECIFICATION RateSpec
CONSTANTS
  Principals = {p1, p2}
  Unit = 3
  Capacity = 7
  Rate = 2
  Slip = 1
  MaxTime = 5
INVARIANTS
  RateTypeOK
  LevelMatchesHistory
  WindowBound
PROPERTIES
  ImplementsAdmission
  AttemptsAgree
  PatienceIsRewarded
