SPECIFICATION AuditSpec
CONSTANT Emissions = {e1, e2, e3, e4}
INVARIANTS
  AuditTypeOK
  TurnsAreExclusive
  LinesMatchJobs
  OnlyOrphansOverlap
  CallOrder
PROPERTY EveryEmitEnds
