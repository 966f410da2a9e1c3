SPECIFICATION AuditSpec
CONSTANT Emissions = {e1, e2, e3}
INVARIANT WritesAreSerialized
