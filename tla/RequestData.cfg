SPECIFICATION DataSpec
CONSTANTS
  Fields = {limit, options, password}
  Values <- AllValues
  Depth <- DepthOfAll
  MaxDepth = 4
  Policies <- OneRule
  Callers = {alice, bob}
  Tools = {query, other}
  ArgumentValues <- Arguments
  Schemas = {"absent", "usable", "broken"}
  Modes = {"keys_only", "redacted"}
  Sensitive = {password}
  alice = alice
  bob = bob
  query = query
  other = other
  limit = limit
  options = options
  password = password
INVARIANTS
  DataTypeOK
  TighteningNeverAdmits
  OmittingNeverDenies
  ForwardedFieldsAreCovered
  ScalarsAreStrict
  RedactionIsExact
  KeysOnlyShowsNoValue
