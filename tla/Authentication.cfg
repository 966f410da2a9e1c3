SPECIFICATION FairSpec
CONSTANTS
  Principals = {alice, bob}
  EnvVars = {KEY_A, KEY_B}
  Tokens = {k1, k2, k3, EmptyToken}
  EmptyToken = EmptyToken
  Unset = Unset
  Undecoded = Undecoded
  Digests = {k1, k2, k3, EmptyToken}
  Digest <- Identity
  PolicyFiles <- Files
  Ceilings = {0, 1}
  Requests = {r1, r2}
  Headers <- SomeHeaders
  NoPrincipal = NoPrincipal
  alice = alice
  bob = bob
  KEY_A = KEY_A
  KEY_B = KEY_B
  k1 = k1
  k2 = k2
INVARIANTS
  AuthTypeOK
  ServesSoundConfiguration
  ResolvesExactly
  HandlersActForTheirCaller
PROPERTY StartupEnds
