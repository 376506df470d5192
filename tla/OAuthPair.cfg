\* Two authorization codes, of any clients, in any interleaving.
SPECIFICATION Spec
CONSTANTS
  app = app
  good = good
  s1 = s1
  u1 = u1
  broken = broken
  v1 = v1
  v2 = v2
  h1 = h1
  h2 = h2
  None = None
  ClientIds = {app, tool, stranger}
  Registered = {app, tool}
  ClientConfig <- MCClientConfig
  S256 <- MCS256
  Secrets = {good, bad}
  Uris = {u1, broken}
  ParsableUris = {u1}
  Verifiers = {v1, v2}
  Challenges = {h1, h2}
  Scopes = {s1}
  Codes = {c1, c2}
  RefreshTokens = {r1, r2}
  AccessTokens = {a1, a2}
  DeviceCodes = {}
  UserCodes = {}
  Lifetime = 1
  MaxTime = 0
  MaxApprovals = 0
SYMMETRY Symmetry
INVARIANTS
  TokensOnlyFromSpentCodes
  GrantInv
PROPERTIES
  ImplementsCodeGrant
