\* One device code polled by its owner while the clock runs.  No symmetry: liveness.
SPECIFICATION FairSpec
CONSTANTS
  app = app
  good = good
  s1 = s1
  u1 = u1
  broken = broken
  v1 = v1
  v2 = v2
  h1 = h1
  h2 = h2
  None = None
  ClientIds = {app, stranger}
  Registered = {app}
  ClientConfig <- MCClientConfig
  S256 <- MCS256
  Secrets = {good, bad}
  Uris = {u1, broken}
  ParsableUris = {u1}
  Verifiers = {v1, v2}
  Challenges = {h1, h2}
  Scopes = {s1}
  Codes = {}
  RefreshTokens = {r1}
  AccessTokens = {a1}
  DeviceCodes = {d1}
  UserCodes = {w1}
  Lifetime = 1
  MaxTime = 2
  MaxApprovals = 2
PROPERTIES
  PollingEnds
