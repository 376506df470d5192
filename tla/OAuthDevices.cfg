\* Two device codes whose user codes may collide, and a clock.
SPECIFICATION Spec
CONSTANTS
  app = app
  good = good
  s1 = s1
  u1 = u1
  broken = broken
  v1 = v1
  v2 = v2
  h1 = h1
  h2 = h2
  None = None
  ClientIds = {app, stranger}
  Registered = {app}
  ClientConfig <- MCClientConfig
  S256 <- MCS256
  Secrets = {good, bad}
  Uris = {u1, broken}
  ParsableUris = {u1}
  Verifiers = {v1, v2}
  Challenges = {h1, h2}
  Scopes = {s1}
  Codes = {}
  RefreshTokens = {r1, r2}
  AccessTokens = {a1, a2}
  DeviceCodes = {d1, d2}
  UserCodes = {w1, w2}
  Lifetime = 1
  MaxTime = 2
  MaxApprovals = 2
SYMMETRY DeviceSymmetry
INVARIANTS
  RedemptionsWithinApprovals
  DeviceInv
PROPERTIES
  NoLateRedemption
  LastDecisionWins
  PollsKeepDeviceCode
