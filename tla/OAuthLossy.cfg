\* Two sessions, two requests of each under way at a time, and four tokens.
SPECIFICATION ClientsSpec
CONSTANTS
  app = app
  good = good
  s1 = s1
  u1 = u1
  v1 = v1
  h1 = h1
  None = None
  App = app
  Uri = u1
  Proof = v1
  Tries = {t1, t2}
  ClientIds = {app}
  Registered = {app}
  ClientConfig <- MCClientConfig
  S256 <- MCS256
  Secrets = {good}
  Uris = {u1}
  ParsableUris = {u1}
  Verifiers = {v1}
  Challenges = {h1}
  Scopes = {s1}
  Codes = {c1, c2}
  RefreshTokens = {r1, r2, r3, r4}
  AccessTokens = {a1, a2, a3, a4}
  DeviceCodes = {}
  UserCodes = {}
  Lifetime = 1
  MaxTime = 0
  MaxApprovals = 0
SYMMETRY Symmetry
INVARIANTS
  LiveTokenIsKnown
PROPERTIES
  LossIsFinal
  CleanLeaveEndsTheLine
CHECK_DEADLOCK FALSE
