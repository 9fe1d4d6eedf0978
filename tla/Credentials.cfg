SPECIFICATION MCSpec
CONSTANTS
  Parts = {"scram", "gssapi", "tls", "jwks"}
  ada = ada
  token = token
  p = p
  q = q
  sha256 = sha256
  sha512 = sha512
  Client = {c1, c2}
  Server = {s1, s2}
  User = {ada, token}
  Password = {p, q}
  Mechanism = {sha256, sha512}
  Owner <- MCOwner
  Login <- MCLogin
  Enrolled <- MCEnrolled
  Altered <- MCAltered
  MaxSalt = 1
  MaxLegs = 4
  Layer = {AUTH, INTEGRITY}
  AUTH = AUTH
  Reload = {r1, r2}
  Handshake = {h1}
  MaxRotation = 1
  MaxReloads = 3
  Torn = Torn
  Validator = {v1, v2}
  Retrying = {v1}
  Token <- MCToken
  Expiries = {1, None}
  MaxKey = 1
  MaxTime = 3
  MaxFailures = 1
  None = None
INVARIANTS
  InjectiveAgreement
  ClientAuthenticates
  DoneAgreed
PROPERTIES
  Concludes
  OlderOnlyWhenOverlapped
  AcceptedFresh
  RotatedKeyAccepted
CHECK_DEADLOCK FALSE
