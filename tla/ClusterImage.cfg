SPECIFICATION MCSpec
CONSTANTS
  Node = {n1, n2}
  Dirs = {d1}
  BrokerKinds = {"Registration", "RegistrationChange", "UnregisterBroker", "ProducerIds", "ControllerRegistration", "UnregisterController"}
  Principal = {alice, bob}
  Quorum = 2
  Window = 6
  Feature = {f1, f2}
  MaxLevel = 2
  Voter = {v1, v2}
  EntityType = {1, 2}
  Key = {k1, k2}
  Value = {1}
  ConfigKinds = {"BrokerConfig", "ClientQuota", "ClientMetricsConfig", "GroupConfig", "ScramCredential", "DelegationToken", "DeleteScramCredential", "DeleteDelegationToken"}
  MaxAsked <- MCMaxAsked
  MaxPending <- MCMaxPending
  MaxLag <- MCMaxLag
  User = {u1}
  Token = {w1}
  CidrAcl = {a1}
  Broker = {broker}
  Replica = {r1, r2}
  Level = {10, 11, 14, 17, 22, 26, 30, 32}
  Epoch = {1, 2}
SYMMETRY Symmetry
INVARIANTS
  RestartedAgrees
  SpentOnce
  LevelsCoherent
  ImageFitsLevel
  OnlyGatedLost
PROPERTIES
  EpochVersionsLevels
  NewRegistrationUntouched
  BlocksDisjoint
  ProposalsOnlyGrow
CHECK_DEADLOCK FALSE
