SPECIFICATION MCSpec
CONSTANTS
  Corr = {1, 2}
  Api = {p, q}
  Kinds = {"full", "short", "negative"}
  Buffer = 1
  MaxSent = 3
  Value = {x}
  Garbage = Garbage
  Time = {0, 2}
  Horizon = {5}
  MaxI64 = 5
  MaxRecords = 2
  MaxBatches = 2
  MaxWrites = 3
  MaxFaults = 1
  FieldValue = {x, Default}
  Default = Default
  Tag = {0, 1, 2}
  Version = {0, 1, 2, 3}
  FlexMinimum = 1
  TaggedVersions <- MCTaggedVersions
  MaxHops = 4
INVARIANTS
  RequestBeforeResponse
  ResponseClassified
  TeeComplete
  ReadAsWritten
  RelayTransparent
PROPERTIES
  FramesRelayed
  OnlyOwnPeerBlocks
  ThreadsEnd
  EverythingRead
CHECK_DEADLOCK FALSE
