SPECIFICATION Spec
CONSTANTS
  Topic = {t1}
  ReplicaLists <- Moved
  MaxPartitions = 1
  Kinds = {"Topic", "Partition", "PartitionUpdate", "DirAssignment"}
  MaxAsked = 4
  MaxPending = 2
  MaxLag = 1
  MaxRestarts = 1
  Serial = {TRUE}
INVARIANTS
  EncodedDecodes
CHECK_DEADLOCK FALSE
