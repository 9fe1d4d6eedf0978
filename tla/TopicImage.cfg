SPECIFICATION MCSpec
CONSTANTS
  Lone = {t3}
  LifecycleKinds = {"Topic", "Partition", "PartitionUpdate", "DeleteTopic", "TopicConfig", "PartitionElr", "PartitionRecovery"}
  Topic = {t1, t2}
  ReplicaLists <- Moved
  MaxPartitions = 1
  Kinds = {"Topic", "Partition", "PartitionUpdate", "DirAssignment", "OffsetAdvance"}
  MaxAsked = 5
  MaxPending = 2
  MaxLag = 1
SYMMETRY Symmetry
INVARIANTS
  DerivedConsistent
  NoOrphans
  RestartedAgrees
  DirectoriesFollowReplicas
CHECK_DEADLOCK FALSE
