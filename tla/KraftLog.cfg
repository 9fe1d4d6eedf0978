SPECIFICATION MCSpec
CONSTANTS
  Topic = {t1}
  ReplicaLists <- MCReplicaLists
  MaxPartitions = 1
  Kinds = {"Topic", "Partition", "PartitionUpdate", "DeleteTopic", "TopicConfig", "PartitionElr", "PartitionRecovery", "DirAssignment", "OffsetAdvance"}
  MaxAsked = 5
  MaxPending = 2
  MaxLag = 1
  MaxRestarts = 1
  Serial = {TRUE, FALSE}
  Entry <- MCEntry
  Filter <- MCFilter
  Resource = {group}
  Key = {k1, k2}
INVARIANTS
  TopicLogFaithful
  SettingsLogFaithful
CHECK_DEADLOCK FALSE
