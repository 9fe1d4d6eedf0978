SPECIFICATION Spec
CONSTANTS
  Topic = {t1}
  ReplicaLists <- MCReplicaLists
  MaxPartitions = 1
  Kinds = {"Topic", "Partition", "DeleteTopic", "OffsetAdvance"}
  MaxAsked = 6
  MaxPending = 2
  MaxLag = 0
PROPERTIES
  NewTopicStartsAtZero
CHECK_DEADLOCK FALSE
