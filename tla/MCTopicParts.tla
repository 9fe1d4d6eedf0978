---------------------------- MODULE MCTopicParts ----------------------------
(***************************************************************************)
(* Two instances of TopicImage for TLC, in one run.  In "lifecycle" one    *)
(* topic of up to two partitions is created, expanded, altered, deleted    *)
(* and created again by a controller that serialises validate and apply.   *)
(* In "deltas", which is TopicImage with the constants of the              *)
(* configuration, directory assignments and offset advances race with      *)
(* reassignments of two topics, and the validating image lags.             *)
(***************************************************************************)
EXTENDS TopicImage, TLC

CONSTANTS Lone, LifecycleKinds   \* the topics and requests of "lifecycle"

VARIABLE part

Moved == {<<1, 2>>, <<2, 1>>}

\* A replica is added, and the order of the replicas changes.
Lifecycle == INSTANCE TopicImage WITH
  Topic <- Lone, ReplicaLists <- {<<1>>, <<2, 1>>}, MaxPartitions <- 2,
  Kinds <- LifecycleKinds, MaxLag <- 0

MCInit == part \in {"lifecycle", "deltas"} /\ Init

MCNext ==
  /\ UNCHANGED part
  /\ \/ part = "lifecycle" /\ Lifecycle!Next
     \/ part = "deltas" /\ Next

MCSpec == MCInit /\ [][MCNext]_<<part, vars>>

Symmetry == Permutations(Topic)
=============================================================================
