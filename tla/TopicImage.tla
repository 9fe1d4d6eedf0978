----------------------------- MODULE TopicImage -----------------------------
(***************************************************************************)
(* The topic side of the metadata image (crates/metadata/src/image.rs):    *)
(* topics with the reverse index from topic id to name, partitions with    *)
(* their log directories, the offsets of diskless partitions, eligible     *)
(* leader replicas, leader recovery and topic configs, driven as           *)
(* MetadataLog says.                                                       *)
(*                                                                         *)
(* The nested maps topic -> index -> value are maps keyed by <<topic,      *)
(* index>>: no operation leaves an empty inner map.  Of a partition record *)
(* the replicas, the leader and the directories are kept.                  *)
(***************************************************************************)
EXTENDS Integers, Sequences, FiniteSets, SequencesExt, MetadataMaps

CONSTANTS
  Topic,          \* topic names
  ReplicaLists,   \* replica assignments, sequences of brokers
  MaxPartitions,  \* bound: partitions of one topic
  Kinds,          \* the kinds of request the handlers make
  MaxAsked, MaxPending, MaxLag

VARIABLES image, replayed, unapplied, pending, asked, committed

Replicas == UNION {ToSet(list) : list \in ReplicaLists}

\* The log directory a broker reports; Migrating is a slot not yet assigned.
DirectoryOf(broker) == <<broker>>
Migrating == <<>>

NewImage ==
  [ topics    |-> EmptyMap,   \* name -> [id, partitions, factor]
    ids       |-> EmptyMap,   \* id -> name
    parts     |-> EmptyMap,   \* <<topic, index>> -> partition record
    offsets   |-> EmptyMap,   \* <<topic, index>> -> next offset
    elr       |-> EmptyMap,   \* <<topic, index>> -> eligible, last known
    recovery  |-> EmptyMap,   \* <<topic, index>> -> "recovering"
    configs   |-> EmptyMap ]  \* name -> overrides

Of(topic, map) == {key \in DOMAIN map : key[1] = topic}
PartitionCount(img, topic) == Cardinality(Of(topic, img.parts))

-----------------------------------------------------------------------------
(* apply *)

\* The id entry of an earlier topic of the same name.
StaleId(img, rec) ==
  {id \in DOMAIN img.ids :
     /\ rec.topic \in DOMAIN img.topics
     /\ id = img.topics[rec.topic].id
     /\ id # rec.id}

\* Mutant: the count of the record is trusted.
ApplyTopicTrustingCount(img, rec) ==
  [img EXCEPT
     !.ids = Put(Drop(img.ids, StaleId(img, rec)), rec.id, rec.topic),
     !.topics = Put(img.topics, rec.topic,
                    [id |-> rec.id, partitions |-> rec.partitions, factor |-> rec.factor])]

ApplyTopic(img, rec) ==
  LET count == IF rec.topic \in DOMAIN img.topics
                 THEN img.topics[rec.topic].partitions
                 ELSE 0
  IN [img EXCEPT
        !.ids = Put(Drop(img.ids, StaleId(img, rec)), rec.id, rec.topic),
        !.topics = Put(img.topics, rec.topic,
                       [id |-> rec.id, partitions |-> count, factor |-> rec.factor])]

\* The topic record after a partition of it is inserted.
Recounted(topic, isNew, partition) ==
  [topic EXCEPT !.partitions = IF isNew THEN topic.partitions + 1 ELSE topic.partitions,
                !.factor = Len(partition.replicas)]

ApplyPartition(img, rec) ==
  LET key == <<rec.topic, rec.index>>
  IN [img EXCEPT
        !.parts = Put(img.parts, key, rec.partition),
        !.topics = [t \in DOMAIN img.topics |->
                      IF t = rec.topic
                        THEN Recounted(img.topics[t], key \notin DOMAIN img.parts,
                                       rec.partition)
                        ELSE img.topics[t]]]

\* Two empty sets clear the entry.
ApplyElr(img, key, eligible, lastKnown) ==
  [img EXCEPT !.elr =
     IF eligible = {} /\ lastKnown = {}
       THEN Drop(img.elr, {key})
       ELSE Put(img.elr, key, <<eligible, lastKnown>>)]

ApplyRecovery(img, key, state) ==
  [img EXCEPT !.recovery =
     IF state = "recovered" THEN Drop(img.recovery, {key})
                            ELSE Put(img.recovery, key, state)]

\* The ELR changes only when both of its fields are present.
ApplyPartitionUpdate(img, rec) ==
  LET key == <<rec.topic, rec.index>>
      placed == ApplyPartition(img, rec)
      elected == IF rec.eligible # None /\ rec.lastKnown # None
                   THEN ApplyElr(placed, key, UNION rec.eligible, UNION rec.lastKnown)
                   ELSE placed
  IN IF rec.state = None THEN elected
     ELSE ApplyRecovery(elected, key, CHOOSE s \in rec.state : TRUE)

\* Mutant: the eligible leader replicas of the topic stay behind.
ApplyDeleteTopicKeepingElr(img, rec) ==
  LET t == rec.topic IN
  [ topics   |-> Drop(img.topics, {t}),
    ids      |-> Drop(img.ids, {img.topics[x].id : x \in DOMAIN img.topics \cap {t}}),
    parts    |-> Drop(img.parts, Of(t, img.parts)),
    offsets  |-> Drop(img.offsets, Of(t, img.offsets)),
    elr      |-> img.elr,
    recovery |-> Drop(img.recovery, Of(t, img.recovery)),
    configs  |-> Drop(img.configs, {t}) ]

ApplyDeleteTopic(img, rec) ==
  LET t == rec.topic IN
  [ topics   |-> Drop(img.topics, {t}),
    ids      |-> Drop(img.ids, {img.topics[x].id : x \in DOMAIN img.topics \cap {t}}),
    parts    |-> Drop(img.parts, Of(t, img.parts)),
    offsets  |-> Drop(img.offsets, Of(t, img.offsets)),
    elr      |-> Drop(img.elr, Of(t, img.elr)),
    recovery |-> Drop(img.recovery, Of(t, img.recovery)),
    configs  |-> Drop(img.configs, {t}) ]

ApplyTopicConfig(img, rec) ==
  [img EXCEPT !.configs = IF rec.overrides = {} THEN Drop(img.configs, {rec.topic})
                          ELSE Put(img.configs, rec.topic, rec.overrides)]

\* Mutant: the directory goes to the first slot.
AssignedFirst(partition, broker, directory) ==
  [j \in (1..Len(partition.replicas)) \cup DOMAIN partition.dirs |->
     IF j = 1 THEN directory
     ELSE IF j <= Len(partition.dirs) THEN partition.dirs[j] ELSE Migrating]

\* The directories of a partition with the slot of one replica assigned; a
\* short list is padded with Migrating.
Assigned(partition, broker, directory) ==
  LET slot == CHOOSE j \in 1..Len(partition.replicas) : partition.replicas[j] = broker
  IN [j \in (1..Len(partition.replicas)) \cup DOMAIN partition.dirs |->
        IF j = slot THEN directory
        ELSE IF j <= Len(partition.dirs) THEN partition.dirs[j] ELSE Migrating]

ApplyDirAssignment(img, rec) ==
  [img EXCEPT !.parts = [k \in DOMAIN img.parts |->
     IF k = <<rec.topic, rec.index>> /\ rec.broker \in ToSet(img.parts[k].replicas)
       THEN [img.parts[k] EXCEPT !.dirs =
               Assigned(img.parts[k], rec.broker, rec.directory)]
       ELSE img.parts[k]]]

ApplyOffsetAdvance(img, rec) ==
  LET key == <<rec.topic, rec.index>>
      next == IF key \in DOMAIN img.offsets THEN img.offsets[key] ELSE 0
  IN [img EXCEPT !.offsets = Put(img.offsets, key, next + rec.count)]

Apply(img, rec) ==
  CASE rec.kind = "Topic"             -> ApplyTopic(img, rec)
    [] rec.kind = "Partition"         -> ApplyPartition(img, rec)
    [] rec.kind = "PartitionUpdate"   -> ApplyPartitionUpdate(img, rec)
    [] rec.kind = "PartitionElr"      ->
         ApplyElr(img, <<rec.topic, rec.index>>, rec.eligible, rec.lastKnown)
    [] rec.kind = "PartitionRecovery" ->
         ApplyRecovery(img, <<rec.topic, rec.index>>, rec.state)
    [] rec.kind = "DeleteTopic"       -> ApplyDeleteTopic(img, rec)
    [] rec.kind = "TopicConfig"       -> ApplyTopicConfig(img, rec)
    [] rec.kind = "DirAssignment"     -> ApplyDirAssignment(img, rec)
    [] rec.kind = "OffsetAdvance"     -> ApplyOffsetAdvance(img, rec)

-----------------------------------------------------------------------------
(* validate *)

\* An existing topic takes only an expansion that keeps its identity.
Expands(img, rec) ==
  /\ img.topics[rec.topic].id = rec.id
  /\ img.topics[rec.topic].factor = rec.factor
  /\ rec.partitions > PartitionCount(img, rec.topic)

Valid(img, rec) ==
  \/ rec.kind = "Topic" /\ (rec.topic \in DOMAIN img.topics => Expands(img, rec))
  \/ /\ rec.kind \in {"Partition", "PartitionUpdate", "DeleteTopic", "TopicConfig"}
     /\ rec.topic \in DOMAIN img.topics
  \/ /\ rec.kind \in {"PartitionElr", "PartitionRecovery"}
     /\ <<rec.topic, rec.index>> \in DOMAIN img.parts
  \/ rec.kind \in {"DirAssignment", "OffsetAdvance"}

-----------------------------------------------------------------------------
(* to_records *)

TopicRecord(img, t) ==
  [kind |-> "Topic", topic |-> t, id |-> img.topics[t].id,
   partitions |-> img.topics[t].partitions, factor |-> img.topics[t].factor]

PartitionRecord(key, partition) ==
  [kind |-> "Partition", topic |-> key[1], index |-> key[2], partition |-> partition]

\* Partitions of a topic come in ascending index order (a BTreeMap).
PartitionSections(img) ==
  [n \in 1..MaxPartitions |->
     {PartitionRecord(k, img.parts[k]) : k \in {x \in DOMAIN img.parts : x[2] = n - 1}}]

\* Mutant: a snapshot records that a partition advanced, not how far.
OffsetRecordsOnce(img) ==
  {[kind |-> "OffsetAdvance", topic |-> k[1], index |-> k[2], count |-> 1] :
     k \in DOMAIN img.offsets}

OffsetRecords(img) ==
  {[kind |-> "OffsetAdvance", topic |-> k[1], index |-> k[2],
    count |-> img.offsets[k]] : k \in DOMAIN img.offsets}

AuxiliarySections(img) ==
  << OffsetRecords(img),
     {[kind |-> "PartitionElr", topic |-> k[1], index |-> k[2],
       eligible |-> img.elr[k][1], lastKnown |-> img.elr[k][2]] :
        k \in DOMAIN img.elr},
     {[kind |-> "PartitionRecovery", topic |-> k[1], index |-> k[2],
       state |-> img.recovery[k]] : k \in DOMAIN img.recovery},
     {[kind |-> "TopicConfig", topic |-> t, overrides |-> img.configs[t]] :
        t \in DOMAIN img.configs} >>

\* Mutant: partitions before the topics that count them.
ToRecordsPartitionsFirst(img) ==
  PartitionSections(img)
  \o << {TopicRecord(img, t) : t \in DOMAIN img.topics} >>
  \o AuxiliarySections(img)

ToRecords(img) ==
  << {TopicRecord(img, t) : t \in DOMAIN img.topics} >>
  \o PartitionSections(img)
  \o AuxiliarySections(img)

-----------------------------------------------------------------------------
(* The records the request handlers build (outside this repository).       *)

NewPartition(list) == [replicas |-> list, leader |-> list[1], dirs |-> <<>>]

\* A reassignment keeps the directory of every replica that stays.
Reassigned(partition, list) ==
  [replicas |-> list, leader |-> list[1],
   dirs |-> IF partition.dirs = <<>> THEN <<>>
            ELSE [j \in 1..Len(list) |->
                    LET old == {i \in DOMAIN partition.replicas \cap DOMAIN partition.dirs :
                                  partition.replicas[i] = list[j]}
                    IN IF old = {} THEN Migrating
                       ELSE partition.dirs[CHOOSE i \in old : TRUE]]]

CreateTopics(fresh) ==
  {[kind |-> "Topic", topic |-> t, id |-> fresh, partitions |-> 1, factor |-> Len(list)] :
     t \in Topic, list \in ReplicaLists}

CreatePartitions(img) ==
  {[TopicRecord(img, t) EXCEPT !.partitions = PartitionCount(img, t) + 1] :
     t \in DOMAIN img.topics}

AddPartition(img) ==
  {PartitionRecord(<<t, PartitionCount(img, t)>>, NewPartition(list)) :
     t \in {x \in DOMAIN img.topics : PartitionCount(img, x) < MaxPartitions},
     list \in ReplicaLists}

\* AlterPartition and reassignments; ELR fields come together or one alone.
AlterPartition(img) ==
  {[kind |-> "PartitionUpdate", topic |-> k[1], index |-> k[2],
    partition |-> Reassigned(img.parts[k], list),
    eligible |-> elr[1], lastKnown |-> elr[2], state |-> state] :
     k \in DOMAIN img.parts, list \in ReplicaLists,
     elr \in {<<None, None>>, <<Some(Replicas), Some({})>>, <<Some({}), None>>},
     state \in {None, Some("recovering"), Some("recovered")}}

SetElr(img) ==
  {[kind |-> "PartitionElr", topic |-> k[1], index |-> k[2],
    eligible |-> eligible, lastKnown |-> {}] :
     k \in DOMAIN img.parts, eligible \in {{}, Replicas}}

SetRecovery(img) ==
  {[kind |-> "PartitionRecovery", topic |-> k[1], index |-> k[2], state |-> state] :
     k \in DOMAIN img.parts, state \in {"recovering", "recovered"}}

DeleteTopics(img) == {[kind |-> "DeleteTopic", topic |-> t] : t \in DOMAIN img.topics}

AlterConfigs(img) ==
  {[kind |-> "TopicConfig", topic |-> t, overrides |-> overrides] :
     t \in DOMAIN img.topics, overrides \in {{}, {"retention.ms"}}}

AssignReplicasToDirs(img) ==
  {[kind |-> "DirAssignment", topic |-> k[1], index |-> k[2], broker |-> b,
    directory |-> DirectoryOf(b)] : k \in DOMAIN img.parts, b \in Replicas}

AdvanceOffsets(img) ==
  {[kind |-> "OffsetAdvance", topic |-> k[1], index |-> k[2], count |-> 1] :
     k \in DOMAIN img.parts}

Requests(img, fresh) ==
  {rec \in CreateTopics(fresh) \cup CreatePartitions(img) \cup AddPartition(img)
           \cup AlterPartition(img) \cup SetElr(img) \cup SetRecovery(img)
           \cup DeleteTopics(img) \cup AlterConfigs(img)
           \cup AssignReplicasToDirs(img) \cup AdvanceOffsets(img) :
     rec.kind \in Kinds}

Stamped(rec, offset) == rec

INSTANCE MetadataLog WITH Empty <- NewImage

-----------------------------------------------------------------------------
(* Properties *)

\* What apply derives from the maps agrees with them, whatever the order of
\* creations, deletions, re-creations under another id, stale updates and
\* restarts: topic_by_id and topic_name_by_id resolve exactly the live topics,
\* and the count apply_partition caches is the number of partitions.
DerivedConsistent ==
  /\ DOMAIN image.ids = {image.topics[t].id : t \in DOMAIN image.topics}
  /\ \A t \in DOMAIN image.topics :
       /\ image.ids[image.topics[t].id] = t
       /\ image.topics[t].partitions = PartitionCount(image, t)

\* No partition outlives its topic, and no eligible-leader, recovery or config
\* entry outlives what it describes, although records name topics by name and
\* may be submitted after the topic they were built for is gone.
NoOrphans ==
  /\ \A k \in DOMAIN image.parts : k[1] \in DOMAIN image.topics
  /\ DOMAIN image.elr \cup DOMAIN image.recovery \subseteq DOMAIN image.parts
  /\ DOMAIN image.configs \subseteq DOMAIN image.topics

\* What a snapshot keeps: everything but the replication factor of a topic.
View(img) ==
  [img EXCEPT !.topics = [t \in DOMAIN img.topics |->
     [id |-> img.topics[t].id, partitions |-> img.topics[t].partitions]]]

\* A replica that restarted from snapshots, any number of times and at any
\* point of the log, holds the same image as one that replayed every record,
\* except for replication factors.
RestartedAgrees == View(image) = View(replayed)

\* Every directory slot of a partition holds the directory of the replica in
\* that slot, however assignments and reassignments are ordered in the log
\* (apply of V1PartitionDirAssignment looks the slot up in the replica list
\* of the image it is applied to).
DirectoriesFollowReplicas ==
  \A k \in DOMAIN image.parts :
    LET p == image.parts[k] IN
    /\ Len(p.dirs) \in {0, Len(p.replicas)}
    /\ \A j \in 1..Len(p.dirs) : p.dirs[j] \in {Migrating, DirectoryOf(p.replicas[j])}

\* As the comment on PartitionOffsetAdvanceRecord has it, the offsets of a
\* partition are gap-free: those of a new topic start at 0.
NewTopicStartsAtZero ==
  [][\A k \in DOMAIN image'.offsets :
       k[1] \in DOMAIN image'.topics \ DOMAIN image.topics => image'.offsets[k] = 0]_vars
=============================================================================
