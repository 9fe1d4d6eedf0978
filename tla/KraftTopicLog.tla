---------------------------- MODULE KraftTopicLog ----------------------------
(***************************************************************************)
(* The KIP-631 records of topics, partitions and topic configs (crates/    *)
(* metadata/src/kraft_translate.rs), in the log that TranslatedLog drives. *)
(* A KIP-631 record names its topic by id, carries only the fields that    *)
(* change, or the whole directory list, and no partition epoch.            *)
(***************************************************************************)
EXTENDS Integers, Sequences, FiniteSets, FiniteSetsExt, SequencesExt, MetadataMaps

CONSTANTS
  Topic, ReplicaLists, MaxPartitions, Kinds, MaxAsked, MaxPending, MaxLag,
  MaxRestarts, Serial

VARIABLES
  image, replayed, direct, unapplied, pending, asked, committed, serial, restarts, skipped

T == INSTANCE TopicImage

-----------------------------------------------------------------------------
(* to_kraft *)

\* A PartitionChangeRecord that changes nothing.
NoChange(img, rec) ==
  [type |-> "Change", id |-> img.topics[rec.topic].id, index |-> rec.index,
   replicas |-> None, isr |-> None, leader |-> None, dirs |-> None,
   eligible |-> None, lastKnown |-> None, state |-> None]

\* The recovery state and the ELR of a partition in the image.
StateOf(img, key) == IF key \in DOMAIN img.recovery THEN img.recovery[key] ELSE "recovered"
ElrOf(img, key, n) == IF key \in DOMAIN img.elr THEN Some(img.elr[key][n]) ELSE None

PartitionToKraft(img, rec) ==
  LET key == <<rec.topic, rec.index>>
  IN  [type |-> "Partition", id |-> img.topics[rec.topic].id, index |-> rec.index,
       partition |-> rec.partition, eligible |-> ElrOf(img, key, 1),
       lastKnown |-> ElrOf(img, key, 2), state |-> StateOf(img, key)]

\* The whole directory list of the image, with the slot of one replica set.
DirAssignmentToKraft(img, rec) ==
  [NoChange(img, rec) EXCEPT
     !.dirs = Some(T!Assigned(img.parts[<<rec.topic, rec.index>>], rec.broker, rec.directory))]

\* Some(new) if the update changes the field.
IfChanged(old, new) == IF new = old THEN None ELSE Some(new)

PartitionUpdateToKraft(img, rec) ==
  LET old == img.parts[<<rec.topic, rec.index>>]
      new == rec.partition
  IN  [NoChange(img, rec) EXCEPT
         !.replicas = IfChanged(old.replicas, new.replicas),
         !.isr = IfChanged(old.isr, new.isr),
         !.leader = IfChanged(old.leader, new.leader),
         !.dirs = IfChanged(old.dirs, new.dirs),
         !.eligible = rec.eligible, !.lastKnown = rec.lastKnown, !.state = rec.state]

\* Mutant: a key that was dropped gets no tombstone.
ConfigSets(img, rec) ==
  SetToSeq({[type |-> "Config", topic |-> rec.topic, key |-> k, set |-> TRUE] : k \in rec.overrides})

\* One record per key that is set, one tombstone per key that is gone.
TopicConfigToKraft(img, rec) ==
  LET old == UNION {img.configs[t] : t \in DOMAIN img.configs \cap {rec.topic}}
      Config(k) == [type |-> "Config", topic |-> rec.topic, key |-> k, set |-> k \in rec.overrides]
  IN  SetToSeq({Config(k) : k \in rec.overrides}) \o SetToSeq({Config(k) : k \in old \ rec.overrides})

\* Whether the record can be encoded: what it names is in the image.
Resolves(img, rec) ==
  LET key == <<rec.topic, rec.index>> IN
  /\ rec.kind \notin {"Topic", "TopicConfig", "OffsetAdvance"} => rec.topic \in DOMAIN img.topics
  /\ rec.kind \in {"PartitionUpdate", "DirAssignment"} => key \in DOMAIN img.parts
  /\ rec.kind = "DirAssignment" => rec.broker \in ToSet(img.parts[key].replicas)

ToKraft(img, rec) ==
  CASE rec.kind = "Topic"             -> << [type |-> "Topic", topic |-> rec.topic, id |-> rec.id] >>
    [] rec.kind = "Partition"         -> << PartitionToKraft(img, rec) >>
    [] rec.kind = "PartitionUpdate"   -> << PartitionUpdateToKraft(img, rec) >>
    [] rec.kind = "PartitionElr"      ->
         << [NoChange(img, rec) EXCEPT !.eligible = Some(rec.eligible),
                                       !.lastKnown = Some(rec.lastKnown)] >>
    [] rec.kind = "PartitionRecovery" -> << [NoChange(img, rec) EXCEPT !.state = Some(rec.state)] >>
    [] rec.kind = "DeleteTopic"       ->
         << [type |-> "RemoveTopic", id |-> img.topics[rec.topic].id] >>
    [] rec.kind = "TopicConfig"       -> TopicConfigToKraft(img, rec)
    [] rec.kind = "DirAssignment"     -> << DirAssignmentToKraft(img, rec) >>
    [] rec.kind = "OffsetAdvance"     -> << [type |-> "Private", record |-> rec] >>

-----------------------------------------------------------------------------
(* from_kraft.  A result is an Option: None is a TranslateError.           *)

\* topic_name_for_id
NameOf(img, id) == {t \in DOMAIN img.topics : img.topics[t].id = id}

\* The fields a KIP-631 topic record lacks come from the image.
TopicFromKraft(img, w) ==
  LET indexes == {k[2] : k \in T!Of(w.topic, img.parts)}
  IN  [kind |-> "Topic", topic |-> w.topic, id |-> w.id,
       partitions |-> T!PartitionCount(img, w.topic),
       factor |-> IF indexes = {} THEN 1
                  ELSE Len(img.parts[<<w.topic, Min(indexes)>>].replicas)]

PartitionFromKraft(img, w) ==
  {IF w.eligible # None \/ w.lastKnown # None \/ w.state = "recovering"
   THEN [kind |-> "PartitionUpdate", topic |-> t, index |-> w.index, partition |-> w.partition,
         eligible |-> w.eligible, lastKnown |-> w.lastKnown, state |-> Some(w.state)]
   ELSE T!PartitionRecord(<<t, w.index>>, w.partition) : t \in NameOf(img, w.id)}

OrElse(option, default) == IF option = None THEN default ELSE CHOOSE x \in option : TRUE

\* The partition of the image with the fields of the change, and its epochs
\* moved on.
Changed(old, w) ==
  [replicas |-> OrElse(w.replicas, old.replicas), isr |-> OrElse(w.isr, old.isr),
   leader |-> OrElse(w.leader, old.leader), dirs |-> OrElse(w.dirs, old.dirs),
   leaderEpoch |-> IF w.leader = None THEN old.leaderEpoch ELSE old.leaderEpoch + 1,
   epoch |-> old.epoch + 1]

\* The topic of a change; none if its partition is not in the image.
ChangeTargets(img, w) == {t \in NameOf(img, w.id) : <<t, w.index>> \in DOMAIN img.parts}

\* A directory list must be as long as the replica list it ends up with.
ChangeFromKraft(img, w) ==
  {LET new == Changed(img.parts[<<t, w.index>>], w)
   IN  IF w.state # None \/ w.eligible # None \/ w.lastKnown # None
       THEN [kind |-> "PartitionUpdate", topic |-> t, index |-> w.index, partition |-> new,
             eligible |-> w.eligible, lastKnown |-> w.lastKnown, state |-> w.state]
       ELSE T!PartitionRecord(<<t, w.index>>, new) :
   t \in {u \in ChangeTargets(img, w) :
            \A dirs \in w.dirs :
              Len(dirs) = Len(OrElse(w.replicas, img.parts[<<u, w.index>>].replicas))}}

\* A key is merged into the map of the image and the whole map is emitted.
ConfigFromKraft(img, w) ==
  LET old == UNION {img.configs[t] : t \in DOMAIN img.configs \cap {w.topic}}
  IN  [kind |-> "TopicConfig", topic |-> w.topic,
       overrides |-> IF w.set THEN old \cup {w.key} ELSE old \ {w.key}]

FromKraft(img, w) ==
  CASE w.type = "Topic"       -> Some(TopicFromKraft(img, w))
    [] w.type = "Partition"   -> PartitionFromKraft(img, w)
    [] w.type = "Change"      -> ChangeFromKraft(img, w)
    [] w.type = "RemoveTopic" ->
         {[kind |-> "DeleteTopic", topic |-> t] : t \in NameOf(img, w.id)}
    [] w.type = "Config"      -> Some(ConfigFromKraft(img, w))
    [] w.type = "Private"     -> Some(w.record)

-----------------------------------------------------------------------------
(* The records the request handlers build (outside this repository).       *)

NewPartition(list) ==
  [replicas |-> list, leader |-> list[1], isr |-> ToSet(list), dirs |-> <<>>,
   leaderEpoch |-> 0, epoch |-> 0]

AddPartition(img) ==
  {T!PartitionRecord(<<t, T!PartitionCount(img, t)>>, NewPartition(list)) :
     t \in {x \in DOMAIN img.topics : T!PartitionCount(img, x) < MaxPartitions},
     list \in ReplicaLists}

\* An update of a partition: a reassignment, or a change of the ISR.
Updated(old, list, isr) ==
  LET r == T!Reassigned(old, list)
  IN  [replicas |-> list, leader |-> list[1], isr |-> isr, dirs |-> r.dirs,
       leaderEpoch |-> IF list[1] = old.leader THEN old.leaderEpoch ELSE old.leaderEpoch + 1,
       epoch |-> old.epoch + 1]

\* The ELR and the recovery state of an update: none, an unclean election, the
\* end of a recovery, one ELR field alone.
Elections ==
  { <<None, None, None>>, <<Some(T!Replicas), Some({}), Some("recovering")>>,
    <<Some({}), Some({}), Some("recovered")>>, <<Some({}), None, None>> }

AlterPartition(img) ==
  {[kind |-> "PartitionUpdate", topic |-> k[1], index |-> k[2],
    partition |-> Updated(img.parts[k], list, ToSet(list)),
    eligible |-> e[1], lastKnown |-> e[2], state |-> e[3]] :
     k \in DOMAIN img.parts, list \in ReplicaLists, e \in Elections}

\* A leader election by a record with the whole partition.
ElectLeader(img) ==
  {T!PartitionRecord(k, Updated(img.parts[k], img.parts[k].replicas, {1})) : k \in DOMAIN img.parts}

AlterConfigs(img) ==
  {[kind |-> "TopicConfig", topic |-> t, overrides |-> overrides] :
     t \in DOMAIN img.topics, overrides \in SUBSET {"retention.ms", "segment.ms"}}

Requests(img, fresh) ==
  {rec \in T!CreateTopics(fresh) \cup T!CreatePartitions(img) \cup AddPartition(img)
           \cup AlterPartition(img) \cup ElectLeader(img) \cup T!SetElr(img)
           \cup T!SetRecovery(img) \cup T!DeleteTopics(img) \cup AlterConfigs(img)
           \cup T!AssignReplicasToDirs(img) \cup T!AdvanceOffsets(img) :
     rec.kind \in Kinds}

INSTANCE TranslatedLog WITH
  Empty <- T!NewImage, Apply <- T!Apply, Valid <- T!Valid, ToRecords <- T!ToRecords

-----------------------------------------------------------------------------
(* Properties *)

\* An image without what the KIP-631 records do not carry: the partition and
\* leader epochs of a change, and replication factors.
WithoutEpochs(img) ==
  [T!View(img) EXCEPT !.parts =
     [k \in DOMAIN img.parts |->
        [replicas |-> img.parts[k].replicas, leader |-> img.parts[k].leader,
         isr |-> img.parts[k].isr, dirs |-> img.parts[k].dirs]]]

\* A replica that reads KIP-631 records holds what the records the handlers
\* wrote say, epochs aside, however stale the requests were: to_kraft and
\* from_kraft invert each other through the image (kraft_translate.rs), as
\* long as every record decodes.
WireFaithful == serial /\ ~skipped => WithoutEpochs(replayed) = WithoutEpochs(direct)

\* "The round-trip rec -> to_kraft(&image) -> from_kraft(&image) == rec is the
\* correctness bar for every modeled variant" (kraft_translate.rs): what a
\* serial controller encodes, a replica that holds the same image decodes.
EncodedDecodes == serial => ~skipped

\* A replica that restarted from KIP-631 snapshots agrees with one that
\* replayed the log, epochs aside, also where records race.
RestartedAgrees == WithoutEpochs(image) = WithoutEpochs(replayed)

\* "A concurrent reassignment or ISR change is preserved regardless of commit
\* order" (image.rs): no directory slot holds the directory of another broker.
DirectoriesFollowReplicas == T!DirectoriesFollowReplicas

\* "Applying the records of a snapshot reproduces the image exactly"
\* (to_records), and every record survives to_kraft and from_kraft: a restart
\* leaves the epochs of the partitions as they are.
SnapshotKeepsEpochs ==
  \A k \in DOMAIN image.parts :
    k \in DOMAIN replayed.parts => image.parts[k].epoch = replayed.parts[k].epoch
=============================================================================
