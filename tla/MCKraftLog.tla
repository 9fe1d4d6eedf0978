----------------------------- MODULE MCKraftLog -----------------------------
(***************************************************************************)
(* The translated log for TLC in one run: topics, or ACLs and configs.     *)
(* Their records read and write disjoint fields of the image, which are    *)
(* variables of their own here: a behaviour writes one kind or the other,  *)
(* and leaves the fields of the other as they were at the start.           *)
(***************************************************************************)
EXTENDS KraftSettingsLog

CONSTANTS Topic, ReplicaLists, MaxPartitions, Kinds  \* of KraftTopicLog

VARIABLES
  part,                                              \* which records are written
  topicImage, topicReplayed, topicDirect, topicSkipped  \* the fields of topics

settingFields == <<image, replayed, direct, skipped>>
topicFields == <<topicImage, topicReplayed, topicDirect, topicSkipped>>

Topics == INSTANCE KraftTopicLog WITH
  image <- topicImage, replayed <- topicReplayed, direct <- topicDirect, skipped <- topicSkipped

MCInit == part \in {"topics", "settings"} /\ Init /\ Topics!Init

MCNext ==
  /\ UNCHANGED part
  /\ \/ part = "topics" /\ Topics!Next /\ UNCHANGED settingFields
     \/ part = "settings" /\ Next /\ UNCHANGED topicFields

MCSpec == MCInit /\ [][MCNext]_<<vars, topicFields, part>>

\* A replica is added in front of another, and removed.
MCReplicaLists == {<<1>>, <<2, 1>>}

\* Two entries that one filter tells apart and another does not.
Acl(name) == [name |-> name, who |-> "ada"]
MCEntry  == {Acl("in"), Acl("out")}
MCFilter == {[name |-> "in"], [who |-> "ada"]}

\* Replicas that read KIP-631 records of topics hold what the handlers wrote,
\* epochs aside, where the controller is serial; and one that restarted from
\* KIP-631 snapshots agrees with one that replayed the log, also where it is not.
TopicLogFaithful == Topics!WireFaithful /\ Topics!RestartedAgrees
=============================================================================
