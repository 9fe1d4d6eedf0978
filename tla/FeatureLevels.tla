---------------------------- MODULE FeatureLevels ----------------------------
(***************************************************************************)
(* Finalized features and quorum state of the metadata image               *)
(* (crates/metadata/src/image.rs): feature levels with their epoch         *)
(* (KIP-584), kraft.version and the voter set (KIP-853), driven as         *)
(* MetadataLog says.  Snapshots carry the epoch in a record of its own.    *)
(***************************************************************************)
EXTENDS Integers, Sequences, FiniteSets, SequencesExt, MetadataMaps

CONSTANTS
  Feature,    \* feature names
  MaxLevel,   \* bound: the highest level and kraft.version
  Voter,      \* controller ids
  MaxAsked, MaxPending, MaxLag

VARIABLES image, replayed, unapplied, pending, asked, committed

NewImage == [levels |-> EmptyMap, epoch |-> -1, kraft |-> 0, voters |-> {}]

AtLeastZero(n) == IF n < 0 THEN 0 ELSE n

\* Mutant: the deletion of a feature does not count.
ApplyFeatureLevelUncounted(img, rec) ==
  IF rec.level = 0
    THEN [img EXCEPT !.levels = Drop(img.levels, {rec.name})]
    ELSE [img EXCEPT !.levels = Put(img.levels, rec.name, rec.level),
                     !.epoch = AtLeastZero(img.epoch + 1)]

\* Level 0 deletes the feature; every record moves the epoch.
ApplyFeatureLevel(img, rec) ==
  [img EXCEPT !.levels = IF rec.level = 0 THEN Drop(img.levels, {rec.name})
                         ELSE Put(img.levels, rec.name, rec.level),
              !.epoch = AtLeastZero(img.epoch + 1)]

Apply(img, rec) ==
  CASE rec.kind = "FeatureLevel"  -> ApplyFeatureLevel(img, rec)
    [] rec.kind = "FeaturesEpoch" -> [img EXCEPT !.epoch = rec.epoch]
    [] rec.kind = "KRaftVersion"  -> [img EXCEPT !.kraft = rec.version]
    [] rec.kind = "Voters"        -> [img EXCEPT !.voters = rec.voters]

Valid(img, rec) ==
  rec.kind \in {"FeatureLevel", "FeaturesEpoch", "KRaftVersion", "Voters"}

FeatureRecords(img) ==
  {[kind |-> "FeatureLevel", name |-> f, level |-> img.levels[f]] : f \in DOMAIN img.levels}

\* Mutant: no epoch for an image without features.
EpochRecordsIfFeatures(img) ==
  IF DOMAIN img.levels # {} THEN {[kind |-> "FeaturesEpoch", epoch |-> img.epoch]} ELSE {}

\* Once a feature was finalized, the epoch is written, even with no feature left.
EpochRecords(img) ==
  IF img.epoch >= 0 THEN {[kind |-> "FeaturesEpoch", epoch |-> img.epoch]} ELSE {}

QuorumRecords(img) ==
  << {[kind |-> "KRaftVersion", version |-> v] : v \in {img.kraft} \ {0}},
     {[kind |-> "Voters", voters |-> v] : v \in {img.voters} \ {{}}} >>

\* The epoch comes after the features: their replay moves it.
ToRecords(img) ==
  << FeatureRecords(img), EpochRecords(img) >> \o QuorumRecords(img)

-----------------------------------------------------------------------------
(* The records the controller builds (outside this repository).  The epoch *)
(* record is never submitted.                                              *)

UpdateFeatures ==
  {[kind |-> "FeatureLevel", name |-> f, level |-> l] : f \in Feature, l \in 0..MaxLevel}

UpgradeKRaft == {[kind |-> "KRaftVersion", version |-> v] : v \in 0..MaxLevel}

ChangeVoters == {[kind |-> "Voters", voters |-> v] : v \in SUBSET Voter \ {{}}}

Requests(img, fresh) == UpdateFeatures \cup UpgradeKRaft \cup ChangeVoters

Stamped(rec, offset) == rec

INSTANCE MetadataLog WITH Empty <- NewImage

-----------------------------------------------------------------------------
(* Properties *)

\* No step changes the levels without moving the epoch on, and none, a restart
\* included, moves it back.
EpochMoves ==
  /\ image'.levels # image.levels => image'.epoch > image.epoch
  /\ image'.epoch >= image.epoch

\* A replica that restarted from snapshots, also one taken after the last
\* feature was deleted, has the epoch, the levels, the voters and the
\* kraft.version of one that replayed every record.
RestartedAgrees == image = replayed
=============================================================================
