---------------------------- MODULE ClusterImage ----------------------------
(***************************************************************************)
(* The parts of the metadata image other than topics: broker and           *)
(* controller registrations, break-glass proposals, feature levels and     *)
(* config maps.  The records of the four touch disjoint fields of the      *)
(* image and validate reads only the field it guards, so behaviours of the *)
(* image are interleavings of behaviours of its parts, and each behaviour  *)
(* here is one of one part.                                                *)
(***************************************************************************)
EXTENDS Naturals

CONSTANTS
  Node,                                \* of BrokerRegistry and ConfigMaps
  Dirs, BrokerKinds,                   \* of BrokerRegistry
  Principal, Quorum, Window,           \* of BreakGlass
  Feature, MaxLevel, Voter,            \* of FeatureLevels
  EntityType, Key, Value, ConfigKinds, \* of ConfigMaps
  MaxAsked, MaxPending, MaxLag         \* of MetadataLog, for every part

VARIABLES part, image, replayed, unapplied, pending, asked, committed, settled

Brokers == INSTANCE BrokerRegistry WITH
  Broker <- Node, Kinds <- BrokerKinds, MaxAsked <- MaxAsked.brokers,
  MaxPending <- MaxPending.brokers, MaxLag <- MaxLag.brokers

Glass == INSTANCE BreakGlass WITH
  MaxAsked <- MaxAsked.glass, MaxPending <- MaxPending.glass, MaxLag <- MaxLag.glass

Features == INSTANCE FeatureLevels WITH
  MaxAsked <- MaxAsked.features, MaxPending <- MaxPending.features,
  MaxLag <- MaxLag.features

Configs == INSTANCE ConfigMaps WITH
  Kinds <- ConfigKinds, MaxAsked <- MaxAsked.configs,
  MaxPending <- MaxPending.configs, MaxLag <- MaxLag.configs

imageVars == <<part, image, replayed, unapplied, pending, asked, committed, settled>>

ImageInit ==
  \/ part = "brokers" /\ Brokers!Init /\ settled = {}
  \/ part = "glass" /\ Glass!Init
  \/ part = "features" /\ Features!Init /\ settled = {}
  \/ part = "configs" /\ Configs!Init /\ settled = {}

ImageNext ==
  /\ UNCHANGED part
  /\ \/ part = "brokers" /\ Brokers!Next /\ UNCHANGED settled
     \/ part = "glass" /\ Glass!Next
     \/ part = "features" /\ Features!Next /\ UNCHANGED settled
     \/ part = "configs" /\ Configs!Next /\ UNCHANGED settled

ImageSpec == ImageInit /\ [][ImageNext]_imageVars

-----------------------------------------------------------------------------
(* Properties *)

\* A replica that restarted from snapshots (to_records) agrees with one that
\* replayed every record: on everything but, among configs, quotas and
\* credentials, owners without a key.
RestartedAgrees ==
  /\ part = "brokers" => Brokers!RestartedAgrees
  /\ part = "glass" => Glass!RestartedAgrees
  /\ part = "features" => Features!RestartedAgrees
  /\ part = "configs" => Configs!RestartedAgrees

\* A proposal that was consumed or withdrawn never authorises again, also when
\* a stale approval brings it back after the sweep deleted it.
SpentOnce == part = "glass" => Glass!SpentOnce

\* The epoch is a version of the feature levels (finalized_features_epoch,
\* which clients use to tell an old answer from a new one): no step changes
\* the levels without moving it on, and none, a restart included, moves it back.
EpochVersionsLevels == [][part = "features" => Features!EpochMoves]_imageVars

\* A request built before a broker registered never changes or removes that
\* registration, even when the validating image had not applied it yet.
NewRegistrationUntouched == [][part = "brokers" => Brokers!NewRegistrationUntouched]_imageVars

\* Of two requests that read the same next producer id at most one gets a
\* block, and a restart gives no ids back.
BlocksDisjoint == [][part = "brokers" => Brokers!BlocksDisjoint]_imageVars

\* Two concurrent approvals cannot overwrite each other (the comment at the
\* head of break_glass.rs), and a settled proposal takes no change: of two
\* handlers that spend it, or one that spends it while the proposer withdraws,
\* one is refused.
ProposalsOnlyGrow == [][part = "glass" => Glass!ProposalsOnlyGrow]_imageVars
=============================================================================
