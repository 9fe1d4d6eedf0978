-------------------------- MODULE VersionDowngrade --------------------------
(***************************************************************************)
(* Feature levels and what metadata.version gates (crates/metadata/src/    *)
(* feature.rs, metadata_version.rs, image.rs): a cluster is formatted with *)
(* a level for each feature, credentials, ACLs and log directories appear  *)
(* as the level allows, and a downgrade first removes what the target      *)
(* level cannot carry (metadata_version_downgrade_records) and then        *)
(* finalizes the level.  The controller appends the records of a downgrade *)
(* and nothing between them; a replica applies them one by one, the        *)
(* removals in HashMap order, and a failover may cut them short.           *)
(*                                                                         *)
(* Of the features without a dependency, transaction.version stands for    *)
(* the others: all of them have a range and a default by release.          *)
(***************************************************************************)
EXTENDS Integers, FiniteSets, MetadataMaps

CONSTANTS
  User, Token, CidrAcl,  \* owners of gated state
  Broker, Replica,
  Level,                 \* bound: the metadata.version levels tried
  Epoch                  \* bound: broker epochs

VARIABLES
  levels,     \* feature -> finalized level
  scram,      \* users with SCRAM credentials
  tokens,     \* delegation tokens
  cidr,       \* ACLs whose host is a CIDR block
  brokers,    \* broker -> registration
  dirs,       \* replicas of a partition with an assigned directory
  removals,   \* the removals of a downgrade not applied yet
  target,     \* the level of the downgrade under way, as an Option
  before      \* history: the gated state when the downgrade was built

gated == <<scram, tokens, cidr, brokers, dirs>>
vars == <<levels, gated, removals, target, before>>

MV  == "metadata.version"
ELR == "eligible.leader.replicas.version"
TV  == "transaction.version"

METADATA_VERSION_MIN == 7
METADATA_VERSION_MAX == 34
SCRAM_MIN_LEVEL == 11
DELEGATION_TOKEN_MIN_LEVEL == 14
DIRECTORY_ASSIGNMENT_MIN_LEVEL == 17
ELR_MIN_LEVEL == 23
TV_METADATA_LEVEL == 24
ELR_DEFAULT_METADATA_LEVEL == 26
CORDONED_LOG_DIRS_MIN_LEVEL == 30
CIDR_ACL_MIN_LEVEL == 32

-----------------------------------------------------------------------------
(* The feature registry *)

SupportedRange(feature) ==
  CASE feature = MV  -> METADATA_VERSION_MIN .. METADATA_VERSION_MAX
    [] feature = ELR -> 0 .. 1
    [] feature = TV  -> 0 .. 2

\* default_level of each feature, for the metadata.version of a release.
MetadataVersionDefault(mv) ==
  IF mv < METADATA_VERSION_MIN THEN METADATA_VERSION_MIN
  ELSE IF mv > METADATA_VERSION_MAX THEN METADATA_VERSION_MAX ELSE mv

TransactionVersionDefault(mv) == IF mv >= TV_METADATA_LEVEL THEN 2 ELSE 0

\* Mutant: the ELR default rises one level before the record that carries it.
ElrVersionDefaultEarly(mv) == IF mv >= ELR_MIN_LEVEL - 1 THEN 1 ELSE 0

ElrVersionDefault(mv) == IF mv >= ELR_DEFAULT_METADATA_LEVEL THEN 1 ELSE 0

DefaultLevel(feature, mv) ==
  CASE feature = MV  -> MetadataVersionDefault(mv)
    [] feature = ELR -> ElrVersionDefault(mv)
    [] feature = TV  -> TransactionVersionDefault(mv)

Dependencies(feature, level) ==
  IF feature = ELR /\ level >= 1 THEN {<<MV, ELR_MIN_LEVEL>>} ELSE {}

LevelOf(resolved, feature) == IF feature \in DOMAIN resolved THEN resolved[feature] ELSE 0

\* check_deps
ValidateFeatureDependencies(resolved) ==
  \A feature \in DOMAIN resolved :
    \A dep \in Dependencies(feature, resolved[feature]) :
      LevelOf(resolved, dep[1]) >= dep[2]

\* bootstrap_feature_records_with_overrides: level 0 is left out.
BootstrapFeatures(mv, overrides) ==
  LET resolved(f) == IF f \in DOMAIN overrides THEN overrides[f] ELSE DefaultLevel(f, mv)
  IN [f \in {g \in {MV, ELR, TV} : resolved(g) > 0} |-> resolved(f)]

-----------------------------------------------------------------------------
(* The floor and the removals of a downgrade *)

MinRequired ==
  LET floor(present, level) == IF present THEN {level} ELSE {}
      floors == {METADATA_VERSION_MIN}
                  \cup floor(scram # {}, SCRAM_MIN_LEVEL)
                  \cup floor(tokens # {}, DELEGATION_TOKEN_MIN_LEVEL)
                  \cup floor(cidr # {}, CIDR_ACL_MIN_LEVEL)
  IN CHOOSE l \in floors : \A m \in floors : l >= m

\* A registration as a level can carry it; the rest of it is kept.
Projected(registration, level) ==
  [registration EXCEPT
     !.dirs = registration.dirs /\ level >= DIRECTORY_ASSIGNMENT_MIN_LEVEL,
     !.cordoned = registration.cordoned /\ level >= CORDONED_LOG_DIRS_MIN_LEVEL]

\* Mutant: a level removes what it introduced itself.
BelowInclusive(level, min, kind, keys) ==
  {[kind |-> kind, key |-> k] : k \in {x \in keys : level <= min}}

\* The deletions of gated state when the level is below the gate.
Below(level, min, kind, keys) ==
  {[kind |-> kind, key |-> k] : k \in {x \in keys : level < min}}

Rewrites(level) ==
  {[kind |-> "registration", key |-> b, registration |-> Projected(brokers[b], level)] :
     b \in {x \in DOMAIN brokers : Projected(brokers[x], level) # brokers[x]}}

\* metadata_version_downgrade_records; a directory is set back to MIGRATING.
DowngradeRecords(level) ==
  Below(level, CIDR_ACL_MIN_LEVEL, "acl", cidr)
  \cup Below(level, SCRAM_MIN_LEVEL, "scram", scram)
  \cup Below(level, DELEGATION_TOKEN_MIN_LEVEL, "token", tokens)
  \cup Rewrites(level)
  \cup Below(level, DIRECTORY_ASSIGNMENT_MIN_LEVEL, "dir", dirs)

-----------------------------------------------------------------------------
\* The standalone bootstrap takes the defaults as they are; the format command
\* takes overrides and validates what they resolve to.
Init ==
  /\ \E mv \in Level :
       \/ levels = BootstrapFeatures(mv, EmptyMap)
       \/ \E elr \in SupportedRange(ELR) :
            /\ levels = BootstrapFeatures(mv, [f \in {ELR} |-> elr])
            /\ ValidateFeatureDependencies(levels)
  /\ scram = {} /\ tokens = {} /\ cidr = {} /\ dirs = {}
  /\ brokers = EmptyMap
  /\ removals = {} /\ target = None /\ before = <<>>

Idle == target = None
Allows(min) == Idle /\ levels[MV] >= min

\* Requests that add gated state (outside this repository) look at the level.
CreateScram(u) ==
  /\ Allows(SCRAM_MIN_LEVEL)
  /\ scram' = scram \cup {u}
  /\ UNCHANGED <<levels, tokens, cidr, brokers, dirs, removals, target, before>>

CreateToken(t) ==
  /\ Allows(DELEGATION_TOKEN_MIN_LEVEL)
  /\ tokens' = tokens \cup {t}
  /\ UNCHANGED <<levels, scram, cidr, brokers, dirs, removals, target, before>>

CreateCidrAcl(a) ==
  /\ Allows(CIDR_ACL_MIN_LEVEL)
  /\ cidr' = cidr \cup {a}
  /\ UNCHANGED <<levels, scram, tokens, brokers, dirs, removals, target, before>>

AssignDirectory(r) ==
  /\ Allows(DIRECTORY_ASSIGNMENT_MIN_LEVEL)
  /\ dirs' = dirs \cup {r}
  /\ UNCHANGED <<levels, scram, tokens, cidr, brokers, removals, target, before>>

RegisterBroker(b, epoch, cordoned) ==
  /\ Idle
  /\ b \in DOMAIN brokers => epoch > brokers[b].epoch
  /\ brokers' = Put(brokers, b, Projected([epoch |-> epoch, dirs |-> TRUE,
                                           cordoned |-> cordoned], levels[MV]))
  /\ UNCHANGED <<levels, scram, tokens, cidr, dirs, removals, target, before>>

\* The level of a feature after apply of V1FeatureLevel.
Finalized(feature, level) ==
  IF level = 0 THEN Drop(levels, {feature}) ELSE Put(levels, feature, level)

\* UpdateFeatures (outside this repository) for a step without removals: the
\* level is supported, not below the floor, and its dependencies are met.
UpdateFeature(feature, level) ==
  /\ Idle
  /\ level \in SupportedRange(feature)
  /\ feature = MV => level >= MinRequired /\ DowngradeRecords(level) = {}
  /\ ValidateFeatureDependencies(Finalized(feature, level))
  /\ levels' = Finalized(feature, level)
  /\ UNCHANGED <<gated, removals, target, before>>

\* An explicitly unsafe downgrade appends the removals and then the level.
UnsafeDowngrade(level) ==
  /\ Idle
  /\ level < levels[MV]
  /\ ValidateFeatureDependencies(Finalized(MV, level))
  /\ removals' = DowngradeRecords(level)
  /\ target' = Some(level)
  /\ before' = gated
  /\ UNCHANGED <<levels, gated>>

\* apply of one removal: the arms of V1DeleteAccessControlEntry,
\* V1DeleteScramCredential, V1DeleteDelegationToken, V1BrokerRegistration and
\* V1PartitionDirAssignment.  A registration is put back as its record has it,
\* with the broker epoch it had, as the image's own tests apply it; the leader
\* stamps a new epoch on a registration it appends (BrokerRegistry!Stamped),
\* which no gate looks at.
ApplyRemoval(rec) ==
  LET without(kind, set) == IF rec.kind = kind THEN set \ {rec.key} ELSE set
  IN /\ removals' = removals \ {rec}
     /\ cidr' = without("acl", cidr)
     /\ scram' = without("scram", scram)
     /\ tokens' = without("token", tokens)
     /\ dirs' = without("dir", dirs)
     /\ brokers' = IF rec.kind = "registration" THEN Put(brokers, rec.key, rec.registration)
                   ELSE brokers
     /\ UNCHANGED <<levels, target, before>>

\* Mutant: the level does not wait for the removals.
FinalizeDowngradeFirst ==
  \E level \in target :
    /\ levels' = Finalized(MV, level)
    /\ target' = IF removals = {} THEN None ELSE target
    /\ UNCHANGED <<gated, removals, before>>

\* The trailing metadata.version record.
FinalizeDowngrade ==
  \E level \in target :
    /\ removals = {}
    /\ levels' = Finalized(MV, level)
    /\ target' = None
    /\ before' = <<>>
    /\ UNCHANGED <<gated, removals>>

\* A new leader does not have the rest of the records.
Failover ==
  /\ target # None
  /\ target' = None
  /\ removals' = {}
  /\ before' = <<>>
  /\ UNCHANGED <<levels, gated>>

Next ==
  \/ \E u \in User : CreateScram(u)
  \/ \E t \in Token : CreateToken(t)
  \/ \E a \in CidrAcl : CreateCidrAcl(a)
  \/ \E r \in Replica : AssignDirectory(r)
  \/ \E b \in Broker, e \in Epoch, c \in BOOLEAN : RegisterBroker(b, e, c)
  \/ \E l \in Level : UpdateFeature(MV, l) \/ UnsafeDowngrade(l)
  \/ \E l \in SupportedRange(ELR) : UpdateFeature(ELR, l)
  \/ \E rec \in removals : ApplyRemoval(rec)
  \/ FinalizeDowngrade
  \/ Failover

Spec == Init /\ [][Next]_vars

-----------------------------------------------------------------------------
(* Properties *)

\* Whatever level is finalized, with which defaults or overrides the cluster
\* was formatted and in which order features went up and down, every finalized
\* feature is in its supported range and has its dependencies
\* (validate_feature_dependencies; the self-bootstrap never calls it).
LevelsCoherent ==
  /\ MV \in DOMAIN levels
  /\ \A f \in DOMAIN levels : levels[f] \in SupportedRange(f) \ {0}
  /\ ValidateFeatureDependencies(levels)

\* No replica is ever at a level that cannot carry its image, in the middle of
\* a downgrade and after one that was cut short too: the floor of
\* min_required_metadata_version, the directories and the cordoned directories
\* stay within the finalized level.
ImageFitsLevel ==
  /\ MinRequired <= levels[MV]
  /\ \A b \in DOMAIN brokers : Projected(brokers[b], levels[MV]) = brokers[b]
  /\ dirs # {} => levels[MV] >= DIRECTORY_ASSIGNMENT_MIN_LEVEL

\* A downgrade loses only what the target level cannot carry: credentials,
\* tokens and ACLs whose gate is at or below the target stay, and so do the
\* epoch of every broker and the directories the target still has.
OnlyGatedLost ==
  \A level \in target :
    /\ level >= SCRAM_MIN_LEVEL => scram = before[1]
    /\ level >= DELEGATION_TOKEN_MIN_LEVEL => tokens = before[2]
    /\ level >= CIDR_ACL_MIN_LEVEL => cidr = before[3]
    /\ DOMAIN brokers = DOMAIN before[4]
    /\ \A b \in DOMAIN brokers :
         brokers[b] \in {before[4][b], Projected(before[4][b], level)}
    /\ level >= DIRECTORY_ASSIGNMENT_MIN_LEVEL => dirs = before[5]
=============================================================================
