----------------------------- MODULE ConfigMaps -----------------------------
(***************************************************************************)
(* The configuration maps of the metadata image (crates/metadata/src/      *)
(* image.rs), driven as MetadataLog says.  Broker configs and client       *)
(* quotas change one key at a time and keep an owner whose last key is     *)
(* gone; client-metrics and group configs are replaced as a whole and go   *)
(* with their last key; SCRAM credentials and delegation tokens are        *)
(* replaced and removed as a whole.  Owners of the replaced maps are told  *)
(* apart by the map they are in.                                           *)
(***************************************************************************)
EXTENDS Integers, Sequences, FiniteSets, SequencesExt, MetadataMaps

CONSTANTS
  Node,        \* brokers with configs
  EntityType,  \* quota entity types, numbers: their order is that of the names
  Key, Value,  \* config keys and values
  Kinds,       \* the kinds of request the handlers make
  MaxAsked, MaxPending, MaxLag

VARIABLES image, replayed, unapplied, pending, asked, committed

NewImage ==
  [ nodes  |-> EmptyMap,   \* broker -> key -> value
    quotas |-> EmptyMap,   \* entity -> key -> value
    groups |-> EmptyMap,   \* client-metrics and group configs, by owner
    creds  |-> EmptyMap ]  \* SCRAM credentials and delegation tokens, by owner

\* The components of a quota entity arrive in any order, each type once.
Entity == {e \in UNION {[1..n -> EntityType] : n \in 1..Cardinality(EntityType)} :
             IsInjective(e)}

\* The same components, sorted by type.
CanonicalizeEntity(entity) ==
  CHOOSE e \in Entity :
    /\ ToSet(e) = ToSet(entity)
    /\ \A i, j \in DOMAIN e : i < j => e[i] < e[j]

\* entry(owner).or_default()
OrDefault(map, owner) == IF owner \in DOMAIN map THEN map[owner] ELSE EmptyMap

\* Set or, with None, delete one key.
SetKey(map, owner, key, value) ==
  Put(map, owner,
      IF value = None THEN Drop(OrDefault(map, owner), {key})
      ELSE Put(OrDefault(map, owner), key, CHOOSE v \in value : TRUE))

\* Replace the whole map of an owner; an empty one removes it.
Replaced(map, owner, configs) ==
  IF configs = {} THEN Drop(map, {owner}) ELSE Put(map, owner, configs)

Apply(img, rec) ==
  CASE rec.kind = "BrokerConfig" ->
         [img EXCEPT !.nodes = SetKey(img.nodes, rec.owner, rec.key, rec.value)]
    [] rec.kind = "ClientQuota" ->
         [img EXCEPT !.quotas = SetKey(img.quotas, CanonicalizeEntity(rec.owner),
                                       rec.key, rec.value)]
    [] rec.kind \in {"ClientMetricsConfig", "GroupConfig"} ->
         [img EXCEPT !.groups = Replaced(img.groups, <<rec.kind, rec.owner>>, rec.configs)]
    [] rec.kind \in {"ScramCredential", "DelegationToken"} ->
         [img EXCEPT !.creds = Put(img.creds, <<rec.kind, rec.owner>>, rec.value)]
    [] rec.kind = "DeleteScramCredential" ->
         [img EXCEPT !.creds = Drop(img.creds, {<<"ScramCredential", rec.owner>>})]
    [] rec.kind = "DeleteDelegationToken" ->
         [img EXCEPT !.creds = Drop(img.creds, {<<"DelegationToken", rec.owner>>})]

\* The handlers check these records; validate accepts them all.
Valid(img, rec) == TRUE

KeyRecords(kind, map) ==
  UNION {{[kind |-> kind, owner |-> o, key |-> k, value |-> Some(map[o][k])] :
            k \in DOMAIN map[o]} : o \in DOMAIN map}

QuotaRecords(img) == KeyRecords("ClientQuota", img.quotas)
BrokerConfigRecords(img) == KeyRecords("BrokerConfig", img.nodes)

ToRecords(img) ==
  << BrokerConfigRecords(img),
     {[kind |-> o[1], owner |-> o[2], value |-> img.creds[o]] : o \in DOMAIN img.creds},
     QuotaRecords(img),
     {[kind |-> o[1], owner |-> o[2], configs |-> img.groups[o]] : o \in DOMAIN img.groups} >>

-----------------------------------------------------------------------------
(* The records the request handlers build (outside this repository).       *)

Options == {None} \cup {Some(v) : v \in Value}

AlterConfigs ==
  {[kind |-> "BrokerConfig", owner |-> n, key |-> k, value |-> v] :
     n \in Node, k \in Key, v \in Options}

AlterQuotas ==
  {[kind |-> "ClientQuota", owner |-> e, key |-> k, value |-> v] :
     e \in Entity, k \in Key, v \in Options}

\* Client-metrics and group configs, as sets of key and value pairs.
AlterGroups ==
  {[kind |-> kind, owner |-> n, configs |-> configs] :
     kind \in {"ClientMetricsConfig", "GroupConfig"}, n \in Node,
     configs \in {{}} \cup {{<<k, v>>} : k \in Key, v \in Value}}

AlterCredentials ==
  {[kind |-> kind, owner |-> n, value |-> v] :
     kind \in {"ScramCredential", "DelegationToken"}, n \in Node, v \in Value}

DeleteCredentials ==
  {[kind |-> kind, owner |-> n] :
     kind \in {"DeleteScramCredential", "DeleteDelegationToken"}, n \in Node}

Requests(img, fresh) ==
  {rec \in AlterConfigs \cup AlterQuotas \cup AlterGroups
           \cup AlterCredentials \cup DeleteCredentials : rec.kind \in Kinds}

Stamped(rec, offset) == rec

INSTANCE MetadataLog WITH Empty <- NewImage

-----------------------------------------------------------------------------
(* Properties *)

\* What a snapshot keeps: the owners that have a key.
View(img) ==
  [img EXCEPT !.nodes = Drop(img.nodes, {n \in DOMAIN img.nodes : DOMAIN img.nodes[n] = {}}),
              !.quotas = Drop(img.quotas, {e \in DOMAIN img.quotas :
                                             DOMAIN img.quotas[e] = {}})]

\* A replica that restarted from snapshots has the configs, quotas and
\* credentials of one that replayed every record, except for owners without a
\* key, and keeps agreeing with it as later records are applied.
RestartedAgrees == View(image) = View(replayed)
=============================================================================
