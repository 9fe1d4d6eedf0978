-------------------------- MODULE KraftSettingsLog --------------------------
(***************************************************************************)
(* The KIP-631 records of ACLs and of the configs of groups and client     *)
(* metrics (crates/metadata/src/kraft_translate.rs), in the log that       *)
(* TranslatedLog drives.  An ACL is removed by the id of the entry, which  *)
(* is a hash of its content, so the encoder resolves a filter in its image *)
(* and the decoder finds the entry in its own; a config map travels as one *)
(* record for each key.  Records that are translated field by field,       *)
(* without the image, are left out.                                        *)
(***************************************************************************)
EXTENDS Naturals, Sequences, SequencesExt, MetadataMaps

CONSTANTS
  Entry,      \* ACL entries: records of their axes
  Filter,     \* removal filters: functions on some of the axes
  Resource,   \* owners of config maps: a group, a client-metrics subscription
  Key,        \* config keys
  MaxAsked, MaxPending, MaxLag, MaxRestarts, Serial

VARIABLES
  image, replayed, direct, unapplied, pending, asked, committed, serial, restarts, skipped

\* AclEntryFilter::matches
Matches(filter, entry) == \A axis \in DOMAIN filter : filter[axis] = entry[axis]

NewImage == [acls |-> {}, configs |-> EmptyMap]

\* A whole map of configs replaces the one before; an empty one removes it.
Replaced(configs, owner, keys) ==
  IF keys = {} THEN Drop(configs, {owner}) ELSE Put(configs, owner, keys)

Apply(img, rec) ==
  CASE rec.kind = "AccessControlEntry" -> [img EXCEPT !.acls = @ \cup {rec.entry}]
    [] rec.kind = "DeleteAccessControlEntry" ->
         [img EXCEPT !.acls = {e \in @ : ~Matches(rec.filter, e)}]
    [] rec.kind = "Config" ->
         [img EXCEPT !.configs = Replaced(@, rec.owner, rec.keys)]

\* validate accepts these records, and to_kraft finds nothing to refuse.
Valid(img, rec) == TRUE
Resolves(img, rec) == TRUE

ConfigRecords(img) ==
  {[kind |-> "Config", owner |-> r, keys |-> img.configs[r]] : r \in DOMAIN img.configs}

ToRecords(img) ==
  << {[kind |-> "AccessControlEntry", entry |-> e] : e \in img.acls}, ConfigRecords(img) >>

-----------------------------------------------------------------------------
(* to_kraft and from_kraft *)

\* acl_id: the 128-bit FNV-1a hash of an encoding of all axes.  That no two
\* entries share an id is an assumption, not something the code checks.
AclId(entry) == [hash |-> entry]

\* One removal for each entry of the encoder's image that the filter matches.
DeleteAclToKraft(img, filter) ==
  SetToSeq({[type |-> "RemoveAcl", id |-> AclId(e)] : e \in {a \in img.acls : Matches(filter, a)}})

Keys(img, owner) == UNION {img.configs[r] : r \in DOMAIN img.configs \cap {owner}}

\* A record for each key that is set, then a tombstone for each that is gone.
ConfigToKraft(img, rec) ==
  LET Config(k) == [type |-> "Config", owner |-> rec.owner, key |-> k, set |-> k \in rec.keys]
  IN  SetToSeq({Config(k) : k \in rec.keys})
      \o SetToSeq({Config(k) : k \in Keys(img, rec.owner) \ rec.keys})

ToKraft(img, rec) ==
  CASE rec.kind = "AccessControlEntry" ->
         << [type |-> "Acl", id |-> AclId(rec.entry), entry |-> rec.entry] >>
    [] rec.kind = "DeleteAccessControlEntry" -> DeleteAclToKraft(img, rec.filter)
    [] rec.kind = "Config" -> ConfigToKraft(img, rec)

\* Mutant: the filter leaves the resource name out.
ExactFilterUnnamed(entry) == [who |-> entry.who]

\* exact_filter: every axis of the entry.
ExactFilter(entry) == entry

\* None where no entry has the id (UnknownAclId).
FromKraft(img, w) ==
  CASE w.type = "Acl" -> Some([kind |-> "AccessControlEntry", entry |-> w.entry])
    [] w.type = "RemoveAcl" ->
         {[kind |-> "DeleteAccessControlEntry", filter |-> ExactFilter(e)] :
            e \in {a \in img.acls : AclId(a) = w.id}}
    [] w.type = "Config" ->
         Some([kind |-> "Config", owner |-> w.owner,
               keys |-> IF w.set THEN Keys(img, w.owner) \cup {w.key}
                        ELSE Keys(img, w.owner) \ {w.key}])

-----------------------------------------------------------------------------
(* The records the request handlers build (outside this repository).       *)

Requests(img, fresh) ==
  {[kind |-> "AccessControlEntry", entry |-> e] : e \in Entry}
  \cup {[kind |-> "DeleteAccessControlEntry", filter |-> f] : f \in Filter}
  \cup {[kind |-> "Config", owner |-> r, keys |-> keys] : r \in Resource, keys \in SUBSET Key}

INSTANCE TranslatedLog WITH Empty <- NewImage

-----------------------------------------------------------------------------
(* Properties *)

\* With a serial controller every removal finds its entry ("the entry is
\* present when this decodes", from_kraft) and replicas hold what was written.
\* A controller that is behind may miss entries its filter was meant for, and
\* undo keys, but no ACL is lost that a record did not ask to remove.  And a
\* replica that restarted from KIP-631 snapshots is one that replayed the log.
SettingsLogFaithful ==
  /\ serial => ~skipped /\ replayed = direct
  /\ direct.acls \subseteq replayed.acls
  /\ image = replayed
=============================================================================
