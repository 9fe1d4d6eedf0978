---------------------------- MODULE TaggedRelay ----------------------------
(***************************************************************************)
(* The tagged fields of KIP-482 as the generated messages read and write   *)
(* them (protocol-codegen/src/emit, protocol/src/tagged_fields.rs): a      *)
(* message goes from holder to holder, each built from a schema that knows *)
(* some of the tags, and over connections of different versions.           *)
(*                                                                         *)
(* A tag is a number and belongs to a range of versions, the same in every *)
(* schema that knows it; a range that is open above ends with the newest   *)
(* version.  A payload is its value.  The entries a holder keeps are a     *)
(* set, as no two of them have the same tag and they are sorted again when *)
(* they are written.  The holders that pass messages on are external.      *)
(***************************************************************************)
EXTENDS Naturals, Sequences, FiniteSets, SequencesExt

CONSTANTS
  Tag,            \* tags of the newest schema
  FieldValue,     \* values a field can have
  Default,        \* the one that is not written
  Version,        \* versions a connection can have
  FlexMinimum,    \* the first flexible version
  TaggedVersions, \* the range of versions of each tag
  MaxHops         \* bound: connections on the way

\* A tag is a u32, and a schema has finitely many.
ASSUME TagAssumption == Tag \subseteq Nat /\ IsFiniteSet(Tag)

VARIABLES
  origin,   \* what the first holder's message said, by tag
  holder,   \* the message in the hands of the last one
  wire,     \* its bytes under way: a set of at most one trailer
  version,  \* the version of their connection
  refused,  \* the last holder could not decode
  versions, \* history: the versions of all connections on the way
  hops

tagVars == <<origin, holder, wire, version, refused, versions, hops>>

IsFlexible(v) == v >= FlexMinimum

\* version_cond and tagged_version_cond
TagValid(tag, v) == TaggedVersions[tag].min <= v /\ v <= TaggedVersions[tag].max

-----------------------------------------------------------------------------
(* Writing *)

\* Mutant: a tag is written into versions that have none.
ShouldEncodeUngated(m, tag, v) == m.fields[tag] # Default

\* gated_tagged_should_encode
ShouldEncode(m, tag, v) == TagValid(tag, v) /\ m.fields[tag] # Default

Entry(tag, value) == [tag |-> tag, value |-> value]

\* encode_tagged, in whatever order the schema has the tags.
Known(m, v) ==
  {Entry(tag, m.fields[tag]) : tag \in {t \in m.knows : ShouldEncode(m, t, v)}}

\* Mutant: the unknown fields follow the known ones.
MergedUnsorted(known, unknown) == SetToSeq(known) \o SetToSeq(unknown)

\* WriteTaggedFields::write: both kinds, sorted by tag.
Merged(known, unknown) ==
  LET all   == (known \X {"known"}) \cup (unknown \X {"unknown"})
      order == CHOOSE s \in [1..Cardinality(all) -> all] :
                 /\ all = {s[i] : i \in DOMAIN s}
                 /\ \A i, j \in DOMAIN s : i < j => s[i][1].tag <= s[j][1].tag
  IN [i \in DOMAIN order |-> order[i][1]]

\* encode_tagged_trailer
Trailer(m, v) == IF IsFlexible(v) THEN Merged(Known(m, v), m.unknown) ELSE <<>>

-----------------------------------------------------------------------------
(* Reading *)

\* read_tagged_fields: "tagged fields not strictly ascending"
Ascending(trailer) ==
  \A i, j \in DOMAIN trailer : i < j => trailer[i].tag < trailer[j].tag

\* tagged_decode_arm: TagNotValidForVersion
TagsValid(trailer, knows, v) ==
  \A i \in DOMAIN trailer : trailer[i].tag \in knows => TagValid(trailer[i].tag, v)

DecodesTrailer(trailer, knows, v) == Ascending(trailer) /\ TagsValid(trailer, knows, v)

\* The value that a set of entries has for a tag, or the default.
ValueIn(entries, tag) ==
  IF \E e \in entries : e.tag = tag THEN (CHOOSE e \in entries : e.tag = tag).value
  ELSE Default

\* decode_tagged_block
Decoded(trailer, knows) ==
  [knows |-> knows,
   fields |-> [tag \in knows |-> ValueIn(ToSet(trailer), tag)],
   unknown |-> {e \in ToSet(trailer) : e.tag \notin knows}]

-----------------------------------------------------------------------------
TagInit ==
  /\ \E knows \in SUBSET Tag : \E fields \in [knows -> FieldValue] :
       /\ holder = [knows |-> knows, fields |-> fields, unknown |-> {}]
       /\ origin = [tag \in Tag |-> IF tag \in knows THEN fields[tag] ELSE Default]
  /\ wire = {} /\ version = 0 /\ refused = FALSE /\ hops = 0
  /\ versions = {}

\* The holder encodes for a connection of version v.
Send(v) ==
  /\ wire = {} /\ ~refused /\ hops < MaxHops
  /\ wire' = {Trailer(holder, v)}
  /\ version' = v /\ hops' = hops + 1
  /\ versions' = versions \cup {v}
  /\ UNCHANGED <<origin, holder, refused>>

\* A holder whose schema knows these tags decodes.
Receive(knows) ==
  \E trailer \in wire :
    /\ DecodesTrailer(trailer, knows, version)
    /\ holder' = Decoded(trailer, knows)
    /\ wire' = {}
    /\ UNCHANGED <<origin, version, refused, versions, hops>>

Refuse(knows) ==
  \E trailer \in wire :
    /\ ~DecodesTrailer(trailer, knows, version)
    /\ refused' = TRUE /\ wire' = {}
    /\ UNCHANGED <<origin, holder, version, versions, hops>>

TagNext ==
  \/ \E v \in Version : Send(v)
  \/ \E knows \in SUBSET Tag : Receive(knows) \/ Refuse(knows)

TagSpec == TagInit /\ [][TagNext]_tagVars

-----------------------------------------------------------------------------
(* Properties *)

\* What a message says of a tag, known to its holder or not.
Seen(m, tag) == IF tag \in m.knows THEN m.fields[tag] ELSE ValueIn(m.unknown, tag)

\* Every connection on the way had a version that carries the tag.
Carried(tag) == \A v \in versions : IsFlexible(v) /\ TagValid(tag, v)

\* Unknown fields are kept "so that values round-trip without information
\* loss" (tagged_fields.rs): through any holders, whichever tags they know, a
\* value arrives as it was sent.  It gives way to the default only where a
\* version on the way has no such tag.  A message is refused only for a tag
\* of another version that its sender passed on without knowing it, so no
\* holder writes a tag it knows into a version that has none, nor a trailer
\* out of order.
RelayTransparent ==
  /\ \A tag \in Tag :
       \/ Seen(holder, tag) = origin[tag]
       \/ Seen(holder, tag) = Default /\ ~Carried(tag)
  /\ refused =>
       \E tag \in Tag \ holder.knows : origin[tag] # Default /\ ~TagValid(tag, version)
=============================================================================
