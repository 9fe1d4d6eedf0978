------------------------------ MODULE AclStore ------------------------------
(***************************************************************************)
(* What the ACL index promises: a set of entries.  An entry is added, the  *)
(* entries a filter matches are removed, and a lookup yields the entries   *)
(* whose pattern covers the resource name.                                 *)
(***************************************************************************)
EXTENDS Sequences, SequencesExt

CONSTANTS
  Entry,     \* ACL entries: records with fields type, pattern, name, who
  Filter,    \* removal filters: functions on some of those fields
  Wildcard   \* the literal name that covers every resource of its type

VARIABLE acls

\* AclEntryFilter::matches: every axis the filter has agrees with the entry.
Matches(filter, entry) == \A axis \in DOMAIN filter : filter[axis] = entry[axis]

\* The linear scan that the index replaces.
Covers(entry, type, name) ==
  /\ entry.type = type
  /\ \/ entry.pattern = "literal" /\ entry.name \in {name, Wildcard}
     \/ entry.pattern = "prefixed" /\ IsPrefix(entry.name, name)

Init == acls = {}

Insert(entry) == acls' = acls \cup {entry}

RemoveMatching(filter) == acls' = {entry \in acls : ~Matches(filter, entry)}

Next ==
  \/ \E entry \in Entry : Insert(entry)
  \/ \E filter \in Filter : RemoveMatching(filter)

Spec == Init /\ [][Next]_acls
=============================================================================
