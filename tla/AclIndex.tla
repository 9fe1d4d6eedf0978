------------------------------ MODULE AclIndex ------------------------------
(***************************************************************************)
(* The in-memory ACL index (crates/metadata/src/image/acl_index.rs).       *)
(* Literal entries are kept by name, the wildcard name apart; prefixed     *)
(* entries are kept by prefix, beside a count of the prefixes of each      *)
(* length, so that a lookup probes one prefix per length.  A name is its   *)
(* sequence of bytes, and a lookup skips a length that would split a       *)
(* character.  The order of the entries in a bucket is left out: a bucket  *)
(* is a bag, the map from its entries to how often it holds each.          *)
(***************************************************************************)
EXTENDS Integers, Sequences, FiniteSets, FiniteSetsExt, SequencesExt, MetadataMaps

CONSTANTS Entry, Filter, Wildcard,
  Continuation,  \* the bytes that continue a character
  ResourceType,
  Lookup         \* names that are looked up

\* Names are valid UTF-8, so that one that starts another ends with one of
\* its characters.
ASSUME AclAssumption ==
  /\ \A entry \in Entry : entry.pattern \in {"literal", "prefixed"} /\ entry.name \in Seq(Nat)
  /\ Lookup \subseteq Seq(Nat)
  /\ \A entry \in Entry, name \in Lookup :
       IsPrefix(entry.name, name) /\ entry.name # name
         => name[Len(entry.name) + 1] \notin Continuation

VARIABLE index

NewIndex == [literal |-> EmptyMap, prefixed |-> EmptyMap]
NewLiteral == [byName |-> EmptyMap, wildcard |-> EmptyMap]
NewPrefixed == [byPrefix |-> EmptyMap, lengths |-> EmptyMap]

OrDefault(map, key, default) == IF key \in DOMAIN map THEN map[key] ELSE default

Matches(filter, entry) == \A axis \in DOMAIN filter : filter[axis] = entry[axis]

-----------------------------------------------------------------------------
(* insert *)

\* bucket.retain(|e| e != entry); bucket.push(entry)
Pushed(bucket, entry) ==
  LET retained == Drop(bucket, {entry})
  IN Put(retained, entry, OrDefault(retained, entry, 0) + 1)

InsertLiteral(acls, entry) ==
  IF entry.name = Wildcard
    THEN [acls EXCEPT !.wildcard = Pushed(acls.wildcard, entry)]
    ELSE [acls EXCEPT !.byName =
            Put(acls.byName, entry.name,
                Pushed(OrDefault(acls.byName, entry.name, EmptyMap), entry))]

\* A new prefix is counted under its length.
CountLength(lengths, len) == Put(lengths, len, OrDefault(lengths, len, 0) + 1)

InsertPrefixed(acls, entry) ==
  [acls EXCEPT
     !.byPrefix = Put(acls.byPrefix, entry.name,
                      Pushed(OrDefault(acls.byPrefix, entry.name, EmptyMap), entry)),
     !.lengths = IF entry.name \in DOMAIN acls.byPrefix THEN acls.lengths
                 ELSE CountLength(acls.lengths, Len(entry.name))]

Inserted(idx, entry) ==
  IF entry.pattern = "literal"
    THEN [idx EXCEPT !.literal =
            Put(idx.literal, entry.type,
                InsertLiteral(OrDefault(idx.literal, entry.type, NewLiteral), entry))]
    ELSE [idx EXCEPT !.prefixed =
            Put(idx.prefixed, entry.type,
                InsertPrefixed(OrDefault(idx.prefixed, entry.type, NewPrefixed), entry))]

-----------------------------------------------------------------------------
(* remove_matching *)

Kept(bucket, filter) == Drop(bucket, {e \in DOMAIN bucket : Matches(filter, e)})

\* The buckets of a map that keep an entry, without the others.
KeptBuckets(map, filter) ==
  [k \in {x \in DOMAIN map : Kept(map[x], filter) # EmptyMap} |-> Kept(map[k], filter)]

RetainLiteral(acls, filter) ==
  [byName |-> KeptBuckets(acls.byName, filter), wildcard |-> Kept(acls.wildcard, filter)]

\* One prefix of this length is gone.
ForgetLength(lengths, len) ==
  IF len \notin DOMAIN lengths THEN lengths
  ELSE IF lengths[len] = 1 THEN Drop(lengths, {len})
  ELSE Put(lengths, len, lengths[len] - 1)

RetainPrefixed(acls, filter) ==
  LET kept == KeptBuckets(acls.byPrefix, filter)
  IN [byPrefix |-> kept,
      lengths |-> FoldSet(LAMBDA prefix, lengths : ForgetLength(lengths, Len(prefix)),
                          acls.lengths, DOMAIN acls.byPrefix \ DOMAIN kept)]

\* Mutant: a type without literal names is dropped, its wildcard entries too.
LiteralEmptyByName(acls) == acls.byName = EmptyMap

LiteralEmpty(acls) == acls.byName = EmptyMap /\ acls.wildcard = EmptyMap
PrefixedEmpty(acls) == acls.byPrefix = EmptyMap

Removed(idx, filter) ==
  LET byName == [t \in DOMAIN idx.literal |-> RetainLiteral(idx.literal[t], filter)]
      byPrefix == [t \in DOMAIN idx.prefixed |-> RetainPrefixed(idx.prefixed[t], filter)]
  IN [literal |-> Drop(byName, {t \in DOMAIN byName : LiteralEmpty(byName[t])}),
      prefixed |-> Drop(byPrefix, {t \in DOMAIN byPrefix : PrefixedEmpty(byPrefix[t])})]

-----------------------------------------------------------------------------
(* matching and iter *)

\* name.get(..len) is Some: the cut does not split a character.
OnBoundary(name, len) == len = Len(name) \/ name[len + 1] \notin Continuation

\* Mutant: a prefix as long as the name is not probed.
ProbedShorter(lengths, name) == {len \in DOMAIN lengths : len < Len(name)}

\* lengths.range(..=name.len())
Probed(lengths, name) == {len \in DOMAIN lengths : len <= Len(name)}

\* The buckets that an iterator goes through, each by the probe that found it.
MatchingPrefixed(acls, name) ==
  [probe \in {<<"prefixed", len>> : len \in {l \in Probed(acls.lengths, name) :
                                           OnBoundary(name, l)}} |->
     OrDefault(acls.byPrefix, SubSeq(name, 1, probe[2]), EmptyMap)]

Matching(idx, type, name) ==
  LET acls == OrDefault(idx.literal, type, NewLiteral)
      byPrefix == MatchingPrefixed(OrDefault(idx.prefixed, type, NewPrefixed), name)
  IN Put(Put(byPrefix, <<"wildcard", 0>>, acls.wildcard),
         <<"named", 0>>, OrDefault(acls.byName, name, EmptyMap))

Buckets(idx) ==
  {idx.literal[t].wildcard : t \in DOMAIN idx.literal}
  \cup (UNION {{idx.literal[t].byName[n] : n \in DOMAIN idx.literal[t].byName} :
                 t \in DOMAIN idx.literal})
  \cup (UNION {{idx.prefixed[t].byPrefix[n] : n \in DOMAIN idx.prefixed[t].byPrefix} :
                 t \in DOMAIN idx.prefixed})

\* AclIndex::iter
Entries(idx) == UNION {DOMAIN bucket : bucket \in Buckets(idx)}

\* The index that apply builds from the entries of a snapshot, in any order.
Rebuilt(idx) == FoldSet(LAMBDA entry, acc : Inserted(acc, entry), NewIndex, Entries(idx))

-----------------------------------------------------------------------------
AclInit == index = NewIndex

\* apply of V1AccessControlEntry
Insert(entry) == index' = Inserted(index, entry)

\* apply of V1DeleteAccessControlEntry
RemoveMatching(filter) == index' = Removed(index, filter)

\* A replica restarts from a snapshot (to_records, from_records).
Restart == index' = Rebuilt(index)

AclNext ==
  \/ \E entry \in Entry : Insert(entry)
  \/ \E filter \in Filter : RemoveMatching(filter)
  \/ Restart

AclSpec == AclInit /\ [][AclNext]_index

-----------------------------------------------------------------------------
(* Properties *)

Store == INSTANCE AclStore WITH acls <- Entries(index)

\* The index behaves as a set of entries: an insertion adds one entry and a
\* removal takes exactly what its filter matches, across all buckets.
ImplementsStore == Store!Spec

\* matching yields exactly the entries that the linear scan over all entries
\* finds, and each once, for every name that is looked up: the length counts
\* have survived every history of insertions and removals, and lengths that
\* split a character are harmless.
MatchingExact ==
  \A type \in ResourceType, name \in Lookup :
    LET found == Matching(index, type, name)
    IN /\ UNION {DOMAIN found[p] : p \in DOMAIN found}
            = {e \in Entries(index) : Store!Covers(e, type, name)}
       /\ \A p \in DOMAIN found : \A e \in DOMAIN found[p] :
            found[p][e] = 1 /\ \A q \in DOMAIN found \ {p} : e \notin DOMAIN found[q]
=============================================================================
