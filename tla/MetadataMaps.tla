---------------------------- MODULE MetadataMaps ----------------------------
(***************************************************************************)
(* The map operations of the metadata image (HashMap and BTreeMap): a map  *)
(* is a function whose domain is the set of its keys, Option is a set of   *)
(* at most one element.                                                    *)
(***************************************************************************)

EmptyMap == [k \in {} |-> {}]

\* insert
Put(map, key, value) ==
  [k \in DOMAIN map \cup {key} |-> IF k = key THEN value ELSE map[k]]

\* remove, for every key of a set
Drop(map, keys) == [k \in DOMAIN map \ keys |-> map[k]]

None == {}
Some(value) == {value}
=============================================================================
