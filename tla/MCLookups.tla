------------------------------ MODULE MCLookups ------------------------------
(***************************************************************************)
(* The two lookup structures of the metadata image for TLC, in one run:    *)
(* the write-freeze registry and the ACL index.  Neither reads the other,  *)
(* so each behaviour here is one of one of them, and the other stays       *)
(* empty.                                                                  *)
(***************************************************************************)
EXTENDS WriteFreeze, AclIndex

VARIABLE part

LookupsInit == part \in {"freezes", "acls"} /\ Init /\ AclInit

LookupsNext ==
  /\ UNCHANGED part
  /\ \/ part = "freezes" /\ Next /\ UNCHANGED index
     \/ part = "acls" /\ AclNext /\ UNCHANGED vars

LookupsSpec == LookupsInit /\ [][LookupsNext]_<<part, index, vars>>

-----------------------------------------------------------------------------
(* Names of freezes: 1 and 2 are letters, 5 is "_". *)

\* Nested scopes, scopes that sort between them without being a prefix, the
\* prefix of internal names and the empty scope.
MCScope == {<<>>, <<1>>, <<1, 1>>, <<1, 1, 2>>, <<5>>}
MCTopic == {<<1>>, <<1, 1>>, <<1, 1, 2>>, <<1, 2>>, <<1, 2, 1>>, <<2>>, <<5, 1>>, <<5, 5, 1>>}

-----------------------------------------------------------------------------
(* Names of ACLs: 1 is a character of one byte, 2 3 and 2 4 are characters *)
(* of two, 9 is the wildcard character.                                    *)

MCWildcard == <<9>>
MCContinuation == {3, 4}

PrefixNames == {<<>>, <<1>>, <<2, 3>>, <<1, 1>>}

MCEntry ==
  {[type |-> "topic", pattern |-> "prefixed", name |-> n, who |-> "alice"] :
     n \in PrefixNames}
  \cup {[type |-> "topic", pattern |-> "literal", name |-> n, who |-> "alice"] :
          n \in {<<1>>, MCWildcard}}
  \cup {[type |-> "topic", pattern |-> "prefixed", name |-> <<1>>, who |-> "bob"],
        [type |-> "topic", pattern |-> "literal", name |-> MCWildcard, who |-> "bob"],
        [type |-> "group", pattern |-> "prefixed", name |-> <<1>>, who |-> "alice"],
        [type |-> "group", pattern |-> "literal", name |-> <<1>>, who |-> "bob"]}

\* Everything, one axis at a time, and the exact filters of a downgrade.
MCFilter ==
  {EmptyMap, [type |-> "topic"], [pattern |-> "literal"], [pattern |-> "prefixed"],
   [who |-> "alice"], [name |-> <<1>>], [name |-> MCWildcard]}
  \cup MCEntry

MCLookup == {<<>>, <<1>>, <<1, 1>>, <<2, 3>>, <<2, 4>>, <<1, 2, 3>>, <<2, 3, 1>>, <<9>>, <<9, 1>>}

=============================================================================
