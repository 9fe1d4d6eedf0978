----------------------------- MODULE WriteFreeze -----------------------------
(***************************************************************************)
(* The write-freeze registry of the metadata image (crates/metadata/src/   *)
(* write_freeze.rs, image.rs): literal and prefixed scopes, each frozen    *)
(* and thawed by a record, and topic_freeze, which finds the entry that    *)
(* governs a topic.  A name is its sequence of bytes.  A restart re-applies *)
(* the stored entries and leaves both maps as they are.                    *)
(***************************************************************************)
EXTENDS Integers, Sequences, FiniteSets, SequencesExt, MetadataMaps

CONSTANTS
  Scope,       \* the scopes of freeze records, "" among them
  Topic,       \* the topic names that are resolved
  Reason,      \* what tells two freezes of one scope apart
  Underscore   \* the byte of "_"

\* Names are byte strings.
ASSUME NameAssumption == Scope \subseteq Seq(Nat) /\ Topic \subseteq Seq(Nat)

VARIABLES literal, prefixed

vars == <<literal, prefixed>>

Record == [scope : Scope, pattern : {"literal", "prefixed"}, frozen : BOOLEAN, reason : Reason]

\* validate: a scope must not be empty.
Valid(rec) == rec.scope # <<>>

\* Mutant: a thaw removes the scope from both registries.
UpsertedBoth(map, rec, pattern) ==
  IF rec.pattern = pattern /\ rec.frozen THEN Put(map, rec.scope, rec)
  ELSE IF ~rec.frozen THEN Drop(map, {rec.scope})
  ELSE map

\* The registry of a pattern type after a record.
Upserted(map, rec, pattern) ==
  IF rec.pattern # pattern THEN map
  ELSE IF rec.frozen THEN Put(map, rec.scope, rec)
  ELSE Drop(map, {rec.scope})

Init == literal = EmptyMap /\ prefixed = EmptyMap

ApplyTopicFreeze(rec) ==
  /\ Valid(rec)
  /\ literal' = Upserted(literal, rec, "literal")
  /\ prefixed' = Upserted(prefixed, rec, "prefixed")

Next == \E rec \in Record : ApplyTopicFreeze(rec)

Spec == Init /\ [][Next]_vars

-----------------------------------------------------------------------------
(* topic_freeze *)

Internal(topic) == IsPrefix(<<Underscore, Underscore>>, topic)

\* The order of a BTreeMap<String, _>: bytes, a proper prefix first.
AtMost(a, b) ==
  \/ IsPrefix(a, b)
  \/ \E i \in 1..Len(a) :
       /\ i <= Len(b)
       /\ a[i] < b[i]
       /\ \A j \in 1..i - 1 : a[j] = b[j]

\* Mutant: the range excludes the topic's own name.
BelowOpen(map, topic) == {s \in DOMAIN map : AtMost(s, topic) /\ s # topic}

\* range((Unbounded, Included(topic)))
Below(map, topic) == {s \in DOMAIN map : AtMost(s, topic)}

\* rev().find(starts_with): the first match from the top.
FirstDown(scopes, topic) ==
  {s \in scopes : /\ IsPrefix(s, topic)
                  /\ \A r \in scopes : IsPrefix(r, topic) => AtMost(r, s)}

\* The entry that governs the topic, as an Option.
TopicFreeze(lit, pre, topic) ==
  IF Internal(topic) THEN None
  ELSE IF topic \in DOMAIN lit THEN Some(lit[topic])
  ELSE {pre[s] : s \in FirstDown(Below(pre, topic), topic)}

-----------------------------------------------------------------------------
(* Properties *)

\* Every entry of either registry that covers the topic.
Covering(topic) ==
  {literal[s] : s \in DOMAIN literal \cap {topic}}
  \cup {prefixed[s] : s \in {x \in DOMAIN prefixed : IsPrefix(x, topic)}}

\* Each entry is stored under its own scope, in the registry of its pattern.
StoredByScope ==
  /\ \A s \in DOMAIN literal :
       literal[s] \in Record /\ literal[s].scope = s /\ literal[s].pattern = "literal"
  /\ \A s \in DOMAIN prefixed :
       prefixed[s] \in Record /\ prefixed[s].scope = s /\ prefixed[s].pattern = "prefixed"

\* A literal entry beats every prefix entry, and the longest prefix wins
\* among those (the comment on topic_freeze).
Beats(a, b) ==
  \/ a.pattern = "literal" /\ b.pattern = "prefixed"
  \/ a.pattern = b.pattern /\ Len(a.scope) >= Len(b.scope)

\* After any freezes and thaws, topic_freeze's single reverse walk over the
\* ordered prefixes finds the entry that beats every other entry covering the
\* topic, finds one whenever some entry covers it, and finds none for an
\* internal topic.
ResolutionExact ==
  \A topic \in Topic :
    TopicFreeze(literal, prefixed, topic) =
      IF Internal(topic) THEN None
      ELSE {a \in Covering(topic) : \A b \in Covering(topic) : Beats(a, b)}

\* The scopes whose entry differs between two registries.
Changed(old, new) ==
  {s \in DOMAIN old \cup DOMAIN new :
     s \in DOMAIN old \cap DOMAIN new => old[s] # new[s]}

InScope(rec, topic) ==
  IF rec.pattern = "literal" THEN topic = rec.scope ELSE IsPrefix(rec.scope, topic)

\* A step changes at most one scope of one registry, and the resolution of no
\* topic outside that scope: thawing a literal scope leaves the topics under a
\* prefix of the same text frozen, and the reverse.
ScopeRespected ==
  [][\E rec \in Record :
       /\ Changed(literal, literal') \subseteq {s \in {rec.scope} : rec.pattern = "literal"}
       /\ Changed(prefixed, prefixed') \subseteq {s \in {rec.scope} : rec.pattern = "prefixed"}
       /\ \A topic \in Topic :
            TopicFreeze(literal', prefixed', topic) # TopicFreeze(literal, prefixed, topic)
              => InScope(rec, topic)]_vars
=============================================================================
