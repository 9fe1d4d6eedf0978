---------------------------- MODULE LookupProofs ----------------------------
(***************************************************************************)
(* Proofs about the two lookup structures of the metadata image.           *)
(*                                                                         *)
(* topic_freeze resolves every topic to its most specific entry and a      *)
(* freeze record affects no topic outside its scope, for every set of      *)
(* scopes and topics.  The prefixes of one topic are ordered by their      *)
(* length, so the first match of the reverse walk is the longest.          *)
(*                                                                         *)
(* The ACL index is a set of entries, and a lookup finds in it what the    *)
(* linear scan finds, for every set of entries, filters and names.  The    *)
(* argument is that the index has one form for every set of entries        *)
(* (IndexOf): insertions, removals and the replay of a snapshot all lead   *)
(* from the form of one set to the form of another, the length counts      *)
(* included, so nothing of the history is left in it.                      *)
(***************************************************************************)
EXTENDS WriteFreeze, AclIndex, TLAPS, FiniteSetTheorems

-----------------------------------------------------------------------------
(* Names *)

\* A prefix agrees with the whole byte by byte.
LEMMA PrefixBytes ==
  ASSUME NEW s \in Seq(Nat), NEW t \in Seq(Nat), IsPrefix(s, t)
  PROVE  Len(s) <= Len(t) /\ \A i \in 1..Len(s) : s[i] = t[i]
<1>1. Len(s) <= Len(t) /\ SubSeq(s, 1, Len(s)) = SubSeq(t, 1, Len(s))
  BY DEF IsPrefix
<1>2. ASSUME NEW i \in 1..Len(s) PROVE s[i] = t[i]
  <2>1. SubSeq(s, 1, Len(s))[i] = s[i] /\ SubSeq(t, 1, Len(s))[i] = t[i]
    BY <1>1
  <2> QED BY <1>1, <2>1
<1> QED BY <1>1, <1>2

\* Byte by byte agreement makes a prefix.
LEMMA BytesPrefix ==
  ASSUME NEW s \in Seq(Nat), NEW t \in Seq(Nat),
         Len(s) <= Len(t), \A i \in 1..Len(s) : s[i] = t[i]
  PROVE  IsPrefix(s, t)
<1>1. SubSeq(s, 1, Len(s)) = SubSeq(t, 1, Len(s))
  OBVIOUS
<1> QED BY <1>1 DEF IsPrefix

\* Among the prefixes of one topic the order of the BTreeMap is that of the
\* lengths.
LEMMA PrefixesByLength ==
  ASSUME NEW p \in Seq(Nat), NEW q \in Seq(Nat), NEW topic \in Seq(Nat),
         IsPrefix(p, topic), IsPrefix(q, topic)
  PROVE  AtMost(p, q) <=> Len(p) <= Len(q)
<1>1. /\ \A i \in 1..Len(p) : p[i] = topic[i]
      /\ \A i \in 1..Len(q) : q[i] = topic[i]
  BY PrefixBytes
<1>2. ASSUME Len(p) <= Len(q) PROVE AtMost(p, q)
  <2>1. \A i \in 1..Len(p) : p[i] = q[i]
    BY <1>1, <1>2
  <2>2. IsPrefix(p, q)
    BY <1>2, <2>1, BytesPrefix
  <2> QED BY <2>2 DEF AtMost
<1>3. ASSUME AtMost(p, q) PROVE Len(p) <= Len(q)
  <2>1. CASE IsPrefix(p, q)
    BY <2>1 DEF IsPrefix
  <2>2. CASE \E i \in 1..Len(p) :
               /\ i <= Len(q)
               /\ p[i] < q[i]
               /\ \A j \in 1..i - 1 : p[j] = q[j]
    <3>1. PICK i \in 1..Len(p) : i <= Len(q) /\ p[i] < q[i]
      BY <2>2
    <3>2. i \in 1..Len(q)
      BY <3>1
    <3>3. p[i] = q[i] /\ p[i] \in Nat
      BY <1>1, <3>2
    <3> QED BY <3>1, <3>3
  <2> QED BY <1>3, <2>1, <2>2 DEF AtMost
<1> QED BY <1>2, <1>3

-----------------------------------------------------------------------------
(* The registries *)

\* The entry of a key after an update.
LEMMA UpsertedEntry ==
  ASSUME NEW map, NEW rec, NEW pattern, NEW s \in DOMAIN Upserted(map, rec, pattern)
  PROVE  \/ /\ s \in DOMAIN map
            /\ Upserted(map, rec, pattern)[s] = map[s]
            /\ s # rec.scope \/ rec.pattern # pattern
         \/ /\ rec.pattern = pattern /\ rec.frozen
            /\ s = rec.scope /\ Upserted(map, rec, pattern)[s] = rec
<1>1. CASE rec.pattern # pattern
  BY <1>1 DEF Upserted
<1>2. CASE rec.pattern = pattern /\ rec.frozen
  BY <1>2 DEF Upserted, Put
<1>3. CASE rec.pattern = pattern /\ ~rec.frozen
  BY <1>3 DEF Upserted, Drop
<1> QED BY <1>1, <1>2, <1>3

\* Every other key keeps its entry.
LEMMA OthersKept ==
  ASSUME NEW map, NEW rec, NEW pattern, NEW s, s # rec.scope
  PROVE  /\ s \in DOMAIN Upserted(map, rec, pattern) <=> s \in DOMAIN map
         /\ s \in DOMAIN map => Upserted(map, rec, pattern)[s] = map[s]
<1>1. CASE rec.pattern # pattern
  BY <1>1 DEF Upserted
<1>2. CASE rec.pattern = pattern /\ rec.frozen
  BY <1>2 DEF Upserted, Put
<1>3. CASE rec.pattern = pattern /\ ~rec.frozen
  BY <1>3 DEF Upserted, Drop
<1> QED BY <1>1, <1>2, <1>3

\* Entries stay under their own scope whatever is frozen and thawed.
LEMMA StoredInductive == StoredByScope /\ [Next]_vars => StoredByScope'
<1> SUFFICES ASSUME StoredByScope, [Next]_vars PROVE StoredByScope'
  OBVIOUS
<1>1. CASE UNCHANGED vars
  BY <1>1 DEF vars, StoredByScope
<1>2. ASSUME NEW rec \in Record, ApplyTopicFreeze(rec)
      PROVE  StoredByScope'
  <2>1. ASSUME NEW s \in DOMAIN literal'
        PROVE  literal'[s] \in Record /\ literal'[s].scope = s /\ literal'[s].pattern = "literal"
    BY <1>2, <2>1, UpsertedEntry DEF StoredByScope, ApplyTopicFreeze
  <2>2. ASSUME NEW s \in DOMAIN prefixed'
        PROVE  /\ prefixed'[s] \in Record /\ prefixed'[s].scope = s
               /\ prefixed'[s].pattern = "prefixed"
    BY <1>2, <2>2, UpsertedEntry DEF StoredByScope, ApplyTopicFreeze
  <2> QED BY <2>1, <2>2 DEF StoredByScope
<1> QED BY <1>1, <1>2 DEF Next

\* StoredByScope is an invariant.
LEMMA StoredAlways == Spec => []StoredByScope
<1>1. Init => StoredByScope
  BY DEF Init, StoredByScope, EmptyMap
<1> QED BY <1>1, StoredInductive, PTL DEF Spec

-----------------------------------------------------------------------------
(* topic_freeze *)

\* A stored scope is a byte string.
LEMMA StoredNames ==
  ASSUME StoredByScope, NEW s \in DOMAIN prefixed
  PROVE  s \in Seq(Nat)
BY NameAssumption DEF StoredByScope, Record

\* The prefixes the walk may stop at are the longest ones.
LEMMA WalkFindsLongest ==
  ASSUME StoredByScope, NEW topic \in Topic
  PROVE  FirstDown(Below(prefixed, topic), topic) =
           {s \in DOMAIN prefixed :
              /\ IsPrefix(s, topic)
              /\ \A r \in DOMAIN prefixed : IsPrefix(r, topic) => Len(r) <= Len(s)}
<1>1. topic \in Seq(Nat)
  BY NameAssumption
<1>2. ASSUME NEW s \in DOMAIN prefixed, IsPrefix(s, topic)
      PROVE  s \in Below(prefixed, topic)
  BY <1>2 DEF Below, AtMost
<1>3. ASSUME NEW s \in DOMAIN prefixed, NEW r \in DOMAIN prefixed,
             IsPrefix(s, topic), IsPrefix(r, topic)
      PROVE  AtMost(r, s) <=> Len(r) <= Len(s)
  BY <1>1, <1>3, StoredNames, PrefixesByLength
<1> QED BY <1>2, <1>3 DEF FirstDown, Below

\* Where entries are stored by scope, resolution is exact.
LEMMA Resolves ==
  ASSUME StoredByScope PROVE ResolutionExact
<1> SUFFICES ASSUME NEW topic \in Topic, ~Internal(topic)
             PROVE  TopicFreeze(literal, prefixed, topic) =
                      {a \in Covering(topic) : \A b \in Covering(topic) : Beats(a, b)}
  BY DEF ResolutionExact, TopicFreeze
<1> DEFINE Best == {a \in Covering(topic) : \A b \in Covering(topic) : Beats(a, b)}
           Hits == {s \in DOMAIN prefixed : IsPrefix(s, topic)}
<1>1. CASE topic \in DOMAIN literal
  <2>1. literal[topic].pattern = "literal" /\ literal[topic].scope = topic
    BY <1>1 DEF StoredByScope
  <2>2. literal[topic] \in Covering(topic)
    BY <1>1 DEF Covering
  <2>3. ASSUME NEW b \in Covering(topic)
        PROVE  b = literal[topic] \/ b.pattern = "prefixed"
    BY DEF Covering, StoredByScope
  <2>4. Len(topic) >= Len(topic)
    BY NameAssumption
  <2>5. literal[topic] \in Best
    BY <2>1, <2>2, <2>3, <2>4 DEF Beats
  <2>6. ASSUME NEW a \in Best PROVE a = literal[topic]
    <3>1. Beats(a, literal[topic])
      BY <2>2
    <3>2. a.pattern # "prefixed"
      BY <2>1, <3>1 DEF Beats
    <3> QED BY <2>3, <3>2
  <2> QED BY <1>1, <2>5, <2>6 DEF TopicFreeze, Some
<1>2. CASE topic \notin DOMAIN literal
  <2>1. Covering(topic) = {prefixed[s] : s \in Hits}
    BY <1>2 DEF Covering
  <2>2. ASSUME NEW s \in Hits, NEW r \in Hits
        PROVE  Beats(prefixed[s], prefixed[r]) <=> Len(r) <= Len(s)
    <3>1. /\ prefixed[s].pattern = "prefixed" /\ prefixed[s].scope = s
          /\ prefixed[r].pattern = "prefixed" /\ prefixed[r].scope = r
      BY DEF StoredByScope
    <3>2. Len(s) \in Nat /\ Len(r) \in Nat
      BY StoredNames
    <3> QED BY <3>1, <3>2 DEF Beats
  <2>3. FirstDown(Below(prefixed, topic), topic) =
          {s \in Hits : \A r \in Hits : Len(r) <= Len(s)}
    BY WalkFindsLongest
  <2>4. TopicFreeze(literal, prefixed, topic) =
          {prefixed[s] : s \in {x \in Hits : \A r \in Hits : Len(r) <= Len(x)}}
    BY <1>2, <2>3 DEF TopicFreeze
  <2>5. Best = {prefixed[s] : s \in {x \in Hits : \A r \in Hits : Len(r) <= Len(x)}}
    BY <2>1, <2>2
  <2> QED BY <2>4, <2>5
<1> QED BY <1>1, <1>2

\* topic_freeze resolves every topic to its most specific entry.
THEOREM ResolutionIsExact == Spec => []ResolutionExact
BY StoredAlways, Resolves, PTL

-----------------------------------------------------------------------------
(* The scope of a record *)

\* A record leaves the resolution of topics outside its scope alone.
LEMMA StepInScope ==
  ASSUME NEW rec \in Record, ApplyTopicFreeze(rec), NEW topic \in Topic, ~InScope(rec, topic)
  PROVE  TopicFreeze(literal', prefixed', topic) = TopicFreeze(literal, prefixed, topic)
<1>1. CASE rec.pattern = "literal"
  <2>1. prefixed' = prefixed /\ literal' = Upserted(literal, rec, "literal")
    BY <1>1 DEF ApplyTopicFreeze, Upserted
  <2>2. topic # rec.scope
    BY <1>1 DEF InScope
  <2>3. /\ topic \in DOMAIN literal' <=> topic \in DOMAIN literal
        /\ topic \in DOMAIN literal => literal'[topic] = literal[topic]
    BY <2>1, <2>2, OthersKept
  <2> QED BY <2>1, <2>3 DEF TopicFreeze
<1>2. CASE rec.pattern = "prefixed"
  <2>1. literal' = literal /\ prefixed' = Upserted(prefixed, rec, "prefixed")
    BY <1>2 DEF ApplyTopicFreeze, Upserted
  <2>2. ASSUME NEW s, IsPrefix(s, topic)
        PROVE  /\ s \in DOMAIN prefixed' <=> s \in DOMAIN prefixed
               /\ s \in DOMAIN prefixed => prefixed'[s] = prefixed[s]
    <3>1. s # rec.scope
      BY <1>2, <2>2 DEF InScope
    <3> QED BY <2>1, <3>1, OthersKept
  <2>3. FirstDown(Below(prefixed', topic), topic) = FirstDown(Below(prefixed, topic), topic)
    BY <2>2 DEF FirstDown, Below
  <2>4. ASSUME NEW s \in FirstDown(Below(prefixed, topic), topic)
        PROVE  prefixed'[s] = prefixed[s]
    BY <2>2 DEF FirstDown, Below
  <2> QED BY <2>1, <2>3, <2>4 DEF TopicFreeze
<1> QED BY <1>1, <1>2 DEF Record

\* An update changes at most the entry of its scope, in one registry.
LEMMA StepChanges ==
  ASSUME NEW map, NEW rec, NEW pattern
  PROVE  Changed(map, Upserted(map, rec, pattern))
           \subseteq {s \in {rec.scope} : rec.pattern = pattern}
<1>1. ASSUME NEW s \in Changed(map, Upserted(map, rec, pattern)) PROVE s = rec.scope
  BY OthersKept DEF Changed
<1>2. ASSUME rec.pattern # pattern
      PROVE  Changed(map, Upserted(map, rec, pattern)) = {}
  BY <1>2 DEF Changed, Upserted
<1> QED BY <1>1, <1>2

\* No freeze or thaw affects a topic outside its own scope.
THEOREM RecordsStayInScope == Spec => ScopeRespected
<1>1. ASSUME NEW rec \in Record, ApplyTopicFreeze(rec)
      PROVE  /\ Changed(literal, literal') \subseteq {s \in {rec.scope} : rec.pattern = "literal"}
             /\ Changed(prefixed, prefixed') \subseteq {s \in {rec.scope} : rec.pattern = "prefixed"}
             /\ \A topic \in Topic :
                  TopicFreeze(literal', prefixed', topic) # TopicFreeze(literal, prefixed, topic)
                    => InScope(rec, topic)
  <2>1. literal' = Upserted(literal, rec, "literal") /\ prefixed' = Upserted(prefixed, rec, "prefixed")
    BY <1>1 DEF ApplyTopicFreeze
  <2>2. /\ Changed(literal, literal') \subseteq {s \in {rec.scope} : rec.pattern = "literal"}
        /\ Changed(prefixed, prefixed') \subseteq {s \in {rec.scope} : rec.pattern = "prefixed"}
    BY <2>1, StepChanges
  <2>3. \A topic \in Topic :
          TopicFreeze(literal', prefixed', topic) # TopicFreeze(literal, prefixed, topic)
            => InScope(rec, topic)
    BY <1>1, StepInScope
  <2> QED BY <2>2, <2>3
<1>2. [Next]_vars =>
        [\E rec \in Record :
           /\ Changed(literal, literal') \subseteq {s \in {rec.scope} : rec.pattern = "literal"}
           /\ Changed(prefixed, prefixed') \subseteq {s \in {rec.scope} : rec.pattern = "prefixed"}
           /\ \A topic \in Topic :
                TopicFreeze(literal', prefixed', topic) # TopicFreeze(literal, prefixed, topic)
                  => InScope(rec, topic)]_vars
  BY <1>1 DEF Next
<1> QED BY <1>2, PTL DEF Spec, ScopeRespected

-----------------------------------------------------------------------------
(* The form of the ACL index *)

\* A bucket that holds every entry once.
Ones(s) == [e \in s |-> 1]

Named(s, name) == {e \in s : e.name = name}
Names(s) == {e.name : e \in s}
BucketsOf(s) == [n \in Names(s) |-> Ones(Named(s, n))]

\* How many prefixes there are of each length.
LengthsOf(P) == [l \in {Len(p) : p \in P} |-> Cardinality({p \in P : Len(p) = l})]

\* The entries of one type and pattern, as the index keeps them.
LiteralOf(s) == [byName |-> BucketsOf({e \in s : e.name # Wildcard}),
                 wildcard |-> Ones(Named(s, Wildcard))]
PrefixedOf(s) == [byPrefix |-> BucketsOf(s), lengths |-> LengthsOf(Names(s))]

At(S, t, pattern) == {e \in S : e.type = t /\ e.pattern = pattern}
Types(S, pattern) == {e.type : e \in {x \in S : x.pattern = pattern}}

\* The index of a set of entries.
IndexOf(S) ==
  [literal |-> [t \in Types(S, "literal") |-> LiteralOf(At(S, t, "literal"))],
   prefixed |-> [t \in Types(S, "prefixed") |-> PrefixedOf(At(S, t, "prefixed"))]]

\* What a filter leaves.
Rest(s, filter) == {e \in s : ~Matches(filter, e)}

\* A set of entries that can have been inserted.
Entered(S) == S \subseteq Entry /\ IsFiniteSet(S)

-----------------------------------------------------------------------------
(* Buckets *)

\* A bucket without entries is empty.
LEMMA OnesEmpty == ASSUME NEW s PROVE Ones(s) = EmptyMap <=> s = {}
BY DEF Ones, EmptyMap

\* retain and push leave every entry once.
LEMMA PushedOnes ==
  ASSUME NEW s, NEW e
  PROVE  Pushed(Ones(s), e) = Ones(s \cup {e})
BY DEF Pushed, Ones, Put, Drop, OrDefault

\* retain takes what the filter matches.
LEMMA KeptOnes ==
  ASSUME NEW s, NEW filter
  PROVE  Kept(Ones(s), filter) = Ones(Rest(s, filter))
BY DEF Kept, Ones, Drop, Rest

\* An entry goes to the bucket of its name.
LEMMA BucketPushed ==
  ASSUME NEW s, NEW e
  PROVE  Put(BucketsOf(s), e.name, Pushed(OrDefault(BucketsOf(s), e.name, EmptyMap), e))
           = BucketsOf(s \cup {e})
<1> DEFINE old == OrDefault(BucketsOf(s), e.name, EmptyMap)
           new == Pushed(old, e)
<1> SUFFICES Put(BucketsOf(s), e.name, new) = BucketsOf(s \cup {e})
  OBVIOUS
<1>1. old = Ones(Named(s, e.name))
  <2>1. CASE e.name \in Names(s)
    BY <2>1 DEF OrDefault, BucketsOf
  <2>2. CASE e.name \notin Names(s)
    <3>1. Named(s, e.name) = {}
      BY <2>2 DEF Names, Named
    <3> QED BY <2>2, <3>1, OnesEmpty DEF OrDefault, BucketsOf
  <2> QED BY <2>1, <2>2
<1>2. new = Ones(Named(s \cup {e}, e.name))
  <2>1. Named(s, e.name) \cup {e} = Named(s \cup {e}, e.name)
    BY DEF Named
  <2> HIDE DEF old
  <2> QED BY <1>1, <2>1, PushedOnes
<1> HIDE DEF new
<1>3. Names(s \cup {e}) = Names(s) \cup {e.name}
  BY DEF Names
<1>4. ASSUME NEW n \in Names(s), n # e.name PROVE Named(s \cup {e}, n) = Named(s, n)
  BY <1>4 DEF Named
<1> QED BY <1>2, <1>3, <1>4 DEF Put, BucketsOf

\* Buckets that keep no entry disappear.
LEMMA BucketsKept ==
  ASSUME NEW s, NEW filter
  PROVE  KeptBuckets(BucketsOf(s), filter) = BucketsOf(Rest(s, filter))
<1>1. ASSUME NEW n \in Names(s)
      PROVE  Kept(BucketsOf(s)[n], filter) = Ones(Named(Rest(s, filter), n))
  <2>1. Rest(Named(s, n), filter) = Named(Rest(s, filter), n)
    BY DEF Rest, Named
  <2> QED BY <2>1, KeptOnes DEF BucketsOf
<1>2. DOMAIN BucketsOf(s) = Names(s)
  BY DEF BucketsOf
<1>3. {n \in Names(s) : Kept(BucketsOf(s)[n], filter) # EmptyMap} = Names(Rest(s, filter))
  <2>1. ASSUME NEW n \in Names(s)
        PROVE  Kept(BucketsOf(s)[n], filter) # EmptyMap <=> n \in Names(Rest(s, filter))
    <3>1. Named(Rest(s, filter), n) # {} <=> n \in Names(Rest(s, filter))
      BY DEF Named, Names
    <3> QED BY <1>1, <3>1, OnesEmpty
  <2>2. Names(Rest(s, filter)) \subseteq Names(s)
    BY DEF Names, Rest
  <2> QED BY <2>1, <2>2
<1> QED BY <1>1, <1>2, <1>3 DEF KeptBuckets, BucketsOf

-----------------------------------------------------------------------------
(* The length counts *)

\* A new prefix adds one to the count of its length.
LEMMA LengthCounted ==
  ASSUME NEW P \in SUBSET Seq(Nat), IsFiniteSet(P), NEW p \in Seq(Nat), p \notin P
  PROVE  CountLength(LengthsOf(P), Len(p)) = LengthsOf(P \cup {p})
<1> DEFINE Of(Q, l) == {q \in Q : Len(q) = l}
           D == {Len(q) : q \in P}
<1>1. {Len(q) : q \in P \cup {p}} = D \cup {Len(p)}
  OBVIOUS
<1>2. ASSUME NEW l, l # Len(p) PROVE Of(P \cup {p}, l) = Of(P, l)
  BY <1>2
<1>3. Of(P \cup {p}, Len(p)) = Of(P, Len(p)) \cup {p} /\ p \notin Of(P, Len(p))
  OBVIOUS
<1>4. IsFiniteSet(Of(P, Len(p)))
  BY FS_Subset
<1>5. Cardinality(Of(P \cup {p}, Len(p))) = Cardinality(Of(P, Len(p))) + 1
  BY <1>3, <1>4, FS_AddElement
<1>6. OrDefault(LengthsOf(P), Len(p), 0) = Cardinality(Of(P, Len(p)))
  <2>1. CASE Len(p) \in D
    BY <2>1 DEF OrDefault, LengthsOf
  <2>2. CASE Len(p) \notin D
    <3>1. Of(P, Len(p)) = {}
      BY <2>2
    <3> QED BY <2>2, <3>1, FS_EmptySet DEF OrDefault, LengthsOf
  <2> QED BY <2>1, <2>2
<1>7. LengthsOf(P \cup {p}) = [l \in D \cup {Len(p)} |-> Cardinality(Of(P \cup {p}, l))]
  BY <1>1 DEF LengthsOf
<1>8. LengthsOf(P) = [l \in D |-> Cardinality(Of(P, l))]
  BY DEF LengthsOf
<1> HIDE DEF D, Of
<1> QED BY <1>2, <1>5, <1>6, <1>7, <1>8 DEF CountLength, Put

\* A prefix that goes takes one from the count of its length.
LEMMA LengthForgotten ==
  ASSUME NEW P \in SUBSET Seq(Nat), IsFiniteSet(P), NEW p \in P
  PROVE  ForgetLength(LengthsOf(P), Len(p)) = LengthsOf(P \ {p})
<1> DEFINE Of(Q, l) == {q \in Q : Len(q) = l}
           D == {Len(q) : q \in P}
           n == Cardinality(Of(P, Len(p)))
<1>1. p \in Of(P, Len(p)) /\ Of(P \ {p}, Len(p)) = Of(P, Len(p)) \ {p}
  OBVIOUS
<1>2. IsFiniteSet(Of(P, Len(p)))
  BY FS_Subset
<1>3. n \in Nat /\ Cardinality(Of(P \ {p}, Len(p))) = n - 1 /\ IsFiniteSet(Of(P \ {p}, Len(p)))
  <2> DEFINE W == Of(P, Len(p))
  <2> HIDE DEF W
  <2>1. IsFiniteSet(W) /\ p \in W
    BY <1>1, <1>2 DEF W
  <2>2. Cardinality(W) \in Nat /\ Cardinality(W \ {p}) = Cardinality(W) - 1 /\ IsFiniteSet(W \ {p})
    BY <2>1, FS_RemoveElement, FS_CardinalityType
  <2> QED BY <1>1, <2>2 DEF W
<1>4. ASSUME NEW l, l # Len(p) PROVE Of(P \ {p}, l) = Of(P, l)
  BY <1>4
<1>5. Len(p) \in D /\ LengthsOf(P) = [l \in D |-> Cardinality(Of(P, l))]
  BY DEF LengthsOf
<1>6. {Len(q) : q \in P \ {p}} = IF n = 1 THEN D \ {Len(p)} ELSE D
  <2>1. ASSUME NEW l \in D, l # Len(p) PROVE l \in {Len(q) : q \in P \ {p}}
    BY <2>1
  <2>2. Len(p) \in {Len(q) : q \in P \ {p}} <=> Of(P \ {p}, Len(p)) # {}
    OBVIOUS
  <2>3. Of(P \ {p}, Len(p)) # {} <=> n - 1 # 0
    <3> HIDE DEF Of, n
    <3> QED BY <1>3, FS_EmptySet
  <2> DEFINE E == {Len(q) : q \in P \ {p}}
  <2>4. E \subseteq D /\ Len(p) \in D
    OBVIOUS
  <2>5. Len(p) \in E <=> n # 1
    BY <1>3, <2>2, <2>3
  <2>6. \A l \in D : l # Len(p) => l \in E
    BY <2>1
  <2> HIDE DEF D, n, E
  <2>7. E = IF n = 1 THEN D \ {Len(p)} ELSE D
    <3>1. CASE n = 1
      <4>1. E = D \ {Len(p)}
        BY <2>4, <2>5, <2>6, <3>1
      <4> QED BY <3>1, <4>1
    <3>2. CASE n # 1
      <4>1. E = D
        BY <2>4, <2>5, <2>6, <3>2
      <4> QED BY <3>2, <4>1
    <3> QED BY <3>1, <3>2
  <2> QED BY <2>7 DEF E
<1>7. LengthsOf(P \ {p}) = [l \in (IF n = 1 THEN D \ {Len(p)} ELSE D) |->
                              Cardinality(Of(P \ {p}, l))]
  BY <1>6 DEF LengthsOf
<1>8. LengthsOf(P)[Len(p)] = n
  BY <1>5
<1> HIDE DEF D, n
<1>9. CASE n = 1
  <2>1. LengthsOf(P \ {p}) = [l \in D \ {Len(p)} |-> Cardinality(Of(P, l))]
    <3>1. LengthsOf(P \ {p}) = [l \in D \ {Len(p)} |-> Cardinality(Of(P \ {p}, l))]
      BY <1>7, <1>9
    <3> HIDE DEF Of
    <3> QED BY <1>4, <3>1
  <2> HIDE DEF Of
  <2> QED BY <1>5, <1>8, <1>9, <2>1 DEF ForgetLength, Drop
<1>10. CASE n # 1
  <2>1. LengthsOf(P \ {p}) = [l \in D |-> Cardinality(Of(P \ {p}, l))]
    BY <1>7, <1>10
  <2>2. ForgetLength(LengthsOf(P), Len(p)) = [l \in D |-> IF l = Len(p) THEN n - 1 ELSE LengthsOf(P)[l]]
    <3> HIDE DEF Of
    <3> QED BY <1>5, <1>8, <1>10 DEF ForgetLength, Put
  <2>3. ASSUME NEW l \in D
        PROVE  Cardinality(Of(P \ {p}, l)) = IF l = Len(p) THEN n - 1 ELSE LengthsOf(P)[l]
    <3> HIDE DEF Of
    <3>1. CASE l = Len(p)
      BY <1>3, <3>1
    <3>2. CASE l # Len(p)
      BY <1>4, <1>5, <3>2
    <3> QED BY <3>1, <3>2
  <2> HIDE DEF Of
  <2> QED BY <2>1, <2>2, <2>3
<1> QED BY <1>9, <1>10

\* The counts after the removal of a prefix.
Forgotten(lengths, prefix) == ForgetLength(lengths, Len(prefix))

LengthFold == INSTANCE FoldProofs WITH Empty <- EmptyMap, Apply <- Forgotten

\* Removing several prefixes takes every one of them from the counts.
LEMMA LengthsForgotten ==
  ASSUME NEW P \in SUBSET Seq(Nat), IsFiniteSet(P), NEW gone \in SUBSET P
  PROVE  FoldSet(LAMBDA prefix, lengths : ForgetLength(lengths, Len(prefix)),
                 LengthsOf(P), gone) = LengthsOf(P \ gone)
<1> DEFINE h == [s \in SUBSET gone |-> LengthsOf(P \ s)]
<1>1. FoldSet(LAMBDA prefix, lengths : ForgetLength(lengths, Len(prefix)),
              LengthsOf(P), gone) = LengthFold!Replay(LengthsOf(P), gone)
  BY DEF LengthFold!Replay, FoldSet, LengthFold!FoldSet, MapThenFoldSet,
     LengthFold!MapThenFoldSet, Forgotten
<1>2. h[{}] = LengthsOf(P) /\ h[gone] = LengthsOf(P \ gone) /\ h = [s \in SUBSET gone |-> h[s]]
  <2>1. P \ {} = P
    OBVIOUS
  <2> QED BY <2>1
<1>3. ASSUME NEW s \in SUBSET gone, NEW p \in gone, p \in s
      PROVE  h[s] = Forgotten(h[s \ {p}], p)
  <2> DEFINE Q == P \ (s \ {p})
  <2>1. Q \in SUBSET Seq(Nat) /\ p \in Q /\ Q \ {p} = P \ s
    BY <1>3
  <2>2. IsFiniteSet(Q)
    BY FS_Subset
  <2>3. h[s] = LengthsOf(P \ s) /\ h[s \ {p}] = LengthsOf(Q)
    OBVIOUS
  <2> HIDE DEF Q, h
  <2> QED BY <2>1, <2>2, <2>3, LengthForgotten DEF Forgotten
<1> HIDE DEF h
<1>4. LengthFold!Tracks(h, LengthsOf(P), gone)
  BY <1>2, <1>3 DEF LengthFold!Tracks
<1>5. LengthFold!IsFiniteSet(gone)
  <2>1. IsFiniteSet(gone)
    BY FS_Subset
  <2> QED BY <2>1 DEF IsFiniteSet, LengthFold!IsFiniteSet
<1> QED BY <1>1, <1>2, <1>4, <1>5, LengthFold!ReplayIs

-----------------------------------------------------------------------------
(* One type *)

\* A literal entry is added to the literal entries of its type.
LEMMA LiteralInserted ==
  ASSUME NEW s, NEW e
  PROVE  InsertLiteral(LiteralOf(s), e) = LiteralOf(s \cup {e})
<1> DEFINE Others(x) == {y \in x : y.name # Wildcard}
<1>1. CASE e.name = Wildcard
  <2>1. Others(s \cup {e}) = Others(s) /\ Named(s \cup {e}, Wildcard) = Named(s, Wildcard) \cup {e}
    BY <1>1 DEF Named
  <2>2. InsertLiteral(LiteralOf(s), e)
          = [byName |-> BucketsOf(Others(s)), wildcard |-> Pushed(Ones(Named(s, Wildcard)), e)]
    BY <1>1 DEF InsertLiteral, LiteralOf
  <2>3. LiteralOf(s \cup {e})
          = [byName |-> BucketsOf(Others(s \cup {e})), wildcard |-> Ones(Named(s \cup {e}, Wildcard))]
    BY DEF LiteralOf
  <2> HIDE DEF Others
  <2> QED BY <2>1, <2>2, <2>3, PushedOnes
<1>2. CASE e.name # Wildcard
  <2>1. Others(s \cup {e}) = Others(s) \cup {e} /\ Named(s \cup {e}, Wildcard) = Named(s, Wildcard)
    BY <1>2 DEF Named
  <2> DEFINE old == BucketsOf(Others(s))
  <2>2. InsertLiteral(LiteralOf(s), e)
          = [byName |-> Put(old, e.name, Pushed(OrDefault(old, e.name, EmptyMap), e)),
             wildcard |-> Ones(Named(s, Wildcard))]
    BY <1>2 DEF InsertLiteral, LiteralOf
  <2>3. LiteralOf(s \cup {e})
          = [byName |-> BucketsOf(Others(s \cup {e})), wildcard |-> Ones(Named(s \cup {e}, Wildcard))]
    BY DEF LiteralOf
  <2> HIDE DEF Others
  <2> QED BY <2>1, <2>2, <2>3, BucketPushed
<1> QED BY <1>1, <1>2

\* The names of finitely many entries.
LEMMA NamesOf ==
  ASSUME NEW s, s \subseteq Entry, IsFiniteSet(s)
  PROVE  Names(s) \in SUBSET Seq(Nat) /\ IsFiniteSet(Names(s))
<1>1. IsFiniteSet({e.name : e \in s})
  <2> DEFINE f == [e \in s |-> e.name]
  <2>1. {f[e] : e \in s} = {e.name : e \in s}
    OBVIOUS
  <2>2. f \in Surjection(s, {e.name : e \in s})
    BY DEF Surjection
  <2> QED BY <2>2, FS_Surjection
<1> QED BY <1>1, AclAssumption DEF Names

\* A prefixed entry is added to the prefixed entries of its type.
LEMMA PrefixedInserted ==
  ASSUME NEW s, s \subseteq Entry, IsFiniteSet(s), NEW e \in Entry
  PROVE  InsertPrefixed(PrefixedOf(s), e) = PrefixedOf(s \cup {e})
<1> DEFINE old == BucketsOf(s)
           counts == LengthsOf(Names(s))
<1>1. InsertPrefixed(PrefixedOf(s), e)
        = [byPrefix |-> Put(old, e.name, Pushed(OrDefault(old, e.name, EmptyMap), e)),
           lengths |-> IF e.name \in DOMAIN old THEN counts ELSE CountLength(counts, Len(e.name))]
  <2>1. PrefixedOf(s) = [byPrefix |-> old, lengths |-> counts]
    BY DEF PrefixedOf
  <2> HIDE DEF old, counts
  <2>2. PrefixedOf(s).byPrefix = old /\ PrefixedOf(s).lengths = counts
    BY <2>1
  <2> DEFINE pushed == Put(old, e.name, Pushed(OrDefault(old, e.name, EmptyMap), e))
             counted == IF e.name \in DOMAIN old THEN counts ELSE CountLength(counts, Len(e.name))
  <2>3. InsertPrefixed(PrefixedOf(s), e)
          = [PrefixedOf(s) EXCEPT !.byPrefix = pushed, !.lengths = counted]
    BY <2>2 DEF InsertPrefixed
  <2> HIDE DEF pushed, counted
  <2>4. InsertPrefixed(PrefixedOf(s), e) = [byPrefix |-> pushed, lengths |-> counted]
    BY <2>1, <2>3
  <2> QED BY <2>4 DEF pushed, counted
<1>2. PrefixedOf(s \cup {e})
        = [byPrefix |-> BucketsOf(s \cup {e}), lengths |-> LengthsOf(Names(s \cup {e}))]
  BY DEF PrefixedOf
<1>3. DOMAIN old = Names(s) /\ Names(s \cup {e}) = Names(s) \cup {e.name}
  BY DEF BucketsOf, Names
<1>4. e.name \in Seq(Nat) /\ Names(s) \in SUBSET Seq(Nat) /\ IsFiniteSet(Names(s))
  BY AclAssumption, NamesOf
<1>5. LengthsOf(Names(s \cup {e}))
        = IF e.name \in DOMAIN old THEN counts ELSE CountLength(counts, Len(e.name))
  <2>1. CASE e.name \in Names(s)
    <3>1. Names(s) \cup {e.name} = Names(s)
      BY <2>1
    <3> HIDE DEF old
    <3> QED BY <1>3, <2>1, <3>1
  <2>2. CASE e.name \notin Names(s)
    <3> HIDE DEF old
    <3> QED BY <1>3, <1>4, <2>2, LengthCounted
  <2> QED BY <2>1, <2>2
<1>6. BucketsOf(s \cup {e}) = Put(old, e.name, Pushed(OrDefault(old, e.name, EmptyMap), e))
  BY BucketPushed
<1> HIDE DEF old, counts
<1> QED BY <1>1, <1>2, <1>5, <1>6

\* What a filter leaves of the literal entries of a type.
LEMMA LiteralRetained ==
  ASSUME NEW s, NEW filter
  PROVE  RetainLiteral(LiteralOf(s), filter) = LiteralOf(Rest(s, filter))
<1> DEFINE Others(x) == {y \in x : y.name # Wildcard}
<1>1. /\ Others(Rest(s, filter)) = Rest(Others(s), filter)
      /\ Named(Rest(s, filter), Wildcard) = Rest(Named(s, Wildcard), filter)
  BY DEF Rest, Named
<1>2. RetainLiteral(LiteralOf(s), filter)
        = [byName |-> KeptBuckets(BucketsOf(Others(s)), filter),
           wildcard |-> Kept(Ones(Named(s, Wildcard)), filter)]
  BY DEF RetainLiteral, LiteralOf
<1>3. LiteralOf(Rest(s, filter))
        = [byName |-> BucketsOf(Others(Rest(s, filter))),
           wildcard |-> Ones(Named(Rest(s, filter), Wildcard))]
  BY DEF LiteralOf
<1> HIDE DEF Others
<1> QED BY <1>1, <1>2, <1>3, BucketsKept, KeptOnes

\* What a filter leaves of the prefixed entries of a type: the counts lose
\* exactly the prefixes without entries.
LEMMA PrefixedRetained ==
  ASSUME NEW s, s \subseteq Entry, IsFiniteSet(s), NEW filter
  PROVE  RetainPrefixed(PrefixedOf(s), filter) = PrefixedOf(Rest(s, filter))
<1> DEFINE P == Names(s)
           Q == Names(Rest(s, filter))
<1>1. P \in SUBSET Seq(Nat) /\ IsFiniteSet(P) /\ Q \subseteq P
  BY NamesOf DEF Names, Rest
<1>2. KeptBuckets(BucketsOf(s), filter) = BucketsOf(Rest(s, filter))
  BY BucketsKept
<1>3. DOMAIN BucketsOf(s) = P /\ DOMAIN BucketsOf(Rest(s, filter)) = Q
  BY DEF BucketsOf
<1>4. PrefixedOf(s).byPrefix = BucketsOf(s) /\ PrefixedOf(s).lengths = LengthsOf(P)
  BY DEF PrefixedOf
<1>5. RetainPrefixed(PrefixedOf(s), filter)
        = [byPrefix |-> BucketsOf(Rest(s, filter)),
           lengths |-> FoldSet(LAMBDA prefix, lengths : ForgetLength(lengths, Len(prefix)),
                               LengthsOf(P), P \ Q)]
  BY <1>2, <1>3, <1>4 DEF RetainPrefixed
<1>6. P \ (P \ Q) = Q /\ P \ Q \in SUBSET P
  BY <1>1
<1>7. FoldSet(LAMBDA prefix, lengths : ForgetLength(lengths, Len(prefix)),
              LengthsOf(P), P \ Q) = LengthsOf(Q)
  <2> HIDE DEF P, Q
  <2> QED BY <1>1, <1>6, LengthsForgotten
<1> QED BY <1>5, <1>7 DEF PrefixedOf

-----------------------------------------------------------------------------
(* The whole index *)

\* insert leads to the index of one more entry.
LEMMA IndexInserted ==
  ASSUME NEW S, Entered(S), NEW e \in Entry
  PROVE  Inserted(IndexOf(S), e) = IndexOf(S \cup {e})
<1> DEFINE T == S \cup {e}
           lits == [t \in Types(S, "literal") |-> LiteralOf(At(S, t, "literal"))]
           pres == [t \in Types(S, "prefixed") |-> PrefixedOf(At(S, t, "prefixed"))]
           same(pattern) == \A t : t # e.type \/ e.pattern # pattern => At(T, t, pattern) = At(S, t, pattern)
<1>1. IndexOf(S) = [literal |-> lits, prefixed |-> pres]
  BY DEF IndexOf
<1>2. same("literal") /\ same("prefixed")
  BY DEF At
<1>3. ASSUME NEW pattern, e.pattern = pattern
      PROVE  /\ At(T, e.type, pattern) = At(S, e.type, pattern) \cup {e}
             /\ Types(T, pattern) = Types(S, pattern) \cup {e.type}
             /\ e.type \notin Types(S, pattern) => At(S, e.type, pattern) = {}
  BY <1>3 DEF At, Types
<1>4. ASSUME NEW pattern, e.pattern # pattern PROVE Types(T, pattern) = Types(S, pattern)
  BY <1>4 DEF Types
<1>5. CASE e.pattern = "literal"
  <2> DEFINE old == OrDefault(lits, e.type, NewLiteral)
  <2>1. old = LiteralOf(At(S, e.type, "literal"))
    <3>1. LiteralOf({}) = NewLiteral
      BY DEF LiteralOf, NewLiteral, BucketsOf, Names, Named, Ones, EmptyMap
    <3> QED BY <1>3, <1>5, <3>1 DEF OrDefault
  <2>2. InsertLiteral(old, e) = LiteralOf(At(T, e.type, "literal"))
    <3> HIDE DEF old
    <3> QED BY <1>3, <1>5, <2>1, LiteralInserted
  <2>3. Put(lits, e.type, InsertLiteral(old, e))
          = [t \in Types(T, "literal") |-> LiteralOf(At(T, t, "literal"))]
    <3> HIDE DEF old, T
    <3> QED BY <1>2, <1>3, <1>5, <2>2 DEF Put
  <2>4. pres = [t \in Types(T, "prefixed") |-> PrefixedOf(At(T, t, "prefixed"))]
    <3> HIDE DEF T
    <3> QED BY <1>2, <1>4, <1>5
  <2>5. Inserted(IndexOf(S), e) = [literal |-> Put(lits, e.type, InsertLiteral(old, e)), prefixed |-> pres]
    <3> HIDE DEF lits, pres, old
    <3> QED BY <1>1, <1>5 DEF Inserted, old
  <2> HIDE DEF lits, pres, old, T
  <2> QED BY <2>3, <2>4, <2>5 DEF IndexOf, T
<1>6. CASE e.pattern = "prefixed"
  <2> DEFINE old == OrDefault(pres, e.type, NewPrefixed)
  <2>1. old = PrefixedOf(At(S, e.type, "prefixed"))
    <3>1. PrefixedOf({}) = NewPrefixed
      BY DEF PrefixedOf, NewPrefixed, BucketsOf, Names, Named, Ones, EmptyMap, LengthsOf
    <3> QED BY <1>3, <1>6, <3>1 DEF OrDefault
  <2>2. InsertPrefixed(old, e) = PrefixedOf(At(T, e.type, "prefixed"))
    <3>1. At(S, e.type, "prefixed") \subseteq Entry /\ IsFiniteSet(At(S, e.type, "prefixed"))
      BY FS_Subset DEF At, Entered
    <3> HIDE DEF old
    <3> QED BY <1>3, <1>6, <2>1, <3>1, PrefixedInserted
  <2>3. Put(pres, e.type, InsertPrefixed(old, e))
          = [t \in Types(T, "prefixed") |-> PrefixedOf(At(T, t, "prefixed"))]
    <3> HIDE DEF old, T
    <3> QED BY <1>2, <1>3, <1>6, <2>2 DEF Put
  <2>4. lits = [t \in Types(T, "literal") |-> LiteralOf(At(T, t, "literal"))]
    <3> HIDE DEF T
    <3> QED BY <1>2, <1>4, <1>6
  <2>5. Inserted(IndexOf(S), e) = [literal |-> lits, prefixed |-> Put(pres, e.type, InsertPrefixed(old, e))]
    <3> HIDE DEF lits, pres, old
    <3> QED BY <1>1, <1>6 DEF Inserted, old
  <2> HIDE DEF lits, pres, old, T
  <2> QED BY <2>3, <2>4, <2>5 DEF IndexOf, T
<1> QED BY <1>5, <1>6, AclAssumption

\* remove_matching leads to the index of the entries the filter leaves.
LEMMA IndexRemoved ==
  ASSUME NEW S, Entered(S), NEW filter
  PROVE  Removed(IndexOf(S), filter) = IndexOf(Rest(S, filter))
<1> DEFINE R == Rest(S, filter)
           lits == [t \in Types(S, "literal") |-> RetainLiteral(LiteralOf(At(S, t, "literal")), filter)]
           pres == [t \in Types(S, "prefixed") |-> RetainPrefixed(PrefixedOf(At(S, t, "prefixed")), filter)]
<1>1. ASSUME NEW t, NEW pattern
      PROVE  /\ Rest(At(S, t, pattern), filter) = At(R, t, pattern)
             /\ t \in Types(R, pattern) <=> At(R, t, pattern) # {}
             /\ t \in Types(R, pattern) => t \in Types(S, pattern)
  BY DEF Rest, At, Types
<1>2. ASSUME NEW t \in Types(S, "literal")
      PROVE  /\ lits[t] = LiteralOf(At(R, t, "literal"))
             /\ LiteralEmpty(lits[t]) <=> t \notin Types(R, "literal")
  <2>1. lits[t] = LiteralOf(At(R, t, "literal"))
    <3> HIDE DEF R
    <3> QED BY <1>1, LiteralRetained
  <2>2. ASSUME NEW s PROVE LiteralEmpty(LiteralOf(s)) <=> s = {}
    <3> DEFINE o == {y \in s : y.name # Wildcard}
    <3>1. LiteralOf(s).byName = BucketsOf(o) /\ LiteralOf(s).wildcard = Ones(Named(s, Wildcard))
      BY DEF LiteralOf
    <3>2. s = {} <=> o = {} /\ Named(s, Wildcard) = {}
      BY DEF Named
    <3> HIDE DEF o
    <3>3. BucketsOf(o) = EmptyMap <=> o = {}
      BY DEF BucketsOf, Names, EmptyMap
    <3> QED BY <3>1, <3>2, <3>3, OnesEmpty DEF LiteralEmpty
  <2> HIDE DEF lits, R
  <2> QED BY <1>1, <2>1, <2>2
<1>3. ASSUME NEW t \in Types(S, "prefixed")
      PROVE  /\ pres[t] = PrefixedOf(At(R, t, "prefixed"))
             /\ PrefixedEmpty(pres[t]) <=> t \notin Types(R, "prefixed")
  <2>1. pres[t] = PrefixedOf(At(R, t, "prefixed"))
    <3>1. At(S, t, "prefixed") \subseteq Entry /\ IsFiniteSet(At(S, t, "prefixed"))
      BY FS_Subset DEF At, Entered
    <3> HIDE DEF R
    <3> QED BY <1>1, <3>1, PrefixedRetained
  <2>2. ASSUME NEW s PROVE PrefixedEmpty(PrefixedOf(s)) <=> s = {}
    BY DEF PrefixedEmpty, PrefixedOf, BucketsOf, Names, EmptyMap
  <2> HIDE DEF pres, R
  <2> QED BY <1>1, <2>1, <2>2
<1>4. IndexOf(S).literal = [t \in Types(S, "literal") |-> LiteralOf(At(S, t, "literal"))]
  BY DEF IndexOf
<1>5. IndexOf(S).prefixed = [t \in Types(S, "prefixed") |-> PrefixedOf(At(S, t, "prefixed"))]
  BY DEF IndexOf
<1>6. [t \in DOMAIN IndexOf(S).literal |-> RetainLiteral(IndexOf(S).literal[t], filter)] = lits
  BY <1>4
<1>7. [t \in DOMAIN IndexOf(S).prefixed |-> RetainPrefixed(IndexOf(S).prefixed[t], filter)] = pres
  BY <1>5
<1>8. Removed(IndexOf(S), filter)
        = [literal |-> Drop(lits, {t \in DOMAIN lits : LiteralEmpty(lits[t])}),
           prefixed |-> Drop(pres, {t \in DOMAIN pres : PrefixedEmpty(pres[t])})]
  <2> HIDE DEF lits, pres
  <2> QED BY <1>6, <1>7 DEF Removed
<1>9. DOMAIN lits = Types(S, "literal") /\ DOMAIN pres = Types(S, "prefixed")
  OBVIOUS
<1> HIDE DEF lits, pres, R
<1>10. Drop(lits, {t \in DOMAIN lits : LiteralEmpty(lits[t])})
         = [t \in Types(R, "literal") |-> LiteralOf(At(R, t, "literal"))]
  <2>1. DOMAIN lits \ {t \in DOMAIN lits : LiteralEmpty(lits[t])} = Types(R, "literal")
    BY <1>1, <1>2, <1>9
  <2> QED BY <1>1, <1>2, <2>1 DEF Drop
<1>11. Drop(pres, {t \in DOMAIN pres : PrefixedEmpty(pres[t])})
         = [t \in Types(R, "prefixed") |-> PrefixedOf(At(R, t, "prefixed"))]
  <2>1. DOMAIN pres \ {t \in DOMAIN pres : PrefixedEmpty(pres[t])} = Types(R, "prefixed")
    BY <1>1, <1>3, <1>9
  <2> QED BY <1>1, <1>3, <2>1 DEF Drop
<1> QED BY <1>8, <1>10, <1>11 DEF IndexOf, R

\* iter yields the entries of the index.
LEMMA EntriesOf ==
  ASSUME NEW S, Entered(S)
  PROVE  Entries(IndexOf(S)) = S
<1> DEFINE I == IndexOf(S)
           lit(t) == At(S, t, "literal")
           named(t) == {e \in lit(t) : e.name # Wildcard}
           pre(t) == At(S, t, "prefixed")
<1>1. DOMAIN I.literal = Types(S, "literal") /\ DOMAIN I.prefixed = Types(S, "prefixed")
  BY DEF IndexOf
<1>2. ASSUME NEW t \in Types(S, "literal")
      PROVE  /\ I.literal[t].byName = BucketsOf(named(t))
             /\ I.literal[t].wildcard = Ones(Named(lit(t), Wildcard))
  BY DEF IndexOf, LiteralOf
<1>3. ASSUME NEW t \in Types(S, "prefixed") PROVE I.prefixed[t].byPrefix = BucketsOf(pre(t))
  BY DEF IndexOf, PrefixedOf
<1>4. ASSUME NEW t PROVE lit(t) \subseteq S /\ named(t) \subseteq S /\ pre(t) \subseteq S
  BY DEF At
<1>5. ASSUME NEW s, NEW e \in s
      PROVE  e.name \in DOMAIN BucketsOf(s) /\ e \in DOMAIN BucketsOf(s)[e.name]
  BY DEF BucketsOf, Names, Named, Ones
<1>6. ASSUME NEW s, NEW n \in DOMAIN BucketsOf(s) PROVE DOMAIN BucketsOf(s)[n] \subseteq s
  BY DEF BucketsOf, Named, Ones
<1>7. ASSUME NEW e \in S
      PROVE  \/ e.type \in Types(S, "literal") /\ e \in named(e.type)
             \/ e.type \in Types(S, "literal") /\ e \in Named(lit(e.type), Wildcard)
             \/ e.type \in Types(S, "prefixed") /\ e \in pre(e.type)
  <2>1. e \in Entry
    BY DEF Entered
  <2>2. e.pattern \in {"literal", "prefixed"}
    BY <2>1, AclAssumption
  <2> QED BY <2>2 DEF Types, At, Named
<1> HIDE DEF I, lit, named, pre
<1>8. ASSUME NEW b
      PROVE  b \in Buckets(I) <=>
               \/ \E t \in DOMAIN I.literal : \E n \in DOMAIN I.literal[t].byName :
                    b = I.literal[t].byName[n]
               \/ \E t \in DOMAIN I.literal : b = I.literal[t].wildcard
               \/ \E t \in DOMAIN I.prefixed : \E n \in DOMAIN I.prefixed[t].byPrefix :
                    b = I.prefixed[t].byPrefix[n]
  <2> DEFINE A == I.literal
             B == I.prefixed
             W == {A[t].wildcard : t \in DOMAIN A}
             N(t) == {A[t].byName[n] : n \in DOMAIN A[t].byName}
             P(t) == {B[t].byPrefix[n] : n \in DOMAIN B[t].byPrefix}
             X == UNION {N(t) : t \in DOMAIN A}
             Y == UNION {P(t) : t \in DOMAIN B}
  <2>1. Buckets(I) = W \cup X \cup Y
    BY DEF Buckets
  <2>2. /\ b \in W <=> \E t \in DOMAIN A : b = A[t].wildcard
        /\ \A t : b \in N(t) <=> \E n \in DOMAIN A[t].byName : b = A[t].byName[n]
        /\ \A t : b \in P(t) <=> \E n \in DOMAIN B[t].byPrefix : b = B[t].byPrefix[n]
    OBVIOUS
  <2> HIDE DEF W, N, P, A, B
  <2>3. /\ b \in X <=> \E t \in DOMAIN A : b \in N(t)
        /\ b \in Y <=> \E t \in DOMAIN B : b \in P(t)
    BY Zenon
  <2> HIDE DEF X, Y
  <2>4. b \in Buckets(I) <=>
               \/ \E t \in DOMAIN A : \E n \in DOMAIN A[t].byName : b = A[t].byName[n]
               \/ \E t \in DOMAIN A : b = A[t].wildcard
               \/ \E t \in DOMAIN B : \E n \in DOMAIN B[t].byPrefix : b = B[t].byPrefix[n]
    BY <2>1, <2>2, <2>3
  <2> QED BY <2>4, Zenon DEF A, B
<1>9. ASSUME NEW b \in Buckets(I) PROVE DOMAIN b \subseteq S
  <2>1. ASSUME NEW t \in DOMAIN I.literal, NEW n \in DOMAIN I.literal[t].byName,
               b = I.literal[t].byName[n]
        PROVE  DOMAIN b \subseteq S
    <3>1. I.literal[t].byName = BucketsOf(named(t))
      BY <1>1, <1>2
    <3>2. DOMAIN BucketsOf(named(t))[n] \subseteq named(t)
      BY <1>6, <3>1
    <3> QED BY <1>4, <2>1, <3>1, <3>2
  <2>2. ASSUME NEW t \in DOMAIN I.literal, b = I.literal[t].wildcard
        PROVE  DOMAIN b \subseteq S
    <3>1. b = Ones(Named(lit(t), Wildcard))
      BY <1>1, <1>2, <2>2
    <3>2. Named(lit(t), Wildcard) \subseteq S
      BY <1>4 DEF Named
    <3> QED BY <3>1, <3>2 DEF Ones
  <2>3. ASSUME NEW t \in DOMAIN I.prefixed, NEW n \in DOMAIN I.prefixed[t].byPrefix,
               b = I.prefixed[t].byPrefix[n]
        PROVE  DOMAIN b \subseteq S
    <3>1. I.prefixed[t].byPrefix = BucketsOf(pre(t))
      BY <1>1, <1>3
    <3>2. DOMAIN BucketsOf(pre(t))[n] \subseteq pre(t)
      BY <1>6, <3>1
    <3> QED BY <1>4, <2>3, <3>1, <3>2
  <2> QED BY <1>8, <2>1, <2>2, <2>3
<1>10. ASSUME NEW e \in S PROVE \E b \in Buckets(I) : e \in DOMAIN b
  <2> DEFINE t == e.type
  <2>1. CASE t \in Types(S, "literal") /\ e \in named(t)
    <3>1. I.literal[t].byName = BucketsOf(named(t)) /\ t \in DOMAIN I.literal
      BY <1>1, <1>2, <2>1
    <3>2. e.name \in DOMAIN I.literal[t].byName /\ e \in DOMAIN I.literal[t].byName[e.name]
      BY <1>5, <2>1, <3>1
    <3> QED BY <1>8, <3>1, <3>2
  <2>2. CASE t \in Types(S, "literal") /\ e \in Named(lit(t), Wildcard)
    <3>1. I.literal[t].wildcard = Ones(Named(lit(t), Wildcard)) /\ t \in DOMAIN I.literal
      BY <1>1, <1>2, <2>2
    <3>2. e \in DOMAIN I.literal[t].wildcard
      BY <2>2, <3>1 DEF Ones
    <3> QED BY <1>8, <3>1, <3>2
  <2>3. CASE t \in Types(S, "prefixed") /\ e \in pre(t)
    <3>1. I.prefixed[t].byPrefix = BucketsOf(pre(t)) /\ t \in DOMAIN I.prefixed
      BY <1>1, <1>3, <2>3
    <3>2. e.name \in DOMAIN I.prefixed[t].byPrefix /\ e \in DOMAIN I.prefixed[t].byPrefix[e.name]
      BY <1>5, <2>3, <3>1
    <3> QED BY <1>8, <3>1, <3>2
  <2> QED BY <1>7, <2>1, <2>2, <2>3
<1> QED BY <1>9, <1>10 DEF Entries, I

InsertFold == INSTANCE FoldProofs WITH Empty <- NewIndex, Apply <- Inserted

\* The replay of a snapshot, in any order, gives the index back.
LEMMA IndexRebuilt ==
  ASSUME NEW S, Entered(S)
  PROVE  Rebuilt(IndexOf(S)) = IndexOf(S)
<1> DEFINE h == [s \in SUBSET S |-> IndexOf(s)]
<1>1. Rebuilt(IndexOf(S)) = InsertFold!Replay(NewIndex, S)
  <2>1. Rebuilt(IndexOf(S)) = FoldSet(LAMBDA entry, acc : Inserted(acc, entry), NewIndex, S)
    BY EntriesOf DEF Rebuilt
  <2> QED BY <2>1 DEF InsertFold!Replay, FoldSet, InsertFold!FoldSet, MapThenFoldSet,
             InsertFold!MapThenFoldSet
<1>2. h[{}] = NewIndex /\ h[S] = IndexOf(S) /\ h = [s \in SUBSET S |-> h[s]]
  <2>1. IndexOf({}) = NewIndex
    BY DEF IndexOf, Types, NewIndex, EmptyMap
  <2> QED BY <2>1
<1>3. ASSUME NEW s \in SUBSET S, NEW e \in S, e \in s
      PROVE  h[s] = Inserted(h[s \ {e}], e)
  <2>1. Entered(s \ {e}) /\ e \in Entry /\ (s \ {e}) \cup {e} = s
    BY <1>3, FS_Subset DEF Entered
  <2>2. h[s] = IndexOf(s) /\ h[s \ {e}] = IndexOf(s \ {e})
    OBVIOUS
  <2> HIDE DEF h
  <2> QED BY <2>1, <2>2, IndexInserted
<1> HIDE DEF h
<1>4. InsertFold!Tracks(h, NewIndex, S)
  BY <1>2, <1>3 DEF InsertFold!Tracks
<1>5. InsertFold!IsFiniteSet(S)
  BY DEF IsFiniteSet, InsertFold!IsFiniteSet, Entered
<1> QED BY <1>1, <1>2, <1>4, <1>5, InsertFold!ReplayIs

-----------------------------------------------------------------------------
(* The index is a set of entries *)

\* The index is the one of its entries.
Canonical == Entered(Entries(index)) /\ index = IndexOf(Entries(index))

\* An index of the form is the index of its own entries.
LEMMA CanonicalIs ==
  ASSUME NEW S, Entered(S), NEW idx, idx = IndexOf(S)
  PROVE  Entries(idx) = S /\ idx = IndexOf(Entries(idx))
BY EntriesOf

\* Every record and every restart keeps the index in its form.
LEMMA CanonicalStep ==
  ASSUME Canonical, AclNext
  PROVE  Canonical' /\ (Store!Next \/ Entries(index') = Entries(index))
<1> DEFINE S == Entries(index)
<1>1. Entered(S) /\ index = IndexOf(S)
  BY DEF Canonical
<1>2. ASSUME NEW T, Entered(T), index' = IndexOf(T)
      PROVE  Canonical' /\ Entries(index') = T
  BY <1>2, EntriesOf DEF Canonical
<1> HIDE DEF S
<1>3. ASSUME NEW e \in Entry, Insert(e) PROVE Canonical' /\ Store!Next
  <2>1. Entered(S \cup {e})
    BY <1>1, FS_AddElement DEF Entered
  <2>2. index' = IndexOf(S \cup {e})
    BY <1>1, <1>3, IndexInserted DEF Insert
  <2>3. Canonical' /\ Entries(index') = S \cup {e}
    BY <1>2, <2>1, <2>2
  <2> QED BY <2>3 DEF Store!Next, Store!Insert, S
<1>4. ASSUME NEW filter \in Filter, RemoveMatching(filter) PROVE Canonical' /\ Store!Next
  <2>1. Entered(Rest(S, filter))
    BY <1>1, FS_Subset DEF Entered, Rest
  <2>2. index' = IndexOf(Rest(S, filter))
    BY <1>1, <1>4, IndexRemoved DEF RemoveMatching
  <2>3. Canonical' /\ Entries(index') = Rest(S, filter)
    BY <1>2, <2>1, <2>2
  <2> QED BY <2>3 DEF Store!Next, Store!RemoveMatching, Rest, Matches, Store!Matches, S
<1>5. ASSUME Restart PROVE Canonical' /\ Entries(index') = Entries(index)
  <2>1. index' = IndexOf(S)
    BY <1>1, <1>5, IndexRebuilt DEF Restart
  <2> QED BY <1>1, <1>2, <2>1 DEF S
<1> QED BY <1>3, <1>4, <1>5 DEF AclNext

\* The first index is that of no entries.
LEMMA CanonicalInit == AclInit => Canonical /\ Store!Init
<1> SUFFICES ASSUME AclInit PROVE Canonical /\ Store!Init
  OBVIOUS
<1>1. index = IndexOf({})
  BY DEF AclInit, IndexOf, Types, NewIndex, EmptyMap
<1>2. Entered({})
  BY FS_EmptySet DEF Entered
<1>3. Entries(index) = {}
  BY <1>1, <1>2, EntriesOf
<1> QED BY <1>1, <1>2, <1>3 DEF Canonical, Store!Init

\* The index keeps its form.
LEMMA CanonicalAlways == AclSpec => []Canonical
<1>1. Canonical /\ [AclNext]_index => Canonical'
  <2> SUFFICES ASSUME Canonical, [AclNext]_index PROVE Canonical'
    OBVIOUS
  <2>1. CASE index' = index
    BY <2>1 DEF Canonical
  <2>2. CASE AclNext
    BY <2>2, CanonicalStep
  <2> QED BY <2>1, <2>2
<1> QED BY <1>1, CanonicalInit, PTL DEF AclSpec

\* The index implements a set of entries: insertions add one, removals take
\* what their filter matches, and restarts change nothing.
THEOREM IndexIsStore == AclSpec => ImplementsStore
<1>1. Canonical /\ [AclNext]_index => [Store!Next]_(Entries(index))
  <2> SUFFICES ASSUME Canonical, [AclNext]_index
               PROVE  Store!Next \/ Entries(index') = Entries(index)
    OBVIOUS
  <2>1. CASE index' = index
    BY <2>1
  <2>2. CASE AclNext
    BY <2>2, CanonicalStep
  <2> QED BY <2>1, <2>2
<1> QED BY <1>1, CanonicalInit, CanonicalAlways, PTL DEF AclSpec, ImplementsStore, Store!Spec

-----------------------------------------------------------------------------
(* Lookups *)

\* The name of an entry that covers a resource is cut from its name by one of
\* the probed lengths, and by no other.
LEMMA PrefixProbed ==
  ASSUME NEW e \in Entry, NEW name \in Lookup
  PROVE  /\ IsPrefix(e.name, name) <=>
              \E len \in 0..Len(name) : e.name = SubSeq(name, 1, len)
         /\ \A len \in 0..Len(name) : e.name = SubSeq(name, 1, len) => Len(e.name) = len
         /\ IsPrefix(e.name, name) => OnBoundary(name, Len(e.name))
<1>1. e.name \in Seq(Nat) /\ name \in Seq(Nat) /\ Len(name) \in Nat /\ Len(e.name) \in Nat
  BY AclAssumption
<1>2. ASSUME NEW len \in 0..Len(name), e.name = SubSeq(name, 1, len)
      PROVE  Len(e.name) = len /\ IsPrefix(e.name, name)
  <2>1. Len(e.name) = len /\ \A i \in 1..len : e.name[i] = name[i]
    BY <1>1, <1>2
  <2> QED BY <1>1, <2>1, BytesPrefix
<1>3. ASSUME IsPrefix(e.name, name)
      PROVE  Len(e.name) \in 0..Len(name) /\ e.name = SubSeq(name, 1, Len(e.name))
  <2>1. Len(e.name) <= Len(name) /\ \A i \in 1..Len(e.name) : e.name[i] = name[i]
    BY <1>1, <1>3, PrefixBytes
  <2>2. Len(SubSeq(name, 1, Len(e.name))) = Len(e.name)
    BY <1>1, <2>1
  <2> QED BY <1>1, <2>1, <2>2
<1>4. ASSUME IsPrefix(e.name, name) PROVE OnBoundary(name, Len(e.name))
  BY <1>4, AclAssumption DEF OnBoundary
<1> QED BY <1>2, <1>3, <1>4

\* What a lookup finds in the index of a set of entries.
LEMMA FoundIn ==
  ASSUME NEW S, Entered(S), NEW type, NEW name \in Lookup
  PROVE  LET found == Matching(IndexOf(S), type, name)
             lit == At(S, type, "literal")
             pre == At(S, type, "prefixed")
         IN /\ <<"named", 0>> \in DOMAIN found
            /\ found[<<"named", 0>>] = Ones({e \in Named(lit, name) : name # Wildcard})
            /\ <<"wildcard", 0>> \in DOMAIN found
            /\ found[<<"wildcard", 0>>] = Ones(Named(lit, Wildcard))
            /\ \A p \in DOMAIN found \ {<<"named", 0>>, <<"wildcard", 0>>} :
                 \E len \in 0..Len(name) :
                   /\ p = <<"prefixed", len>>
                   /\ found[p] = Ones(Named(pre, SubSeq(name, 1, len)))
            /\ \A e \in pre : IsPrefix(e.name, name) => <<"prefixed", Len(e.name)>> \in DOMAIN found
<1> DEFINE lit == At(S, type, "literal")
           pre == At(S, type, "prefixed")
           I == IndexOf(S)
           A == OrDefault(I.literal, type, NewLiteral)
           B == OrDefault(I.prefixed, type, NewPrefixed)
           M == MatchingPrefixed(B, name)
           found == Matching(I, type, name)
<1>1. A = LiteralOf(lit)
  <2>1. LiteralOf({}) = NewLiteral
    BY DEF LiteralOf, NewLiteral, BucketsOf, Names, Named, Ones, EmptyMap
  <2>2. type \notin Types(S, "literal") => lit = {}
    BY DEF Types, At
  <2> QED BY <2>1, <2>2 DEF IndexOf, OrDefault
<1>2. B = PrefixedOf(pre)
  <2>1. PrefixedOf({}) = NewPrefixed
    BY DEF PrefixedOf, NewPrefixed, BucketsOf, Names, Named, Ones, EmptyMap, LengthsOf
  <2>2. type \notin Types(S, "prefixed") => pre = {}
    BY DEF Types, At
  <2> QED BY <2>1, <2>2 DEF IndexOf, OrDefault
<1>3. ASSUME NEW s, NEW n PROVE OrDefault(BucketsOf(s), n, EmptyMap) = Ones(Named(s, n))
  <2>1. n \notin Names(s) => Named(s, n) = {}
    BY DEF Names, Named
  <2> QED BY <2>1, OnesEmpty DEF OrDefault, BucketsOf
<1>4. A.wildcard = Ones(Named(lit, Wildcard))
  BY <1>1 DEF LiteralOf
<1>5. OrDefault(A.byName, name, EmptyMap) = Ones({e \in Named(lit, name) : name # Wildcard})
  <2> DEFINE o == {e \in lit : e.name # Wildcard}
  <2>1. A.byName = BucketsOf(o)
    BY <1>1 DEF LiteralOf
  <2>2. Named(o, name) = {e \in Named(lit, name) : name # Wildcard}
    BY DEF Named
  <2> HIDE DEF o, A
  <2> QED BY <1>3, <2>1, <2>2
<1>6. B.byPrefix = BucketsOf(pre) /\ B.lengths = LengthsOf(Names(pre))
  BY <1>2 DEF PrefixedOf
<1> HIDE DEF A, B
<1> DEFINE L == {l \in Probed(B.lengths, name) : OnBoundary(name, l)}
<1>7. ASSUME NEW p \in DOMAIN M
      PROVE  \E len \in 0..Len(name) :
               p = <<"prefixed", len>> /\ M[p] = Ones(Named(pre, SubSeq(name, 1, len)))
  <2>1. PICK len \in L : p = <<"prefixed", len>>
    BY <1>7 DEF MatchingPrefixed
  <2>2. len \in 0..Len(name)
    <3>1. len \in {Len(n) : n \in Names(pre)} /\ len <= Len(name)
      BY <1>6 DEF LengthsOf, Probed
    <3>2. Names(pre) \subseteq Seq(Nat)
      BY AclAssumption DEF Names, At, Entered
    <3>3. len \in Nat /\ Len(name) \in Nat
      BY <3>1, <3>2, AclAssumption
    <3> QED BY <3>1, <3>3
  <2>3. M[p] = OrDefault(B.byPrefix, SubSeq(name, 1, p[2]), EmptyMap)
    BY <1>7 DEF MatchingPrefixed
  <2>4. M[p] = Ones(Named(pre, SubSeq(name, 1, len)))
    <3> HIDE DEF M, L, pre
    <3> QED BY <1>3, <1>6, <2>1, <2>3
  <2> QED BY <2>1, <2>2, <2>4
<1>8. ASSUME NEW e \in pre, IsPrefix(e.name, name) PROVE <<"prefixed", Len(e.name)>> \in DOMAIN M
  <2>1. e \in Entry
    BY DEF At, Entered
  <2>2. Len(e.name) <= Len(name) /\ OnBoundary(name, Len(e.name))
    BY <1>8, <2>1, PrefixProbed, AclAssumption DEF IsPrefix
  <2>3. Len(e.name) \in DOMAIN B.lengths
    BY <1>6 DEF LengthsOf, Names
  <2> QED BY <2>2, <2>3 DEF MatchingPrefixed, Probed
<1>9. found = Put(Put(M, <<"wildcard", 0>>, A.wildcard),
                  <<"named", 0>>, OrDefault(A.byName, name, EmptyMap))
  BY DEF Matching, A, B
<1> HIDE DEF M, found, I, lit, pre
<1>10. /\ DOMAIN found = DOMAIN M \cup {<<"wildcard", 0>>, <<"named", 0>>}
       /\ found[<<"named", 0>>] = OrDefault(A.byName, name, EmptyMap)
       /\ found[<<"wildcard", 0>>] = A.wildcard
       /\ \A p \in DOMAIN found \ {<<"named", 0>>, <<"wildcard", 0>>} : found[p] = M[p]
  BY <1>9 DEF Put
<1>11. /\ <<"named", 0>> \in DOMAIN found
       /\ found[<<"named", 0>>] = Ones({e \in Named(lit, name) : name # Wildcard})
       /\ <<"wildcard", 0>> \in DOMAIN found
       /\ found[<<"wildcard", 0>>] = Ones(Named(lit, Wildcard))
       /\ \A p \in DOMAIN found \ {<<"named", 0>>, <<"wildcard", 0>>} :
            \E len \in 0..Len(name) :
              p = <<"prefixed", len>> /\ found[p] = Ones(Named(pre, SubSeq(name, 1, len)))
       /\ \A e \in pre : IsPrefix(e.name, name) => <<"prefixed", Len(e.name)>> \in DOMAIN found
  BY <1>4, <1>5, <1>7, <1>8, <1>10
<1> QED BY <1>11 DEF found, I, lit, pre

\* Where the index has its form, lookups are exact.
LEMMA LookupExact == ASSUME Canonical PROVE MatchingExact
<1> SUFFICES ASSUME NEW type \in ResourceType, NEW name \in Lookup
             PROVE  LET found == Matching(index, type, name)
                    IN /\ UNION {DOMAIN found[p] : p \in DOMAIN found}
                            = {e \in Entries(index) : Store!Covers(e, type, name)}
                       /\ \A p \in DOMAIN found : \A e \in DOMAIN found[p] :
                            /\ found[p][e] = 1
                            /\ \A q \in DOMAIN found \ {p} : e \notin DOMAIN found[q]
  BY DEF MatchingExact
<1> DEFINE S == Entries(index)
           lit == At(S, type, "literal")
           pre == At(S, type, "prefixed")
           found == Matching(index, type, name)
           N == <<"named", 0>>
           W == <<"wildcard", 0>>
<1>1. Entered(S) /\ index = IndexOf(S)
  BY DEF Canonical
<1>2. /\ N \in DOMAIN found
      /\ found[N] = Ones({e \in Named(lit, name) : name # Wildcard})
      /\ W \in DOMAIN found
      /\ found[W] = Ones(Named(lit, Wildcard))
      /\ \A p \in DOMAIN found \ {N, W} :
           \E len \in 0..Len(name) :
             p = <<"prefixed", len>> /\ found[p] = Ones(Named(pre, SubSeq(name, 1, len)))
      /\ \A e \in pre : IsPrefix(e.name, name) => <<"prefixed", Len(e.name)>> \in DOMAIN found
  <2> HIDE DEF S
  <2> DEFINE F == Matching(IndexOf(S), type, name)
  <2>1. found = F
    BY <1>1
  <2>2. /\ N \in DOMAIN F
        /\ F[N] = Ones({e \in Named(lit, name) : name # Wildcard})
        /\ W \in DOMAIN F
        /\ F[W] = Ones(Named(lit, Wildcard))
        /\ \A p \in DOMAIN F \ {N, W} :
             \E len \in 0..Len(name) :
               p = <<"prefixed", len>> /\ F[p] = Ones(Named(pre, SubSeq(name, 1, len)))
        /\ \A e \in pre : IsPrefix(e.name, name) => <<"prefixed", Len(e.name)>> \in DOMAIN F
    BY <1>1, FoundIn
  <2> HIDE DEF F, found
  <2> QED BY <2>1, <2>2
<1>3. ASSUME NEW e
      PROVE  Store!Covers(e, type, name) <=>
               /\ e.type = type
               /\ \/ e.pattern = "literal" /\ e.name \in {name, Wildcard}
                  \/ e.pattern = "prefixed" /\ IsPrefix(e.name, name)
  BY DEF Store!Covers, Store!IsPrefix, IsPrefix
<1> HIDE DEF S, found
<1>4. \A e \in lit : e.pattern = "literal" /\ e.type = type /\ e \in S
  BY DEF At
<1>5. \A e \in pre : e.pattern = "prefixed" /\ e.type = type /\ e \in S /\ e \in Entry
  BY <1>1 DEF At, Entered
<1> HIDE DEF lit, pre
<1>6. ASSUME NEW p \in DOMAIN found, NEW e \in DOMAIN found[p]
      PROVE  /\ found[p][e] = 1 /\ e \in S /\ e.type = type
             /\ \/ p = N /\ e.pattern = "literal" /\ e.name = name /\ name # Wildcard
                \/ p = W /\ e.pattern = "literal" /\ e.name = Wildcard
                \/ /\ p = <<"prefixed", Len(e.name)>>
                   /\ e.pattern = "prefixed" /\ IsPrefix(e.name, name)
  <2>1. CASE p = N
    BY <1>2, <1>4, <1>6, <2>1 DEF Ones, Named
  <2>2. CASE p = W
    BY <1>2, <1>4, <1>6, <2>2 DEF Ones, Named
  <2>3. CASE p \notin {N, W}
    <3>1. PICK len \in 0..Len(name) :
            p = <<"prefixed", len>> /\ found[p] = Ones(Named(pre, SubSeq(name, 1, len)))
      BY <1>2, <2>3
    <3>2. e \in pre /\ e.name = SubSeq(name, 1, len) /\ found[p][e] = 1
      BY <1>6, <3>1 DEF Ones, Named
    <3>3. Len(e.name) = len /\ IsPrefix(e.name, name)
      BY <1>5, <3>2, PrefixProbed
    <3> QED BY <1>5, <3>1, <3>2, <3>3
  <2> QED BY <2>1, <2>2, <2>3
<1>7. ASSUME NEW e \in S, Store!Covers(e, type, name)
      PROVE  \E p \in DOMAIN found : e \in DOMAIN found[p]
  <2>1. CASE e.pattern = "literal"
    <3>1. e \in lit /\ e.name \in {name, Wildcard}
      BY <1>3, <1>7, <2>1 DEF At, lit
    <3>2. CASE e.name = Wildcard
      BY <1>2, <3>1, <3>2 DEF Ones, Named
    <3>3. CASE e.name # Wildcard
      BY <1>2, <3>1, <3>3 DEF Ones, Named
    <3> QED BY <3>2, <3>3
  <2>2. CASE e.pattern = "prefixed"
    <3>1. e \in pre /\ IsPrefix(e.name, name)
      BY <1>3, <1>7, <2>2 DEF At, pre
    <3> DEFINE p == <<"prefixed", Len(e.name)>>
    <3>2. p \in DOMAIN found /\ p \notin {N, W}
      BY <1>2, <3>1
    <3>3. PICK len \in 0..Len(name) :
            p = <<"prefixed", len>> /\ found[p] = Ones(Named(pre, SubSeq(name, 1, len)))
      BY <1>2, <3>2
    <3>4. len = Len(e.name)
      BY <3>3
    <3>5. e.name = SubSeq(name, 1, Len(e.name))
      BY <1>5, <3>1, PrefixProbed
    <3>6. e \in DOMAIN found[p]
      BY <3>1, <3>3, <3>4, <3>5 DEF Ones, Named
    <3> QED BY <3>2, <3>6
  <2> QED BY <1>3, <1>7, <2>1, <2>2
<1>8. UNION {DOMAIN found[p] : p \in DOMAIN found} = {e \in S : Store!Covers(e, type, name)}
  <2>1. ASSUME NEW p \in DOMAIN found, NEW e \in DOMAIN found[p]
        PROVE  e \in S /\ Store!Covers(e, type, name)
    BY <1>3, <1>6
  <2>2. ASSUME NEW e PROVE e \in UNION {DOMAIN found[p] : p \in DOMAIN found}
                             <=> \E p \in DOMAIN found : e \in DOMAIN found[p]
    BY Zenon
  <2> QED BY <1>7, <2>1, <2>2
<1>9. ASSUME NEW p \in DOMAIN found, NEW e \in DOMAIN found[p],
             NEW q \in DOMAIN found \ {p}, e \in DOMAIN found[q]
      PROVE  FALSE
  BY <1>6, <1>9
<1> QED BY <1>6, <1>8, <1>9 DEF S, found

\* A lookup yields the entries that cover the resource, each once, after any
\* history of insertions, removals and restarts.
THEOREM LookupsExact == AclSpec => []MatchingExact
BY CanonicalAlways, LookupExact, PTL

=============================================================================
