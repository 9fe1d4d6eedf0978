-------------------------- MODULE TopicImageProofs --------------------------
(***************************************************************************)
(* What TopicImage promises, for every set of topics, replica lists,       *)
(* number of partitions and length of the log.                             *)
(*                                                                         *)
(* An image is taken apart into its seven maps (Img), and every record     *)
(* kind is described by what it does to them; ToRecords and FromRecords    *)
(* are related through the sections of FoldProofs.  Two inductive          *)
(* invariants follow.  TypedInv needs no assumption about MaxLag: images   *)
(* are well-formed, the reverse index of ids is exact because every id     *)
(* was chosen for one topic, and directory slots belong to their replicas. *)
(* SerialInv needs records to be as grounded when they are applied as when *)
(* they were validated, which holds if the validating image has applied    *)
(* every record (MaxLag = 0) or if nothing is ever deleted: counts are     *)
(* exact, nothing is orphaned, and the restarted image differs from the    *)
(* replayed one in replication factors only.                               *)
(***************************************************************************)
EXTENDS TopicImage, TLAPS, FiniteSetTheorems, SequenceTheorems

\* What the folds over snapshots compute.
Log == INSTANCE FoldProofs WITH Empty <- NewImage

-----------------------------------------------------------------------------
(* Images *)

Img(T, I, P, O, E, R, C) ==
  [topics |-> T, ids |-> I, parts |-> P, offsets |-> O, elr |-> E, recovery |-> R,
   configs |-> C]

\* A sequence, of whatever it holds.
IsSequence(s) == s \in Seq({s[i] : i \in DOMAIN s})

\* The id of every topic leads back to it, and there are no other ids.
TopicsOK(T, I) ==
  /\ IsFiniteSet(DOMAIN T)
  /\ T = [t \in DOMAIN T |-> [id |-> T[t].id, partitions |-> T[t].partitions,
                              factor |-> T[t].factor]]
  /\ I = [i \in DOMAIN I |-> I[i]]
  /\ DOMAIN I = {T[t].id : t \in DOMAIN T}
  /\ \A t \in DOMAIN T : I[T[t].id] = t

\* A partition is named by its topic and a number.
IsKey(k) == k = <<k[1], k[2]>> /\ k[2] \in 0..(MaxPartitions - 1)

\* A map from partitions, with values of its own.
KeyMap(map) ==
  /\ IsFiniteSet(DOMAIN map) /\ map = [k \in DOMAIN map |-> map[k]]
  /\ \A k \in DOMAIN map : IsKey(k)

\* A slot of the directories is that of a replica, or not yet assigned.
PartitionOK(p) ==
  /\ p = [replicas |-> p.replicas, leader |-> p.leader, dirs |-> p.dirs]
  /\ IsSequence(p.replicas) /\ IsSequence(p.dirs)
  /\ Len(p.dirs) \in {0, Len(p.replicas)}
  /\ \A j \in 1..Len(p.dirs) : p.dirs[j] \in {Migrating, DirectoryOf(p.replicas[j])}

PartsOK(P) == KeyMap(P) /\ \A k \in DOMAIN P : PartitionOK(P[k])
OffsetsOK(O) == KeyMap(O) /\ \A k \in DOMAIN O : O[k] \in Nat
ElrOK(E) ==
  KeyMap(E) /\ \A k \in DOMAIN E : E[k] = <<E[k][1], E[k][2]>> /\ E[k] # <<{}, {}>>
RecoveryOK(R) == KeyMap(R) /\ \A k \in DOMAIN R : R[k] = "recovering"
ConfigsOK(C) ==
  /\ IsFiniteSet(DOMAIN C) /\ C = [t \in DOMAIN C |-> C[t]]
  /\ \A t \in DOMAIN C : C[t] # {}

TopicImg(img) ==
  /\ img = Img(img.topics, img.ids, img.parts, img.offsets, img.elr, img.recovery, img.configs)
  /\ TopicsOK(img.topics, img.ids) /\ PartsOK(img.parts) /\ OffsetsOK(img.offsets)
  /\ ElrOK(img.elr) /\ RecoveryOK(img.recovery) /\ ConfigsOK(img.configs)

\* The fields of an image.
LEMMA ImgFields ==
  ASSUME NEW T, NEW I, NEW P, NEW O, NEW E, NEW R, NEW C, NEW b, b = Img(T, I, P, O, E, R, C)
  PROVE  /\ b.topics = T /\ b.ids = I /\ b.parts = P /\ b.offsets = O
         /\ b.elr = E /\ b.recovery = R /\ b.configs = C
BY DEF Img

-----------------------------------------------------------------------------
(* What apply does to the maps *)

\* A topic record.
LEMMA TopicApplied ==
  ASSUME NEW T, NEW I, NEW P, NEW O, NEW E, NEW R, NEW C, NEW b, b = Img(T, I, P, O, E, R, C),
         NEW rec
  PROVE  ApplyTopic(b, rec) =
           Img(Put(T, rec.topic,
                   [id |-> rec.id,
                    partitions |-> IF rec.topic \in DOMAIN T THEN T[rec.topic].partitions ELSE 0,
                    factor |-> rec.factor]),
               Put(Drop(I, StaleId(b, rec)), rec.id, rec.topic), P, O, E, R, C)
<1> DEFINE l == Put(Drop(b.ids, StaleId(b, rec)), rec.id, rec.topic)
           n == Put(b.topics, rec.topic,
                    [id |-> rec.id,
                     partitions |-> IF rec.topic \in DOMAIN b.topics
                                      THEN b.topics[rec.topic].partitions ELSE 0,
                     factor |-> rec.factor])
<1>1. ApplyTopic(b, rec) = [b EXCEPT !.ids = l, !.topics = n]
  BY DEF ApplyTopic
<1>2. l = Put(Drop(I, StaleId(b, rec)), rec.id, rec.topic)
  BY ImgFields
<1>3. n = Put(T, rec.topic,
              [id |-> rec.id,
               partitions |-> IF rec.topic \in DOMAIN T THEN T[rec.topic].partitions ELSE 0,
               factor |-> rec.factor])
  BY ImgFields
<1> HIDE DEF l, n
<1>4. [b EXCEPT !.ids = l, !.topics = n] = Img(n, l, P, O, E, R, C)
  <2> DEFINE c == [b EXCEPT !.ids = l, !.topics = n]
  <2>1. DOMAIN c = {"topics", "ids", "parts", "offsets", "elr", "recovery", "configs"}
    BY DEF Img
  <2>2. c.topics = n /\ c.ids = l /\ c.parts = P /\ c.offsets = O /\ c.elr = E
        /\ c.recovery = R /\ c.configs = C
    BY DEF Img
  <2>3. c = [x \in DOMAIN c |-> c[x]]
    OBVIOUS
  <2> HIDE DEF c
  <2>4. c = Img(n, l, P, O, E, R, C)
    BY <2>1, <2>2, <2>3 DEF Img
  <2> QED BY <2>4 DEF c
<1> QED
  BY <1>1, <1>2, <1>3, <1>4

\* The topics after a partition of one of them was inserted.
TopicsCounted(T, P, rec) ==
  [t \in DOMAIN T |->
     IF t = rec.topic THEN Recounted(T[t], <<rec.topic, rec.index>> \notin DOMAIN P, rec.partition)
     ELSE T[t]]

\* A partition record.
LEMMA PartitionApplied ==
  ASSUME NEW T, NEW I, NEW P, NEW O, NEW E, NEW R, NEW C, NEW b, b = Img(T, I, P, O, E, R, C),
         NEW rec
  PROVE  ApplyPartition(b, rec) =
           Img(TopicsCounted(T, P, rec), I, Put(P, <<rec.topic, rec.index>>, rec.partition),
               O, E, R, C)
<1> DEFINE l == Put(b.parts, <<rec.topic, rec.index>>, rec.partition)
           n == TopicsCounted(b.topics, b.parts, rec)
<1>1. ApplyPartition(b, rec) = [b EXCEPT !.parts = l, !.topics = n]
  BY DEF ApplyPartition, TopicsCounted
<1>2. l = Put(P, <<rec.topic, rec.index>>, rec.partition) /\ n = TopicsCounted(T, P, rec)
  BY ImgFields
<1> HIDE DEF l, n
<1>4. [b EXCEPT !.parts = l, !.topics = n] = Img(n, I, l, O, E, R, C)
  <2> DEFINE c == [b EXCEPT !.parts = l, !.topics = n]
  <2>1. DOMAIN c = {"topics", "ids", "parts", "offsets", "elr", "recovery", "configs"}
    BY DEF Img
  <2>2. c.topics = n /\ c.ids = I /\ c.parts = l /\ c.offsets = O /\ c.elr = E
        /\ c.recovery = R /\ c.configs = C
    BY DEF Img
  <2>3. c = [x \in DOMAIN c |-> c[x]]
    OBVIOUS
  <2> HIDE DEF c
  <2>4. c = Img(n, I, l, O, E, R, C)
    BY <2>1, <2>2, <2>3 DEF Img
  <2> QED BY <2>4 DEF c
<1> QED
  BY <1>1, <1>2, <1>4

ElrAfter(E, key, eligible, lastKnown) ==
  IF eligible = {} /\ lastKnown = {} THEN Drop(E, {key})
  ELSE Put(E, key, <<eligible, lastKnown>>)

\* The eligible leader replicas of a partition.
LEMMA ElrApplied ==
  ASSUME NEW T, NEW I, NEW P, NEW O, NEW E, NEW R, NEW C, NEW b, b = Img(T, I, P, O, E, R, C),
         NEW key, NEW eligible, NEW lastKnown
  PROVE  ApplyElr(b, key, eligible, lastKnown)
           = Img(T, I, P, O, ElrAfter(E, key, eligible, lastKnown), R, C)
<1> DEFINE x == ElrAfter(b.elr, key, eligible, lastKnown)
<1>1. ApplyElr(b, key, eligible, lastKnown) = [b EXCEPT !.elr = x]
  BY DEF ApplyElr, ElrAfter
<1>2. x = ElrAfter(E, key, eligible, lastKnown)
  BY ImgFields
<1> HIDE DEF x
<1>3. [b EXCEPT !.elr = x] = Img(T, I, P, O, x, R, C)
  BY DEF Img
<1> QED
  BY <1>1, <1>2, <1>3

RecoveryAfter(R, key, state) ==
  IF state = "recovered" THEN Drop(R, {key}) ELSE Put(R, key, state)

\* The recovery of the leader of a partition.
LEMMA RecoveryApplied ==
  ASSUME NEW T, NEW I, NEW P, NEW O, NEW E, NEW R, NEW C, NEW b, b = Img(T, I, P, O, E, R, C),
         NEW key, NEW state
  PROVE  ApplyRecovery(b, key, state) = Img(T, I, P, O, E, RecoveryAfter(R, key, state), C)
<1> DEFINE x == RecoveryAfter(b.recovery, key, state)
<1>1. ApplyRecovery(b, key, state) = [b EXCEPT !.recovery = x]
  BY DEF ApplyRecovery, RecoveryAfter
<1>2. x = RecoveryAfter(R, key, state)
  BY ImgFields
<1> HIDE DEF x
<1>3. [b EXCEPT !.recovery = x] = Img(T, I, P, O, E, x, C)
  BY DEF Img
<1> QED
  BY <1>1, <1>2, <1>3

ConfigsAfter(C, rec) ==
  IF rec.overrides = {} THEN Drop(C, {rec.topic}) ELSE Put(C, rec.topic, rec.overrides)

\* The overrides of a topic.
LEMMA ConfigApplied ==
  ASSUME NEW T, NEW I, NEW P, NEW O, NEW E, NEW R, NEW C, NEW b, b = Img(T, I, P, O, E, R, C),
         NEW rec
  PROVE  ApplyTopicConfig(b, rec) = Img(T, I, P, O, E, R, ConfigsAfter(C, rec))
<1> DEFINE x == ConfigsAfter(b.configs, rec)
<1>1. ApplyTopicConfig(b, rec) = [b EXCEPT !.configs = x]
  BY DEF ApplyTopicConfig, ConfigsAfter
<1>2. x = ConfigsAfter(C, rec)
  BY ImgFields
<1> HIDE DEF x
<1>3. [b EXCEPT !.configs = x] = Img(T, I, P, O, E, R, x)
  BY DEF Img
<1> QED
  BY <1>1, <1>2, <1>3

PartsAssigned(P, rec) ==
  [k \in DOMAIN P |->
     IF k = <<rec.topic, rec.index>> /\ rec.broker \in ToSet(P[k].replicas)
       THEN [P[k] EXCEPT !.dirs = Assigned(P[k], rec.broker, rec.directory)]
       ELSE P[k]]

\* The directory of a replica.
LEMMA DirApplied ==
  ASSUME NEW T, NEW I, NEW P, NEW O, NEW E, NEW R, NEW C, NEW b, b = Img(T, I, P, O, E, R, C),
         NEW rec
  PROVE  ApplyDirAssignment(b, rec) = Img(T, I, PartsAssigned(P, rec), O, E, R, C)
<1> DEFINE x == PartsAssigned(b.parts, rec)
<1>1. ApplyDirAssignment(b, rec) = [b EXCEPT !.parts = x]
  BY DEF ApplyDirAssignment, PartsAssigned
<1>2. x = PartsAssigned(P, rec)
  BY ImgFields
<1> HIDE DEF x
<1>3. [b EXCEPT !.parts = x] = Img(T, I, x, O, E, R, C)
  BY DEF Img
<1> QED
  BY <1>1, <1>2, <1>3

OffsetsAfter(O, rec) ==
  Put(O, <<rec.topic, rec.index>>,
      (IF <<rec.topic, rec.index>> \in DOMAIN O THEN O[<<rec.topic, rec.index>>] ELSE 0)
        + rec.count)

\* The offset of a diskless partition.
LEMMA OffsetApplied ==
  ASSUME NEW T, NEW I, NEW P, NEW O, NEW E, NEW R, NEW C, NEW b, b = Img(T, I, P, O, E, R, C),
         NEW rec
  PROVE  ApplyOffsetAdvance(b, rec) = Img(T, I, P, OffsetsAfter(O, rec), E, R, C)
<1> DEFINE x == OffsetsAfter(b.offsets, rec)
<1>1. ApplyOffsetAdvance(b, rec) = [b EXCEPT !.offsets = x]
  BY DEF ApplyOffsetAdvance, OffsetsAfter
<1>2. x = OffsetsAfter(O, rec)
  BY ImgFields
<1> HIDE DEF x
<1>3. [b EXCEPT !.offsets = x] = Img(T, I, P, x, E, R, C)
  BY DEF Img
<1> QED
  BY <1>1, <1>2, <1>3

-----------------------------------------------------------------------------
(* Snapshots *)

\* A map limited to some of its keys.
Limit(map, keys) == [k \in keys |-> map[k]]

\* One more key.
LEMMA LimitPut ==
  ASSUME NEW map, NEW B, NEW key, NEW A, A = B \cup {key}
  PROVE  Put(Limit(map, B), key, map[key]) = Limit(map, A)
BY DEF Put, Limit

\* No keys, and all of them.
LEMMA LimitEnds ==
  ASSUME NEW map
  PROVE  /\ Limit(map, {}) = EmptyMap
         /\ map = [k \in DOMAIN map |-> map[k]] => Limit(map, DOMAIN map) = map
BY DEF Limit, EmptyMap

\* The records of a finite map are finite.
LEMMA RecordsFinite ==
  ASSUME NEW D, IsFiniteSet(D), NEW f, DOMAIN f = D, NEW S, S = {f[d] : d \in D}
  PROVE  Log!IsFiniteSet(S)
<1>1. [d \in D |-> f[d]] \in Surjection(D, S)
  BY DEF Surjection
<1>2. IsFiniteSet(S)
  BY <1>1, FS_Surjection
<1> QED
  BY <1>2 DEF IsFiniteSet, Log!IsFiniteSet

\* The topics as they are before the partitions are counted.
Uncounted(T) == [t \in DOMAIN T |-> [id |-> T[t].id, partitions |-> 0, factor |-> T[t].factor]]

\* The topic records of a snapshot restore the topics and their ids.
LEMMA TopicsLoaded ==
  ASSUME NEW img, TopicImg(img)
  PROVE  Log!Replay(NewImage, {TopicRecord(img, t) : t \in DOMAIN img.topics})
           = Img(Uncounted(img.topics), img.ids, EmptyMap, EmptyMap, EmptyMap, EmptyMap, EmptyMap)
<1> DEFINE T == img.topics
           I == img.ids
           U == Uncounted(T)
           S == {TopicRecord(img, t) : t \in DOMAIN T}
           Names(s) == {rec.topic : rec \in s}
           Ids(s) == {rec.id : rec \in s}
           Of7(a, b) == Img(a, b, EmptyMap, EmptyMap, EmptyMap, EmptyMap, EmptyMap)
           h == [s \in SUBSET S |-> Of7(Limit(U, Names(s)), Limit(I, Ids(s)))]
<1>0. TopicsOK(T, I)
  BY DEF TopicImg
<1>1. Log!IsFiniteSet(S)
  <2> DEFINE f == [t \in DOMAIN T |-> TopicRecord(img, t)]
  <2>1. S = {f[t] : t \in DOMAIN T} /\ DOMAIN f = DOMAIN T
    OBVIOUS
  <2> HIDE DEF f, S
  <2> QED BY <1>0, <2>1, RecordsFinite DEF TopicsOK
<1>2. Log!Tracks(h, NewImage, S)
  <2>1. h[{}] = NewImage
    <3>1. h[{}] = Of7(Limit(U, {}), Limit(I, {}))
      OBVIOUS
    <3> QED BY <3>1, LimitEnds DEF NewImage, Img
  <2>2. ASSUME NEW s \in SUBSET S, NEW x \in s
        PROVE  h[s] = Apply(h[s \ {x}], x)
    <3>1. PICK t \in DOMAIN T : x = TopicRecord(img, t)
      OBVIOUS
    <3> DEFINE A == Names(s)
               B == Names(s \ {x})
               K == Ids(s)
               L == Ids(s \ {x})
               b == Of7(Limit(U, B), Limit(I, L))
    <3>2. x.kind = "Topic" /\ x.topic = t /\ x.id = T[t].id /\ x.factor = T[t].factor
      BY <3>1 DEF TopicRecord
    <3>3. A = B \cup {t} /\ t \notin B /\ K = L \cup {T[t].id}
      <4>1. \A y \in s \ {x} : \E u \in DOMAIN T : u # t /\ y = TopicRecord(img, u) /\ y.topic = u
        BY <3>1 DEF TopicRecord
      <4>2. s = (s \ {x}) \cup {x}
        OBVIOUS
      <4> QED BY <3>2, <4>1, <4>2
    <3>4. h[s] = Of7(Limit(U, A), Limit(I, K)) /\ h[s \ {x}] = b
      OBVIOUS
    <3>5. U[t] = [id |-> x.id, partitions |-> 0, factor |-> x.factor] /\ I[x.id] = t
      BY <1>0, <3>2 DEF Uncounted, TopicsOK
    <3>6. DOMAIN Limit(U, B) = B
      BY DEF Limit
    <3> HIDE DEF A, B, K, L, U, T, I, S, h
    <3>7. StaleId(b, x) = {}
      <4>1. b.topics = Limit(U, B)
        BY ImgFields
      <4> QED BY <4>1, <3>2, <3>3, <3>6 DEF StaleId
    <3>8. Drop(Limit(I, L), {}) = Limit(I, L)
      BY DEF Drop, Limit
    <3>9. Apply(b, x) = ApplyTopic(b, x)
      BY <3>2 DEF Apply
    <3>10. ApplyTopic(b, x) = Of7(Put(Limit(U, B), t, U[t]), Put(Limit(I, L), x.id, I[x.id]))
      <4> DEFINE M == Limit(U, B)
                 N == Limit(I, L)
      <4> HIDE DEF b, M, N
      <4>1. b = Img(M, N, EmptyMap, EmptyMap, EmptyMap, EmptyMap, EmptyMap)
        BY DEF b, M, N
      <4>2. ApplyTopic(b, x) =
              Img(Put(M, x.topic,
                      [id |-> x.id,
                       partitions |-> IF x.topic \in DOMAIN M THEN M[x.topic].partitions ELSE 0,
                       factor |-> x.factor]),
                  Put(Drop(N, StaleId(b, x)), x.id, x.topic),
                  EmptyMap, EmptyMap, EmptyMap, EmptyMap, EmptyMap)
        BY <4>1, TopicApplied
      <4>3. x.topic \notin DOMAIN M /\ Drop(N, StaleId(b, x)) = N
        BY <3>2, <3>3, <3>6, <3>7, <3>8 DEF M, N
      <4> QED BY <4>2, <4>3, <3>2, <3>5 DEF M, N
    <3>11. Put(Limit(U, B), t, U[t]) = Limit(U, A)
      BY <3>3, LimitPut
    <3>12. Put(Limit(I, L), x.id, I[x.id]) = Limit(I, K)
      <4>1. K = L \cup {x.id}
        BY <3>2, <3>3
      <4> QED BY <4>1, LimitPut
    <3> QED
      BY <3>4, <3>9, <3>10, <3>11, <3>12
  <2> HIDE DEF S
  <2>3. h = [s \in SUBSET S |-> h[s]]
    OBVIOUS
  <2> HIDE DEF h
  <2> QED
    BY <2>1, <2>2, <2>3 DEF Log!Tracks
<1>3. h[S] = Of7(U, I)
  <2>1. \A t \in DOMAIN T : TopicRecord(img, t) \in S /\ TopicRecord(img, t).topic = t
                            /\ TopicRecord(img, t).id = T[t].id
    BY DEF TopicRecord
  <2>2. Names(S) = DOMAIN T
    BY <2>1
  <2>3. Ids(S) = {T[t].id : t \in DOMAIN T}
    BY <2>1
  <2>4. Limit(U, DOMAIN T) = U /\ Limit(I, DOMAIN I) = I /\ DOMAIN I = Ids(S)
    BY <1>0, <2>3 DEF Uncounted, Limit, TopicsOK
  <2>5. h[S] = Of7(Limit(U, Names(S)), Limit(I, Ids(S)))
    OBVIOUS
  <2> HIDE DEF S, h, Names, Ids
  <2> QED
    BY <2>2, <2>4, <2>5
<1> HIDE DEF S, h
<1> QED
  BY <1>1, <1>2, <1>3, Log!ReplayIs DEF S

\* The offsets of a snapshot are advances from zero.
LEMMA OffsetsLoaded ==
  ASSUME NEW img, TopicImg(img), NEW T, NEW I, NEW P, NEW E, NEW R, NEW C,
         NEW base, base = Img(T, I, P, EmptyMap, E, R, C)
  PROVE  Log!Replay(base, OffsetRecords(img)) = Img(T, I, P, img.offsets, E, R, C)
<1> DEFINE map == img.offsets
           Rec(k) == [kind |-> "OffsetAdvance", topic |-> k[1], index |-> k[2], count |-> map[k]]
           S == {Rec(k) : k \in DOMAIN map}
           Keys(s) == {<<rec.topic, rec.index>> : rec \in s}
           h == [s \in SUBSET S |-> Img(T, I, P, Limit(map, Keys(s)), E, R, C)]
<1>0. OffsetsOK(map)
  BY DEF TopicImg
<1>1. Log!IsFiniteSet(S)
  <2> DEFINE f == [k \in DOMAIN map |-> Rec(k)]
  <2>1. S = {f[k] : k \in DOMAIN map} /\ DOMAIN f = DOMAIN map
    OBVIOUS
  <2> HIDE DEF f, S
  <2> QED BY <1>0, <2>1, RecordsFinite DEF OffsetsOK, KeyMap
<1>2. Log!Tracks(h, base, S)
  <2>1. h[{}] = base
    <3>1. Keys({}) = {}
      OBVIOUS
    <3>2. h[{}] = Img(T, I, P, Limit(map, Keys({})), E, R, C)
      OBVIOUS
    <3> HIDE DEF h, Keys
    <3> QED BY <3>1, <3>2, LimitEnds
  <2>2. ASSUME NEW s \in SUBSET S, NEW x \in s
        PROVE  h[s] = Apply(h[s \ {x}], x)
    <3>1. PICK k \in DOMAIN map : x = Rec(k)
      OBVIOUS
    <3> DEFINE A == Keys(s)
               B == Keys(s \ {x})
               b == h[s \ {x}]
    <3>2. x.kind = "OffsetAdvance" /\ <<x.topic, x.index>> = k /\ x.count = map[k]
      BY <1>0, <3>1 DEF OffsetsOK, KeyMap, IsKey
    <3>3. A = B \cup {k} /\ k \notin B
      <4>1. \A y \in s \ {x} : \E j \in DOMAIN map : j # k /\ y = Rec(j) /\ <<y.topic, y.index>> = j
        BY <1>0, <3>1 DEF OffsetsOK, KeyMap, IsKey
      <4>2. s = (s \ {x}) \cup {x}
        OBVIOUS
      <4> QED BY <3>2, <4>1, <4>2
    <3>4. h[s] = Img(T, I, P, Limit(map, A), E, R, C) /\ b = Img(T, I, P, Limit(map, B), E, R, C)
      OBVIOUS
    <3>5. DOMAIN Limit(map, B) = B
      BY DEF Limit
    <3>6. map[k] \in Nat
      BY <1>0 DEF OffsetsOK
    <3> HIDE DEF A, B, S, h, map, b
    <3>7. OffsetsAfter(Limit(map, B), x) = Put(Limit(map, B), k, map[k])
      BY <3>2, <3>3, <3>5, <3>6 DEF OffsetsAfter
    <3>8. Apply(b, x) = ApplyOffsetAdvance(b, x)
      BY <3>2 DEF Apply
    <3>9. ApplyOffsetAdvance(b, x) = Img(T, I, P, OffsetsAfter(Limit(map, B), x), E, R, C)
      BY <3>4, OffsetApplied
    <3>10. Put(Limit(map, B), k, map[k]) = Limit(map, A)
      BY <3>3, LimitPut
    <3> QED
      BY <3>4, <3>7, <3>8, <3>9, <3>10 DEF b
  <2> HIDE DEF S
  <2>3. h = [s \in SUBSET S |-> h[s]]
    OBVIOUS
  <2> HIDE DEF h
  <2> QED
    BY <2>1, <2>2, <2>3 DEF Log!Tracks
<1>3. h[S] = Img(T, I, P, map, E, R, C)
  <2>1. Keys(S) = DOMAIN map
    <3>1. \A k \in DOMAIN map : Rec(k) \in S /\ <<Rec(k).topic, Rec(k).index>> = k
      BY <1>0 DEF OffsetsOK, KeyMap, IsKey
    <3>2. \A rec \in S : <<rec.topic, rec.index>> \in DOMAIN map
      BY <3>1
    <3>3. \A k \in DOMAIN map : \E rec \in S : <<rec.topic, rec.index>> = k
      BY <3>1
    <3> HIDE DEF S, Rec
    <3>4. DOMAIN map \subseteq Keys(S)
      BY <3>3
    <3>5. Keys(S) \subseteq DOMAIN map
      BY <3>2
    <3> QED BY <3>4, <3>5
  <2>2. h[S] = Img(T, I, P, Limit(map, Keys(S)), E, R, C)
    OBVIOUS
  <2> HIDE DEF S, h, Keys, map
  <2> QED
    BY <1>0, <2>1, <2>2, LimitEnds DEF OffsetsOK, KeyMap
<1>4. S = OffsetRecords(img)
  BY DEF OffsetRecords
<1> HIDE DEF S, h
<1> QED
  BY <1>1, <1>2, <1>3, <1>4, Log!ReplayIs

\* The eligible leader replicas of a snapshot.
LEMMA ElrLoaded ==
  ASSUME NEW img, TopicImg(img), NEW T, NEW I, NEW P, NEW O, NEW R, NEW C,
         NEW base, base = Img(T, I, P, O, EmptyMap, R, C)
  PROVE  Log!Replay(base, AuxiliarySections(img)[2]) = Img(T, I, P, O, img.elr, R, C)
<1> DEFINE map == img.elr
           Rec(k) == [kind |-> "PartitionElr", topic |-> k[1], index |-> k[2],
                      eligible |-> map[k][1], lastKnown |-> map[k][2]]
           S == {Rec(k) : k \in DOMAIN map}
           Keys(s) == {<<rec.topic, rec.index>> : rec \in s}
           h == [s \in SUBSET S |-> Img(T, I, P, O, Limit(map, Keys(s)), R, C)]
<1>0. ElrOK(map)
  BY DEF TopicImg
<1>1. Log!IsFiniteSet(S)
  <2> DEFINE f == [k \in DOMAIN map |-> Rec(k)]
  <2>1. S = {f[k] : k \in DOMAIN map} /\ DOMAIN f = DOMAIN map
    OBVIOUS
  <2> HIDE DEF f, S
  <2> QED BY <1>0, <2>1, RecordsFinite DEF ElrOK, KeyMap
<1>2. Log!Tracks(h, base, S)
  <2>1. h[{}] = base
    <3>1. Keys({}) = {}
      OBVIOUS
    <3>2. h[{}] = Img(T, I, P, O, Limit(map, Keys({})), R, C)
      OBVIOUS
    <3> HIDE DEF h, Keys
    <3> QED BY <3>1, <3>2, LimitEnds
  <2>2. ASSUME NEW s \in SUBSET S, NEW x \in s
        PROVE  h[s] = Apply(h[s \ {x}], x)
    <3>1. PICK k \in DOMAIN map : x = Rec(k)
      OBVIOUS
    <3> DEFINE A == Keys(s)
               B == Keys(s \ {x})
               b == h[s \ {x}]
    <3>2. /\ x.kind = "PartitionElr" /\ <<x.topic, x.index>> = k
          /\ x.eligible = map[k][1] /\ x.lastKnown = map[k][2]
      BY <1>0, <3>1 DEF ElrOK, KeyMap, IsKey
    <3>3. A = B \cup {k} /\ k \notin B
      <4>1. \A y \in s \ {x} : \E j \in DOMAIN map : j # k /\ y = Rec(j) /\ <<y.topic, y.index>> = j
        BY <1>0, <3>1 DEF ElrOK, KeyMap, IsKey
      <4>2. s = (s \ {x}) \cup {x}
        OBVIOUS
      <4> QED BY <3>2, <4>1, <4>2
    <3>4. h[s] = Img(T, I, P, O, Limit(map, A), R, C) /\ b = Img(T, I, P, O, Limit(map, B), R, C)
      OBVIOUS
    <3>5. DOMAIN Limit(map, B) = B
      BY DEF Limit
    <3>6. map[k] = <<map[k][1], map[k][2]>> /\ map[k] # <<{}, {}>>
      BY <1>0 DEF ElrOK
    <3> HIDE DEF A, B, S, h, map, b
    <3>7. ElrAfter(Limit(map, B), k, x.eligible, x.lastKnown) = Put(Limit(map, B), k, map[k])
      BY <3>2, <3>3, <3>5, <3>6 DEF ElrAfter
    <3>8. Apply(b, x) = ApplyElr(b, k, x.eligible, x.lastKnown)
      BY <3>2 DEF Apply
    <3>9. ApplyElr(b, k, x.eligible, x.lastKnown) = Img(T, I, P, O, ElrAfter(Limit(map, B), k, x.eligible, x.lastKnown), R, C)
      BY <3>4, ElrApplied
    <3>10. Put(Limit(map, B), k, map[k]) = Limit(map, A)
      BY <3>3, LimitPut
    <3> QED
      BY <3>4, <3>7, <3>8, <3>9, <3>10 DEF b
  <2> HIDE DEF S
  <2>3. h = [s \in SUBSET S |-> h[s]]
    OBVIOUS
  <2> HIDE DEF h
  <2> QED
    BY <2>1, <2>2, <2>3 DEF Log!Tracks
<1>3. h[S] = Img(T, I, P, O, map, R, C)
  <2>1. Keys(S) = DOMAIN map
    <3>1. \A k \in DOMAIN map : Rec(k) \in S /\ <<Rec(k).topic, Rec(k).index>> = k
      BY <1>0 DEF ElrOK, KeyMap, IsKey
    <3>2. \A rec \in S : <<rec.topic, rec.index>> \in DOMAIN map
      BY <3>1
    <3>3. \A k \in DOMAIN map : \E rec \in S : <<rec.topic, rec.index>> = k
      BY <3>1
    <3> HIDE DEF S, Rec
    <3>4. DOMAIN map \subseteq Keys(S)
      BY <3>3
    <3>5. Keys(S) \subseteq DOMAIN map
      BY <3>2
    <3> QED BY <3>4, <3>5
  <2>2. h[S] = Img(T, I, P, O, Limit(map, Keys(S)), R, C)
    OBVIOUS
  <2> HIDE DEF S, h, Keys, map
  <2> QED
    BY <1>0, <2>1, <2>2, LimitEnds DEF ElrOK, KeyMap
<1>4. S = AuxiliarySections(img)[2]
  BY DEF AuxiliarySections
<1> HIDE DEF S, h
<1> QED
  BY <1>1, <1>2, <1>3, <1>4, Log!ReplayIs

\* The recoveries of a snapshot.
LEMMA RecoveryLoaded ==
  ASSUME NEW img, TopicImg(img), NEW T, NEW I, NEW P, NEW O, NEW E, NEW C,
         NEW base, base = Img(T, I, P, O, E, EmptyMap, C)
  PROVE  Log!Replay(base, AuxiliarySections(img)[3]) = Img(T, I, P, O, E, img.recovery, C)
<1> DEFINE map == img.recovery
           Rec(k) == [kind |-> "PartitionRecovery", topic |-> k[1], index |-> k[2],
                      state |-> map[k]]
           S == {Rec(k) : k \in DOMAIN map}
           Keys(s) == {<<rec.topic, rec.index>> : rec \in s}
           h == [s \in SUBSET S |-> Img(T, I, P, O, E, Limit(map, Keys(s)), C)]
<1>0. RecoveryOK(map)
  BY DEF TopicImg
<1>1. Log!IsFiniteSet(S)
  <2> DEFINE f == [k \in DOMAIN map |-> Rec(k)]
  <2>1. S = {f[k] : k \in DOMAIN map} /\ DOMAIN f = DOMAIN map
    OBVIOUS
  <2> HIDE DEF f, S
  <2> QED BY <1>0, <2>1, RecordsFinite DEF RecoveryOK, KeyMap
<1>2. Log!Tracks(h, base, S)
  <2>1. h[{}] = base
    <3>1. Keys({}) = {}
      OBVIOUS
    <3>2. h[{}] = Img(T, I, P, O, E, Limit(map, Keys({})), C)
      OBVIOUS
    <3> HIDE DEF h, Keys
    <3> QED BY <3>1, <3>2, LimitEnds
  <2>2. ASSUME NEW s \in SUBSET S, NEW x \in s
        PROVE  h[s] = Apply(h[s \ {x}], x)
    <3>1. PICK k \in DOMAIN map : x = Rec(k)
      OBVIOUS
    <3> DEFINE A == Keys(s)
               B == Keys(s \ {x})
               b == h[s \ {x}]
    <3>2. x.kind = "PartitionRecovery" /\ <<x.topic, x.index>> = k /\ x.state = map[k]
      BY <1>0, <3>1 DEF RecoveryOK, KeyMap, IsKey
    <3>3. A = B \cup {k} /\ k \notin B
      <4>1. \A y \in s \ {x} : \E j \in DOMAIN map : j # k /\ y = Rec(j) /\ <<y.topic, y.index>> = j
        BY <1>0, <3>1 DEF RecoveryOK, KeyMap, IsKey
      <4>2. s = (s \ {x}) \cup {x}
        OBVIOUS
      <4> QED BY <3>2, <4>1, <4>2
    <3>4. h[s] = Img(T, I, P, O, E, Limit(map, A), C) /\ b = Img(T, I, P, O, E, Limit(map, B), C)
      OBVIOUS
    <3>5. DOMAIN Limit(map, B) = B
      BY DEF Limit
    <3>6. map[k] = "recovering"
      BY <1>0 DEF RecoveryOK
    <3> HIDE DEF A, B, S, h, map, b
    <3>7. RecoveryAfter(Limit(map, B), k, x.state) = Put(Limit(map, B), k, map[k])
      BY <3>2, <3>3, <3>5, <3>6 DEF RecoveryAfter
    <3>8. Apply(b, x) = ApplyRecovery(b, k, x.state)
      BY <3>2 DEF Apply
    <3>9. ApplyRecovery(b, k, x.state) = Img(T, I, P, O, E, RecoveryAfter(Limit(map, B), k, x.state), C)
      BY <3>4, RecoveryApplied
    <3>10. Put(Limit(map, B), k, map[k]) = Limit(map, A)
      BY <3>3, LimitPut
    <3> QED
      BY <3>4, <3>7, <3>8, <3>9, <3>10 DEF b
  <2> HIDE DEF S
  <2>3. h = [s \in SUBSET S |-> h[s]]
    OBVIOUS
  <2> HIDE DEF h
  <2> QED
    BY <2>1, <2>2, <2>3 DEF Log!Tracks
<1>3. h[S] = Img(T, I, P, O, E, map, C)
  <2>1. Keys(S) = DOMAIN map
    <3>1. \A k \in DOMAIN map : Rec(k) \in S /\ <<Rec(k).topic, Rec(k).index>> = k
      BY <1>0 DEF RecoveryOK, KeyMap, IsKey
    <3>2. \A rec \in S : <<rec.topic, rec.index>> \in DOMAIN map
      BY <3>1
    <3>3. \A k \in DOMAIN map : \E rec \in S : <<rec.topic, rec.index>> = k
      BY <3>1
    <3> HIDE DEF S, Rec
    <3>4. DOMAIN map \subseteq Keys(S)
      BY <3>3
    <3>5. Keys(S) \subseteq DOMAIN map
      BY <3>2
    <3> QED BY <3>4, <3>5
  <2>2. h[S] = Img(T, I, P, O, E, Limit(map, Keys(S)), C)
    OBVIOUS
  <2> HIDE DEF S, h, Keys, map
  <2> QED
    BY <1>0, <2>1, <2>2, LimitEnds DEF RecoveryOK, KeyMap
<1>4. S = AuxiliarySections(img)[3]
  BY DEF AuxiliarySections
<1> HIDE DEF S, h
<1> QED
  BY <1>1, <1>2, <1>3, <1>4, Log!ReplayIs

\* The topic configs of a snapshot.
LEMMA ConfigsLoaded ==
  ASSUME NEW img, TopicImg(img), NEW T, NEW I, NEW P, NEW O, NEW E, NEW R,
         NEW base, base = Img(T, I, P, O, E, R, EmptyMap)
  PROVE  Log!Replay(base, AuxiliarySections(img)[4]) = Img(T, I, P, O, E, R, img.configs)
<1> DEFINE map == img.configs
           Rec(k) == [kind |-> "TopicConfig", topic |-> k, overrides |-> map[k]]
           S == {Rec(k) : k \in DOMAIN map}
           Keys(s) == {rec.topic : rec \in s}
           h == [s \in SUBSET S |-> Img(T, I, P, O, E, R, Limit(map, Keys(s)))]
<1>0. ConfigsOK(map)
  BY DEF TopicImg
<1>1. Log!IsFiniteSet(S)
  <2> DEFINE f == [k \in DOMAIN map |-> Rec(k)]
  <2>1. S = {f[k] : k \in DOMAIN map} /\ DOMAIN f = DOMAIN map
    OBVIOUS
  <2> HIDE DEF f, S
  <2> QED BY <1>0, <2>1, RecordsFinite DEF ConfigsOK, KeyMap
<1>2. Log!Tracks(h, base, S)
  <2>1. h[{}] = base
    <3>1. Keys({}) = {}
      OBVIOUS
    <3>2. h[{}] = Img(T, I, P, O, E, R, Limit(map, Keys({})))
      OBVIOUS
    <3> HIDE DEF h, Keys
    <3> QED BY <3>1, <3>2, LimitEnds
  <2>2. ASSUME NEW s \in SUBSET S, NEW x \in s
        PROVE  h[s] = Apply(h[s \ {x}], x)
    <3>1. PICK k \in DOMAIN map : x = Rec(k)
      OBVIOUS
    <3> DEFINE A == Keys(s)
               B == Keys(s \ {x})
               b == h[s \ {x}]
    <3>2. x.kind = "TopicConfig" /\ x.topic = k /\ x.overrides = map[k]
      BY <1>0, <3>1 DEF ConfigsOK, KeyMap, IsKey
    <3>3. A = B \cup {k} /\ k \notin B
      <4>1. \A y \in s \ {x} : \E j \in DOMAIN map : j # k /\ y = Rec(j) /\ y.topic = j
        BY <1>0, <3>1 DEF ConfigsOK, KeyMap, IsKey
      <4>2. s = (s \ {x}) \cup {x}
        OBVIOUS
      <4> QED BY <3>2, <4>1, <4>2
    <3>4. h[s] = Img(T, I, P, O, E, R, Limit(map, A)) /\ b = Img(T, I, P, O, E, R, Limit(map, B))
      OBVIOUS
    <3>5. DOMAIN Limit(map, B) = B
      BY DEF Limit
    <3>6. map[k] # {}
      BY <1>0 DEF ConfigsOK
    <3> HIDE DEF A, B, S, h, map, b
    <3>7. ConfigsAfter(Limit(map, B), x) = Put(Limit(map, B), k, map[k])
      BY <3>2, <3>3, <3>5, <3>6 DEF ConfigsAfter
    <3>8. Apply(b, x) = ApplyTopicConfig(b, x)
      BY <3>2 DEF Apply
    <3>9. ApplyTopicConfig(b, x) = Img(T, I, P, O, E, R, ConfigsAfter(Limit(map, B), x))
      BY <3>4, ConfigApplied
    <3>10. Put(Limit(map, B), k, map[k]) = Limit(map, A)
      BY <3>3, LimitPut
    <3> QED
      BY <3>4, <3>7, <3>8, <3>9, <3>10 DEF b
  <2> HIDE DEF S
  <2>3. h = [s \in SUBSET S |-> h[s]]
    OBVIOUS
  <2> HIDE DEF h
  <2> QED
    BY <2>1, <2>2, <2>3 DEF Log!Tracks
<1>3. h[S] = Img(T, I, P, O, E, R, map)
  <2>1. Keys(S) = DOMAIN map
    <3>1. \A k \in DOMAIN map : Rec(k) \in S /\ Rec(k).topic = k
      BY <1>0 DEF ConfigsOK, KeyMap, IsKey
    <3>2. \A rec \in S : rec.topic \in DOMAIN map
      BY <3>1
    <3>3. \A k \in DOMAIN map : \E rec \in S : rec.topic = k
      BY <3>1
    <3> HIDE DEF S, Rec
    <3>4. DOMAIN map \subseteq Keys(S)
      BY <3>3
    <3>5. Keys(S) \subseteq DOMAIN map
      BY <3>2
    <3> QED BY <3>4, <3>5
  <2>2. h[S] = Img(T, I, P, O, E, R, Limit(map, Keys(S)))
    OBVIOUS
  <2> HIDE DEF S, h, Keys, map
  <2> QED
    BY <1>0, <2>1, <2>2, LimitEnds DEF ConfigsOK, KeyMap
<1>4. S = AuxiliarySections(img)[4]
  BY DEF AuxiliarySections
<1> HIDE DEF S, h
<1> QED
  BY <1>1, <1>2, <1>3, <1>4, Log!ReplayIs

\* How many partitions a topic has after one more was inserted.
LEMMA OfPut ==
  ASSUME NEW P, IsFiniteSet(DOMAIN P), NEW key, NEW value, NEW t
  PROVE  /\ IsFiniteSet(Of(t, P)) /\ Cardinality(Of(t, P)) \in Nat
         /\ Cardinality(Of(t, Put(P, key, value))) =
              IF t = key[1] /\ key \notin DOMAIN P THEN Cardinality(Of(t, P)) + 1
              ELSE Cardinality(Of(t, P))
<1>1. IsFiniteSet(Of(t, P)) /\ Cardinality(Of(t, P)) \in Nat
  BY FS_Subset, FS_CardinalityType DEF Of
<1>2. DOMAIN Put(P, key, value) = DOMAIN P \cup {key}
  BY DEF Put
<1>3. CASE t = key[1] /\ key \notin DOMAIN P
  <2>1. Of(t, Put(P, key, value)) = Of(t, P) \cup {key} /\ key \notin Of(t, P)
    BY <1>2, <1>3 DEF Of
  <2> QED BY <1>1, <1>3, <2>1, FS_AddElement
<1>4. CASE ~(t = key[1] /\ key \notin DOMAIN P)
  <2>1. Of(t, Put(P, key, value)) = Of(t, P)
    BY <1>2, <1>4 DEF Of
  <2> QED BY <1>1, <1>4, <2>1
<1> QED
  BY <1>3, <1>4

\* Topics whose count is that of their partitions.
Counted(T, P, F) ==
  [t \in DOMAIN T |->
     [id |-> T[t].id, partitions |-> Cardinality(Of(t, P)), factor |-> F[t]]]

\* A partition that was not there is counted.
LEMMA PlacedCounted ==
  ASSUME NEW T, NEW P, IsFiniteSet(DOMAIN P), NEW F, NEW G, NEW rec, NEW key,
         key = <<rec.topic, rec.index>>, key \notin DOMAIN P,
         \A t \in DOMAIN T :
           G[t] = IF t = rec.topic THEN Len(rec.partition.replicas) ELSE F[t]
  PROVE  TopicsCounted(Counted(T, P, F), P, rec) = Counted(T, Put(P, key, rec.partition), G)
<1> DEFINE new == Put(P, key, rec.partition)
<1>1. key[1] = rec.topic
  OBVIOUS
<1>2. ASSUME NEW t \in DOMAIN T
      PROVE  TopicsCounted(Counted(T, P, F), P, rec)[t] = Counted(T, new, G)[t]
  <2> DEFINE n == Cardinality(Of(t, P))
             old == [id |-> T[t].id, partitions |-> n, factor |-> F[t]]
             size == Len(rec.partition.replicas)
  <2>1. Counted(T, P, F)[t] = old /\ DOMAIN Counted(T, P, F) = DOMAIN T
    BY DEF Counted
  <2>2. Counted(T, new, G)[t] =
          [id |-> T[t].id, partitions |-> Cardinality(Of(t, new)), factor |-> G[t]]
    BY DEF Counted
  <2>3. TopicsCounted(Counted(T, P, F), P, rec)[t] =
          IF t = rec.topic THEN Recounted(old, TRUE, rec.partition) ELSE old
    BY <2>1 DEF TopicsCounted
  <2> HIDE DEF n, old, new
  <2>4. CASE t = rec.topic
    <3>1. Cardinality(Of(t, new)) = n + 1 /\ G[t] = size
      BY <1>1, <2>4, OfPut DEF new, n
    <3>2. Recounted(old, TRUE, rec.partition) = [old EXCEPT !.partitions = n + 1, !.factor = size]
      BY DEF Recounted, old
    <3> HIDE DEF size
    <3>3. [old EXCEPT !.partitions = n + 1, !.factor = size]
            = [id |-> T[t].id, partitions |-> n + 1, factor |-> size]
      <4> DEFINE c == [old EXCEPT !.partitions = n + 1, !.factor = size]
      <4>1. DOMAIN c = {"id", "partitions", "factor"}
        BY DEF old
      <4>2. c.id = T[t].id /\ c.partitions = n + 1 /\ c.factor = size
        BY DEF old
      <4>3. c = [y \in DOMAIN c |-> c[y]]
        OBVIOUS
      <4> HIDE DEF c
      <4>4. c = [id |-> T[t].id, partitions |-> n + 1, factor |-> size]
        BY <4>1, <4>2, <4>3
      <4> QED BY <4>4 DEF c
    <3> QED BY <2>2, <2>3, <2>4, <3>1, <3>2, <3>3
  <2>5. CASE t # rec.topic
    <3>1. Cardinality(Of(t, new)) = n /\ G[t] = F[t]
      BY <1>1, <2>5, OfPut DEF new, n
    <3> QED BY <2>2, <2>3, <2>5, <3>1 DEF old
  <2> QED BY <2>4, <2>5
<1>3. TopicsCounted(Counted(T, P, F), P, rec)
        = [t \in DOMAIN T |-> TopicsCounted(Counted(T, P, F), P, rec)[t]]
  BY DEF TopicsCounted, Counted
<1>4. Counted(T, new, G) = [t \in DOMAIN T |-> Counted(T, new, G)[t]]
  BY DEF Counted
<1> HIDE DEF new
<1>5. TopicsCounted(Counted(T, P, F), P, rec) = Counted(T, new, G)
  BY <1>2, <1>3, <1>4
<1> QED
  BY <1>5 DEF new

\* A snapshot of which the topics and some partitions are loaded.
Partial(img, P, F) ==
  Img(Counted(img.topics, P, F), img.ids, P, EmptyMap, EmptyMap, EmptyMap, EmptyMap)

UpTo(img, n) == Limit(img.parts, {k \in DOMAIN img.parts : k[2] < n})

\* A section of partition records, one for each topic that has so many.
LEMMA PartitionsLoaded ==
  ASSUME NEW img, TopicImg(img), MaxPartitions \in Nat, NEW n \in 1..MaxPartitions, NEW F,
         NEW base, base = Partial(img, UpTo(img, n - 1), F)
  PROVE  \E G : Log!Replay(base, PartitionSections(img)[n]) = Partial(img, UpTo(img, n), G)
<1> DEFINE T == img.topics
           P == img.parts
           Rec(k) == PartitionRecord(k, P[k])
           D == {k \in DOMAIN P : k[2] = n - 1}
           D0 == {k \in DOMAIN P : k[2] < n - 1}
           S == {Rec(k) : k \in D}
           Keys(s) == {<<rec.topic, rec.index>> : rec \in s}
           Fac(K) == [t \in DOMAIN T |-> IF <<t, n - 1>> \in K
                                           THEN Len(P[<<t, n - 1>>].replicas) ELSE F[t]]
           H(K) == Partial(img, Limit(P, D0 \cup K), Fac(K))
           h == [s \in SUBSET S |-> H(Keys(s))]
<1>0. /\ KeyMap(P) /\ IsFiniteSet(DOMAIN P)
      /\ \A k \in DOMAIN P : k = <<k[1], k[2]>> /\ k[2] \in 0..(MaxPartitions - 1)
  BY DEF TopicImg, PartsOK, KeyMap, IsKey
<1>k. \A k \in D : /\ Rec(k).kind = "Partition" /\ Rec(k).topic = k[1] /\ Rec(k).index = k[2]
                   /\ Rec(k).partition = P[k] /\ <<Rec(k).topic, Rec(k).index>> = k
  BY <1>0 DEF PartitionRecord
<1>1. Log!IsFiniteSet(S)
  <2> DEFINE f == [k \in D |-> Rec(k)]
  <2>1. S = {f[k] : k \in D} /\ DOMAIN f = D
    OBVIOUS
  <2>2. IsFiniteSet(D)
    BY <1>0, FS_Subset
  <2> HIDE DEF f, S, D
  <2> QED BY <2>1, <2>2, RecordsFinite
<1>2. Log!Tracks(h, base, S)
  <2>1. h[{}] = base
    <3>1. Keys({}) = {} /\ D0 \cup {} = D0
      OBVIOUS
    <3>2. h[{}] = H(Keys({}))
      OBVIOUS
    <3>3. Limit(P, D0) = UpTo(img, n - 1)
      BY DEF UpTo
    <3>4. \A Q : Counted(T, Q, Fac({})) = Counted(T, Q, F)
      BY DEF Counted
    <3> HIDE DEF h, Keys, D0, Fac
    <3> QED BY <3>1, <3>2, <3>3, <3>4 DEF Partial
  <2>2. ASSUME NEW s \in SUBSET S, NEW x \in s
        PROVE  h[s] = Apply(h[s \ {x}], x)
    <3>1. PICK k \in D : x = Rec(k)
      OBVIOUS
    <3> DEFINE A == Keys(s)
               B == Keys(s \ {x})
               b == h[s \ {x}]
               M == Limit(P, D0 \cup B)
    <3>2. x.kind = "Partition" /\ x.topic = k[1] /\ x.index = k[2] /\ x.partition = P[k]
          /\ <<x.topic, x.index>> = k /\ k[2] = n - 1 /\ k = <<x.topic, n - 1>>
      BY <1>k, <3>1
    <3>3. A = B \cup {k} /\ k \notin B /\ B \subseteq DOMAIN P
      <4>1. \A y \in s \ {x} : \E j \in D : j # k /\ y = Rec(j) /\ <<y.topic, y.index>> = j
        BY <1>k, <3>1
      <4>2. s = (s \ {x}) \cup {x}
        OBVIOUS
      <4> QED BY <3>2, <4>1, <4>2
    <3>4. h[s] = H(A) /\ b = H(B)
      OBVIOUS
    <3>5. DOMAIN M = D0 \cup B /\ k \notin D0 /\ D0 \subseteq DOMAIN P
      BY <3>2 DEF Limit
    <3>6. IsFiniteSet(DOMAIN M)
      BY <1>0, <3>3, <3>5, FS_Subset
    <3>7. \A t \in DOMAIN T :
            Fac(A)[t] = IF t = x.topic THEN Len(x.partition.replicas) ELSE Fac(B)[t]
      <4> HIDE DEF A, B, P, T
      <4>1. ASSUME NEW t \in DOMAIN T, t = x.topic
            PROVE  Fac(A)[t] = Len(x.partition.replicas)
        BY <3>2, <3>3, <4>1
      <4>2. ASSUME NEW t \in DOMAIN T, t # x.topic
            PROVE  Fac(A)[t] = Fac(B)[t]
        <5>1. <<t, n - 1>> # k
          BY <3>2, <4>2
        <5> QED BY <3>3, <5>1
      <4> QED BY <4>1, <4>2
    <3> DEFINE FA == Fac(A)
               FB == Fac(B)
    <3> HIDE DEF A, B, S, h, T, P, b, D0, D, FA, FB
    <3>8. Put(M, k, P[k]) = Limit(P, D0 \cup A)
      <4>1. D0 \cup A = (D0 \cup B) \cup {k}
        BY <3>3
      <4> QED BY <4>1, LimitPut
    <3> HIDE DEF M
    <3>9. b = Img(Counted(T, M, FB), img.ids, M, EmptyMap, EmptyMap, EmptyMap, EmptyMap)
      BY <3>4 DEF M, FB, Partial, T
    <3>10. Apply(b, x) = ApplyPartition(b, x)
      BY <3>2 DEF Apply
    <3>11. ApplyPartition(b, x) =
             Img(TopicsCounted(Counted(T, M, FB), M, x), img.ids,
                 Put(M, <<x.topic, x.index>>, x.partition),
                 EmptyMap, EmptyMap, EmptyMap, EmptyMap)
      BY <3>9, PartitionApplied
    <3>12. TopicsCounted(Counted(T, M, FB), M, x) = Counted(T, Put(M, k, x.partition), FA)
      <4>1. \A t \in DOMAIN T :
              FA[t] = IF t = x.topic THEN Len(x.partition.replicas) ELSE FB[t]
        BY <3>7 DEF FA, FB
      <4>2. k \notin DOMAIN M /\ k = <<x.topic, x.index>>
        BY <3>2, <3>3, <3>5
      <4> QED BY <3>6, <4>1, <4>2, PlacedCounted
    <3> QED
      BY <3>2, <3>4, <3>8, <3>10, <3>11, <3>12 DEF Partial, FA, b, T
  <2> HIDE DEF S
  <2>3. h = [s \in SUBSET S |-> h[s]]
    OBVIOUS
  <2> HIDE DEF h
  <2> QED
    BY <2>1, <2>2, <2>3 DEF Log!Tracks
<1>3. h[S] = Partial(img, UpTo(img, n), Fac(D))
  <2>1. Keys(S) = D
    <3>1. \A rec \in S : <<rec.topic, rec.index>> \in D
      BY <1>k
    <3>2. \A k \in D : \E rec \in S : <<rec.topic, rec.index>> = k
      BY <1>k
    <3> HIDE DEF S, D
    <3>3. Keys(S) \subseteq D
      BY <3>1
    <3>4. D \subseteq Keys(S)
      BY <3>2
    <3> QED BY <3>3, <3>4
  <2>2. h[S] = H(Keys(S))
    OBVIOUS
  <2>3. D0 \cup D = {k \in DOMAIN P : k[2] < n}
    BY <1>0
  <2> HIDE DEF S, h, Keys, D
  <2> QED
    BY <2>1, <2>2, <2>3 DEF UpTo
<1>4. S = PartitionSections(img)[n]
  BY DEF PartitionSections
<1> HIDE DEF S, h, Fac
<1>5. Log!Replay(base, PartitionSections(img)[n]) = Partial(img, UpTo(img, n), Fac(D))
  BY <1>1, <1>2, <1>3, <1>4, Log!ReplayIs
<1> QED
  BY <1>5

\* u is s followed by t.
Joins(S, u, s, t) ==
  /\ u \in Seq(S)
  /\ Len(u) = Len(s) + Len(t)
  /\ \A i \in 1..Len(s) : u[i] = s[i]
  /\ \A i \in 1..Len(t) : u[Len(s) + i] = t[i]

\* A concatenation, by its elements.
LEMMA Joined ==
  ASSUME NEW S, NEW s \in Seq(S), NEW t \in Seq(S)
  PROVE  Joins(S, s \o t, s, t)
<1>1. s \o t \in Seq(S) /\ Len(s \o t) = Len(s) + Len(t)
  BY ConcatProperties
<1>2. \A i \in 1..(Len(s) + Len(t)) :
        (s \o t)[i] = IF i <= Len(s) THEN s[i] ELSE t[i - Len(s)]
  BY ConcatProperties
<1>3. Len(s) \in Nat /\ Len(t) \in Nat
  OBVIOUS
<1>4. ASSUME NEW i \in 1..Len(s) PROVE (s \o t)[i] = s[i]
  BY <1>2, <1>3
<1>5. ASSUME NEW i \in 1..Len(t) PROVE (s \o t)[Len(s) + i] = t[i]
  <2>1. Len(s) + i \in 1..(Len(s) + Len(t)) /\ ~(Len(s) + i <= Len(s)) /\ Len(s) + i - Len(s) = i
    BY <1>3
  <2> QED BY <1>2, <2>1
<1> QED
  BY <1>1, <1>4, <1>5 DEF Joins

\* u is the topics, the partitions and the rest of a snapshot, joined.
ThreeJoins(X, u, a, p, x, n) ==
  /\ Len(u) = 1 + n + 4
  /\ u \in Seq(X)
  /\ u[1] = a[1]
  /\ \A i \in 1..n : u[1 + i] = p[i]
  /\ \A i \in 1..4 : u[1 + n + i] = x[i]

\* A concatenation of three, by its elements.
LEMMA ThreeJoined ==
  ASSUME NEW X, NEW a \in Seq(X), NEW p \in Seq(X), NEW x \in Seq(X), NEW n \in Nat,
         Len(a) = 1, Len(p) = n, Len(x) = 4
  PROVE  ThreeJoins(X, (a \o p) \o x, a, p, x, n)
<1> DEFINE ap == a \o p
           all == ap \o x
<1>1. Joins(X, ap, a, p)
  BY Joined
<1> HIDE DEF ap
<1>2. ap \in Seq(X)
  BY <1>1 DEF Joins
<1>3. Joins(X, all, ap, x)
  BY <1>2, Joined
<1> HIDE DEF all
<1>4. Len(ap) = 1 + n
  BY <1>1 DEF Joins
<1>5. Len(all) = 1 + n + 4 /\ all \in Seq(X)
  BY <1>3, <1>4 DEF Joins
<1>6. all[1] = a[1]
  BY <1>1, <1>3, <1>4 DEF Joins
<1>7. ASSUME NEW i \in 1..n PROVE all[1 + i] = p[i]
  BY <1>1, <1>3, <1>4 DEF Joins
<1>8. ASSUME NEW i \in 1..4 PROVE all[1 + n + i] = x[i]
  BY <1>3, <1>4 DEF Joins
<1>9. ThreeJoins(X, all, a, p, x, n)
  BY <1>5, <1>6, <1>7, <1>8 DEF ThreeJoins
<1> QED
  BY <1>9 DEF all, ap

\* The sections of a snapshot, by their number.
LEMMA SectionsOf ==
  ASSUME NEW img, MaxPartitions \in Nat, NEW sections, sections = ToRecords(img)
  PROVE  /\ DOMAIN sections = 1..(MaxPartitions + 5)
         /\ sections[1] = {TopicRecord(img, t) : t \in DOMAIN img.topics}
         /\ \A n \in 1..MaxPartitions : sections[n + 1] = PartitionSections(img)[n]
         /\ \A n \in 1..4 : sections[MaxPartitions + 1 + n] = AuxiliarySections(img)[n]
<1> DEFINE topics == {TopicRecord(img, t) : t \in DOMAIN img.topics}
           a == <<topics>>
           p == PartitionSections(img)
           x == AuxiliarySections(img)
           X == {topics} \cup {p[n] : n \in 1..MaxPartitions} \cup {x[n] : n \in 1..4}
<1>1. sections = (a \o p) \o x
  BY DEF ToRecords
<1>2. a \in Seq(X) /\ Len(a) = 1 /\ a[1] = topics
  OBVIOUS
<1>3. p \in Seq(X) /\ Len(p) = MaxPartitions
  <2>1. p = [n \in 1..MaxPartitions |-> p[n]]
    BY DEF PartitionSections
  <2>2. \A n \in 1..MaxPartitions : p[n] \in X
    OBVIOUS
  <2> HIDE DEF p, X
  <2>3. p \in [1..MaxPartitions -> X]
    BY <2>1, <2>2
  <2> QED BY <2>3
<1>4. x \in Seq(X) /\ Len(x) = 4
  <2>1. x = <<x[1], x[2], x[3], x[4]>>
    BY DEF AuxiliarySections
  <2>2. \A n \in 1..4 : x[n] \in X
    OBVIOUS
  <2>3. x[1] \in X /\ x[2] \in X /\ x[3] \in X /\ x[4] \in X
    BY <2>2
  <2>4. \A e1, e2, e3, e4 : e1 \in X /\ e2 \in X /\ e3 \in X /\ e4 \in X
          => <<e1, e2, e3, e4>> \in Seq(X) /\ Len(<<e1, e2, e3, e4>>) = 4
    <3> HIDE DEF X
    <3> QED OBVIOUS
  <2> DEFINE x1 == x[1]
             x2 == x[2]
             x3 == x[3]
             x4 == x[4]
  <2>5. x = <<x1, x2, x3, x4>> /\ x1 \in X /\ x2 \in X /\ x3 \in X /\ x4 \in X
    BY <2>1, <2>3
  <2> HIDE DEF x, X, x1, x2, x3, x4
  <2> QED BY <2>4, <2>5
<1> HIDE DEF a, p, x, X, topics
<1> DEFINE all == (a \o p) \o x
<1>6. /\ Len(all) = 1 + MaxPartitions + 4 /\ all \in Seq(X) /\ all[1] = a[1]
      /\ \A i \in 1..MaxPartitions : all[1 + i] = p[i]
      /\ \A i \in 1..4 : all[1 + MaxPartitions + i] = x[i]
  <2>1. ThreeJoins(X, all, a, p, x, MaxPartitions)
    BY <1>2, <1>3, <1>4, ThreeJoined
  <2> HIDE DEF all
  <2> QED BY <2>1 DEF ThreeJoins
<1> HIDE DEF all
<1>7. sections = all
  BY <1>1 DEF all
<1>8. DOMAIN all = 1..(MaxPartitions + 5)
  BY <1>6
<1>9. all[1] = topics
  BY <1>2, <1>6
<1>10. ASSUME NEW n \in 1..MaxPartitions PROVE all[n + 1] = p[n]
  BY <1>6
<1>11. ASSUME NEW n \in 1..4 PROVE all[MaxPartitions + 1 + n] = x[n]
  BY <1>6
<1> QED
  BY <1>7, <1>8, <1>9, <1>10, <1>11 DEF topics, p, x

\* What from_records makes of to_records: the image, with the counts of its
\* partitions and replication factors F.
Restored(img, F) ==
  Img(Counted(img.topics, img.parts, F), img.ids, img.parts, img.offsets, img.elr,
      img.recovery, img.configs)

\* from_records after to_records gives everything back but the factors.
LEMMA TopicsRestored ==
  ASSUME NEW img, TopicImg(img), MaxPartitions \in Nat
  PROVE  \E F : FromRecords(ToRecords(img)) = Restored(img, F)
<1> DEFINE N == MaxPartitions + 5
           sections == ToRecords(img)
           J(m) == {j \in Nat : j <= MaxPartitions =>
                      \E F : m[j + 1] = Partial(img, UpTo(img, j), F)}
<1>1. PICK m : Log!Between(m, sections, N)
  <2> HIDE DEF sections
  <2> QED BY Log!BetweenExists
<1>2. /\ DOMAIN sections = 1..N
      /\ sections[1] = {TopicRecord(img, t) : t \in DOMAIN img.topics}
      /\ \A n \in 1..MaxPartitions : sections[n + 1] = PartitionSections(img)[n]
      /\ \A n \in 1..4 : sections[MaxPartitions + 1 + n] = AuxiliarySections(img)[n]
  BY SectionsOf
<1>3. FromRecords(sections) = m[N]
  <2>1. Log!FromRecords(sections) = m[N]
    <3> HIDE DEF sections
    <3> QED BY <1>1, <1>2, Log!FromRecordsIs
  <2>2. \A s : FromRecords(s) = Log!FromRecords(s)
    BY DEF FromRecords, Log!FromRecords, FoldLeft, Log!FoldLeft, MapThenFoldSet,
       Log!MapThenFoldSet, Max, Log!Max, FoldSet, Log!FoldSet
  <2> HIDE DEF sections
  <2> QED BY <2>1, <2>2
<1> HIDE DEF sections
<1>4. m[0] = NewImage /\ \A k \in 1..N : m[k] = Log!Replay(m[k - 1], sections[k])
  BY <1>1 DEF Log!Between
<1>5. 0 \in J(m)
  <2> DEFINE F == [t \in DOMAIN img.topics |-> img.topics[t].factor]
  <2>1. m[1] = Log!Replay(m[0], sections[1])
    BY <1>4
  <2>2. m[1] = Img(Uncounted(img.topics), img.ids, EmptyMap, EmptyMap, EmptyMap, EmptyMap, EmptyMap)
    BY <1>2, <1>4, <2>1, TopicsLoaded
  <2>3. UpTo(img, 0) = EmptyMap
    <3>1. {k \in DOMAIN img.parts : k[2] < 0} = {}
      BY DEF TopicImg, PartsOK, KeyMap, IsKey
    <3> QED BY <3>1, LimitEnds DEF UpTo
  <2>4. \A t : Cardinality(Of(t, EmptyMap)) = 0
    <3>1. \A t : Of(t, EmptyMap) = {}
      BY DEF Of, EmptyMap
    <3> QED BY <3>1, FS_EmptySet
  <2>5. Uncounted(img.topics) = Counted(img.topics, EmptyMap, F)
    BY <2>4 DEF Uncounted, Counted
  <2> HIDE DEF F
  <2>6. m[0 + 1] = Partial(img, UpTo(img, 0), F)
    BY <2>2, <2>3, <2>5 DEF Partial
  <2> QED BY <2>6
<1>6. ASSUME NEW j \in Nat, j \in J(m) PROVE j + 1 \in J(m)
  <2> SUFFICES ASSUME j + 1 <= MaxPartitions
               PROVE  \E F : m[j + 1 + 1] = Partial(img, UpTo(img, j + 1), F)
    OBVIOUS
  <2>1. PICK F : m[j + 1] = Partial(img, UpTo(img, j), F)
    BY <1>6
  <2> DEFINE n == j + 1
  <2>2. n \in 1..MaxPartitions /\ n - 1 = j
    OBVIOUS
  <2>3. m[n + 1] = Log!Replay(m[n], PartitionSections(img)[n])
    BY <1>2, <1>4, <2>2
  <2> HIDE DEF n
  <2>4. \E G : m[n + 1] = Partial(img, UpTo(img, n), G)
    <3>1. m[n] = Partial(img, UpTo(img, n - 1), F)
      BY <2>1, <2>2 DEF n
    <3> QED BY <2>2, <2>3, <3>1, PartitionsLoaded
  <2> QED BY <2>4 DEF n
<1>7. MaxPartitions \in J(m)
  <2> HIDE DEF J
  <2> QED BY <1>5, <1>6, Log!SetInduction
<1>8. PICK F : m[MaxPartitions + 1] = Partial(img, UpTo(img, MaxPartitions), F)
  BY <1>7
<1> DEFINE T == Counted(img.topics, img.parts, F)
           I == img.ids
           P == img.parts
<1>9. m[MaxPartitions + 1] = Img(T, I, P, EmptyMap, EmptyMap, EmptyMap, EmptyMap)
  <2>1. {k \in DOMAIN P : k[2] < MaxPartitions} = DOMAIN P
    BY DEF TopicImg, PartsOK, KeyMap, IsKey
  <2>2. UpTo(img, MaxPartitions) = P
    BY <2>1, LimitEnds DEF UpTo, TopicImg, PartsOK, KeyMap
  <2> QED BY <1>8, <2>2 DEF Partial
<1>10. \A n \in 1..4 : m[MaxPartitions + 1 + n]
         = Log!Replay(m[MaxPartitions + n], AuxiliarySections(img)[n])
  BY <1>2, <1>4
<1> HIDE DEF T, I, P
<1>11. m[MaxPartitions + 2] = Img(T, I, P, img.offsets, EmptyMap, EmptyMap, EmptyMap)
  <2>1. m[MaxPartitions + 2] = Log!Replay(m[MaxPartitions + 1], AuxiliarySections(img)[1])
    BY <1>10
  <2>2. AuxiliarySections(img)[1] = OffsetRecords(img)
    BY DEF AuxiliarySections
  <2> QED BY <1>9, <2>1, <2>2, OffsetsLoaded
<1>12. m[MaxPartitions + 3] = Img(T, I, P, img.offsets, img.elr, EmptyMap, EmptyMap)
  <2>1. m[MaxPartitions + 3] = Log!Replay(m[MaxPartitions + 2], AuxiliarySections(img)[2])
    BY <1>10
  <2> QED BY <1>11, <2>1, ElrLoaded
<1>13. m[MaxPartitions + 4] = Img(T, I, P, img.offsets, img.elr, img.recovery, EmptyMap)
  <2>1. m[MaxPartitions + 4] = Log!Replay(m[MaxPartitions + 3], AuxiliarySections(img)[3])
    BY <1>10
  <2> QED BY <1>12, <2>1, RecoveryLoaded
<1>14. m[N] = Img(T, I, P, img.offsets, img.elr, img.recovery, img.configs)
  <2>1. m[N] = Log!Replay(m[MaxPartitions + 4], AuxiliarySections(img)[4])
    BY <1>10
  <2> QED BY <1>13, <2>1, ConfigsLoaded
<1> QED
  BY <1>3, <1>14 DEF Restored, T, I, P, sections

-----------------------------------------------------------------------------
(* Every record, by what it does to the maps *)

\* The eligible leader replicas after a partition update.
UpdateElr(E, rec) ==
  IF rec.eligible # None /\ rec.lastKnown # None
    THEN ElrAfter(E, <<rec.topic, rec.index>>, UNION rec.eligible, UNION rec.lastKnown)
    ELSE E

\* The recovery after a partition update.
UpdateRecovery(R, rec) ==
  IF rec.state = None THEN R
  ELSE RecoveryAfter(R, <<rec.topic, rec.index>>, CHOOSE s \in rec.state : TRUE)

\* A partition update places the partition and may change the rest.
LEMMA UpdateApplied ==
  ASSUME NEW T, NEW I, NEW P, NEW O, NEW E, NEW R, NEW C, NEW b, b = Img(T, I, P, O, E, R, C),
         NEW rec
  PROVE  ApplyPartitionUpdate(b, rec) =
           Img(TopicsCounted(T, P, rec), I, Put(P, <<rec.topic, rec.index>>, rec.partition),
               O, UpdateElr(E, rec), UpdateRecovery(R, rec), C)
<1> DEFINE key == <<rec.topic, rec.index>>
           n == TopicsCounted(T, P, rec)
           l == Put(P, key, rec.partition)
           placed == ApplyPartition(b, rec)
           elected == IF rec.eligible # None /\ rec.lastKnown # None
                        THEN ApplyElr(placed, key, UNION rec.eligible, UNION rec.lastKnown)
                        ELSE placed
           x == UpdateElr(E, rec)
<1>1. placed = Img(n, I, l, O, E, R, C)
  BY PartitionApplied
<1>2. ApplyPartitionUpdate(b, rec) =
        IF rec.state = None THEN elected
        ELSE ApplyRecovery(elected, key, CHOOSE s \in rec.state : TRUE)
  BY DEF ApplyPartitionUpdate
<1> HIDE DEF placed, n, l
<1>3. elected = Img(n, I, l, O, x, R, C)
  <2>1. CASE rec.eligible # None /\ rec.lastKnown # None
    <3>1. ApplyElr(placed, key, UNION rec.eligible, UNION rec.lastKnown)
            = Img(n, I, l, O, ElrAfter(E, key, UNION rec.eligible, UNION rec.lastKnown), R, C)
      BY <1>1, ElrApplied
    <3> QED BY <2>1, <3>1 DEF UpdateElr
  <2>2. CASE ~(rec.eligible # None /\ rec.lastKnown # None)
    BY <1>1, <2>2 DEF UpdateElr
  <2> QED BY <2>1, <2>2
<1> HIDE DEF elected, x
<1>4. ApplyRecovery(elected, key, CHOOSE s \in rec.state : TRUE)
        = Img(n, I, l, O, x, RecoveryAfter(R, key, CHOOSE s \in rec.state : TRUE), C)
  BY <1>3, RecoveryApplied
<1>5. ApplyPartitionUpdate(b, rec) = Img(n, I, l, O, x, UpdateRecovery(R, rec), C)
  BY <1>2, <1>3, <1>4 DEF UpdateRecovery
<1> QED
  BY <1>5 DEF n, l, x

\* The deletion of a topic.
LEMMA DeleteApplied ==
  ASSUME NEW T, NEW I, NEW P, NEW O, NEW E, NEW R, NEW C, NEW b, b = Img(T, I, P, O, E, R, C),
         NEW rec
  PROVE  ApplyDeleteTopic(b, rec) =
           Img(Drop(T, {rec.topic}), Drop(I, {T[x].id : x \in DOMAIN T \cap {rec.topic}}),
               Drop(P, Of(rec.topic, P)), Drop(O, Of(rec.topic, O)), Drop(E, Of(rec.topic, E)),
               Drop(R, Of(rec.topic, R)), Drop(C, {rec.topic}))
<1>1. /\ b.topics = T /\ b.ids = I /\ b.parts = P /\ b.offsets = O
      /\ b.elr = E /\ b.recovery = R /\ b.configs = C
  BY ImgFields
<1> QED
  BY <1>1, Zenon DEF ApplyDeleteTopic, Img

\* apply, by the kind of the record.
LEMMA ApplyOf ==
  ASSUME NEW b, NEW rec
  PROVE  /\ rec.kind = "Topic" => Apply(b, rec) = ApplyTopic(b, rec)
         /\ rec.kind = "Partition" => Apply(b, rec) = ApplyPartition(b, rec)
         /\ rec.kind = "PartitionUpdate" => Apply(b, rec) = ApplyPartitionUpdate(b, rec)
         /\ rec.kind = "PartitionElr" => Apply(b, rec) =
              ApplyElr(b, <<rec.topic, rec.index>>, rec.eligible, rec.lastKnown)
         /\ rec.kind = "PartitionRecovery" => Apply(b, rec) =
              ApplyRecovery(b, <<rec.topic, rec.index>>, rec.state)
         /\ rec.kind = "DeleteTopic" => Apply(b, rec) = ApplyDeleteTopic(b, rec)
         /\ rec.kind = "TopicConfig" => Apply(b, rec) = ApplyTopicConfig(b, rec)
         /\ rec.kind = "DirAssignment" => Apply(b, rec) = ApplyDirAssignment(b, rec)
         /\ rec.kind = "OffsetAdvance" => Apply(b, rec) = ApplyOffsetAdvance(b, rec)
BY DEF Apply

-----------------------------------------------------------------------------
(* What apply keeps *)

\* new is map with a key inserted, or with keys removed.
Inserted(new, map, key, value) ==
  /\ KeyMap(new) /\ DOMAIN new = DOMAIN map \cup {key}
  /\ \A k \in DOMAIN new : new[k] = IF k = key THEN value ELSE map[k]

Removed(new, map, keys) ==
  /\ KeyMap(new) /\ DOMAIN new = DOMAIN map \ keys
  /\ \A k \in DOMAIN new : new[k] = map[k]

\* An insertion into a map of partitions.
LEMMA KeyMapPut ==
  ASSUME NEW map, KeyMap(map), NEW key, IsKey(key), NEW value, NEW new, new = Put(map, key, value)
  PROVE  Inserted(new, map, key, value)
<1>1. /\ DOMAIN new = DOMAIN map \cup {key} /\ new = [k \in DOMAIN new |-> new[k]]
      /\ \A k \in DOMAIN new : new[k] = IF k = key THEN value ELSE map[k]
  BY DEF Put
<1>2. IsFiniteSet(DOMAIN new)
  BY <1>1, FS_AddElement DEF KeyMap
<1> QED
  BY <1>1, <1>2 DEF KeyMap, Inserted

\* A removal from a map of partitions.
LEMMA KeyMapDrop ==
  ASSUME NEW map, KeyMap(map), NEW keys, NEW new, new = Drop(map, keys)
  PROVE  Removed(new, map, keys)
<1>1. /\ DOMAIN new = DOMAIN map \ keys /\ new = [k \in DOMAIN new |-> new[k]]
      /\ \A k \in DOMAIN new : new[k] = map[k]
  BY DEF Drop
<1>2. IsFiniteSet(DOMAIN new)
  BY <1>1, FS_Subset DEF KeyMap
<1> QED
  BY <1>1, <1>2 DEF KeyMap, Removed

\* The topic an id was chosen for.
Owned(T, name) == \A t \in DOMAIN T : T[t].id \in DOMAIN name /\ name[T[t].id] = t

\* A topic record keeps the reverse index exact: the id it brings was chosen
\* for its topic, so it is no other topic's.
LEMMA TopicKeeps ==
  ASSUME NEW T, NEW I, TopicsOK(T, I), NEW name, Owned(T, name), NEW t, NEW id,
         id \in DOMAIN name, name[id] = t, NEW count, NEW factor, NEW stale,
         stale = {i \in DOMAIN I : t \in DOMAIN T /\ i = T[t].id /\ i # id},
         NEW U, U = Put(T, t, [id |-> id, partitions |-> count, factor |-> factor]),
         NEW J, J = Put(Drop(I, stale), id, t)
  PROVE  TopicsOK(U, J) /\ Owned(U, name)
<1>1. /\ DOMAIN U = DOMAIN T \cup {t}
      /\ U[t] = [id |-> id, partitions |-> count, factor |-> factor]
      /\ \A x \in DOMAIN U : x # t => x \in DOMAIN T /\ U[x] = T[x]
  BY DEF Put
<1>2. \A x \in DOMAIN T : T[x] = [id |-> T[x].id, partitions |-> T[x].partitions, factor |-> T[x].factor]
  BY DEF TopicsOK
<1>3. U = [x \in DOMAIN U |-> [id |-> U[x].id, partitions |-> U[x].partitions,
                               factor |-> U[x].factor]]
  <2>1. \A x \in DOMAIN U : U[x] = [id |-> U[x].id, partitions |-> U[x].partitions,
                               factor |-> U[x].factor]
    BY <1>1, <1>2
  <2>2. U = [x \in DOMAIN U |-> U[x]]
    BY DEF Put
  <2> QED BY <2>1, <2>2
<1>4. IsFiniteSet(DOMAIN U)
  <2>1. IsFiniteSet(DOMAIN T)
    BY DEF TopicsOK
  <2> QED BY <1>1, <2>1, FS_AddElement
<1>5. /\ DOMAIN J = (DOMAIN I \ stale) \cup {id} /\ J = [i \in DOMAIN J |-> J[i]]
      /\ \A i \in DOMAIN J : J[i] = IF i = id THEN t ELSE I[i]
  BY DEF Put, Drop
<1>6. U[t].id = id /\ \A x \in DOMAIN U : x # t => U[x].id = T[x].id /\ T[x].id # id
  <2>1. \A x \in DOMAIN T : x # t => T[x].id # id
    BY DEF Owned
  <2> QED BY <1>1, <2>1
<1>7. \A x \in DOMAIN T : T[x].id \in DOMAIN I /\ I[T[x].id] = x
  BY DEF TopicsOK
<1>8. \A i \in DOMAIN I : \E x \in DOMAIN T : i = T[x].id
  BY DEF TopicsOK
<1>9. \A x \in DOMAIN U : U[x].id \in DOMAIN J /\ J[U[x].id] = x
  <2> SUFFICES ASSUME NEW x \in DOMAIN U PROVE U[x].id \in DOMAIN J /\ J[U[x].id] = x
    OBVIOUS
  <2>1. CASE x = t
    BY <1>5, <1>6, <2>1
  <2>2. CASE x # t
    <3>1. U[x].id = T[x].id /\ T[x].id # id /\ x \in DOMAIN T
      BY <1>1, <1>6, <2>2
    <3>2. T[x].id \notin stale
      BY <1>7, <2>2, <3>1
    <3> QED BY <1>5, <1>7, <3>1, <3>2
  <2> QED BY <2>1, <2>2
<1>10. \A i \in DOMAIN J : \E x \in DOMAIN U : i = U[x].id
  <2> SUFFICES ASSUME NEW i \in DOMAIN J PROVE \E x \in DOMAIN U : i = U[x].id
    OBVIOUS
  <2>1. CASE i = id
    BY <1>1, <1>6, <2>1
  <2>2. CASE i # id
    <3>1. i \in DOMAIN I /\ i \notin stale
      BY <1>5, <2>2
    <3>2. PICK x \in DOMAIN T : i = T[x].id
      BY <1>8, <3>1
    <3>3. x # t
      BY <2>2, <3>1, <3>2
    <3> QED BY <1>1, <1>6, <3>2, <3>3
  <2> QED BY <2>1, <2>2
<1>11. DOMAIN J = {U[x].id : x \in DOMAIN U}
  <2> DEFINE B == {U[x].id : x \in DOMAIN U}
  <2>1. ASSUME NEW i \in DOMAIN J PROVE i \in B
    BY <1>10
  <2>2. ASSUME NEW i \in B PROVE i \in DOMAIN J
    BY <1>9
  <2> HIDE DEF B
  <2>3. DOMAIN J = B
    BY <2>1, <2>2
  <2> QED BY <2>3 DEF B
<1>12. Owned(U, name)
  BY <1>1, <1>6 DEF Owned
<1> QED
  BY <1>3, <1>4, <1>5, <1>9, <1>11, <1>12 DEF TopicsOK

\* The deletion of a topic removes its id and no other.
LEMMA DeletionKeeps ==
  ASSUME NEW T, NEW I, TopicsOK(T, I), NEW name, Owned(T, name), NEW t,
         NEW U, U = Drop(T, {t}), NEW J, J = Drop(I, {T[x].id : x \in DOMAIN T \cap {t}})
  PROVE  TopicsOK(U, J) /\ Owned(U, name)
<1>1. DOMAIN U = DOMAIN T \ {t} /\ U = [x \in DOMAIN U |-> U[x]] /\ \A x \in DOMAIN U : U[x] = T[x]
  BY DEF Drop
<1>2. \A x \in DOMAIN T : T[x] = [id |-> T[x].id, partitions |-> T[x].partitions, factor |-> T[x].factor]
  BY DEF TopicsOK
<1>3. U = [x \in DOMAIN U |-> [id |-> U[x].id, partitions |-> U[x].partitions,
                               factor |-> U[x].factor]]
  BY <1>1, <1>2
<1>4. IsFiniteSet(DOMAIN U)
  BY <1>1, FS_Subset DEF TopicsOK
<1>5. /\ DOMAIN J = DOMAIN I \ {T[x].id : x \in DOMAIN T \cap {t}}
      /\ J = [i \in DOMAIN J |-> J[i]] /\ \A i \in DOMAIN J : J[i] = I[i]
  BY DEF Drop
<1>6. /\ \A x \in DOMAIN T : T[x].id \in DOMAIN I /\ I[T[x].id] = x
      /\ \A i \in DOMAIN I : \E x \in DOMAIN T : i = T[x].id
  BY DEF TopicsOK
<1>7. \A x \in DOMAIN U : U[x].id \in DOMAIN J /\ J[U[x].id] = x
  <2> SUFFICES ASSUME NEW x \in DOMAIN U PROVE U[x].id \in DOMAIN J /\ J[U[x].id] = x
    OBVIOUS
  <2>1. U[x].id \in DOMAIN I /\ I[U[x].id] = x /\ x # t /\ x \in DOMAIN T /\ U[x] = T[x]
    BY <1>1, <1>6
  <2>2. U[x].id \notin {T[y].id : y \in DOMAIN T \cap {t}}
    BY <1>6, <2>1
  <2> QED BY <1>5, <2>1, <2>2
<1>8. \A i \in DOMAIN J : \E x \in DOMAIN U : i = U[x].id
  <2> SUFFICES ASSUME NEW i \in DOMAIN J PROVE \E x \in DOMAIN U : i = U[x].id
    OBVIOUS
  <2>1. i \in DOMAIN I /\ i \notin {T[y].id : y \in DOMAIN T \cap {t}}
    BY <1>5
  <2>2. PICK x \in DOMAIN T : i = T[x].id
    BY <1>6, <2>1
  <2>3. x # t
    BY <2>1, <2>2
  <2> QED BY <1>1, <2>2, <2>3
<1>9. DOMAIN J = {U[x].id : x \in DOMAIN U}
  BY <1>7, <1>8
<1>10. Owned(U, name)
  BY <1>1 DEF Owned
<1> QED
  BY <1>3, <1>4, <1>5, <1>7, <1>9, <1>10 DEF TopicsOK

\* A recounted topic keeps its id.
LEMMA RecountedIs ==
  ASSUME NEW topic, NEW id, NEW count, NEW factor,
         topic = [id |-> id, partitions |-> count, factor |-> factor],
         NEW isNew, NEW partition
  PROVE  Recounted(topic, isNew, partition) =
           [id |-> id, partitions |-> IF isNew THEN count + 1 ELSE count,
            factor |-> Len(partition.replicas)]
<1> DEFINE n == IF isNew THEN topic.partitions + 1 ELSE topic.partitions
           size == Len(partition.replicas)
           c == [topic EXCEPT !.partitions = n, !.factor = size]
<1>1. Recounted(topic, isNew, partition) = c
  BY DEF Recounted
<1>2. n = IF isNew THEN count + 1 ELSE count
  OBVIOUS
<1> HIDE DEF n, size
<1>3. DOMAIN c = {"id", "partitions", "factor"}
  OBVIOUS
<1>4. c.id = id /\ c.partitions = n /\ c.factor = size
  OBVIOUS
<1>5. c = [y \in DOMAIN c |-> c[y]]
  OBVIOUS
<1> HIDE DEF c
<1>6. c = [id |-> id, partitions |-> n, factor |-> size]
  BY <1>3, <1>4, <1>5
<1> QED
  BY <1>1, <1>2, <1>6 DEF size

\* Counting a partition leaves the ids alone.
LEMMA CountKeeps ==
  ASSUME NEW T, NEW I, TopicsOK(T, I), NEW name, Owned(T, name), NEW P, NEW rec,
         NEW U, U = TopicsCounted(T, P, rec)
  PROVE  TopicsOK(U, I) /\ Owned(U, name)
<1>1. DOMAIN U = DOMAIN T
  BY DEF TopicsCounted
<1>2. \A x \in DOMAIN T : T[x] = [id |-> T[x].id, partitions |-> T[x].partitions, factor |-> T[x].factor]
  BY DEF TopicsOK
<1>3. ASSUME NEW x \in DOMAIN T
      PROVE  /\ U[x] = [id |-> U[x].id, partitions |-> U[x].partitions, factor |-> U[x].factor]
             /\ U[x].id = T[x].id
  <2>1. CASE x = rec.topic
    <3> DEFINE isNew == <<rec.topic, rec.index>> \notin DOMAIN P
    <3>1. U[x] = Recounted(T[x], isNew, rec.partition)
      BY <2>1 DEF TopicsCounted
    <3>2. Recounted(T[x], isNew, rec.partition) =
            [id |-> T[x].id,
             partitions |-> IF isNew THEN T[x].partitions + 1 ELSE T[x].partitions,
             factor |-> Len(rec.partition.replicas)]
      <4> HIDE DEF isNew
      <4> QED BY <1>2, RecountedIs
    <3> HIDE DEF isNew
    <3> QED BY <3>1, <3>2
  <2>2. CASE x # rec.topic
    <3>1. U[x] = T[x]
      BY <2>2 DEF TopicsCounted
    <3> QED BY <1>2, <3>1
  <2> QED BY <2>1, <2>2
<1>4. U = [x \in DOMAIN U |-> U[x]]
  BY DEF TopicsCounted
<1>5. U = [x \in DOMAIN U |-> [id |-> U[x].id, partitions |-> U[x].partitions,
                               factor |-> U[x].factor]]
  BY <1>1, <1>3, <1>4
<1>6. {U[x].id : x \in DOMAIN U} = {T[x].id : x \in DOMAIN T}
  BY <1>1, <1>3
<1>7. \A x \in DOMAIN U : I[U[x].id] = x
  BY <1>1, <1>3 DEF TopicsOK
<1>8. Owned(U, name)
  BY <1>1, <1>3 DEF Owned
<1> QED
  BY <1>1, <1>5, <1>6, <1>7, <1>8 DEF TopicsOK

\* A function on an initial segment is a sequence.
LEMMA SequenceFrom ==
  ASSUME NEW n \in Nat, NEW s, DOMAIN s = 1..n, s = [i \in DOMAIN s |-> s[i]]
  PROVE  IsSequence(s) /\ Len(s) = n
<1> DEFINE S == {s[i] : i \in DOMAIN s}
<1>1. s \in [1..n -> S]
  OBVIOUS
<1> HIDE DEF S
<1>2. s \in Seq(S) /\ Len(s) = n
  BY <1>1
<1> QED
  BY <1>2 DEF S, IsSequence

\* The length and the places of a sequence.
LEMMA SequenceLen ==
  ASSUME NEW s, IsSequence(s)
  PROVE  Len(s) \in Nat /\ DOMAIN s = 1..Len(s) /\ s = [i \in DOMAIN s |-> s[i]]
<1> DEFINE S == {s[i] : i \in DOMAIN s}
<1>1. s \in Seq(S)
  BY DEF IsSequence
<1> HIDE DEF S
<1> QED
  BY <1>1

\* An assigned directory lands in the slot of its replica.
LEMMA AssignedKeeps ==
  ASSUME NEW p, PartitionOK(p), NEW broker, broker \in ToSet(p.replicas)
  PROVE  PartitionOK([p EXCEPT !.dirs = Assigned(p, broker, DirectoryOf(broker))])
<1> DEFINE n == Len(p.replicas)
           slot == CHOOSE j \in 1..n : p.replicas[j] = broker
           d == Assigned(p, broker, DirectoryOf(broker))
<1>1. n \in Nat /\ DOMAIN p.replicas = 1..n /\ Len(p.dirs) \in Nat
  BY SequenceLen DEF PartitionOK
<1>2. slot \in 1..n /\ p.replicas[slot] = broker
  <2>1. \E j \in 1..n : p.replicas[j] = broker
    BY <1>1 DEF ToSet
  <2> QED BY <2>1
<1>3. d = [j \in 1..n |-> IF j = slot THEN DirectoryOf(broker)
                         ELSE IF j <= Len(p.dirs) THEN p.dirs[j] ELSE Migrating]
  <2>1. DOMAIN p.dirs = 1..Len(p.dirs) /\ Len(p.dirs) \in {0, n}
    BY SequenceLen DEF PartitionOK
  <2>2. (1..n) \cup DOMAIN p.dirs = 1..n
    BY <1>1, <2>1
  <2> QED BY <2>2 DEF Assigned
<1> HIDE DEF slot, n, d
<1>4. DOMAIN d = 1..n /\ d = [j \in DOMAIN d |-> d[j]]
  BY <1>3
<1>5. IsSequence(d) /\ Len(d) = n
  BY <1>1, <1>4, SequenceFrom
<1>6. \A j \in 1..Len(d) : d[j] \in {Migrating, DirectoryOf(p.replicas[j])}
  <2> SUFFICES ASSUME NEW j \in 1..n PROVE d[j] \in {Migrating, DirectoryOf(p.replicas[j])}
    BY <1>5
  <2>1. CASE j = slot
    BY <1>2, <1>3, <2>1
  <2>2. CASE j # slot
    <3>1. j <= Len(p.dirs) => p.dirs[j] \in {Migrating, DirectoryOf(p.replicas[j])}
      BY <1>1 DEF PartitionOK
    <3> QED BY <1>3, <2>2, <3>1
  <2> QED BY <2>1, <2>2
<1> DEFINE q == [p EXCEPT !.dirs = d]
<1>7. p = [replicas |-> p.replicas, leader |-> p.leader, dirs |-> p.dirs]
  BY DEF PartitionOK
<1>8. q = [replicas |-> p.replicas, leader |-> p.leader, dirs |-> d]
  BY <1>7
<1> HIDE DEF q
<1>9. q.replicas = p.replicas /\ q.leader = p.leader /\ q.dirs = d
  BY <1>8
<1>10. IsSequence(p.replicas)
  BY DEF PartitionOK
<1>11. PartitionOK(q)
  BY <1>5, <1>6, <1>8, <1>9, <1>10 DEF PartitionOK, n
<1> QED
  BY <1>11 DEF q, d

\* A placed partition.
LEMMA PartsKeep ==
  ASSUME NEW P, PartsOK(P), NEW key, IsKey(key), NEW p, PartitionOK(p), NEW Q, Q = Put(P, key, p)
  PROVE  PartsOK(Q)
<1>1. KeyMap(P)
  BY DEF PartsOK
<1>2. Inserted(Q, P, key, p)
  BY <1>1, KeyMapPut
<1> QED
  BY <1>2 DEF PartsOK, Inserted

\* The eligible leader replicas.
LEMMA ElrKeeps ==
  ASSUME NEW E, ElrOK(E), NEW key, IsKey(key), NEW eligible, NEW lastKnown,
         NEW F, F = ElrAfter(E, key, eligible, lastKnown)
  PROVE  /\ ElrOK(F)
         /\ DOMAIN F \subseteq DOMAIN E \cup {key}
<1>1. KeyMap(E)
  BY DEF ElrOK
<1>2. CASE eligible = {} /\ lastKnown = {}
  <2>1. F = Drop(E, {key})
    BY <1>2 DEF ElrAfter
  <2>2. Removed(F, E, {key})
    BY <1>1, <2>1, KeyMapDrop
  <2> QED BY <2>2 DEF ElrOK, Removed
<1>3. CASE ~(eligible = {} /\ lastKnown = {})
  <2> DEFINE v == <<eligible, lastKnown>>
  <2>1. F = Put(E, key, v)
    BY <1>3 DEF ElrAfter
  <2>2. v = <<v[1], v[2]>> /\ v # <<{}, {}>>
    BY <1>3
  <2> HIDE DEF v
  <2>3. Inserted(F, E, key, v)
    BY <1>1, <2>1, KeyMapPut
  <2>4. ASSUME NEW k \in DOMAIN F PROVE F[k] = <<F[k][1], F[k][2]>> /\ F[k] # <<{}, {}>>
    <3>1. CASE k = key
      BY <2>2, <2>3, <3>1 DEF Inserted
    <3>2. CASE k # key
      BY <2>3, <3>2 DEF ElrOK, Inserted
    <3> QED BY <3>1, <3>2
  <2> QED BY <2>3, <2>4 DEF ElrOK, Inserted
<1> QED
  BY <1>2, <1>3

\* The recovery of a leader.
LEMMA RecoveryKeeps ==
  ASSUME NEW R, RecoveryOK(R), NEW key, IsKey(key), NEW state,
         state \in {"recovering", "recovered"}, NEW F, F = RecoveryAfter(R, key, state)
  PROVE  /\ RecoveryOK(F)
         /\ DOMAIN F \subseteq DOMAIN R \cup {key}
<1>1. KeyMap(R)
  BY DEF RecoveryOK
<1>2. CASE state = "recovered"
  <2>1. F = Drop(R, {key})
    BY <1>2 DEF RecoveryAfter
  <2>2. Removed(F, R, {key})
    BY <1>1, <2>1, KeyMapDrop
  <2> QED BY <2>2 DEF RecoveryOK, Removed
<1>3. CASE state # "recovered"
  <2>1. F = Put(R, key, state)
    BY <1>3 DEF RecoveryAfter
  <2>3. Inserted(F, R, key, state)
    BY <1>1, <2>1, KeyMapPut
  <2> QED BY <1>3, <2>3 DEF RecoveryOK, Inserted
<1> QED
  BY <1>2, <1>3

\* The overrides of a topic.
LEMMA ConfigsKeep ==
  ASSUME NEW C, ConfigsOK(C), NEW rec, NEW F, F = ConfigsAfter(C, rec)
  PROVE  ConfigsOK(F) /\ DOMAIN F \subseteq DOMAIN C \cup {rec.topic}
<1>0. IsFiniteSet(DOMAIN C) /\ \A t \in DOMAIN C : C[t] # {}
  BY DEF ConfigsOK
<1>1. CASE rec.overrides = {}
  <2>1. /\ DOMAIN F = DOMAIN C \ {rec.topic} /\ F = [t \in DOMAIN F |-> F[t]]
        /\ \A t \in DOMAIN F : F[t] = C[t]
    BY <1>1 DEF ConfigsAfter, Drop
  <2>2. IsFiniteSet(DOMAIN F)
    BY <1>0, <2>1, FS_Subset
  <2> QED BY <1>0, <2>1, <2>2 DEF ConfigsOK
<1>2. CASE rec.overrides # {}
  <2>1. /\ DOMAIN F = DOMAIN C \cup {rec.topic} /\ F = [t \in DOMAIN F |-> F[t]]
        /\ \A t \in DOMAIN F : F[t] = IF t = rec.topic THEN rec.overrides ELSE C[t]
    BY <1>2 DEF ConfigsAfter, Put
  <2>2. IsFiniteSet(DOMAIN F)
    BY <1>0, <2>1, FS_AddElement
  <2> QED BY <1>0, <1>2, <2>1, <2>2 DEF ConfigsOK
<1> QED
  BY <1>1, <1>2

\* The offset of a diskless partition.
LEMMA OffsetsKeep ==
  ASSUME NEW O, OffsetsOK(O), NEW rec, IsKey(<<rec.topic, rec.index>>), rec.count \in Nat,
         NEW F, F = OffsetsAfter(O, rec)
  PROVE  OffsetsOK(F)
<1> DEFINE key == <<rec.topic, rec.index>>
           v == (IF key \in DOMAIN O THEN O[key] ELSE 0) + rec.count
<1>1. KeyMap(O) /\ IsKey(key) /\ F = Put(O, key, v)
  BY DEF OffsetsOK, OffsetsAfter
<1>2. v \in Nat
  BY DEF OffsetsOK
<1> HIDE DEF key, v
<1>3. Inserted(F, O, key, v)
  BY <1>1, KeyMapPut
<1> QED
  BY <1>2, <1>3 DEF OffsetsOK, Inserted

\* An assigned directory.
LEMMA AssignmentKeeps ==
  ASSUME NEW P, PartsOK(P), NEW rec, rec.directory = DirectoryOf(rec.broker),
         NEW Q, Q = PartsAssigned(P, rec)
  PROVE  PartsOK(Q) /\ DOMAIN Q = DOMAIN P
<1>1. DOMAIN Q = DOMAIN P /\ Q = [k \in DOMAIN Q |-> Q[k]]
  BY DEF PartsAssigned
<1>2. KeyMap(Q)
  BY <1>1 DEF PartsOK, KeyMap
<1>3. ASSUME NEW k \in DOMAIN Q PROVE PartitionOK(Q[k])
  <2>1. PartitionOK(P[k])
    BY <1>1 DEF PartsOK
  <2>2. CASE k = <<rec.topic, rec.index>> /\ rec.broker \in ToSet(P[k].replicas)
    <3>1. Q[k] = [P[k] EXCEPT !.dirs = Assigned(P[k], rec.broker, DirectoryOf(rec.broker))]
      BY <1>1, <2>2 DEF PartsAssigned
    <3> DEFINE p == P[k]
               b == rec.broker
    <3> HIDE DEF p, b
    <3>2. PartitionOK([p EXCEPT !.dirs = Assigned(p, b, DirectoryOf(b))])
      BY <2>1, <2>2, AssignedKeeps DEF p, b
    <3> QED BY <3>1, <3>2 DEF p, b
  <2>3. CASE ~(k = <<rec.topic, rec.index>> /\ rec.broker \in ToSet(P[k].replicas))
    BY <1>1, <2>1, <2>3 DEF PartsAssigned
  <2> QED BY <2>2, <2>3
<1> QED
  BY <1>1, <1>2, <1>3 DEF PartsOK

\* What a record holds.
TopicRec(rec) ==
  \/ rec.kind = "Topic"
  \/ /\ rec.kind = "Partition"
     /\ IsKey(<<rec.topic, rec.index>>) /\ PartitionOK(rec.partition)
  \/ /\ rec.kind = "PartitionUpdate"
     /\ IsKey(<<rec.topic, rec.index>>) /\ PartitionOK(rec.partition)
     /\ rec.state \in {None, Some("recovering"), Some("recovered")}
  \/ rec.kind = "PartitionElr" /\ IsKey(<<rec.topic, rec.index>>)
  \/ /\ rec.kind = "PartitionRecovery" /\ IsKey(<<rec.topic, rec.index>>)
     /\ rec.state \in {"recovering", "recovered"}
  \/ rec.kind \in {"DeleteTopic", "TopicConfig"}
  \/ rec.kind = "DirAssignment" /\ rec.directory = DirectoryOf(rec.broker)
  \/ rec.kind = "OffsetAdvance" /\ IsKey(<<rec.topic, rec.index>>) /\ rec.count \in Nat

\* The id of a topic record was chosen for its topic.
RecOwned(rec, name) == rec.kind = "Topic" => rec.id \in DOMAIN name /\ name[rec.id] = rec.topic

\* An image from its parts.
LEMMA TopicImgFrom ==
  ASSUME NEW T, NEW I, NEW P, NEW O, NEW E, NEW R, NEW C, NEW b, b = Img(T, I, P, O, E, R, C),
         TopicsOK(T, I), PartsOK(P), OffsetsOK(O), ElrOK(E), RecoveryOK(R), ConfigsOK(C)
  PROVE  TopicImg(b)
<1>1. /\ b.topics = T /\ b.ids = I /\ b.parts = P /\ b.offsets = O
      /\ b.elr = E /\ b.recovery = R /\ b.configs = C
  BY ImgFields
<1> QED
  BY <1>1 DEF TopicImg

\* The deletion of a topic leaves well-formed maps.
LEMMA DroppedKeep ==
  ASSUME NEW P, PartsOK(P), NEW O, OffsetsOK(O), NEW E, ElrOK(E), NEW R, RecoveryOK(R),
         NEW C, ConfigsOK(C), NEW t
  PROVE  /\ PartsOK(Drop(P, Of(t, P))) /\ OffsetsOK(Drop(O, Of(t, O)))
         /\ ElrOK(Drop(E, Of(t, E))) /\ RecoveryOK(Drop(R, Of(t, R)))
         /\ ConfigsOK(Drop(C, {t}))
<1>1. ASSUME NEW M, KeyMap(M), NEW D PROVE Removed(Drop(M, D), M, D)
  <2> DEFINE new == Drop(M, D)
  <2>1. new = Drop(M, D)
    OBVIOUS
  <2> HIDE DEF new
  <2>2. Removed(new, M, D)
    BY <1>1, <2>1, KeyMapDrop
  <2> QED BY <2>1, <2>2
<1>2. PartsOK(Drop(P, Of(t, P)))
  <2>1. Removed(Drop(P, Of(t, P)), P, Of(t, P))
    BY <1>1 DEF PartsOK
  <2> QED BY <2>1 DEF PartsOK, Removed
<1>3. OffsetsOK(Drop(O, Of(t, O)))
  <2>1. Removed(Drop(O, Of(t, O)), O, Of(t, O))
    BY <1>1 DEF OffsetsOK
  <2> QED BY <2>1 DEF OffsetsOK, Removed
<1>4. ElrOK(Drop(E, Of(t, E)))
  <2>1. Removed(Drop(E, Of(t, E)), E, Of(t, E))
    BY <1>1 DEF ElrOK
  <2> QED BY <2>1 DEF ElrOK, Removed
<1>5. RecoveryOK(Drop(R, Of(t, R)))
  <2>1. Removed(Drop(R, Of(t, R)), R, Of(t, R))
    BY <1>1 DEF RecoveryOK
  <2> QED BY <2>1 DEF RecoveryOK, Removed
<1>6. ConfigsOK(Drop(C, {t}))
  <2> DEFINE F == Drop(C, {t})
  <2>1. /\ DOMAIN F = DOMAIN C \ {t} /\ F = [x \in DOMAIN F |-> F[x]]
        /\ \A x \in DOMAIN F : F[x] = C[x]
    BY DEF Drop
  <2> HIDE DEF F
  <2>2. IsFiniteSet(DOMAIN F)
    BY <2>1, FS_Subset DEF ConfigsOK
  <2>3. ConfigsOK(F)
    BY <2>1, <2>2 DEF ConfigsOK
  <2> QED BY <2>3 DEF F
<1> QED
  BY <1>2, <1>3, <1>4, <1>5, <1>6

\* apply keeps an image well-formed and its ids those of their topics.
LEMMA ApplyKeeps ==
  ASSUME NEW img, TopicImg(img), NEW name, Owned(img.topics, name),
         NEW rec, TopicRec(rec), RecOwned(rec, name), NEW new, new = Apply(img, rec)
  PROVE  TopicImg(new) /\ Owned(new.topics, name)
<1>1. PICK T, I, P, O, E, R, C :
        /\ img = Img(T, I, P, O, E, R, C)
        /\ img.topics = T /\ img.ids = I /\ img.parts = P /\ img.offsets = O
        /\ img.elr = E /\ img.recovery = R /\ img.configs = C
  BY DEF TopicImg
<1>2. /\ TopicsOK(T, I) /\ PartsOK(P) /\ OffsetsOK(O) /\ ElrOK(E) /\ RecoveryOK(R)
      /\ ConfigsOK(C) /\ Owned(T, name)
  BY <1>1 DEF TopicImg
<1>3. ASSUME NEW U, NEW J, NEW Q, NEW W, NEW F, NEW G, NEW D, new = Img(U, J, Q, W, F, G, D),
             TopicsOK(U, J), PartsOK(Q), OffsetsOK(W), ElrOK(F), RecoveryOK(G), ConfigsOK(D),
             Owned(U, name)
      PROVE  TopicImg(new) /\ Owned(new.topics, name)
  BY <1>3, TopicImgFrom, ImgFields
<1> DEFINE key == <<rec.topic, rec.index>>
<1>4. CASE rec.kind = "Topic"
  <2> DEFINE t == rec.topic
             id == rec.id
             count == IF t \in DOMAIN T THEN T[t].partitions ELSE 0
             factor == rec.factor
             stale == StaleId(img, rec)
             U == Put(T, t, [id |-> id, partitions |-> count, factor |-> factor])
             J == Put(Drop(I, stale), id, t)
  <2>0. new = ApplyTopic(img, rec)
    BY <1>4, ApplyOf
  <2>1. new = Img(U, J, P, O, E, R, C)
    BY <1>1, <2>0, TopicApplied
  <2>2. stale = {i \in DOMAIN I : t \in DOMAIN T /\ i = T[t].id /\ i # id}
    BY <1>1 DEF StaleId
  <2>3. id \in DOMAIN name /\ name[id] = t
    BY <1>4 DEF RecOwned
  <2> HIDE DEF t, id, count, factor, stale
  <2>4. TopicsOK(U, J) /\ Owned(U, name)
    BY <1>2, <2>2, <2>3, TopicKeeps
  <2> HIDE DEF U, J
  <2> QED BY <1>2, <1>3, <2>1, <2>4
<1>5. CASE rec.kind = "Partition"
  <2> DEFINE U == TopicsCounted(T, P, rec)
             p == rec.partition
             Q == Put(P, key, p)
  <2>1. new = Img(U, I, Q, O, E, R, C)
    BY <1>1, <1>5, ApplyOf, PartitionApplied
  <2>2. IsKey(key) /\ PartitionOK(p)
    BY <1>5 DEF TopicRec
  <2> HIDE DEF key, p
  <2>3. PartsOK(Q)
    BY <1>2, <2>2, PartsKeep
  <2>4. TopicsOK(U, I) /\ Owned(U, name)
    BY <1>2, CountKeeps
  <2> HIDE DEF U, Q
  <2> QED BY <1>2, <1>3, <2>1, <2>3, <2>4
<1>6. CASE rec.kind = "PartitionUpdate"
  <2> DEFINE U == TopicsCounted(T, P, rec)
             p == rec.partition
             Q == Put(P, key, p)
             F == UpdateElr(E, rec)
             G == UpdateRecovery(R, rec)
             s == CHOOSE x \in rec.state : TRUE
  <2>1. new = Img(U, I, Q, O, F, G, C)
    BY <1>1, <1>6, ApplyOf, UpdateApplied
  <2>2. /\ IsKey(key) /\ PartitionOK(p)
        /\ rec.state = None \/ rec.state = {"recovering"} \/ rec.state = {"recovered"}
    BY <1>6 DEF TopicRec, Some
  <2>3. F = E \/ F = ElrAfter(E, key, UNION rec.eligible, UNION rec.lastKnown)
    BY DEF UpdateElr
  <2>4. G = R \/ (G = RecoveryAfter(R, key, s) /\ s \in {"recovering", "recovered"})
    <3>1. rec.state # None => s \in {"recovering", "recovered"}
      BY <2>2 DEF None
    <3> QED BY <3>1 DEF UpdateRecovery
  <2> HIDE DEF key, p, F, G, s
  <2>5. PartsOK(Q)
    BY <1>2, <2>2, PartsKeep
  <2>6. TopicsOK(U, I) /\ Owned(U, name)
    BY <1>2, CountKeeps
  <2>7. ElrOK(F)
    BY <1>2, <2>2, <2>3, ElrKeeps
  <2>8. RecoveryOK(G)
    BY <1>2, <2>2, <2>4, RecoveryKeeps
  <2> HIDE DEF U, Q
  <2> QED BY <1>2, <1>3, <2>1, <2>5, <2>6, <2>7, <2>8
<1>7. CASE rec.kind = "PartitionElr"
  <2> DEFINE F == ElrAfter(E, key, rec.eligible, rec.lastKnown)
  <2>1. new = Img(T, I, P, O, F, R, C)
    BY <1>1, <1>7, ApplyOf, ElrApplied
  <2>2. IsKey(key)
    BY <1>7 DEF TopicRec
  <2>3. ElrOK(F)
    BY <1>2, <2>2, ElrKeeps
  <2> HIDE DEF F
  <2> QED BY <1>2, <1>3, <2>1, <2>3
<1>8. CASE rec.kind = "PartitionRecovery"
  <2> DEFINE G == RecoveryAfter(R, key, rec.state)
  <2>1. new = Img(T, I, P, O, E, G, C)
    BY <1>1, <1>8, ApplyOf, RecoveryApplied
  <2>2. IsKey(key) /\ rec.state \in {"recovering", "recovered"}
    BY <1>8 DEF TopicRec
  <2>3. RecoveryOK(G)
    BY <1>2, <2>2, RecoveryKeeps
  <2> HIDE DEF G
  <2> QED BY <1>2, <1>3, <2>1, <2>3
<1>9. CASE rec.kind = "DeleteTopic"
  <2> DEFINE t == rec.topic
             U == Drop(T, {t})
             J == Drop(I, {T[x].id : x \in DOMAIN T \cap {t}})
             Q == Drop(P, Of(t, P))
             W == Drop(O, Of(t, O))
             F == Drop(E, Of(t, E))
             G == Drop(R, Of(t, R))
             D == Drop(C, {t})
  <2>0. new = ApplyDeleteTopic(img, rec)
    BY <1>9, ApplyOf
  <2>1. new = Img(U, J, Q, W, F, G, D)
    BY <1>1, <2>0, DeleteApplied
  <2> HIDE DEF t
  <2>2. PartsOK(Q) /\ OffsetsOK(W) /\ ElrOK(F) /\ RecoveryOK(G) /\ ConfigsOK(D)
    BY <1>2, DroppedKeep
  <2>3. TopicsOK(U, J) /\ Owned(U, name)
    BY <1>2, DeletionKeeps
  <2> HIDE DEF U, J, Q, W, F, G, D
  <2> QED BY <1>3, <2>1, <2>2, <2>3
<1>10. CASE rec.kind = "TopicConfig"
  <2> DEFINE D == ConfigsAfter(C, rec)
  <2>0. new = ApplyTopicConfig(img, rec)
    BY <1>10, ApplyOf
  <2>1. new = Img(T, I, P, O, E, R, D)
    BY <1>1, <2>0, ConfigApplied
  <2>2. ConfigsOK(D)
    BY <1>2, ConfigsKeep
  <2> HIDE DEF D
  <2> QED BY <1>2, <1>3, <2>1, <2>2
<1>11. CASE rec.kind = "DirAssignment"
  <2> DEFINE Q == PartsAssigned(P, rec)
  <2>0. new = ApplyDirAssignment(img, rec)
    BY <1>11, ApplyOf
  <2>1. new = Img(T, I, Q, O, E, R, C)
    BY <1>1, <2>0, DirApplied
  <2>2. rec.directory = DirectoryOf(rec.broker)
    BY <1>11 DEF TopicRec
  <2>3. PartsOK(Q)
    BY <1>2, <2>2, AssignmentKeeps
  <2> HIDE DEF Q
  <2> QED BY <1>2, <1>3, <2>1, <2>3
<1>12. CASE rec.kind = "OffsetAdvance"
  <2> DEFINE W == OffsetsAfter(O, rec)
  <2>0. new = ApplyOffsetAdvance(img, rec)
    BY <1>12, ApplyOf
  <2>1. new = Img(T, I, P, W, E, R, C)
    BY <1>1, <2>0, OffsetApplied
  <2>2. IsKey(key) /\ rec.count \in Nat
    BY <1>12 DEF TopicRec
  <2>3. OffsetsOK(W)
    BY <1>2, <2>2, OffsetsKeep
  <2> HIDE DEF W
  <2> QED BY <1>2, <1>3, <2>1, <2>3
<1> QED
  BY <1>4, <1>5, <1>6, <1>7, <1>8, <1>9, <1>10, <1>11, <1>12 DEF TopicRec

-----------------------------------------------------------------------------
(* What the handlers ask for *)

\* A reassignment takes the directories of the replicas that stay along.
LEMMA ReassignedOK ==
  ASSUME NEW p, PartitionOK(p), NEW list, IsSequence(list)
  PROVE  PartitionOK(Reassigned(p, list))
<1> DEFINE q == Reassigned(p, list)
           old(j) == {i \in DOMAIN p.replicas \cap DOMAIN p.dirs : p.replicas[i] = list[j]}
           d == q.dirs
<1>1. Len(list) \in Nat
  BY SequenceLen
<1>2. q = [replicas |-> list, leader |-> list[1], dirs |-> q.dirs]
  BY DEF Reassigned
<1>3. q.replicas = list /\ q.leader = list[1]
  BY DEF Reassigned
<1>4. CASE p.dirs = <<>>
  <2>1. d = <<>>
    BY <1>4 DEF Reassigned
  <2>2. IsSequence(<<>>) /\ Len(<<>>) = 0
    BY DEF IsSequence
  <2> HIDE DEF q, old
  <2>3. PartitionOK(q)
    BY <1>1, <1>2, <1>3, <2>1, <2>2 DEF PartitionOK
  <2> QED BY <2>3 DEF q
<1>5. CASE p.dirs # <<>>
  <2>1. d = [j \in 1..Len(list) |-> IF old(j) = {} THEN Migrating
                                    ELSE p.dirs[CHOOSE i \in old(j) : TRUE]]
    BY <1>5 DEF Reassigned
  <2> HIDE DEF d, old
  <2>2. DOMAIN d = 1..Len(list) /\ d = [j \in DOMAIN d |-> d[j]]
    BY <2>1
  <2>3. IsSequence(d) /\ Len(d) = Len(list)
    BY <1>1, <2>2, SequenceFrom
  <2>4. ASSUME NEW j \in 1..Len(list) PROVE d[j] \in {Migrating, DirectoryOf(list[j])}
    <3>1. CASE old(j) = {}
      BY <2>1, <3>1
    <3>2. CASE old(j) # {}
      <4>1. PICK i : i = CHOOSE x \in old(j) : TRUE
        OBVIOUS
      <4>2. i \in old(j)
        BY <3>2, <4>1
      <4>3. i \in DOMAIN p.dirs /\ p.replicas[i] = list[j]
        BY <4>2 DEF old
      <4>4. IsSequence(p.dirs)
        BY DEF PartitionOK
      <4>5. DOMAIN p.dirs = 1..Len(p.dirs)
        BY <4>4, SequenceLen
      <4>6. p.dirs[i] \in {Migrating, DirectoryOf(p.replicas[i])}
        BY <4>3, <4>5 DEF PartitionOK
      <4>7. d[j] = p.dirs[i]
        BY <2>1, <3>2, <4>1
      <4> QED BY <4>3, <4>6, <4>7
    <3> QED BY <3>1, <3>2
  <2>5. q.replicas = list /\ q.dirs = d
    BY <1>2 DEF d
  <2> HIDE DEF q
  <2>6. PartitionOK(q)
    BY <1>2, <1>3, <2>3, <2>4, <2>5 DEF PartitionOK
  <2> QED BY <2>6 DEF q
<1> QED
  BY <1>4, <1>5

\* A partition as it is created.
LEMMA NewPartitionOK ==
  ASSUME NEW list, IsSequence(list)
  PROVE  PartitionOK(NewPartition(list))
<1>1. IsSequence(<<>>) /\ Len(<<>>) = 0
  BY DEF IsSequence
<1> DEFINE q == NewPartition(list)
<1>2. q = [replicas |-> list, leader |-> list[1], dirs |-> <<>>]
  BY DEF NewPartition
<1> HIDE DEF q
<1>3. q.replicas = list /\ q.dirs = <<>> /\ q.leader = list[1]
  BY <1>2
<1>4. Len(list) \in Nat
  BY SequenceLen
<1>5. PartitionOK(q)
  BY <1>1, <1>2, <1>3, <1>4 DEF PartitionOK
<1> QED
  BY <1>5 DEF q

\* What the bounds are and what a replica list is.
Sizes ==
  /\ MaxPartitions \in Nat
  /\ \A list \in ReplicaLists : IsSequence(list)

\* What a handler asks for is a record, whose id is that of its topic: a new
\* topic takes an id that was never chosen.
LEMMA RequestsSound ==
  ASSUME Sizes, NEW img, TopicImg(img), NEW name, Owned(img.topics, name), NEW fresh \in Nat,
         DOMAIN name = 0..(fresh - 1), NEW rec \in Requests(img, fresh), NEW more,
         more = [i \in 0..fresh |-> IF i \in DOMAIN name THEN name[i] ELSE rec.topic]
  PROVE  TopicRec(rec) /\ RecOwned(rec, more)
<1>1. /\ TopicsOK(img.topics, img.ids) /\ PartsOK(img.parts)
      /\ \A k \in DOMAIN img.parts : IsKey(k) /\ PartitionOK(img.parts[k])
      /\ IsFiniteSet(DOMAIN img.parts)
  BY DEF TopicImg, PartsOK, KeyMap
<1>2. /\ fresh \in DOMAIN more /\ more[fresh] = rec.topic
      /\ \A i \in DOMAIN name : i \in DOMAIN more /\ more[i] = name[i]
  OBVIOUS
<1>3. CASE rec \in CreateTopics(fresh)
  <2>1. rec.kind = "Topic" /\ rec.id = fresh
    BY <1>3 DEF CreateTopics
  <2> QED BY <1>2, <2>1 DEF TopicRec, RecOwned
<1>4. CASE rec \in CreatePartitions(img)
  <2>1. PICK t \in DOMAIN img.topics :
          rec = [TopicRecord(img, t) EXCEPT !.partitions = PartitionCount(img, t) + 1]
    BY <1>4 DEF CreatePartitions
  <2>2. rec.kind = "Topic" /\ rec.id = img.topics[t].id /\ rec.topic = t
    BY <2>1 DEF TopicRecord
  <2>3. rec.id \in DOMAIN name /\ name[rec.id] = rec.topic
    BY <2>2 DEF Owned
  <2> QED BY <1>2, <2>2, <2>3 DEF TopicRec, RecOwned
<1>5. CASE rec \in AddPartition(img)
  <2>1. PICK t \in DOMAIN img.topics, list \in ReplicaLists :
          /\ PartitionCount(img, t) < MaxPartitions
          /\ rec = PartitionRecord(<<t, PartitionCount(img, t)>>, NewPartition(list))
    BY <1>5 DEF AddPartition
  <2>2. PartitionCount(img, t) \in Nat
    <3>1. IsFiniteSet(Of(t, img.parts))
      BY <1>1, FS_Subset DEF Of
    <3> QED BY <3>1, FS_CardinalityType DEF PartitionCount
  <2> DEFINE n == PartitionCount(img, t)
             p == NewPartition(list)
  <2>3. n \in 0..(MaxPartitions - 1) /\ PartitionOK(p)
    BY <2>1, <2>2, NewPartitionOK DEF Sizes
  <2> HIDE DEF n, p
  <2>4. rec = [kind |-> "Partition", topic |-> t, index |-> n, partition |-> p]
    BY <2>1 DEF PartitionRecord, n, p
  <2>5. rec.kind = "Partition" /\ rec.topic = t /\ rec.index = n /\ rec.partition = p
    BY <2>4
  <2>6. IsKey(<<rec.topic, rec.index>>)
    BY <2>3, <2>5 DEF IsKey
  <2> QED BY <2>3, <2>5, <2>6 DEF TopicRec, RecOwned
<1>6. CASE rec \in AlterPartition(img)
  <2>1. PICK k \in DOMAIN img.parts, list \in ReplicaLists,
             elr \in {<<None, None>>, <<Some(Replicas), Some({})>>, <<Some({}), None>>},
             state \in {None, Some("recovering"), Some("recovered")} :
          rec = [kind |-> "PartitionUpdate", topic |-> k[1], index |-> k[2],
                 partition |-> Reassigned(img.parts[k], list),
                 eligible |-> elr[1], lastKnown |-> elr[2], state |-> state]
    BY <1>6 DEF AlterPartition
  <2> DEFINE p == Reassigned(img.parts[k], list)
  <2>2. PartitionOK(p) /\ IsKey(k)
    BY <1>1, ReassignedOK DEF Sizes
  <2> HIDE DEF p
  <2>3. /\ rec.kind = "PartitionUpdate" /\ rec.topic = k[1] /\ rec.index = k[2]
        /\ rec.partition = p /\ rec.state = state
    BY <2>1 DEF p
  <2>4. IsKey(<<rec.topic, rec.index>>)
    BY <2>2, <2>3 DEF IsKey
  <2> QED BY <2>2, <2>3, <2>4 DEF TopicRec, RecOwned
<1>7. ASSUME NEW k \in DOMAIN img.parts, rec.topic = k[1], rec.index = k[2]
      PROVE  IsKey(<<rec.topic, rec.index>>)
  BY <1>1, <1>7 DEF IsKey
<1>8. CASE rec \in SetElr(img)
  <2>1. PICK k \in DOMAIN img.parts : rec.kind = "PartitionElr" /\ rec.topic = k[1] /\ rec.index = k[2]
    BY <1>8 DEF SetElr
  <2> QED BY <1>7, <2>1 DEF TopicRec, RecOwned
<1>9. CASE rec \in SetRecovery(img)
  <2>1. PICK k \in DOMAIN img.parts :
          /\ rec.kind = "PartitionRecovery" /\ rec.topic = k[1] /\ rec.index = k[2]
          /\ rec.state \in {"recovering", "recovered"}
    BY <1>9 DEF SetRecovery
  <2> QED BY <1>7, <2>1 DEF TopicRec, RecOwned
<1>10. CASE rec \in DeleteTopics(img)
  <2>1. rec.kind = "DeleteTopic"
    BY <1>10 DEF DeleteTopics
  <2> QED BY <2>1 DEF TopicRec, RecOwned
<1>11. CASE rec \in AlterConfigs(img)
  <2>1. rec.kind = "TopicConfig"
    BY <1>11 DEF AlterConfigs
  <2> QED BY <2>1 DEF TopicRec, RecOwned
<1>12. CASE rec \in AssignReplicasToDirs(img)
  <2>1. rec.kind = "DirAssignment" /\ rec.directory = DirectoryOf(rec.broker)
    BY <1>12 DEF AssignReplicasToDirs
  <2> QED BY <2>1 DEF TopicRec, RecOwned
<1>13. CASE rec \in AdvanceOffsets(img)
  <2>1. PICK k \in DOMAIN img.parts :
          rec.kind = "OffsetAdvance" /\ rec.topic = k[1] /\ rec.index = k[2] /\ rec.count = 1
    BY <1>13 DEF AdvanceOffsets
  <2> QED BY <1>7, <2>1 DEF TopicRec, RecOwned
<1> QED
  BY <1>3, <1>4, <1>5, <1>6, <1>8, <1>9, <1>10, <1>11, <1>12, <1>13 DEF Requests

-----------------------------------------------------------------------------
(* Well-formed images, whatever the order of the log *)

\* Any sequence is one.
LEMMA SequenceOf ==
  ASSUME NEW S, NEW s \in Seq(S)
  PROVE  IsSequence(s) /\ DOMAIN s = 1..Len(s) /\ Len(s) \in Nat
<1>1. s \in [1..Len(s) -> {s[i] : i \in DOMAIN s}] /\ Len(s) \in Nat /\ DOMAIN s = 1..Len(s)
  OBVIOUS
<1> QED
  BY <1>1 DEF IsSequence

\* Append keeps the elements and adds one at the end.
LEMMA AppendOf ==
  ASSUME NEW s, IsSequence(s), NEW e, NEW t, t = Append(s, e)
  PROVE  IsSequence(t) /\ \A i \in DOMAIN t : t[i] = e \/ (i \in DOMAIN s /\ t[i] = s[i])
<1> DEFINE S == {s[i] : i \in DOMAIN s} \cup {e}
<1>1. s \in Seq(S)
  <2>1. s \in Seq({s[i] : i \in DOMAIN s})
    BY DEF IsSequence
  <2> QED BY <2>1
<1>2. e \in S
  OBVIOUS
<1> HIDE DEF S
<1>3. t \in Seq(S) /\ Len(t) = Len(s) + 1
      /\ \A i \in 1..Len(t) : t[i] = IF i = Len(s) + 1 THEN e ELSE s[i]
  BY <1>1, <1>2
<1>4. IsSequence(t) /\ DOMAIN t = 1..Len(t) /\ DOMAIN s = 1..Len(s) /\ Len(s) \in Nat
  BY <1>1, <1>3, SequenceOf
<1> QED
  BY <1>3, <1>4

\* Tail keeps all elements but the first, one place down.
LEMMA TailOf ==
  ASSUME NEW s, IsSequence(s), s # <<>>, NEW t, t = Tail(s)
  PROVE  /\ IsSequence(t) /\ Len(t) = Len(s) - 1
         /\ \A i \in DOMAIN t : i + 1 \in DOMAIN s /\ t[i] = s[i + 1]
         /\ 1 \in DOMAIN s /\ Head(s) = s[1]
<1> DEFINE S == {s[i] : i \in DOMAIN s}
<1>1. s \in Seq(S)
  BY DEF IsSequence
<1> HIDE DEF S
<1>2. t \in Seq(S) /\ Len(t) = Len(s) - 1 /\ \A i \in 1..Len(t) : t[i] = s[i + 1]
  BY <1>1
<1>3. IsSequence(t) /\ DOMAIN t = 1..Len(t) /\ DOMAIN s = 1..Len(s) /\ Len(s) \in Nat
      /\ Len(t) \in Nat
  BY <1>1, <1>2, SequenceOf
<1>4. Head(s) = s[1]
  BY <1>1
<1> QED
  BY <1>2, <1>3, <1>4

TopicRequest(request) ==
  request = [record |-> request.record, seen |-> request.seen] /\ TopicRec(request.record)

\* name is the topic every id so far was chosen for.
TopicsNamed(name) ==
  /\ DOMAIN name = 0..(asked - 1)
  /\ Owned(image.topics, name)
  /\ \A request \in pending : RecOwned(request.record, name)
  /\ \A i \in DOMAIN unapplied : RecOwned(unapplied[i].record, name)

\* What holds whatever MaxLag is.
TypedInv ==
  /\ asked \in Nat
  /\ TopicImg(image)
  /\ IsSequence(unapplied)
  /\ \A request \in pending : TopicRequest(request)
  /\ \A i \in DOMAIN unapplied : TopicRequest(unapplied[i])
  /\ \E name : TopicsNamed(name)

\* The topics of a restarted replica keep their ids.
LEMMA CountedKeeps ==
  ASSUME NEW T, NEW I, TopicsOK(T, I), NEW name, Owned(T, name), NEW P, NEW F,
         NEW U, U = Counted(T, P, F)
  PROVE  TopicsOK(U, I) /\ Owned(U, name)
<1>1. DOMAIN U = DOMAIN T /\ \A t \in DOMAIN U : U[t].id = T[t].id
  BY DEF Counted
<1>2. U = [t \in DOMAIN U |-> [id |-> U[t].id, partitions |-> U[t].partitions,
                               factor |-> U[t].factor]]
  BY DEF Counted
<1>3. {U[t].id : t \in DOMAIN U} = {T[t].id : t \in DOMAIN T}
  BY <1>1
<1>4. \A t \in DOMAIN U : I[U[t].id] = t
  BY <1>1 DEF TopicsOK
<1>5. Owned(U, name)
  BY <1>1 DEF Owned
<1> QED
  BY <1>1, <1>2, <1>3, <1>4, <1>5 DEF TopicsOK

\* A restart keeps the image well-formed.
LEMMA RestoredKeeps ==
  ASSUME NEW img, TopicImg(img), NEW name, Owned(img.topics, name), NEW F,
         NEW new, new = Restored(img, F)
  PROVE  TopicImg(new) /\ Owned(new.topics, name)
<1> DEFINE T == img.topics
           I == img.ids
           P == img.parts
           U == Counted(T, P, F)
<1>1. new = Img(U, I, P, img.offsets, img.elr, img.recovery, img.configs)
  BY DEF Restored
<1>2. TopicsOK(T, I)
  BY DEF TopicImg
<1> HIDE DEF T, I, P
<1>3. TopicsOK(U, I) /\ Owned(U, name)
  BY <1>2, CountedKeeps DEF T
<1>4. new.topics = U
  BY <1>1, ImgFields
<1> HIDE DEF U
<1>5. TopicImg(new)
  BY <1>1, <1>3, TopicImgFrom DEF TopicImg, P
<1> QED
  BY <1>3, <1>4, <1>5

\* The invariant TypedInv holds at first and every step keeps it.
THEOREM TypedInductive == ASSUME Sizes PROVE Spec => []TypedInv
<1>1. Init => TypedInv
  <2> SUFFICES ASSUME Init PROVE TypedInv
    OBVIOUS
  <2>1. image = Img(EmptyMap, EmptyMap, EmptyMap, EmptyMap, EmptyMap, EmptyMap, EmptyMap)
    BY DEF Init, NewImage, Img
  <2>2. DOMAIN EmptyMap = {} /\ EmptyMap = [k \in {} |-> EmptyMap[k]]
    BY DEF EmptyMap
  <2>3. TopicsOK(EmptyMap, EmptyMap)
    BY <2>2, FS_EmptySet DEF TopicsOK
  <2>4. KeyMap(EmptyMap)
    BY <2>2, FS_EmptySet DEF KeyMap
  <2>5. PartsOK(EmptyMap) /\ OffsetsOK(EmptyMap) /\ ElrOK(EmptyMap) /\ RecoveryOK(EmptyMap)
        /\ ConfigsOK(EmptyMap)
    BY <2>2, <2>4, FS_EmptySet DEF PartsOK, OffsetsOK, ElrOK, RecoveryOK, ConfigsOK
  <2>6. TopicImg(image)
    BY <2>1, <2>3, <2>5, TopicImgFrom
  <2>7. IsSequence(<<>>) /\ DOMAIN <<>> = {}
    BY DEF IsSequence
  <2>8. TopicsNamed(EmptyMap)
    <3>1. image.topics = EmptyMap
      BY <2>1, ImgFields
    <3>2. 0..(asked - 1) = {}
      BY DEF Init
    <3> QED BY <2>2, <2>7, <3>1, <3>2 DEF TopicsNamed, Owned, Init
  <2> QED
    BY <2>6, <2>7, <2>8 DEF Init, TypedInv
<1>2. TypedInv /\ [Next]_vars => TypedInv'
  <2> SUFFICES ASSUME TypedInv, [Next]_vars PROVE TypedInv'
    OBVIOUS
  <2>0. PICK name : TopicsNamed(name)
    BY DEF TypedInv
  <2>1. CASE Ask
    <3>1. PICK rec \in Requests(image, asked) :
            pending' = pending \cup {[record |-> rec, seen |-> committed]}
      BY <2>1 DEF Ask
    <3>2. UNCHANGED <<image, unapplied>> /\ asked' = asked + 1
      BY <2>1 DEF Ask
    <3> DEFINE r == [record |-> rec, seen |-> committed]
    <3>0. PICK more : more = [i \in 0..asked |-> IF i \in DOMAIN name THEN name[i] ELSE rec.topic]
      OBVIOUS
    <3>3. /\ DOMAIN more = 0..asked
          /\ \A i \in DOMAIN name : i \in DOMAIN more /\ more[i] = name[i]
      BY <2>0, <3>0 DEF TopicsNamed, TypedInv
    <3>4. TopicRec(rec) /\ RecOwned(rec, more)
      <4>1. /\ TopicImg(image) /\ Owned(image.topics, name) /\ asked \in Nat
            /\ DOMAIN name = 0..(asked - 1)
        BY <2>0 DEF TypedInv, TopicsNamed
      <4> DEFINE img == image
                 fresh == asked
      <4>2. rec \in Requests(img, fresh)
        OBVIOUS
      <4> HIDE DEF img, fresh
      <4>3. /\ TopicImg(img) /\ Owned(img.topics, name) /\ fresh \in Nat
            /\ DOMAIN name = 0..(fresh - 1)
            /\ more = [i \in 0..fresh |-> IF i \in DOMAIN name THEN name[i] ELSE rec.topic]
        BY <3>0, <4>1 DEF img, fresh
      <4> QED BY <4>2, <4>3, RequestsSound
    <3>5. TopicRequest(r) /\ r.record = rec
      BY <3>4 DEF TopicRequest
    <3> HIDE DEF r
    <3>6. \A request \in pending' : TopicRequest(request) /\ RecOwned(request.record, more)
      <4>1. ASSUME NEW request \in pending
            PROVE  TopicRequest(request) /\ RecOwned(request.record, more)
        BY <2>0, <3>3 DEF TypedInv, TopicsNamed, RecOwned
      <4> QED BY <3>1, <3>4, <3>5, <4>1 DEF r
    <3>7. Owned(image.topics, more)
      BY <2>0, <3>3 DEF TopicsNamed, Owned
    <3>8. \A i \in DOMAIN unapplied : RecOwned(unapplied[i].record, more)
      BY <2>0, <3>3 DEF TopicsNamed, RecOwned
    <3>9. asked' \in Nat /\ asked' - 1 = asked
      BY <3>2 DEF TypedInv
    <3>10. TopicsNamed(more)'
      <4>1. DOMAIN more = 0..(asked' - 1)
        BY <3>3, <3>9
      <4> QED BY <3>2, <3>6, <3>7, <3>8, <4>1 DEF TopicsNamed
    <3> QED BY <3>2, <3>6, <3>9, <3>10 DEF TypedInv
  <2>2. CASE \E request \in pending : Submit(request) \/ Refuse(request)
    <3>1. PICK request \in pending : Submit(request) \/ Refuse(request)
      BY <2>2
    <3>2. UNCHANGED <<image, asked>> /\ pending' \subseteq pending
      BY <3>1 DEF Submit, Refuse
    <3>3. /\ IsSequence(unapplied')
          /\ \A i \in DOMAIN unapplied' :
               TopicRequest(unapplied'[i]) /\ RecOwned(unapplied'[i].record, name)
      <4>1. CASE Refuse(request)
        BY <2>0, <4>1 DEF Refuse, TypedInv, TopicsNamed
      <4>2. CASE Submit(request)
        <5>1. TopicRequest(request) /\ RecOwned(request.record, name)
          BY <2>0 DEF TypedInv, TopicsNamed
        <5>2. [request EXCEPT !.record = Stamped(request.record, committed)] = request
          BY <5>1 DEF TopicRequest, Stamped
        <5>3. unapplied' = Append(unapplied, request)
          BY <4>2, <5>2 DEF Submit
        <5>4. /\ IsSequence(unapplied')
              /\ \A i \in DOMAIN unapplied' :
                   unapplied'[i] = request \/ (i \in DOMAIN unapplied /\ unapplied'[i] = unapplied[i])
          <6>1. IsSequence(unapplied)
            BY DEF TypedInv
          <6>2. IsSequence(unapplied')
            BY <5>3, <6>1, AppendOf
          <6>3. ASSUME NEW i \in DOMAIN unapplied', unapplied'[i] # request
                PROVE  i \in DOMAIN unapplied /\ unapplied'[i] = unapplied[i]
            BY <5>3, <6>1, <6>3, AppendOf
          <6> QED BY <6>2, <6>3
        <5> QED BY <2>0, <5>1, <5>4 DEF TypedInv, TopicsNamed
      <4> QED BY <3>1, <4>1, <4>2
    <3>4. TopicsNamed(name)'
      BY <2>0, <3>2, <3>3 DEF TopicsNamed
    <3> QED BY <3>2, <3>3, <3>4 DEF TypedInv
  <2>3. CASE ApplyNext
    <3>1. /\ unapplied # <<>> /\ image' = Apply(image, Head(unapplied).record)
          /\ unapplied' = Tail(unapplied) /\ UNCHANGED <<pending, asked>>
      BY <2>3 DEF ApplyNext
    <3>2. /\ IsSequence(unapplied')
          /\ \A i \in DOMAIN unapplied' : i + 1 \in DOMAIN unapplied /\ unapplied'[i] = unapplied[i + 1]
          /\ 1 \in DOMAIN unapplied /\ Head(unapplied) = unapplied[1]
      BY <3>1, TailOf DEF TypedInv
    <3> DEFINE rec == unapplied[1].record
               img == image
               new == image'
    <3>3. TopicRec(rec) /\ RecOwned(rec, name) /\ TopicImg(img) /\ Owned(img.topics, name)
      BY <2>0, <3>2 DEF TypedInv, TopicsNamed, TopicRequest
    <3>4. new = Apply(img, rec)
      BY <3>1, <3>2
    <3>5. TopicImg(new) /\ Owned(new.topics, name)
      <4> HIDE DEF rec, img, new
      <4> QED BY <3>3, <3>4, ApplyKeeps
    <3>6. TopicsNamed(name)'
      BY <2>0, <3>1, <3>2, <3>5 DEF TopicsNamed
    <3> QED BY <3>1, <3>2, <3>5, <3>6 DEF TypedInv
  <2>4. CASE Restart
    <3>1. image' = FromRecords(ToRecords(image)) /\ UNCHANGED <<unapplied, pending, asked>>
      BY <2>4 DEF Restart
    <3> DEFINE img == image
               new == image'
    <3>2. TopicImg(img) /\ Owned(img.topics, name) /\ new = FromRecords(ToRecords(img))
      BY <2>0, <3>1 DEF TypedInv, TopicsNamed
    <3>3. TopicImg(new) /\ Owned(new.topics, name)
      <4> HIDE DEF img, new
      <4>1. PICK F : new = Restored(img, F)
        BY <3>2, TopicsRestored DEF Sizes
      <4> QED BY <3>2, <4>1, RestoredKeeps
    <3>4. TopicsNamed(name)'
      BY <2>0, <3>1, <3>3 DEF TopicsNamed
    <3> QED BY <3>1, <3>3, <3>4 DEF TypedInv
  <2>5. CASE UNCHANGED vars
    <3>1. UNCHANGED <<image, unapplied, pending, asked>>
      BY <2>5 DEF vars
    <3>2. TopicsNamed(name)'
      BY <2>0, <3>1 DEF TopicsNamed
    <3> QED BY <3>1, <3>2 DEF TypedInv
  <2> QED
    BY <2>1, <2>2, <2>3, <2>4, <2>5 DEF Next
<1> QED
  BY <1>1, <1>2, PTL DEF Spec

\* Every directory slot of a partition is that of its replica, or not yet
\* assigned, whatever the order in which assignments and reassignments were
\* validated, committed and applied.
THEOREM DirectoriesFollow == ASSUME Sizes PROVE Spec => []DirectoriesFollowReplicas
<1>1. TypedInv => DirectoriesFollowReplicas
  BY DEF TypedInv, TopicImg, PartsOK, PartitionOK, DirectoriesFollowReplicas
<1> QED
  BY <1>1, TypedInductive, PTL

-----------------------------------------------------------------------------
(* Counts, orphans and restarts *)

\* Topics that differ at most in their replication factors.
SameTopics(T, U) ==
  /\ DOMAIN T = DOMAIN U
  /\ \A t \in DOMAIN T : T[t].id = U[t].id /\ T[t].partitions = U[t].partitions

\* Images that differ at most in replication factors.
Agree(a, b) ==
  /\ SameTopics(a.topics, b.topics) /\ a.ids = b.ids /\ a.parts = b.parts
  /\ a.offsets = b.offsets /\ a.elr = b.elr /\ a.recovery = b.recovery /\ a.configs = b.configs

\* The topics differ as little after a topic record.
LEMMA SamePut ==
  ASSUME NEW T, NEW U, SameTopics(T, U), NEW t, NEW id, NEW factor,
         NEW V, V = Put(T, t, [id |-> id,
                               partitions |-> IF t \in DOMAIN T THEN T[t].partitions ELSE 0,
                               factor |-> factor]),
         NEW W, W = Put(U, t, [id |-> id,
                               partitions |-> IF t \in DOMAIN U THEN U[t].partitions ELSE 0,
                               factor |-> factor])
  PROVE  SameTopics(V, W)
<1>1. t \in DOMAIN T <=> t \in DOMAIN U
  BY DEF SameTopics
<1> DEFINE n == IF t \in DOMAIN T THEN T[t].partitions ELSE 0
           v == [id |-> id, partitions |-> n, factor |-> factor]
<1>2. (IF t \in DOMAIN U THEN U[t].partitions ELSE 0) = n
  BY <1>1 DEF SameTopics
<1>3. V = Put(T, t, v) /\ W = Put(U, t, v)
  BY <1>2
<1> HIDE DEF v
<1>4. /\ DOMAIN V = DOMAIN T \cup {t} /\ DOMAIN W = DOMAIN U \cup {t}
      /\ \A x \in DOMAIN V : V[x] = IF x = t THEN v ELSE T[x]
      /\ \A x \in DOMAIN W : W[x] = IF x = t THEN v ELSE U[x]
  BY <1>3 DEF Put
<1> QED
  BY <1>4 DEF SameTopics

\* The topics differ as little after a partition record.
LEMMA SameCounted ==
  ASSUME NEW T, NEW U, SameTopics(T, U), NEW I, TopicsOK(T, I), TopicsOK(U, I), NEW P, NEW rec
  PROVE  SameTopics(TopicsCounted(T, P, rec), TopicsCounted(U, P, rec))
<1> DEFINE V == TopicsCounted(T, P, rec)
           W == TopicsCounted(U, P, rec)
           isNew == <<rec.topic, rec.index>> \notin DOMAIN P
<1>1. /\ DOMAIN V = DOMAIN T /\ DOMAIN W = DOMAIN U
      /\ \A t \in DOMAIN T : V[t] = IF t = rec.topic THEN Recounted(T[t], isNew, rec.partition) ELSE T[t]
      /\ \A t \in DOMAIN U : W[t] = IF t = rec.topic THEN Recounted(U[t], isNew, rec.partition) ELSE U[t]
  BY DEF TopicsCounted
<1>2. /\ \A t \in DOMAIN T : T[t] = [id |-> T[t].id, partitions |-> T[t].partitions, factor |-> T[t].factor]
      /\ \A t \in DOMAIN U : U[t] = [id |-> U[t].id, partitions |-> U[t].partitions, factor |-> U[t].factor]
  BY DEF TopicsOK
<1> HIDE DEF V, W, isNew
<1>3. ASSUME NEW t \in DOMAIN T PROVE V[t].id = W[t].id /\ V[t].partitions = W[t].partitions
  <2>1. t \in DOMAIN U /\ T[t].id = U[t].id /\ T[t].partitions = U[t].partitions
    BY DEF SameTopics
  <2>2. CASE t = rec.topic
    <3>1. V[t] = [id |-> T[t].id, partitions |-> IF isNew THEN T[t].partitions + 1 ELSE T[t].partitions,
                  factor |-> Len(rec.partition.replicas)]
      BY <1>1, <1>2, <2>2, RecountedIs
    <3>2. W[t] = [id |-> U[t].id, partitions |-> IF isNew THEN U[t].partitions + 1 ELSE U[t].partitions,
                  factor |-> Len(rec.partition.replicas)]
      BY <1>1, <1>2, <2>1, <2>2, RecountedIs
    <3> QED BY <2>1, <3>1, <3>2
  <2>3. CASE t # rec.topic
    BY <1>1, <2>1, <2>3
  <2> QED BY <2>2, <2>3
<1>4. SameTopics(V, W)
  BY <1>1, <1>3 DEF SameTopics
<1> QED
  BY <1>4 DEF V, W

\* The topics differ as little after a deletion.
LEMMA SameDropped ==
  ASSUME NEW T, NEW U, SameTopics(T, U), NEW t
  PROVE  SameTopics(Drop(T, {t}), Drop(U, {t}))
BY DEF SameTopics, Drop

\* Records make two images differ no more than they did.
LEMMA ApplyAgrees ==
  ASSUME NEW a, TopicImg(a), NEW b, TopicImg(b), Agree(a, b), NEW rec, TopicRec(rec),
         NEW c, c = Apply(a, rec), NEW d, d = Apply(b, rec)
  PROVE  Agree(c, d)
<1>1. PICK T, I, P, O, E, R, C :
        /\ a = Img(T, I, P, O, E, R, C)
        /\ a.topics = T /\ a.ids = I /\ a.parts = P /\ a.offsets = O
        /\ a.elr = E /\ a.recovery = R /\ a.configs = C
  BY DEF TopicImg
<1>2. PICK U :
        /\ b = Img(U, I, P, O, E, R, C)
        /\ b.topics = U /\ b.ids = I
  BY <1>1 DEF TopicImg, Agree
<1>3. SameTopics(T, U) /\ TopicsOK(T, I) /\ TopicsOK(U, I)
  BY <1>1, <1>2 DEF TopicImg, Agree
<1>4. ASSUME NEW V, NEW W, NEW J, NEW Q, NEW S, NEW F, NEW G, NEW D,
             c = Img(V, J, Q, S, F, G, D), d = Img(W, J, Q, S, F, G, D), SameTopics(V, W)
      PROVE  Agree(c, d)
  <2>1. /\ c.topics = V /\ c.ids = J /\ c.parts = Q /\ c.offsets = S
        /\ c.elr = F /\ c.recovery = G /\ c.configs = D
    BY <1>4, ImgFields
  <2>2. /\ d.topics = W /\ d.ids = J /\ d.parts = Q /\ d.offsets = S
        /\ d.elr = F /\ d.recovery = G /\ d.configs = D
    BY <1>4, ImgFields
  <2> QED BY <1>4, <2>1, <2>2 DEF Agree
<1> DEFINE key == <<rec.topic, rec.index>>
<1>5. CASE rec.kind = "Topic"
  <2> DEFINE t == rec.topic
             id == rec.id
             factor == rec.factor
             V == Put(T, t, [id |-> id, partitions |-> IF t \in DOMAIN T THEN T[t].partitions ELSE 0,
                             factor |-> factor])
             W == Put(U, t, [id |-> id, partitions |-> IF t \in DOMAIN U THEN U[t].partitions ELSE 0,
                             factor |-> factor])
             stale == StaleId(a, rec)
             J == Put(Drop(I, stale), id, t)
  <2>1. c = ApplyTopic(a, rec) /\ d = ApplyTopic(b, rec)
    BY <1>5, ApplyOf
  <2>2. stale = StaleId(b, rec)
    BY <1>1, <1>2, <1>3 DEF StaleId, SameTopics
  <2> HIDE DEF stale
  <2>3. c = Img(V, J, P, O, E, R, C)
    BY <1>1, <2>1, TopicApplied DEF stale
  <2>4. d = Img(W, J, P, O, E, R, C)
    BY <1>2, <2>1, <2>2, TopicApplied
  <2> HIDE DEF t, id, factor
  <2>5. SameTopics(V, W)
    BY <1>3, SamePut
  <2> HIDE DEF V, W, J
  <2> QED BY <1>4, <2>3, <2>4, <2>5
<1>6. CASE rec.kind = "Partition"
  <2> DEFINE V == TopicsCounted(T, P, rec)
             W == TopicsCounted(U, P, rec)
             Q == Put(P, key, rec.partition)
  <2>1. c = ApplyPartition(a, rec) /\ d = ApplyPartition(b, rec)
    BY <1>6, ApplyOf
  <2>2. c = Img(V, I, Q, O, E, R, C) /\ d = Img(W, I, Q, O, E, R, C)
    BY <1>1, <1>2, <2>1, PartitionApplied
  <2>3. SameTopics(V, W)
    BY <1>3, SameCounted
  <2> HIDE DEF V, W, Q
  <2> QED BY <1>4, <2>2, <2>3
<1>7. CASE rec.kind = "PartitionUpdate"
  <2> DEFINE V == TopicsCounted(T, P, rec)
             W == TopicsCounted(U, P, rec)
             Q == Put(P, key, rec.partition)
             F == UpdateElr(E, rec)
             G == UpdateRecovery(R, rec)
  <2>1. c = ApplyPartitionUpdate(a, rec) /\ d = ApplyPartitionUpdate(b, rec)
    BY <1>7, ApplyOf
  <2>2. c = Img(V, I, Q, O, F, G, C) /\ d = Img(W, I, Q, O, F, G, C)
    BY <1>1, <1>2, <2>1, UpdateApplied
  <2>3. SameTopics(V, W)
    BY <1>3, SameCounted
  <2> HIDE DEF V, W, Q, F, G
  <2> QED BY <1>4, <2>2, <2>3
<1>8. CASE rec.kind = "PartitionElr"
  <2> DEFINE F == ElrAfter(E, key, rec.eligible, rec.lastKnown)
  <2>1. c = ApplyElr(a, key, rec.eligible, rec.lastKnown) /\ d = ApplyElr(b, key, rec.eligible, rec.lastKnown)
    BY <1>8, ApplyOf
  <2>2. c = Img(T, I, P, O, F, R, C) /\ d = Img(U, I, P, O, F, R, C)
    BY <1>1, <1>2, <2>1, ElrApplied
  <2> HIDE DEF F
  <2> QED BY <1>3, <1>4, <2>2
<1>9. CASE rec.kind = "PartitionRecovery"
  <2> DEFINE G == RecoveryAfter(R, key, rec.state)
  <2>1. c = ApplyRecovery(a, key, rec.state) /\ d = ApplyRecovery(b, key, rec.state)
    BY <1>9, ApplyOf
  <2>2. c = Img(T, I, P, O, E, G, C) /\ d = Img(U, I, P, O, E, G, C)
    BY <1>1, <1>2, <2>1, RecoveryApplied
  <2> HIDE DEF G
  <2> QED BY <1>3, <1>4, <2>2
<1>10. CASE rec.kind = "DeleteTopic"
  <2> DEFINE t == rec.topic
             gone == {T[x].id : x \in DOMAIN T \cap {t}}
             V == Drop(T, {t})
             W == Drop(U, {t})
             J == Drop(I, gone)
             Q == Drop(P, Of(t, P))
             S == Drop(O, Of(t, O))
             F == Drop(E, Of(t, E))
             G == Drop(R, Of(t, R))
             D == Drop(C, {t})
  <2>1. c = ApplyDeleteTopic(a, rec) /\ d = ApplyDeleteTopic(b, rec)
    BY <1>10, ApplyOf
  <2>2. c = Img(V, J, Q, S, F, G, D)
    BY <1>1, <2>1, DeleteApplied
  <2>3. SameTopics(V, W)
    BY <1>3, SameDropped
  <2>4. gone = {U[x].id : x \in DOMAIN U \cap {t}}
    BY <1>3 DEF SameTopics
  <2> HIDE DEF gone
  <2>5. d = Img(W, J, Q, S, F, G, D)
    BY <1>2, <2>1, <2>4, DeleteApplied
  <2> HIDE DEF V, W, J, Q, S, F, G, D
  <2> QED BY <1>4, <2>2, <2>3, <2>5
<1>11. CASE rec.kind = "TopicConfig"
  <2> DEFINE D == ConfigsAfter(C, rec)
  <2>1. c = ApplyTopicConfig(a, rec) /\ d = ApplyTopicConfig(b, rec)
    BY <1>11, ApplyOf
  <2>2. c = Img(T, I, P, O, E, R, D) /\ d = Img(U, I, P, O, E, R, D)
    BY <1>1, <1>2, <2>1, ConfigApplied
  <2> HIDE DEF D
  <2> QED BY <1>3, <1>4, <2>2
<1>12. CASE rec.kind = "DirAssignment"
  <2> DEFINE Q == PartsAssigned(P, rec)
  <2>1. c = ApplyDirAssignment(a, rec) /\ d = ApplyDirAssignment(b, rec)
    BY <1>12, ApplyOf
  <2>2. c = Img(T, I, Q, O, E, R, C) /\ d = Img(U, I, Q, O, E, R, C)
    BY <1>1, <1>2, <2>1, DirApplied
  <2> HIDE DEF Q
  <2> QED BY <1>3, <1>4, <2>2
<1>13. CASE rec.kind = "OffsetAdvance"
  <2> DEFINE S == OffsetsAfter(O, rec)
  <2>1. c = ApplyOffsetAdvance(a, rec) /\ d = ApplyOffsetAdvance(b, rec)
    BY <1>13, ApplyOf
  <2>2. c = Img(T, I, P, S, E, R, C) /\ d = Img(U, I, P, S, E, R, C)
    BY <1>1, <1>2, <2>1, OffsetApplied
  <2> HIDE DEF S
  <2> QED BY <1>3, <1>4, <2>2
<1> QED
  BY <1>5, <1>6, <1>7, <1>8, <1>9, <1>10, <1>11, <1>12, <1>13 DEF TopicRec

\* The cached counts are those of the partitions, and nothing describes what
\* is not there.
Counts(T, P) == \A t \in DOMAIN T : T[t].partitions = Cardinality(Of(t, P))

Orphanless(T, P, E, R, C) ==
  /\ \A k \in DOMAIN P : k[1] \in DOMAIN T
  /\ DOMAIN E \subseteq DOMAIN P /\ DOMAIN R \subseteq DOMAIN P
  /\ DOMAIN C \subseteq DOMAIN T

Consistent(img) ==
  /\ Counts(img.topics, img.parts)
  /\ Orphanless(img.topics, img.parts, img.elr, img.recovery, img.configs)

\* What validate checks of a record that could leave something without an
\* owner.
Grounded(img, rec) ==
  /\ rec.kind \in {"Partition", "PartitionUpdate", "TopicConfig"} => rec.topic \in DOMAIN img.topics
  /\ rec.kind \in {"PartitionElr", "PartitionRecovery"} =>
       <<rec.topic, rec.index>> \in DOMAIN img.parts

\* new has what old had.
Grows(old, new) ==
  DOMAIN old.topics \subseteq DOMAIN new.topics /\ DOMAIN old.parts \subseteq DOMAIN new.parts

\* A topic record takes the count over, or starts at none: there is no
\* partition of a topic that is not there.
LEMMA TopicCounts ==
  ASSUME NEW T, NEW P, Counts(T, P), \A k \in DOMAIN P : k[1] \in DOMAIN T,
         NEW t, NEW id, NEW factor,
         NEW V, V = Put(T, t, [id |-> id,
                               partitions |-> IF t \in DOMAIN T THEN T[t].partitions ELSE 0,
                               factor |-> factor])
  PROVE  Counts(V, P)
<1> DEFINE n == IF t \in DOMAIN T THEN T[t].partitions ELSE 0
           v == [id |-> id, partitions |-> n, factor |-> factor]
<1>1. V = Put(T, t, v) /\ v.partitions = n
  OBVIOUS
<1>2. n = Cardinality(Of(t, P))
  <2>1. CASE t \in DOMAIN T
    BY <2>1 DEF Counts
  <2>2. CASE t \notin DOMAIN T
    <3>1. Of(t, P) = {}
      BY <2>2 DEF Of
    <3> QED BY <2>2, <3>1, FS_EmptySet
  <2> QED BY <2>1, <2>2
<1> HIDE DEF n, v
<1>3. /\ DOMAIN V = DOMAIN T \cup {t}
      /\ \A x \in DOMAIN V : V[x] = IF x = t THEN v ELSE T[x]
  BY <1>1 DEF Put
<1> QED
  BY <1>1, <1>2, <1>3 DEF Counts

\* A partition is counted when it is new.
LEMMA PartitionCounts ==
  ASSUME NEW T, NEW I, TopicsOK(T, I), NEW P, PartsOK(P), Counts(T, P), NEW rec,
         NEW V, V = TopicsCounted(T, P, rec),
         NEW Q, Q = Put(P, <<rec.topic, rec.index>>, rec.partition)
  PROVE  Counts(V, Q) /\ DOMAIN V = DOMAIN T
<1> DEFINE key == <<rec.topic, rec.index>>
           isNew == key \notin DOMAIN P
<1>1. /\ DOMAIN V = DOMAIN T
      /\ \A t \in DOMAIN T : V[t] = IF t = rec.topic THEN Recounted(T[t], isNew, rec.partition) ELSE T[t]
  BY DEF TopicsCounted
<1>2. \A t \in DOMAIN T : T[t] = [id |-> T[t].id, partitions |-> T[t].partitions, factor |-> T[t].factor]
  BY DEF TopicsOK
<1>3. key[1] = rec.topic /\ Q = Put(P, key, rec.partition)
  OBVIOUS
<1> HIDE DEF key
<1>4. ASSUME NEW t \in DOMAIN T PROVE V[t].partitions = Cardinality(Of(t, Q))
  <2>1. IsFiniteSet(DOMAIN P)
    BY DEF PartsOK, KeyMap
  <2>2. Cardinality(Of(t, Q)) =
          IF t = key[1] /\ key \notin DOMAIN P THEN Cardinality(Of(t, P)) + 1
          ELSE Cardinality(Of(t, P))
    BY <1>3, <2>1, OfPut
  <2>3. T[t].partitions = Cardinality(Of(t, P))
    BY DEF Counts
  <2>4. CASE t = rec.topic
    <3>1. V[t] = [id |-> T[t].id, partitions |-> IF isNew THEN T[t].partitions + 1 ELSE T[t].partitions,
                  factor |-> Len(rec.partition.replicas)]
      <4> HIDE DEF isNew
      <4> QED BY <1>1, <1>2, <2>4, RecountedIs
    <3> QED BY <1>3, <2>2, <2>3, <2>4, <3>1
  <2>5. CASE t # rec.topic
    BY <1>1, <1>3, <2>2, <2>3, <2>5
  <2> QED BY <2>4, <2>5
<1> QED
  BY <1>1, <1>4 DEF Counts

\* The counts of the topics that stay do not change when one is deleted.
LEMMA DeletionCounts ==
  ASSUME NEW T, NEW P, Counts(T, P), NEW t, NEW V, V = Drop(T, {t}),
         NEW Q, Q = Drop(P, Of(t, P))
  PROVE  Counts(V, Q)
<1>1. DOMAIN V = DOMAIN T \ {t} /\ \A x \in DOMAIN V : V[x] = T[x]
  BY DEF Drop
<1>2. DOMAIN Q = DOMAIN P \ Of(t, P)
  BY DEF Drop
<1>3. ASSUME NEW x \in DOMAIN V PROVE Of(x, Q) = Of(x, P)
  BY <1>1, <1>2 DEF Of
<1> QED
  BY <1>1, <1>3 DEF Counts

\* apply of a grounded record keeps the counts and leaves no orphan, and only
\* a deletion removes anything.
LEMMA ApplyConsistent ==
  ASSUME NEW img, TopicImg(img), Consistent(img), NEW rec, TopicRec(rec), Grounded(img, rec),
         NEW new, new = Apply(img, rec)
  PROVE  Consistent(new) /\ (rec.kind # "DeleteTopic" => Grows(img, new))
<1>1. PICK T, I, P, O, E, R, C :
        /\ img = Img(T, I, P, O, E, R, C)
        /\ img.topics = T /\ img.ids = I /\ img.parts = P /\ img.offsets = O
        /\ img.elr = E /\ img.recovery = R /\ img.configs = C
  BY DEF TopicImg
<1>2. /\ TopicsOK(T, I) /\ PartsOK(P) /\ OffsetsOK(O) /\ ElrOK(E) /\ RecoveryOK(R)
      /\ ConfigsOK(C) /\ Counts(T, P) /\ Orphanless(T, P, E, R, C)
  BY <1>1 DEF TopicImg, Consistent
<1>3. ASSUME NEW U, NEW J, NEW Q, NEW W, NEW F, NEW G, NEW D, new = Img(U, J, Q, W, F, G, D),
             Counts(U, Q), Orphanless(U, Q, F, G, D),
             rec.kind # "DeleteTopic" => DOMAIN T \subseteq DOMAIN U /\ DOMAIN P \subseteq DOMAIN Q
      PROVE  Consistent(new) /\ (rec.kind # "DeleteTopic" => Grows(img, new))
  <2>1. new.topics = U /\ new.parts = Q /\ new.elr = F /\ new.recovery = G /\ new.configs = D
    BY <1>3, ImgFields
  <2> QED BY <1>1, <1>3, <2>1 DEF Consistent, Grows
<1> DEFINE key == <<rec.topic, rec.index>>
<1>4. CASE rec.kind = "Topic"
  <2> DEFINE t == rec.topic
             id == rec.id
             factor == rec.factor
             U == Put(T, t, [id |-> id, partitions |-> IF t \in DOMAIN T THEN T[t].partitions ELSE 0,
                             factor |-> factor])
             J == Put(Drop(I, StaleId(img, rec)), id, t)
  <2>0. new = ApplyTopic(img, rec)
    BY <1>4, ApplyOf
  <2>1. new = Img(U, J, P, O, E, R, C)
    BY <1>1, <2>0, TopicApplied
  <2> HIDE DEF t, id, factor, J
  <2>2. Counts(U, P) /\ DOMAIN U = DOMAIN T \cup {t}
    <3>1. \A k \in DOMAIN P : k[1] \in DOMAIN T
      BY <1>2 DEF Orphanless
    <3>2. Counts(U, P)
      BY <1>2, <3>1, TopicCounts
    <3>3. DOMAIN U = DOMAIN T \cup {t}
      BY DEF Put
    <3> QED BY <3>2, <3>3
  <2> HIDE DEF U
  <2>3. Orphanless(U, P, E, R, C)
    BY <1>2, <2>2 DEF Orphanless
  <2> QED BY <1>3, <2>1, <2>2, <2>3
<1>5. CASE rec.kind = "Partition" \/ rec.kind = "PartitionUpdate"
  <2> DEFINE U == TopicsCounted(T, P, rec)
             Q == Put(P, key, rec.partition)
  <2>1. Counts(U, Q) /\ DOMAIN U = DOMAIN T
    BY <1>2, PartitionCounts
  <2>2. DOMAIN Q = DOMAIN P \cup {key} /\ rec.topic \in DOMAIN T /\ key[1] = rec.topic
    BY <1>1, <1>5 DEF Put, Grounded
  <2>3. CASE rec.kind = "Partition"
    <3>1. new = ApplyPartition(img, rec)
      BY <2>3, ApplyOf
    <3>2. new = Img(U, I, Q, O, E, R, C)
      BY <1>1, <3>1, PartitionApplied
    <3> HIDE DEF U, Q, key
    <3>3. Orphanless(U, Q, E, R, C)
      BY <1>2, <2>1, <2>2 DEF Orphanless
    <3> QED BY <1>3, <2>1, <2>2, <3>2, <3>3
  <2>4. CASE rec.kind = "PartitionUpdate"
    <3> DEFINE F == UpdateElr(E, rec)
               G == UpdateRecovery(R, rec)
               s == CHOOSE x \in rec.state : TRUE
    <3>1. new = ApplyPartitionUpdate(img, rec)
      BY <2>4, ApplyOf
    <3>2. new = Img(U, I, Q, O, F, G, C)
      BY <1>1, <3>1, UpdateApplied
    <3>3. DOMAIN F \subseteq DOMAIN E \cup {key}
      BY DEF UpdateElr, ElrAfter, Put, Drop
    <3>4. DOMAIN G \subseteq DOMAIN R \cup {key}
      BY DEF UpdateRecovery, RecoveryAfter, Put, Drop
    <3> HIDE DEF U, Q, key, F, G
    <3>5. Orphanless(U, Q, F, G, C)
      BY <1>2, <2>1, <2>2, <3>3, <3>4 DEF Orphanless
    <3> QED BY <1>3, <2>1, <2>2, <3>2, <3>5
  <2> QED BY <1>5, <2>3, <2>4
<1>6. CASE rec.kind = "PartitionElr"
  <2> DEFINE F == ElrAfter(E, key, rec.eligible, rec.lastKnown)
  <2>1. new = ApplyElr(img, key, rec.eligible, rec.lastKnown)
    BY <1>6, ApplyOf
  <2>2. new = Img(T, I, P, O, F, R, C)
    BY <1>1, <2>1, ElrApplied
  <2>3. DOMAIN F \subseteq DOMAIN E \cup {key} /\ key \in DOMAIN P
    BY <1>1, <1>6 DEF ElrAfter, Put, Drop, Grounded
  <2> HIDE DEF F, key
  <2>4. Orphanless(T, P, F, R, C)
    BY <1>2, <2>3 DEF Orphanless
  <2> QED BY <1>2, <1>3, <2>2, <2>4
<1>7. CASE rec.kind = "PartitionRecovery"
  <2> DEFINE G == RecoveryAfter(R, key, rec.state)
  <2>1. new = ApplyRecovery(img, key, rec.state)
    BY <1>7, ApplyOf
  <2>2. new = Img(T, I, P, O, E, G, C)
    BY <1>1, <2>1, RecoveryApplied
  <2>3. DOMAIN G \subseteq DOMAIN R \cup {key} /\ key \in DOMAIN P
    BY <1>1, <1>7 DEF RecoveryAfter, Put, Drop, Grounded
  <2> HIDE DEF G, key
  <2>4. Orphanless(T, P, E, G, C)
    BY <1>2, <2>3 DEF Orphanless
  <2> QED BY <1>2, <1>3, <2>2, <2>4
<1>8. CASE rec.kind = "DeleteTopic"
  <2> DEFINE t == rec.topic
             U == Drop(T, {t})
             J == Drop(I, {T[x].id : x \in DOMAIN T \cap {t}})
             Q == Drop(P, Of(t, P))
             W == Drop(O, Of(t, O))
             F == Drop(E, Of(t, E))
             G == Drop(R, Of(t, R))
             D == Drop(C, {t})
  <2>1. new = ApplyDeleteTopic(img, rec)
    BY <1>8, ApplyOf
  <2>2. new = Img(U, J, Q, W, F, G, D)
    BY <1>1, <2>1, DeleteApplied
  <2> HIDE DEF t, J, W
  <2>3. Counts(U, Q)
    BY <1>2, DeletionCounts
  <2>4. /\ DOMAIN U = DOMAIN T \ {t} /\ DOMAIN Q = DOMAIN P \ Of(t, P)
        /\ DOMAIN F = DOMAIN E \ Of(t, E) /\ DOMAIN G = DOMAIN R \ Of(t, R)
        /\ DOMAIN D = DOMAIN C \ {t}
    BY DEF Drop
  <2> HIDE DEF U, Q, F, G, D
  <2>5. Orphanless(U, Q, F, G, D)
    BY <1>2, <2>4 DEF Orphanless, Of
  <2> QED BY <1>3, <1>8, <2>2, <2>3, <2>5
<1>9. CASE rec.kind = "TopicConfig"
  <2> DEFINE D == ConfigsAfter(C, rec)
  <2>1. new = ApplyTopicConfig(img, rec)
    BY <1>9, ApplyOf
  <2>2. new = Img(T, I, P, O, E, R, D)
    BY <1>1, <2>1, ConfigApplied
  <2>3. DOMAIN D \subseteq DOMAIN C \cup {rec.topic} /\ rec.topic \in DOMAIN T
    BY <1>1, <1>9 DEF ConfigsAfter, Put, Drop, Grounded
  <2> HIDE DEF D
  <2>4. Orphanless(T, P, E, R, D)
    BY <1>2, <2>3 DEF Orphanless
  <2> QED BY <1>2, <1>3, <2>2, <2>4
<1>10. CASE rec.kind = "DirAssignment"
  <2> DEFINE Q == PartsAssigned(P, rec)
  <2>1. new = ApplyDirAssignment(img, rec)
    BY <1>10, ApplyOf
  <2>2. new = Img(T, I, Q, O, E, R, C)
    BY <1>1, <2>1, DirApplied
  <2>3. DOMAIN Q = DOMAIN P
    BY DEF PartsAssigned
  <2> HIDE DEF Q
  <2>4. Orphanless(T, Q, E, R, C) /\ Counts(T, Q)
    BY <1>2, <2>3 DEF Orphanless, Counts, Of
  <2> QED BY <1>3, <2>2, <2>3, <2>4
<1>11. CASE rec.kind = "OffsetAdvance"
  <2> DEFINE W == OffsetsAfter(O, rec)
  <2>1. new = ApplyOffsetAdvance(img, rec)
    BY <1>11, ApplyOf
  <2>2. new = Img(T, I, P, W, E, R, C)
    BY <1>1, <2>1, OffsetApplied
  <2> HIDE DEF W
  <2> QED BY <1>2, <1>3, <2>2
<1> QED
  BY <1>4, <1>5, <1>6, <1>7, <1>8, <1>9, <1>10, <1>11 DEF TopicRec

\* The restart agrees with the image it was taken from, keeps the counts and
\* has the same topics and partitions.
LEMMA RestoredAgrees ==
  ASSUME NEW img, Consistent(img), NEW F, NEW new, new = Restored(img, F)
  PROVE  Agree(img, new) /\ Consistent(new) /\ Grows(img, new)
<1> DEFINE T == img.topics
           P == img.parts
           U == Counted(T, P, F)
<1>1. /\ new.topics = U /\ new.ids = img.ids /\ new.parts = P /\ new.offsets = img.offsets
      /\ new.elr = img.elr /\ new.recovery = img.recovery /\ new.configs = img.configs
  <2>1. new = Img(U, img.ids, P, img.offsets, img.elr, img.recovery, img.configs)
    BY DEF Restored
  <2> HIDE DEF U, P
  <2> QED BY <2>1, ImgFields
<1> HIDE DEF T, P
<1>2. /\ DOMAIN U = DOMAIN T
      /\ \A t \in DOMAIN T : U[t].id = T[t].id /\ U[t].partitions = Cardinality(Of(t, P))
  BY DEF Counted
<1> HIDE DEF U
<1>3. \A t \in DOMAIN T : T[t].partitions = Cardinality(Of(t, P))
  BY DEF Consistent, Counts, T, P
<1>4. SameTopics(T, U) /\ Counts(U, P)
  BY <1>2, <1>3 DEF SameTopics, Counts
<1> QED
  BY <1>1, <1>2, <1>4 DEF Agree, Consistent, Grows, Orphanless, T, P

\* Images that agree stay so through a third.
LEMMA AgreeThrough ==
  ASSUME NEW a, NEW b, NEW c, Agree(a, b), Agree(a, c)
  PROVE  Agree(b, c)
BY DEF Agree, SameTopics

\* A record stays grounded while the image grows.
LEMMA StaysGrounded ==
  ASSUME NEW a, NEW b, Grows(a, b), NEW rec, Grounded(a, rec)
  PROVE  Grounded(b, rec)
BY DEF Grows, Grounded

\* validate admits only grounded records.
LEMMA ValidGrounded ==
  ASSUME NEW img, NEW rec, Valid(img, rec)
  PROVE  Grounded(img, rec)
BY DEF Valid, Grounded

\* The validating image has applied every record, or nothing is ever deleted.
Serialised == MaxLag = 0 \/ "DeleteTopic" \notin Kinds

\* What holds of a serialised log: the records that are committed and not yet
\* applied are as grounded as when they were validated.
SerialInv ==
  /\ TopicImg(replayed)
  /\ Agree(image, replayed)
  /\ Consistent(image)
  /\ \A i \in DOMAIN unapplied : Grounded(image, unapplied[i].record)
  /\ MaxLag = 0 => Len(unapplied) <= 1
  /\ "DeleteTopic" \notin Kinds =>
       /\ \A request \in pending : request.record.kind # "DeleteTopic"
       /\ \A i \in DOMAIN unapplied : unapplied[i].record.kind # "DeleteTopic"

\* The invariant SerialInv holds at first and every step keeps it.
THEOREM SerialInductive == ASSUME Sizes, Serialised PROVE Spec => []SerialInv
<1>1. Init /\ TypedInv => SerialInv
  <2> SUFFICES ASSUME Init, TypedInv PROVE SerialInv
    OBVIOUS
  <2>1. TopicImg(replayed) /\ Agree(image, replayed)
    BY DEF Init, TypedInv, Agree, SameTopics
  <2>2. DOMAIN EmptyMap = {}
    BY DEF EmptyMap
  <2>3. Consistent(image)
    BY <2>2 DEF Init, NewImage, Consistent, Counts, Orphanless
  <2>4. DOMAIN <<>> = {} /\ Len(<<>>) = 0
    OBVIOUS
  <2> QED
    BY <2>1, <2>3, <2>4 DEF Init, SerialInv
<1>2. TypedInv /\ SerialInv /\ [Next]_vars => SerialInv'
  <2> SUFFICES ASSUME TypedInv, SerialInv, [Next]_vars PROVE SerialInv'
    OBVIOUS
  <2>0. IsSequence(unapplied)
    BY DEF TypedInv
  <2>1. CASE Ask
    <3>1. PICK rec \in Requests(image, asked) :
            pending' = pending \cup {[record |-> rec, seen |-> committed]}
      BY <2>1 DEF Ask
    <3>2. UNCHANGED <<image, replayed, unapplied>>
      BY <2>1 DEF Ask
    <3>3. "DeleteTopic" \notin Kinds => rec.kind # "DeleteTopic"
      BY <3>1 DEF Requests
    <3> QED BY <3>1, <3>2, <3>3 DEF SerialInv
  <2>2. CASE \E request \in pending : Submit(request) \/ Refuse(request)
    <3>1. PICK request \in pending : Submit(request) \/ Refuse(request)
      BY <2>2
    <3>2. UNCHANGED <<image, replayed>> /\ pending' \subseteq pending
      BY <3>1 DEF Submit, Refuse
    <3>3. CASE Refuse(request)
      BY <3>2, <3>3 DEF Refuse, SerialInv
    <3>4. CASE Submit(request)
      <4>1. TopicRequest(request)
        BY DEF TypedInv
      <4>2. [request EXCEPT !.record = Stamped(request.record, committed)] = request
        BY <4>1 DEF TopicRequest, Stamped
      <4>3. unapplied' = Append(unapplied, request) /\ Len(unapplied) <= MaxLag
        BY <3>4, <4>2 DEF Submit
      <4>4. Grounded(image, request.record)
        BY <3>4, ValidGrounded DEF Submit
      <4>5. ASSUME NEW i \in DOMAIN unapplied', unapplied'[i] # request
            PROVE  i \in DOMAIN unapplied /\ unapplied'[i] = unapplied[i]
        BY <2>0, <4>3, <4>5, AppendOf
      <4>6. MaxLag = 0 => Len(unapplied') <= 1
        <5>1. PICK S : unapplied \in Seq(S) /\ request \in S
          <6> DEFINE S == {unapplied[i] : i \in DOMAIN unapplied} \cup {request}
          <6>1. unapplied \in Seq(S) /\ request \in S
            BY <2>0 DEF IsSequence
          <6> QED BY <6>1
        <5>2. Len(unapplied') = Len(unapplied) + 1 /\ Len(unapplied) \in Nat
          BY <4>3, <5>1
        <5> QED BY <4>3, <5>2
      <4>7. \A i \in DOMAIN unapplied' : Grounded(image', unapplied'[i].record)
        BY <3>2, <4>4, <4>5 DEF SerialInv
      <4>8. "DeleteTopic" \notin Kinds =>
              /\ \A r \in pending' : r.record.kind # "DeleteTopic"
              /\ \A i \in DOMAIN unapplied' : unapplied'[i].record.kind # "DeleteTopic"
        BY <3>2, <4>5 DEF SerialInv
      <4> QED BY <3>2, <4>6, <4>7, <4>8 DEF SerialInv
    <3> QED BY <3>1, <3>3, <3>4
  <2>3. CASE ApplyNext
    <3>1. /\ unapplied # <<>> /\ image' = Apply(image, Head(unapplied).record)
          /\ replayed' = Apply(replayed, Head(unapplied).record)
          /\ unapplied' = Tail(unapplied) /\ UNCHANGED <<pending, asked>>
      BY <2>3 DEF ApplyNext
    <3>2. /\ IsSequence(unapplied') /\ Len(unapplied') = Len(unapplied) - 1
          /\ \A i \in DOMAIN unapplied' : i + 1 \in DOMAIN unapplied /\ unapplied'[i] = unapplied[i + 1]
          /\ 1 \in DOMAIN unapplied /\ Head(unapplied) = unapplied[1]
      BY <2>0, <3>1, TailOf
    <3> DEFINE rec == unapplied[1].record
               img == image
               new == image'
               old == replayed
               alt == replayed'
    <3>3. PICK name : TopicsNamed(name)
      BY DEF TypedInv
    <3>4. /\ TopicRec(rec) /\ RecOwned(rec, name) /\ Grounded(img, rec)
          /\ TopicImg(img) /\ Owned(img.topics, name) /\ Consistent(img)
          /\ TopicImg(old) /\ Agree(img, old)
      BY <3>2, <3>3 DEF TypedInv, TopicsNamed, TopicRequest, SerialInv
    <3>5. Owned(old.topics, name)
      BY <3>4 DEF Agree, SameTopics, Owned
    <3>6. new = Apply(img, rec) /\ alt = Apply(old, rec)
      BY <3>1, <3>2
    <3>7. TopicImg(alt) /\ Agree(new, alt) /\ Consistent(new)
          /\ (rec.kind # "DeleteTopic" => Grows(img, new))
      <4> HIDE DEF rec, img, new, old, alt
      <4>1. TopicImg(alt)
        BY <3>4, <3>5, <3>6, ApplyKeeps
      <4>2. Agree(new, alt)
        BY <3>4, <3>6, ApplyAgrees
      <4>3. Consistent(new) /\ (rec.kind # "DeleteTopic" => Grows(img, new))
        BY <3>4, <3>6, ApplyConsistent
      <4> QED BY <4>1, <4>2, <4>3
    <3>8. ASSUME NEW i \in DOMAIN unapplied' PROVE Grounded(image', unapplied'[i].record)
      <4>1. CASE "DeleteTopic" \notin Kinds
        <5>1. rec.kind # "DeleteTopic"
          BY <3>2, <4>1 DEF SerialInv
        <5>2. Grounded(image, unapplied'[i].record)
          BY <3>2 DEF SerialInv
        <5> QED BY <3>7, <5>1, <5>2, StaysGrounded
      <4>2. CASE MaxLag = 0
        <5>1. Len(unapplied') <= 0
          <6>1. Len(unapplied) \in Nat
            BY <2>0, SequenceLen
          <6> QED BY <3>2, <4>2, <6>1 DEF SerialInv
        <5>2. DOMAIN unapplied' = 1..Len(unapplied') /\ Len(unapplied') \in Nat
          BY <3>2, SequenceLen
        <5> QED BY <5>1, <5>2
      <4> QED BY <4>1, <4>2 DEF Serialised
    <3>9. MaxLag = 0 => Len(unapplied') <= 1
      <4>1. Len(unapplied) \in Nat
        BY <2>0, SequenceLen
      <4> QED BY <3>2, <4>1 DEF SerialInv
    <3>10. "DeleteTopic" \notin Kinds =>
             /\ \A request \in pending' : request.record.kind # "DeleteTopic"
             /\ \A i \in DOMAIN unapplied' : unapplied'[i].record.kind # "DeleteTopic"
      BY <3>1, <3>2 DEF SerialInv
    <3> QED BY <3>7, <3>8, <3>9, <3>10 DEF SerialInv
  <2>4. CASE Restart
    <3>1. image' = FromRecords(ToRecords(image)) /\ UNCHANGED <<replayed, unapplied, pending>>
      BY <2>4 DEF Restart
    <3> DEFINE img == image
               new == image'
    <3>2. TopicImg(img) /\ Consistent(img) /\ new = FromRecords(ToRecords(img))
      BY <3>1 DEF TypedInv, SerialInv
    <3>3. Agree(img, new) /\ Consistent(new) /\ Grows(img, new)
      <4> HIDE DEF img, new
      <4>1. PICK F : new = Restored(img, F)
        BY <3>2, TopicsRestored DEF Sizes
      <4> QED BY <3>2, <4>1, RestoredAgrees
    <3>4. Agree(image', replayed)
      BY <3>3, AgreeThrough DEF SerialInv
    <3>5. ASSUME NEW i \in DOMAIN unapplied PROVE Grounded(image', unapplied[i].record)
      <4>1. Grounded(image, unapplied[i].record)
        BY DEF SerialInv
      <4> QED BY <3>3, <4>1, StaysGrounded
    <3> QED BY <3>1, <3>3, <3>4, <3>5 DEF SerialInv
  <2>5. CASE UNCHANGED vars
    BY <2>5 DEF vars, SerialInv
  <2> QED
    BY <2>1, <2>2, <2>3, <2>4, <2>5 DEF Next
<1> QED
  BY <1>1, <1>2, TypedInductive, PTL DEF Spec

\* The reverse index of topic ids holds exactly the live topics and the cached
\* counts are the numbers of partitions, whatever the order of creations,
\* deletions, re-creations, stale requests and restarts.
THEOREM IndexesAgree == ASSUME Sizes, Serialised PROVE Spec => []DerivedConsistent
<1>1. TypedInv /\ SerialInv => DerivedConsistent
  BY DEF TypedInv, TopicImg, TopicsOK, SerialInv, Consistent, Counts, DerivedConsistent,
     PartitionCount
<1> QED
  BY <1>1, TypedInductive, SerialInductive, PTL

\* No partition outlives its topic, and no eligible-leader, recovery or config
\* entry outlives what it describes.
THEOREM NothingOrphaned == ASSUME Sizes, Serialised PROVE Spec => []NoOrphans
<1>1. SerialInv => NoOrphans
  BY DEF SerialInv, Consistent, Orphanless, NoOrphans
<1> QED
  BY <1>1, SerialInductive, PTL

\* A replica that restarted from snapshots holds the image of one that
\* replayed every record, except for replication factors.
THEOREM TopicsRestartedAgree == ASSUME Sizes, Serialised PROVE Spec => []RestartedAgrees
<1>1. TypedInv /\ SerialInv => RestartedAgrees
  <2> SUFFICES ASSUME NEW a, NEW b, TopicImg(a), TopicImg(b), Agree(a, b) PROVE View(a) = View(b)
    BY DEF TypedInv, SerialInv, RestartedAgrees
  <2> DEFINE V(T) == [t \in DOMAIN T |-> [id |-> T[t].id, partitions |-> T[t].partitions]]
  <2>1. V(a.topics) = V(b.topics)
    BY DEF Agree, SameTopics
  <2>2. View(a) = [a EXCEPT !.topics = V(a.topics)] /\ View(b) = [b EXCEPT !.topics = V(b.topics)]
    BY DEF View
  <2> HIDE DEF V
  <2>3. ASSUME NEW x, TopicImg(x), NEW v
        PROVE  [x EXCEPT !.topics = v] =
                 Img(v, x.ids, x.parts, x.offsets, x.elr, x.recovery, x.configs)
    <3>1. x = Img(x.topics, x.ids, x.parts, x.offsets, x.elr, x.recovery, x.configs)
      BY <2>3 DEF TopicImg
    <3> QED BY <3>1 DEF Img
  <2>4. View(a) = Img(V(a.topics), a.ids, a.parts, a.offsets, a.elr, a.recovery, a.configs)
    BY <2>2, <2>3
  <2>5. View(b) = Img(V(b.topics), b.ids, b.parts, b.offsets, b.elr, b.recovery, b.configs)
    BY <2>2, <2>3
  <2> QED BY <2>1, <2>4, <2>5 DEF Agree
<1> QED
  BY <1>1, TypedInductive, SerialInductive, PTL
=============================================================================
