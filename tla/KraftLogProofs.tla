--------------------------- MODULE KraftLogProofs ---------------------------
(***************************************************************************)
(* ACLs and configs through KIP-631 records (KraftSettingsLog) for every   *)
(* set of entries, filters, owners and keys, any number of requests and    *)
(* restarts and a controller any number of records behind.                 *)
(*                                                                         *)
(* One record becomes several, in an order that a HashMap picks: a batch   *)
(* of removals removes the entries it names, one of configs adds and drops *)
(* the keys it names, in whatever order (RemovalBatch, MergeBatch).  What  *)
(* it names was found in the encoder's image.  If that is the image it is  *)
(* decoded with, the batch does what the record says and every record of   *)
(* it resolves; if not, it removes no ACL that the record would have kept  *)
(* (RecordCarries).  A snapshot, a batch for each record of to_records,    *)
(* gives back every image that records lead to (SnapshotExact).  Both ends *)
(* of the argument are folds, over a batch and over the sections, which    *)
(* FoldProofs evaluates.                                                   *)
(***************************************************************************)
EXTENDS KraftSettingsLog, FiniteSets, TLAPS, FiniteSetTheorems

Wires == INSTANCE FoldProofs WITH Empty <- NewImage, Apply <- ApplyWire
Batches == INSTANCE FoldProofs WITH Empty <- NewImage, Apply <- ApplyBatch

\* A batch is applied record by record.
LEMMA BatchIs ==
  ASSUME NEW img, NEW n \in Nat, NEW s, DOMAIN s = 1..n,
         NEW m, Wires!Walks(m, img, s, n)
  PROVE  ApplyBatch(img, s) = m[n]
<1>1. ApplyBatch(img, s) = Wires!InTurn(img, s)
  BY DEF ApplyBatch, Wires!InTurn, FoldLeft, Wires!FoldLeft, MapThenFoldSet,
       Wires!MapThenFoldSet, Max, Wires!Max
<1> QED BY <1>1, Wires!InTurnIs

\* A snapshot is applied section by section.
LEMMA SnapIs ==
  ASSUME NEW img
  PROVE  FromSnapshot(img) = Batches!FromRecords(Encoded(img))
BY DEF FromSnapshot, Batches!FromRecords, FoldLeft, Batches!FoldLeft, MapThenFoldSet,
       Batches!MapThenFoldSet, Max, Batches!Max, FoldSet, Batches!FoldSet

-----------------------------------------------------------------------------
(* Sequences of a set *)

\* SetToSeq lists the set.
LEMMA SetToSeqLists ==
  ASSUME NEW S, IsFiniteSet(S)
  PROVE  /\ Cardinality(S) \in Nat
         /\ Wires!Lists(SetToSeq(S), S, Cardinality(S))
<1> DEFINE n == Cardinality(S)
           s == SetToSeq(S)
<1>1. n \in Nat /\ ExistsBijection(1..n, S)
  BY FS_CardinalityType
<1>2. PICK f : f \in Bijection(1..n, S)
  BY <1>1 DEF ExistsBijection
<1>3. s \in [1..n -> S] /\ IsInjective(s)
  <2>1. f \in [1..n -> S] /\ IsInjective(f)
    BY <1>2 DEF Bijection, Injection
  <2> QED BY <2>1 DEF SetToSeq
<1> HIDE DEF s
<1>4. s \in Injection(1..n, S)
  BY <1>3 DEF Injection
<1>5. Cardinality(1..n) = n
  BY <1>1, FS_Interval
<1>6. s \in Surjection(1..n, S)
  BY <1>4, <1>5, FS_Injection
<1>7. S = {s[i] : i \in 1..n}
  BY <1>3, <1>6 DEF Surjection
<1>8. \A i, j \in 1..n : i # j => s[i] # s[j]
  BY <1>3 DEF IsInjective
<1> QED BY <1>1, <1>3, <1>7, <1>8 DEF s, Wires!Lists

-----------------------------------------------------------------------------
(* What one record does *)

Img(acls, configs) == [acls |-> acls, configs |-> configs]

\* All ACL entries have the same axes.
OneShape == \E Axis, Value : Entry \subseteq [Axis -> Value]

AclWire(e) == [type |-> "Acl", id |-> AclId(e), entry |-> e]
RemoveWire(e) == [type |-> "RemoveAcl", id |-> AclId(e)]
ConfigWire(o, k, set) == [type |-> "Config", owner |-> o, key |-> k, set |-> set]

\* The exact filter of an entry matches that entry.
LEMMA ExactMatch ==
  ASSUME OneShape, NEW e \in Entry, NEW a \in Entry
  PROVE  Matches(ExactFilter(e), a) <=> a = e
<1>1. PICK Axis, Value : Entry \subseteq [Axis -> Value]
  BY DEF OneShape
<1>2. e \in [Axis -> Value] /\ a \in [Axis -> Value]
  BY <1>1
<1> QED BY <1>2 DEF Matches, ExactFilter

\* An ACL record adds its entry.
LEMMA AddedIs ==
  ASSUME NEW a, NEW c, NEW e
  PROVE  /\ FromKraft(Img(a, c), AclWire(e)) # None
         /\ ApplyWire(Img(a, c), AclWire(e)) = Img(a \cup {e}, c)
<1> DEFINE r == [kind |-> "AccessControlEntry", entry |-> e]
<1>1. FromKraft(Img(a, c), AclWire(e)) = {r}
  BY DEF FromKraft, AclWire, Some
<1>2. {r} # {} /\ (CHOOSE x \in {r} : TRUE) = r
  OBVIOUS
<1>3. Apply(Img(a, c), r) = Img(a \cup {e}, c)
  BY DEF Apply, Img
<1> QED BY <1>1, <1>2, <1>3 DEF ApplyWire, None

\* A removal takes its entry away, or finds none.
LEMMA RemovedIs ==
  ASSUME OneShape, NEW a \in SUBSET Entry, NEW c, NEW e \in Entry
  PROVE  /\ FromKraft(Img(a, c), RemoveWire(e)) = None <=> e \notin a
         /\ ApplyWire(Img(a, c), RemoveWire(e)) = Img(a \ {e}, c)
<1> DEFINE r == [kind |-> "DeleteAccessControlEntry", filter |-> ExactFilter(e)]
<1>1. FromKraft(Img(a, c), RemoveWire(e)) =
        {[kind |-> "DeleteAccessControlEntry", filter |-> ExactFilter(x)] : x \in {y \in a : y = e}}
  BY DEF FromKraft, RemoveWire, AclId, Img
<1>2. CASE e \in a
  <2>1. FromKraft(Img(a, c), RemoveWire(e)) = {r}
    BY <1>1, <1>2
  <2>2. {r} # {} /\ (CHOOSE x \in {r} : TRUE) = r
    OBVIOUS
  <2>3. {x \in a : ~Matches(ExactFilter(e), x)} = a \ {e}
    BY ExactMatch
  <2>4. Apply(Img(a, c), r) = Img(a \ {e}, c)
    BY <2>3 DEF Apply, Img
  <2> QED BY <1>2, <2>1, <2>2, <2>4 DEF ApplyWire, None
<1>3. CASE e \notin a
  <2>1. FromKraft(Img(a, c), RemoveWire(e)) = {}
    BY <1>1, <1>3
  <2>2. a \ {e} = a
    BY <1>3
  <2> QED BY <1>3, <2>1, <2>2 DEF ApplyWire, None
<1> QED BY <1>2, <1>3

Merged(c, o, k, set) ==
  IF set THEN Keys(Img({}, c), o) \cup {k} ELSE Keys(Img({}, c), o) \ {k}

\* A config record adds its key to the map of its owner, or takes it away.
LEMMA MergedIs ==
  ASSUME NEW a, NEW c, NEW o, NEW k, NEW set \in BOOLEAN
  PROVE  /\ FromKraft(Img(a, c), ConfigWire(o, k, set)) # None
         /\ ApplyWire(Img(a, c), ConfigWire(o, k, set)) =
              Img(a, Replaced(c, o, Merged(c, o, k, set)))
<1> DEFINE r == [kind |-> "Config", owner |-> o, keys |-> Merged(c, o, k, set)]
<1>1. Keys(Img(a, c), o) = Keys(Img({}, c), o)
  BY DEF Keys, Img
<1>2. FromKraft(Img(a, c), ConfigWire(o, k, set)) = {r}
  BY <1>1 DEF FromKraft, ConfigWire, Some, Merged
<1>3. {r} # {} /\ (CHOOSE x \in {r} : TRUE) = r
  OBVIOUS
<1>4. Apply(Img(a, c), r) = Img(a, Replaced(c, o, Merged(c, o, k, set)))
  BY DEF Apply, Img
<1> QED BY <1>2, <1>3, <1>4 DEF ApplyWire, None

-----------------------------------------------------------------------------
(* Config maps *)

KeysOf(c, o) == Keys(Img({}, c), o)

\* No owner has an empty map of configs.
ConfigMap(c) ==
  /\ c = [r \in DOMAIN c |-> c[r]]
  /\ IsFiniteSet(DOMAIN c)
  /\ \A r \in DOMAIN c : c[r] # {} /\ c[r] \subseteq Key

\* The keys of an owner.
LEMMA KeysValue ==
  ASSUME NEW a, NEW c, NEW o
  PROVE  /\ KeysOf(c, o) = IF o \in DOMAIN c THEN c[o] ELSE {}
         /\ Keys(Img(a, c), o) = KeysOf(c, o)
<1>1. Keys(Img(a, c), o) = UNION {c[r] : r \in DOMAIN c \cap {o}}
  BY DEF Keys, Img
<1>2. KeysOf(c, o) = UNION {c[r] : r \in DOMAIN c \cap {o}}
  BY DEF KeysOf, Keys, Img
<1>3. CASE o \in DOMAIN c
  <2>1. DOMAIN c \cap {o} = {o}
    BY <1>3
  <2> QED BY <1>1, <1>2, <1>3, <2>1
<1>4. CASE o \notin DOMAIN c
  <2>1. DOMAIN c \cap {o} = {}
    BY <1>4
  <2> QED BY <1>1, <1>2, <1>4, <2>1
<1> QED BY <1>3, <1>4

\* A map replaced is the map it is replaced by, whatever it was.
LEMMA ReplacedFacts ==
  ASSUME NEW c, ConfigMap(c), NEW o, NEW ks \in SUBSET Key
  PROVE  /\ ConfigMap(Replaced(c, o, ks))
         /\ KeysOf(Replaced(c, o, ks), o) = ks
<1> DEFINE d == Replaced(c, o, ks)
<1>1. CASE ks = {}
  <2>1. d = [k \in DOMAIN c \ {o} |-> c[k]]
    BY <1>1 DEF Replaced, Drop
  <2>2. DOMAIN d = DOMAIN c \ {o}
    BY <2>1
  <2>3. IsFiniteSet(DOMAIN d)
    BY <2>2, FS_RemoveElement DEF ConfigMap
  <2> HIDE DEF d
  <2>4. ConfigMap(d)
    BY <2>1, <2>3 DEF ConfigMap
  <2>5. KeysOf(d, o) = {}
    BY <2>2, KeysValue
  <2> QED BY <1>1, <2>4, <2>5 DEF d
<1>2. CASE ks # {}
  <2>1. d = [k \in DOMAIN c \cup {o} |-> IF k = o THEN ks ELSE c[k]]
    BY <1>2 DEF Replaced, Put
  <2>2. DOMAIN d = DOMAIN c \cup {o} /\ d[o] = ks
    BY <2>1
  <2>3. IsFiniteSet(DOMAIN d)
    BY <2>2, FS_AddElement DEF ConfigMap
  <2> HIDE DEF d
  <2>4. ConfigMap(d)
    BY <1>2, <2>1, <2>3 DEF ConfigMap
  <2>5. KeysOf(d, o) = ks
    BY <2>2, KeysValue
  <2> QED BY <2>4, <2>5 DEF d
<1> QED BY <1>1, <1>2

\* The last replacement is the one that counts.
LEMMA ReplacedTwice ==
  ASSUME NEW c, NEW o, NEW x, NEW ks
  PROVE  Replaced(Replaced(c, o, x), o, ks) = Replaced(c, o, ks)
<1> DEFINE d == Replaced(c, o, x)
<1>1. /\ DOMAIN d = IF x = {} THEN DOMAIN c \ {o} ELSE DOMAIN c \cup {o}
      /\ \A k \in DOMAIN c \ {o} : d[k] = c[k]
  BY DEF Replaced, Put, Drop
<1> HIDE DEF d
<1>2. DOMAIN d \ {o} = DOMAIN c \ {o} /\ DOMAIN d \cup {o} = DOMAIN c \cup {o}
  BY <1>1
<1>3. Drop(d, {o}) = Drop(c, {o})
  BY <1>1, <1>2 DEF Drop
<1>4. Put(d, o, ks) = Put(c, o, ks)
  BY <1>1, <1>2 DEF Put
<1> QED BY <1>3, <1>4 DEF d, Replaced

\* A map replaced by itself.
LEMMA ReplacedSame ==
  ASSUME NEW c, ConfigMap(c), NEW o
  PROVE  Replaced(c, o, KeysOf(c, o)) = c
<1>1. CASE o \in DOMAIN c
  <2>1. KeysOf(c, o) = c[o] /\ c[o] # {}
    BY <1>1, KeysValue DEF ConfigMap
  <2>2. Put(c, o, c[o]) = [k \in DOMAIN c |-> c[k]]
    BY <1>1 DEF Put
  <2> QED BY <2>1, <2>2 DEF Replaced, ConfigMap
<1>2. CASE o \notin DOMAIN c
  <2>1. KeysOf(c, o) = {}
    BY <1>2, KeysValue
  <2>2. Drop(c, {o}) = [k \in DOMAIN c |-> c[k]]
    BY <1>2 DEF Drop
  <2> QED BY <2>1, <2>2 DEF Replaced, ConfigMap
<1> QED BY <1>1, <1>2

-----------------------------------------------------------------------------
(* What a batch does *)

\* The images between the records of a batch, at the end and before it.
LEMMA WalkIs ==
  ASSUME NEW S, NEW s \in Seq(S), NEW img, NEW m, Wires!Walks(m, img, s, Len(s))
  PROVE  /\ ApplyBatch(img, s) = m[Len(s)]
         /\ \A k \in 0..Len(s) : ApplyBatch(img, SubSeq(s, 1, k)) = m[k]
<1>1. Len(s) \in Nat /\ DOMAIN s = 1..Len(s)
  OBVIOUS
<1>2. ApplyBatch(img, s) = m[Len(s)]
  BY <1>1, BatchIs
<1>3. ASSUME NEW k \in 0..Len(s) PROVE ApplyBatch(img, SubSeq(s, 1, k)) = m[k]
  <2> DEFINE t == SubSeq(s, 1, k)
  <2>1. k \in Nat /\ DOMAIN t = 1..k /\ \A i \in 1..k : t[i] = s[i] /\ i \in 1..Len(s)
    OBVIOUS
  <2> HIDE DEF t
  <2>2. Wires!Walks(m, img, t, k)
    BY <2>1 DEF Wires!Walks
  <2>3. ApplyBatch(img, t) = m[k]
    BY <2>1, <2>2, BatchIs
  <2> QED BY <2>3 DEF t
<1> QED BY <1>2, <1>3

\* Every record of a batch resolves in the image it meets.
Resolved(img, s) ==
  \A i \in DOMAIN s : FromKraft(ApplyBatch(img, SubSeq(s, 1, i - 1)), s[i]) # None

Removals(M) == SetToSeq({RemoveWire(e) : e \in M})

\* The removals of a set of entries.
LEMMA RemovalList ==
  ASSUME NEW M, IsFiniteSet(M)
  PROVE  /\ Removals(M) \in Seq({RemoveWire(e) : e \in M})
         /\ \A i \in 1..Len(Removals(M)) : \E e \in M : Removals(M)[i] = RemoveWire(e)
         /\ \A e \in M : \E i \in 1..Len(Removals(M)) : Removals(M)[i] = RemoveWire(e)
         /\ \A i, j \in 1..Len(Removals(M)) : i # j => Removals(M)[i] # Removals(M)[j]
<1> DEFINE U == {RemoveWire(e) : e \in M}
           f == [e \in M |-> RemoveWire(e)]
           n == Cardinality(U)
           s == SetToSeq(U)
<1>1. IsFiniteSet(U)
  <2>1. f \in Surjection(M, U)
    BY DEF Surjection
  <2> QED BY <2>1, FS_Surjection
<1> HIDE DEF U
<1>2. n \in Nat /\ Wires!Lists(s, U, n)
  BY <1>1, SetToSeqLists
<1> HIDE DEF s, n
<1>3. s \in Seq(U) /\ Len(s) = n
  BY <1>2 DEF Wires!Lists
<1>4. /\ \A i \in 1..n : s[i] \in U
      /\ \A u \in U : \E i \in 1..n : s[i] = u
      /\ \A i, j \in 1..n : i # j => s[i] # s[j]
  BY <1>2 DEF Wires!Lists
<1>5. Removals(M) = s
  BY DEF Removals, s, U
<1> QED BY <1>3, <1>4, <1>5 DEF U

\* A batch of removals removes what it names, and where all of that is there
\* every removal finds its entry: no two name the same one.
LEMMA RemovalBatch ==
  ASSUME OneShape, NEW a \in SUBSET Entry, NEW c, NEW M \in SUBSET Entry, IsFiniteSet(M)
  PROVE  /\ ApplyBatch(Img(a, c), Removals(M)) = Img(a \ M, c)
         /\ M \subseteq a => Resolved(Img(a, c), Removals(M))
<1> DEFINE s == Removals(M)
           n == Len(s)
           Gone(k) == {e \in M : \E i \in 1..k : s[i] = RemoveWire(e)}
           m == [k \in 0..n |-> Img(a \ Gone(k), c)]
<1>1. /\ s \in Seq({RemoveWire(e) : e \in M}) /\ n \in Nat /\ DOMAIN s = 1..n
      /\ \A i \in 1..n : \E e \in M : s[i] = RemoveWire(e)
      /\ \A e \in M : \E i \in 1..n : s[i] = RemoveWire(e)
      /\ \A i, j \in 1..n : i # j => s[i] # s[j]
  <2>1. /\ s \in Seq({RemoveWire(e) : e \in M})
        /\ \A i \in 1..n : \E e \in M : s[i] = RemoveWire(e)
        /\ \A e \in M : \E i \in 1..n : s[i] = RemoveWire(e)
        /\ \A i, j \in 1..n : i # j => s[i] # s[j]
    BY RemovalList
  <2> HIDE DEF s
  <2> QED BY <2>1
<1> HIDE DEF s, n
<1>2. \A x, y : RemoveWire(x) = RemoveWire(y) => x = y
  BY DEF RemoveWire, AclId
<1>3. Gone(0) = {} /\ Gone(n) = M
  BY <1>1
<1>4. ASSUME NEW k \in 1..n, NEW e \in M, s[k] = RemoveWire(e)
      PROVE  Gone(k) = Gone(k - 1) \cup {e} /\ e \notin Gone(k - 1)
  <2>1. k - 1 \in 0..n /\ 1..k = 1..(k - 1) \cup {k} /\ \A i \in 1..(k - 1) : i \in 1..n /\ i # k
    BY <1>1
  <2>2. Gone(k) = Gone(k - 1) \cup {e}
    BY <1>2, <1>4, <2>1
  <2>3. e \notin Gone(k - 1)
    BY <1>1, <1>4, <2>1
  <2> QED BY <2>2, <2>3
<1>5. \A k \in 0..n : m[k] = Img(a \ Gone(k), c)
  OBVIOUS
<1> HIDE DEF m, Gone
<1>6. ASSUME NEW k \in 1..n
      PROVE  /\ m[k] = ApplyWire(m[k - 1], s[k])
             /\ M \subseteq a => FromKraft(m[k - 1], s[k]) # None
  <2>1. PICK e \in M : s[k] = RemoveWire(e)
    BY <1>1
  <2>2. k - 1 \in 0..n /\ k \in 0..n
    BY <1>1
  <2>3. Gone(k) = Gone(k - 1) \cup {e} /\ e \notin Gone(k - 1)
    BY <1>4, <2>1
  <2> DEFINE b == a \ Gone(k - 1)
  <2>4. m[k - 1] = Img(b, c) /\ b \in SUBSET Entry /\ e \in Entry
    BY <1>5, <2>2
  <2>5. b \ {e} = a \ Gone(k) /\ (M \subseteq a => e \in b)
    BY <2>3
  <2> HIDE DEF b
  <2>6. /\ FromKraft(Img(b, c), RemoveWire(e)) = None <=> e \notin b
        /\ ApplyWire(Img(b, c), RemoveWire(e)) = Img(b \ {e}, c)
    BY <2>4, RemovedIs
  <2> QED BY <1>5, <2>1, <2>2, <2>4, <2>5, <2>6
<1>7. Wires!Walks(m, Img(a, c), s, n)
  <2>1. m[0] = Img(a, c)
    BY <1>1, <1>3, <1>5
  <2> QED BY <1>6, <2>1 DEF Wires!Walks
<1>8. /\ ApplyBatch(Img(a, c), s) = m[n]
      /\ \A k \in 0..n : ApplyBatch(Img(a, c), SubSeq(s, 1, k)) = m[k]
  BY <1>1, <1>7, WalkIs DEF n
<1>9. ASSUME M \subseteq a PROVE Resolved(Img(a, c), s)
  <2>1. ASSUME NEW i \in DOMAIN s
        PROVE  FromKraft(ApplyBatch(Img(a, c), SubSeq(s, 1, i - 1)), s[i]) # None
    <3>1. i \in 1..n /\ i - 1 \in 0..n
      BY <1>1
    <3> QED BY <1>6, <1>8, <1>9, <3>1
  <2> QED BY <2>1 DEF Resolved
<1> QED BY <1>1, <1>3, <1>5, <1>8, <1>9 DEF s

\* The keys that the first k records of a batch set, and those they drop.
On(s, o, k) == {x \in Key : \E i \in 1..k : s[i] = ConfigWire(o, x, TRUE)}
Off(s, o, k) == {x \in Key : \E i \in 1..k : s[i] = ConfigWire(o, x, FALSE)}

KeyWires(o, K, set) == {ConfigWire(o, k, set) : k \in K}
ConfigWires(o) == KeyWires(o, Key, TRUE) \cup KeyWires(o, Key, FALSE)

\* What the record after those adds.
LEMMA OnOffNext ==
  ASSUME NEW o, NEW s \in Seq(ConfigWires(o)), NEW k \in 1..Len(s),
         NEW x \in Key, NEW set \in BOOLEAN, s[k] = ConfigWire(o, x, set)
  PROVE  /\ On(s, o, k) = IF set THEN On(s, o, k - 1) \cup {x} ELSE On(s, o, k - 1)
         /\ Off(s, o, k) = IF set THEN Off(s, o, k - 1) ELSE Off(s, o, k - 1) \cup {x}
<1>1. 1..k = 1..(k - 1) \cup {k}
  OBVIOUS
<1>2. \A y, b : ConfigWire(o, x, set) = ConfigWire(o, y, b) <=> x = y /\ set = b
  BY DEF ConfigWire
<1>3. CASE set
  <2>1. set = TRUE
    BY <1>3
  <2> QED BY <1>1, <1>2, <2>1 DEF On, Off
<1>4. CASE ~set
  <2>1. set = FALSE
    BY <1>4
  <2> QED BY <1>1, <1>2, <2>1 DEF On, Off
<1> QED BY <1>3, <1>4

\* A batch of config records adds the keys it sets and takes away the ones it
\* drops, and every record resolves.
LEMMA MergeBatch ==
  ASSUME NEW a, NEW c, ConfigMap(c), NEW o, NEW s \in Seq(ConfigWires(o)),
         On(s, o, Len(s)) \cap Off(s, o, Len(s)) = {}
  PROVE  /\ ApplyBatch(Img(a, c), s) =
              Img(a, Replaced(c, o, (KeysOf(c, o) \cup On(s, o, Len(s))) \ Off(s, o, Len(s))))
         /\ Resolved(Img(a, c), s)
<1> DEFINE n == Len(s)
           Now(k) == (KeysOf(c, o) \cup On(s, o, k)) \ Off(s, o, k)
           m == [k \in 0..n |-> Img(a, Replaced(c, o, Now(k)))]
<1>1. n \in Nat /\ DOMAIN s = 1..n /\ \A i \in 1..n : s[i] \in ConfigWires(o)
  OBVIOUS
<1>2. KeysOf(c, o) \subseteq Key
  BY KeysValue DEF ConfigMap
<1>3. ASSUME NEW k PROVE Now(k) \in SUBSET Key
  BY <1>2 DEF On
<1>4. ASSUME NEW k \in 0..n PROVE On(s, o, k) \subseteq On(s, o, n) /\ Off(s, o, k) \subseteq Off(s, o, n)
  <2>1. 1..k \subseteq 1..n
    BY <1>1
  <2> HIDE DEF n
  <2> QED BY <2>1 DEF On, Off
<1>5. ASSUME NEW k \in 1..n, NEW x \in Key, NEW set \in BOOLEAN, s[k] = ConfigWire(o, x, set)
      PROVE  Now(k) = IF set THEN Now(k - 1) \cup {x} ELSE Now(k - 1) \ {x}
  <2>1. /\ On(s, o, k) = IF set THEN On(s, o, k - 1) \cup {x} ELSE On(s, o, k - 1)
        /\ Off(s, o, k) = IF set THEN Off(s, o, k - 1) ELSE Off(s, o, k - 1) \cup {x}
    BY <1>5, OnOffNext
  <2>2. k \in 0..n /\ k - 1 \in 0..n
    BY <1>1
  <2>3. set => x \notin Off(s, o, k)
    BY <1>4, <2>1, <2>2
  <2> QED BY <2>1, <2>3
<1>6. \A k \in 0..n : m[k] = Img(a, Replaced(c, o, Now(k)))
  OBVIOUS
<1> HIDE DEF m, Now
<1>7. ASSUME NEW k \in 1..n
      PROVE  m[k] = ApplyWire(m[k - 1], s[k]) /\ FromKraft(m[k - 1], s[k]) # None
  <2>1. PICK x \in Key, set \in BOOLEAN : s[k] = ConfigWire(o, x, set)
    <3>1. s[k] \in KeyWires(o, Key, TRUE) \/ s[k] \in KeyWires(o, Key, FALSE)
      BY <1>1 DEF ConfigWires
    <3>2. CASE s[k] \in KeyWires(o, Key, TRUE)
      <4>1. PICK x \in Key : s[k] = ConfigWire(o, x, TRUE)
        BY <3>2 DEF KeyWires
      <4>2. TRUE \in BOOLEAN
        OBVIOUS
      <4> QED BY <4>1, <4>2, Zenon
    <3>3. CASE s[k] \in KeyWires(o, Key, FALSE)
      <4>1. PICK x \in Key : s[k] = ConfigWire(o, x, FALSE)
        BY <3>3 DEF KeyWires
      <4>2. FALSE \in BOOLEAN
        OBVIOUS
      <4> QED BY <4>1, <4>2, Zenon
    <3> QED BY <3>1, <3>2, <3>3
  <2>2. k \in 0..n /\ k - 1 \in 0..n
    BY <1>1
  <2> DEFINE d == Replaced(c, o, Now(k - 1))
  <2>3. KeysOf(d, o) = Now(k - 1)
    BY <1>3, ReplacedFacts
  <2>4. m[k - 1] = Img(a, d)
    BY <1>6, <2>2
  <2>5. Merged(d, o, x, set) = Now(k)
    BY <1>5, <2>1, <2>3 DEF Merged, KeysOf
  <2>6. Replaced(d, o, Now(k)) = Replaced(c, o, Now(k))
    BY ReplacedTwice
  <2> HIDE DEF d
  <2>7. /\ FromKraft(Img(a, d), ConfigWire(o, x, set)) # None
        /\ ApplyWire(Img(a, d), ConfigWire(o, x, set)) = Img(a, Replaced(d, o, Merged(d, o, x, set)))
    BY MergedIs
  <2> QED BY <1>6, <2>1, <2>2, <2>4, <2>5, <2>6, <2>7
<1>8. Wires!Walks(m, Img(a, c), s, n)
  <2>1. Now(0) = KeysOf(c, o)
    BY DEF Now, On, Off
  <2>2. m[0] = Img(a, c)
    BY <1>1, <1>6, <2>1, ReplacedSame
  <2> QED BY <1>7, <2>2 DEF Wires!Walks
<1> HIDE DEF n
<1>9. /\ ApplyBatch(Img(a, c), s) = m[n]
      /\ \A k \in 0..n : ApplyBatch(Img(a, c), SubSeq(s, 1, k)) = m[k]
  BY <1>8, WalkIs DEF n
<1>10. Resolved(Img(a, c), s)
  <2>1. ASSUME NEW i \in DOMAIN s
        PROVE  FromKraft(ApplyBatch(Img(a, c), SubSeq(s, 1, i - 1)), s[i]) # None
    <3>1. i \in 1..n /\ i - 1 \in 0..n
      BY <1>1
    <3> QED BY <1>7, <1>9, <3>1
  <2> QED BY <2>1 DEF Resolved
<1>11. m[n] = Img(a, Replaced(c, o, Now(n)))
  BY <1>1, <1>6
<1> QED BY <1>9, <1>10, <1>11 DEF Now, n

Sets(o, K) == SetToSeq(KeyWires(o, K, TRUE))
Drops(o, D) == SetToSeq(KeyWires(o, D, FALSE))

\* The records of a set of keys.
LEMMA ConfigList ==
  ASSUME NEW o, NEW K \in SUBSET Key, IsFiniteSet(K), NEW set \in BOOLEAN
  PROVE  LET s == SetToSeq(KeyWires(o, K, set))
         IN  /\ s \in Seq(KeyWires(o, K, set))
             /\ \A u \in KeyWires(o, K, set) : \E i \in 1..Len(s) : s[i] = u
<1> DEFINE U == KeyWires(o, K, set)
           f == [k \in K |-> ConfigWire(o, k, set)]
           n == Cardinality(U)
           s == SetToSeq(U)
<1>1. IsFiniteSet(U)
  <2>1. f \in Surjection(K, U)
    BY DEF Surjection, KeyWires
  <2> QED BY <2>1, FS_Surjection
<1> HIDE DEF U
<1>2. n \in Nat /\ Wires!Lists(s, U, n)
  BY <1>1, SetToSeqLists
<1> HIDE DEF s, n
<1>3. s \in Seq(U) /\ Len(s) = n
  BY <1>2 DEF Wires!Lists
<1>4. \A u \in U : \E i \in 1..n : s[i] = u
  BY <1>2 DEF Wires!Lists
<1> QED BY <1>3, <1>4 DEF s, U

\* The records of two sets of keys, one after the other.
LEMMA ConfigLists ==
  ASSUME NEW o, NEW K \in SUBSET Key, IsFiniteSet(K), NEW D \in SUBSET Key, IsFiniteSet(D)
  PROVE  LET s == Sets(o, K) \o Drops(o, D)
         IN  /\ s \in Seq(ConfigWires(o))
             /\ On(s, o, Len(s)) = K /\ Off(s, o, Len(s)) = D
<1> DEFINE U == KeyWires(o, K, TRUE)
           V == KeyWires(o, D, FALSE)
           p == Sets(o, K)
           q == Drops(o, D)
           s == p \o q
<1>1. p \in Seq(U) /\ \A u \in U : \E i \in 1..Len(p) : p[i] = u
  BY ConfigList DEF Sets
<1>2. q \in Seq(V) /\ \A u \in V : \E i \in 1..Len(q) : q[i] = u
  BY ConfigList DEF Drops
<1>3. U \subseteq ConfigWires(o) /\ V \subseteq ConfigWires(o)
  BY DEF ConfigWires, KeyWires
<1>4. /\ \A x, y : ConfigWire(o, x, TRUE) = ConfigWire(o, y, TRUE) => x = y
      /\ \A x, y : ConfigWire(o, x, FALSE) = ConfigWire(o, y, FALSE) => x = y
      /\ \A x, y : ConfigWire(o, x, TRUE) # ConfigWire(o, y, FALSE)
  BY DEF ConfigWire
<1>5. /\ \A x \in Key : ConfigWire(o, x, TRUE) \in U <=> x \in K
      /\ \A x \in Key : ConfigWire(o, x, FALSE) \in V <=> x \in D
      /\ \A x \in Key : ConfigWire(o, x, FALSE) \notin U /\ ConfigWire(o, x, TRUE) \notin V
  BY <1>4 DEF KeyWires
<1> HIDE DEF p, q, U, V
<1>6. p \in Seq(ConfigWires(o)) /\ q \in Seq(ConfigWires(o))
  BY <1>1, <1>2, <1>3
<1>7. s \in Seq(ConfigWires(o)) /\ Len(s) = Len(p) + Len(q) /\ Len(p) \in Nat /\ Len(q) \in Nat
  BY <1>6
<1>8. /\ \A i \in 1..Len(p) : s[i] = p[i] /\ i \in 1..Len(s) /\ s[i] \in U
      /\ \A i \in 1..Len(q) : s[Len(p) + i] = q[i] /\ Len(p) + i \in 1..Len(s)
      /\ \A i \in 1..Len(s) : i \in 1..Len(p) \/ s[i] \in V
  <2>1. \A i \in 1..Len(p) : s[i] = p[i] /\ i \in 1..Len(s) /\ p[i] \in U
    BY <1>1, <1>6, <1>7
  <2>2. \A i \in 1..Len(q) : s[Len(p) + i] = q[i] /\ Len(p) + i \in 1..Len(s) /\ q[i] \in V
    BY <1>2, <1>6, <1>7
  <2>3. ASSUME NEW i \in 1..Len(s), i \notin 1..Len(p) PROVE s[i] \in V
    <3>1. i - Len(p) \in 1..Len(q) /\ Len(p) + (i - Len(p)) = i
      BY <1>7, <2>3
    <3> QED BY <2>2, <3>1
  <2> QED BY <2>1, <2>2, <2>3
<1>9. On(s, o, Len(s)) = K
  <2>1. ASSUME NEW x \in Key PROVE x \in K <=> \E i \in 1..Len(s) : s[i] = ConfigWire(o, x, TRUE)
    BY <1>1, <1>5, <1>8
  <2> QED BY <2>1 DEF On
<1>10. Off(s, o, Len(s)) = D
  <2>1. ASSUME NEW x \in D PROVE \E i \in 1..Len(s) : s[i] = ConfigWire(o, x, FALSE)
    <3>1. ConfigWire(o, x, FALSE) \in V
      BY <1>5
    <3>2. PICK i \in 1..Len(q) : q[i] = ConfigWire(o, x, FALSE)
      BY <1>2, <3>1
    <3> QED BY <1>8, <3>2
  <2>2. ASSUME NEW x \in Key, NEW i \in 1..Len(s), s[i] = ConfigWire(o, x, FALSE) PROVE x \in D
    BY <1>5, <1>8, <2>2
  <2> QED BY <2>1, <2>2 DEF Off
<1> QED BY <1>7, <1>9, <1>10 DEF p, q

\* The records of a change of configs.
LEMMA ConfigBatch ==
  ASSUME NEW a, NEW c, ConfigMap(c), NEW o, IsFiniteSet(Key),
         NEW K \in SUBSET Key, NEW D \in SUBSET Key, K \cap D = {}
  PROVE  /\ ApplyBatch(Img(a, c), Sets(o, K) \o Drops(o, D)) =
              Img(a, Replaced(c, o, (KeysOf(c, o) \cup K) \ D))
         /\ Resolved(Img(a, c), Sets(o, K) \o Drops(o, D))
<1> DEFINE s == Sets(o, K) \o Drops(o, D)
<1>1. IsFiniteSet(K) /\ IsFiniteSet(D)
  BY FS_Subset
<1>2. s \in Seq(ConfigWires(o)) /\ On(s, o, Len(s)) = K /\ Off(s, o, Len(s)) = D
  BY <1>1, ConfigLists
<1> HIDE DEF s
<1>3. /\ ApplyBatch(Img(a, c), s) = Img(a, Replaced(c, o, (KeysOf(c, o) \cup K) \ D))
      /\ Resolved(Img(a, c), s)
  BY <1>2, MergeBatch
<1> QED BY <1>3 DEF s

-----------------------------------------------------------------------------
(* What a record does, translated and not *)

AddRec(e) == [kind |-> "AccessControlEntry", entry |-> e]
DeleteRec(f) == [kind |-> "DeleteAccessControlEntry", filter |-> f]
ConfigRec(o, ks) == [kind |-> "Config", owner |-> o, keys |-> ks]

Record ==
  {AddRec(e) : e \in Entry} \cup {DeleteRec(f) : f \in Filter}
  \cup {ConfigRec(o, ks) : o \in Resource, ks \in SUBSET Key}

\* An image that records can lead to.
WellFormed(img) ==
  /\ img = Img(img.acls, img.configs)
  /\ img.acls \in SUBSET Entry /\ IsFiniteSet(img.acls)
  /\ ConfigMap(img.configs)

Hypotheses == OneShape /\ IsFiniteSet(Key)

\* wires, encoded with enc, lead img to what the record leads it to: exactly
\* if the images are the same, and to no fewer ACLs than the record leaves dir
\* otherwise.
Carries(enc, rec, img, dir) ==
  LET wires == ToKraft(enc, rec)
  IN  /\ WellFormed(ApplyBatch(img, wires)) /\ WellFormed(Apply(dir, rec))
      /\ dir.acls \subseteq img.acls => Apply(dir, rec).acls \subseteq ApplyBatch(img, wires).acls
      /\ enc = img => ApplyBatch(img, wires) = Apply(img, rec) /\ Resolved(img, wires)

\* The image has the fields it is made of.
LEMMA ImgFields ==
  ASSUME NEW a, NEW c
  PROVE  Img(a, c).acls = a /\ Img(a, c).configs = c
BY DEF Img

\* ACLs that are added.
LEMMA AddCarries ==
  ASSUME Hypotheses, NEW enc, NEW img, WellFormed(img), NEW dir, WellFormed(dir), NEW e \in Entry
  PROVE  Carries(enc, AddRec(e), img, dir)
<1> DEFINE s == <<AclWire(e)>>
           a == img.acls
           c == img.configs
           b == dir.acls
           d == dir.configs
<1>1. ToKraft(enc, AddRec(e)) = s
  BY DEF ToKraft, AddRec, AclWire
<1>2. \A x, y : Apply(Img(x, y), AddRec(e)) = Img(x \cup {e}, y)
  BY DEF Apply, AddRec, Img
<1>3. img = Img(a, c) /\ dir = Img(b, d)
  BY DEF WellFormed
<1> DEFINE m == [k \in 0..1 |-> IF k = 0 THEN Img(a, c) ELSE Img(a \cup {e}, c)]
<1>4. FromKraft(Img(a, c), AclWire(e)) # None /\ ApplyWire(Img(a, c), AclWire(e)) = Img(a \cup {e}, c)
  BY AddedIs
<1>5. s \in Seq({AclWire(e)}) /\ Len(s) = 1 /\ s[1] = AclWire(e) /\ DOMAIN s = {1}
  OBVIOUS
<1>6. m[0] = Img(a, c) /\ m[1] = Img(a \cup {e}, c)
  OBVIOUS
<1> HIDE DEF m, s
<1>7. Wires!Walks(m, Img(a, c), s, Len(s))
  <2>1. \A k \in 1..1 : k = 1 /\ k - 1 = 0
    OBVIOUS
  <2> QED BY <1>4, <1>5, <1>6, <2>1 DEF Wires!Walks
<1>8. ApplyBatch(Img(a, c), s) = m[1] /\ ApplyBatch(Img(a, c), SubSeq(s, 1, 0)) = m[0]
  <2>1. \A k \in 0..Len(s) : ApplyBatch(Img(a, c), SubSeq(s, 1, k)) = m[k]
    BY <1>5, <1>7, WalkIs
  <2>2. ApplyBatch(Img(a, c), s) = m[Len(s)]
    BY <1>5, <1>7, WalkIs
  <2>3. 0 \in 0..Len(s)
    BY <1>5
  <2> QED BY <1>5, <2>1, <2>2, <2>3
<1>9. Resolved(img, s)
  <2>1. ASSUME NEW i \in DOMAIN s
        PROVE  FromKraft(ApplyBatch(img, SubSeq(s, 1, i - 1)), s[i]) # None
    <3>1. i = 1 /\ i - 1 = 0
      BY <1>5
    <3> QED BY <1>3, <1>4, <1>5, <1>6, <1>8, <3>1
  <2> QED BY <2>1 DEF Resolved
<1>10. ApplyBatch(img, s) = Img(a \cup {e}, c) /\ Apply(img, AddRec(e)) = Img(a \cup {e}, c)
       /\ Apply(dir, AddRec(e)) = Img(b \cup {e}, d)
  BY <1>2, <1>3, <1>6, <1>8
<1>11. ASSUME NEW x \in SUBSET Entry, IsFiniteSet(x), NEW y, ConfigMap(y) PROVE WellFormed(Img(x \cup {e}, y))
  <2>1. IsFiniteSet(x \cup {e})
    BY <1>11, FS_AddElement
  <2> QED BY <1>11, <2>1, ImgFields DEF WellFormed
<1>12. WellFormed(Img(a \cup {e}, c)) /\ WellFormed(Img(b \cup {e}, d))
  BY <1>11 DEF WellFormed
<1>13. b \subseteq a => b \cup {e} \subseteq a \cup {e}
  OBVIOUS
<1> QED BY <1>1, <1>9, <1>10, <1>12, <1>13, ImgFields DEF Carries

\* ACLs that are removed by a filter.
LEMMA DeleteCarries ==
  ASSUME Hypotheses, NEW enc, WellFormed(enc), NEW img, WellFormed(img), NEW dir, WellFormed(dir),
         NEW f
  PROVE  Carries(enc, DeleteRec(f), img, dir)
<1> DEFINE M == {x \in enc.acls : Matches(f, x)}
           s == Removals(M)
           a == img.acls
           c == img.configs
           b == dir.acls
           d == dir.configs
           Kept(x) == {y \in x : ~Matches(f, y)}
<1>1. ToKraft(enc, DeleteRec(f)) = s
  BY DEF ToKraft, DeleteRec, DeleteAclToKraft, Removals, RemoveWire
<1>2. \A x, y : Apply(Img(x, y), DeleteRec(f)) = Img(Kept(x), y)
  BY DEF Apply, DeleteRec, Img
<1>3. img = Img(a, c) /\ dir = Img(b, d)
  BY DEF WellFormed
<1>4. M \in SUBSET Entry /\ IsFiniteSet(M)
  <2>1. M \in SUBSET enc.acls
    OBVIOUS
  <2> QED BY <2>1, FS_Subset DEF WellFormed
<1>5. /\ ApplyBatch(Img(a, c), s) = Img(a \ M, c)
      /\ M \subseteq a => Resolved(Img(a, c), s)
  <2>1. a \in SUBSET Entry
    BY DEF WellFormed
  <2> HIDE DEF M
  <2> QED BY <1>4, <2>1, RemovalBatch DEF Hypotheses
<1>6. WellFormed(Img(a \ M, c)) /\ WellFormed(Img(Kept(b), d))
  <2>1. ASSUME NEW x \in SUBSET Entry, IsFiniteSet(x), NEW y, ConfigMap(y), NEW z \in SUBSET x
        PROVE  WellFormed(Img(z, y))
    <3>1. IsFiniteSet(z)
      BY <2>1, FS_Subset
    <3> QED BY <2>1, <3>1, ImgFields DEF WellFormed
  <2>2. a \ M \in SUBSET a /\ Kept(b) \in SUBSET b
    OBVIOUS
  <2> HIDE DEF M, Kept
  <2> QED BY <2>1, <2>2 DEF WellFormed
<1>7. b \subseteq a => Kept(b) \subseteq a \ M
  OBVIOUS
<1>8. enc = img => M \subseteq a /\ a \ M = Kept(a)
  OBVIOUS
<1> HIDE DEF M, Kept, s
<1>9. /\ ApplyBatch(img, s) = Img(a \ M, c) /\ ApplyBatch(img, s).acls = a \ M
      /\ Apply(img, DeleteRec(f)) = Img(Kept(a), c)
      /\ Apply(dir, DeleteRec(f)) = Img(Kept(b), d) /\ Apply(dir, DeleteRec(f)).acls = Kept(b)
  BY <1>2, <1>3, <1>5, ImgFields
<1>10. enc = img => ApplyBatch(img, s) = Apply(img, DeleteRec(f)) /\ Resolved(img, s)
  BY <1>3, <1>5, <1>8, <1>9
<1> HIDE DEF a, b, c, d
<1> QED BY <1>1, <1>6, <1>7, <1>9, <1>10 DEF Carries, a, b

\* Configs that are replaced.
LEMMA ConfigCarries ==
  ASSUME Hypotheses, NEW enc, WellFormed(enc), NEW img, WellFormed(img), NEW dir, WellFormed(dir),
         NEW o, NEW ks \in SUBSET Key
  PROVE  Carries(enc, ConfigRec(o, ks), img, dir)
<1> DEFINE D == Keys(enc, o) \ ks
           s == Sets(o, ks) \o Drops(o, D)
           a == img.acls
           c == img.configs
           b == dir.acls
           d == dir.configs
           new == (KeysOf(c, o) \cup ks) \ D
<1>1. ToKraft(enc, ConfigRec(o, ks)) = s
  <2>1. ToKraft(enc, ConfigRec(o, ks)) = ConfigToKraft(enc, ConfigRec(o, ks))
    BY DEF ToKraft, ConfigRec
  <2>2. {[type |-> "Config", owner |-> o, key |-> k, set |-> k \in ks] : k \in ks} = KeyWires(o, ks, TRUE)
    BY DEF KeyWires, ConfigWire
  <2>3. {[type |-> "Config", owner |-> o, key |-> k, set |-> k \in ks] : k \in D} = KeyWires(o, D, FALSE)
    <3>1. ASSUME NEW k \in D
          PROVE  [type |-> "Config", owner |-> o, key |-> k, set |-> k \in ks] = ConfigWire(o, k, FALSE)
      <4>1. (k \in ks) = FALSE
        OBVIOUS
      <4> QED BY <4>1 DEF ConfigWire
    <3> HIDE DEF D
    <3> QED BY <3>1 DEF KeyWires
  <2>4. ConfigRec(o, ks).owner = o /\ ConfigRec(o, ks).keys = ks
    BY DEF ConfigRec
  <2> QED BY <2>1, <2>2, <2>3, <2>4 DEF ConfigToKraft, Sets, Drops
<1>2. \A x, y : Apply(Img(x, y), ConfigRec(o, ks)) = Img(x, Replaced(y, o, ks))
  BY DEF Apply, ConfigRec, Img
<1>3. img = Img(a, c) /\ dir = Img(b, d)
  BY DEF WellFormed
<1>4. /\ KeysOf(c, o) \subseteq Key /\ D \in SUBSET Key /\ ks \cap D = {}
      /\ enc = img => new = ks
  <2>1. enc = Img(enc.acls, enc.configs)
    BY DEF WellFormed
  <2>2. Keys(enc, o) = KeysOf(enc.configs, o)
    BY <2>1, KeysValue
  <2>3. KeysOf(enc.configs, o) \subseteq Key /\ KeysOf(c, o) \subseteq Key
    <3>1. ASSUME NEW y, ConfigMap(y) PROVE KeysOf(y, o) \subseteq Key
      BY <3>1, KeysValue DEF ConfigMap
    <3> QED BY <3>1 DEF WellFormed
  <2> QED BY <2>2, <2>3
<1>5. new \in SUBSET Key
  BY <1>4
<1>6. /\ ApplyBatch(Img(a, c), s) = Img(a, Replaced(c, o, new))
      /\ Resolved(Img(a, c), s)
  <2> HIDE DEF D
  <2> QED BY <1>4, ConfigBatch DEF WellFormed, Hypotheses
<1>7. WellFormed(Img(a, Replaced(c, o, new))) /\ WellFormed(Img(b, Replaced(d, o, ks)))
  <2>1. ConfigMap(Replaced(c, o, new)) /\ ConfigMap(Replaced(d, o, ks))
    BY <1>5, ReplacedFacts DEF WellFormed
  <2>2. ASSUME NEW x \in SUBSET Entry, IsFiniteSet(x), NEW y, ConfigMap(y) PROVE WellFormed(Img(x, y))
    BY <2>2, ImgFields DEF WellFormed
  <2>3. a \in SUBSET Entry /\ IsFiniteSet(a) /\ b \in SUBSET Entry /\ IsFiniteSet(b)
    BY DEF WellFormed
  <2> HIDE DEF a, b, c, d, new
  <2> QED BY <2>1, <2>2, <2>3
<1> HIDE DEF D, s, new
<1> QED BY <1>1, <1>2, <1>3, <1>4, <1>6, <1>7, ImgFields DEF Carries

\* Every record a handler builds is carried.
LEMMA RecordCarries ==
  ASSUME Hypotheses, NEW enc, WellFormed(enc), NEW img, WellFormed(img), NEW dir, WellFormed(dir),
         NEW rec \in Record
  PROVE  Carries(enc, rec, img, dir)
BY AddCarries, DeleteCarries, ConfigCarries DEF Record

-----------------------------------------------------------------------------
(* Snapshots *)

AddBatch(e) == <<AclWire(e)>>
MapBatch(c, r) == Sets(r, c[r]) \o Drops(r, {})

\* A batch of one ACL adds it.
LEMMA AddBatchIs ==
  ASSUME NEW a, NEW c, NEW e
  PROVE  ApplyBatch(Img(a, c), AddBatch(e)) = Img(a \cup {e}, c)
<1> DEFINE s == AddBatch(e)
           m == [k \in 0..1 |-> IF k = 0 THEN Img(a, c) ELSE Img(a \cup {e}, c)]
<1>1. ApplyWire(Img(a, c), AclWire(e)) = Img(a \cup {e}, c)
  BY AddedIs
<1>2. DOMAIN s = 1..1 /\ s[1] = AclWire(e) /\ 1 \in Nat
  BY DEF AddBatch
<1>3. m[0] = Img(a, c) /\ m[1] = Img(a \cup {e}, c)
  OBVIOUS
<1> HIDE DEF m, s
<1>4. Wires!Walks(m, Img(a, c), s, 1)
  <2>1. \A k \in 1..1 : k = 1 /\ k - 1 = 0
    OBVIOUS
  <2> QED BY <1>1, <1>2, <1>3, <2>1 DEF Wires!Walks
<1>5. ApplyBatch(Img(a, c), s) = m[1]
  BY <1>2, <1>4, BatchIs
<1> QED BY <1>3, <1>5 DEF s

\* The section of the ACLs leads to the ACLs of the image.
LEMMA AclSection ==
  ASSUME NEW a, IsFiniteSet(a), NEW c
  PROVE  Batches!Replay(Img({}, c), {AddBatch(e) : e \in a}) = Img(a, c)
<1> DEFINE S == {AddBatch(e) : e \in a}
           In(s) == {e \in a : AddBatch(e) \in s}
           h == [s \in SUBSET S |-> Img(In(s), c)]
           f == [e \in a |-> AddBatch(e)]
<1>1. IsFiniteSet(S)
  <2>1. f \in Surjection(a, S)
    BY DEF Surjection
  <2> QED BY <2>1, FS_Surjection
<1>2. \A d, e : AddBatch(d) = AddBatch(e) => d = e
  <2>1. \A d, e : AclWire(d) = AclWire(e) => d = e
    BY DEF AclWire
  <2>2. \A e : AddBatch(e)[1] = AclWire(e)
    BY DEF AddBatch
  <2> QED BY <2>1, <2>2
<1>3. h[{}] = Img({}, c) /\ h[S] = Img(a, c) /\ h = [s \in SUBSET S |-> h[s]]
  <2>1. In({}) = {} /\ In(S) = a /\ {} \in SUBSET S /\ S \in SUBSET S
    OBVIOUS
  <2> HIDE DEF In, S
  <2> QED BY <2>1
<1>4. ASSUME NEW s \in SUBSET S, NEW x \in S, x \in s PROVE h[s] = ApplyBatch(h[s \ {x}], x)
  <2>1. PICK e \in a : x = AddBatch(e)
    OBVIOUS
  <2>2. In(s) = In(s \ {x}) \cup {e}
    BY <1>2, <1>4, <2>1
  <2>3. s \ {x} \in SUBSET S
    OBVIOUS
  <2>4. h[s] = Img(In(s), c) /\ h[s \ {x}] = Img(In(s \ {x}), c)
    BY <2>3
  <2> HIDE DEF In, h, S
  <2> QED BY <2>1, <2>2, <2>4, AddBatchIs
<1> HIDE DEF h, S
<1>5. Batches!Tracks(h, Img({}, c), S)
  BY <1>3, <1>4 DEF Batches!Tracks
<1>6. Batches!Replay(Img({}, c), S) = h[S]
  <2>1. Batches!IsFiniteSet(S)
    BY <1>1 DEF IsFiniteSet, Batches!IsFiniteSet
  <2> QED BY <1>5, <2>1, Batches!ReplayIs
<1> QED BY <1>3, <1>6 DEF S

\* The batches of two owners differ.
LEMMA MapBatchDiffer ==
  ASSUME IsFiniteSet(Key), NEW c, ConfigMap(c), NEW q \in DOMAIN c, NEW r \in DOMAIN c,
         MapBatch(c, q) = MapBatch(c, r)
  PROVE  q = r
<1> DEFINE s == MapBatch(c, q)
           t == MapBatch(c, r)
<1>1. c[q] \in SUBSET Key /\ c[r] \in SUBSET Key /\ c[q] # {} /\ {} \in SUBSET Key
  BY DEF ConfigMap
<1>2. IsFiniteSet(c[q]) /\ IsFiniteSet(c[r]) /\ IsFiniteSet({})
  BY <1>1, FS_Subset
<1>3. s \in Seq(ConfigWires(q)) /\ On(s, q, Len(s)) = c[q]
  BY <1>1, <1>2, ConfigLists DEF MapBatch
<1>4. t \in Seq(ConfigWires(r))
  BY <1>1, <1>2, ConfigLists DEF MapBatch
<1> HIDE DEF s, t
<1>5. PICK x \in Key, i \in 1..Len(s) : s[i] = ConfigWire(q, x, TRUE)
  BY <1>1, <1>3 DEF On
<1>6. s[i] \in ConfigWires(r)
  <2>1. s = t
    BY DEF s, t
  <2>2. s \in Seq(ConfigWires(r))
    BY <1>4, <2>1
  <2> QED BY <2>2
<1>7. \A w \in ConfigWires(r) : w.owner = r
  BY DEF ConfigWires, KeyWires, ConfigWire
<1>8. ConfigWire(q, x, TRUE).owner = q
  BY DEF ConfigWire
<1> QED BY <1>5, <1>6, <1>7, <1>8

\* The section of the configs leads to the config maps of the image.
LEMMA ConfigSection ==
  ASSUME IsFiniteSet(Key), NEW a, NEW c, ConfigMap(c)
  PROVE  Batches!Replay(Img(a, EmptyMap), {MapBatch(c, r) : r \in DOMAIN c}) = Img(a, c)
<1> DEFINE S == {MapBatch(c, r) : r \in DOMAIN c}
           In(s) == {r \in DOMAIN c : MapBatch(c, r) \in s}
           Part(s) == [r \in In(s) |-> c[r]]
           h == [s \in SUBSET S |-> Img(a, Part(s))]
           f == [r \in DOMAIN c |-> MapBatch(c, r)]
<1>1. IsFiniteSet(S)
  <2>1. f \in Surjection(DOMAIN c, S)
    BY DEF Surjection
  <2> QED BY <2>1, FS_Surjection DEF ConfigMap
<1>2. h[{}] = Img(a, EmptyMap) /\ h[S] = Img(a, c) /\ h = [s \in SUBSET S |-> h[s]]
  <2>1. In({}) = {} /\ In(S) = DOMAIN c /\ {} \in SUBSET S /\ S \in SUBSET S
    OBVIOUS
  <2> HIDE DEF In, S
  <2>2. Part({}) = EmptyMap /\ Part(S) = c
    BY <2>1 DEF EmptyMap, ConfigMap
  <2> HIDE DEF Part
  <2> QED BY <2>1, <2>2
<1>3. ASSUME NEW s \in SUBSET S PROVE ConfigMap(Part(s))
  <2>1. In(s) \in SUBSET DOMAIN c /\ DOMAIN Part(s) = In(s) /\ \A r \in In(s) : Part(s)[r] = c[r]
    OBVIOUS
  <2>2. IsFiniteSet(In(s))
    BY <2>1, FS_Subset DEF ConfigMap
  <2>3. Part(s) = [r \in DOMAIN Part(s) |-> Part(s)[r]]
    OBVIOUS
  <2> HIDE DEF In, Part
  <2> QED BY <2>1, <2>2, <2>3 DEF ConfigMap
<1>4. ASSUME NEW s \in SUBSET S, NEW x \in S, x \in s PROVE h[s] = ApplyBatch(h[s \ {x}], x)
  <2>1. PICK r \in DOMAIN c : x = MapBatch(c, r)
    OBVIOUS
  <2> DEFINE t == s \ {x}
  <2>2. In(s) = In(t) \cup {r} /\ r \notin In(t)
    BY <1>4, <2>1, MapBatchDiffer
  <2>3. t \in SUBSET S
    OBVIOUS
  <2>4. h[s] = Img(a, Part(s)) /\ h[t] = Img(a, Part(t))
    BY <2>3
  <2>5. DOMAIN Part(t) = In(t) /\ \A q \in In(t) : Part(t)[q] = c[q]
    OBVIOUS
  <2>6. Part(s) = [q \in In(s) |-> c[q]]
    OBVIOUS
  <2>7. ConfigMap(Part(t))
    BY <1>3, <2>3
  <2>8. c[r] \in SUBSET Key /\ c[r] # {} /\ {} \in SUBSET Key /\ c[r] \cap {} = {}
    BY DEF ConfigMap
  <2> HIDE DEF In, Part, h, S, t
  <2>9. KeysOf(Part(t), r) = {}
    BY <2>2, <2>5, KeysValue
  <2>10. ApplyBatch(Img(a, Part(t)), x) = Img(a, Replaced(Part(t), r, (KeysOf(Part(t), r) \cup c[r]) \ {}))
    BY <2>1, <2>7, <2>8, ConfigBatch DEF MapBatch
  <2>11. (KeysOf(Part(t), r) \cup c[r]) \ {} = c[r]
    BY <2>9
  <2>12. Replaced(Part(t), r, c[r]) = Part(s)
    BY <2>2, <2>5, <2>6, <2>8 DEF Replaced, Put
  <2> QED BY <2>4, <2>10, <2>11, <2>12 DEF t
<1> HIDE DEF h, S
<1>5. Batches!Tracks(h, Img(a, EmptyMap), S)
  BY <1>2, <1>4 DEF Batches!Tracks
<1>6. Batches!Replay(Img(a, EmptyMap), S) = h[S]
  <2>1. Batches!IsFiniteSet(S)
    BY <1>1 DEF IsFiniteSet, Batches!IsFiniteSet
  <2> QED BY <1>5, <2>1, Batches!ReplayIs
<1> QED BY <1>2, <1>6 DEF S

\* A snapshot in KIP-631 records gives the image it is of.
THEOREM SnapshotExact ==
  ASSUME Hypotheses, NEW img, WellFormed(img)
  PROVE  FromSnapshot(img) = img
<1> DEFINE a == img.acls
           c == img.configs
           S1 == {AddBatch(e) : e \in a}
           S2 == {MapBatch(c, r) : r \in DOMAIN c}
           m == [k \in 0..2 |-> IF k = 0 THEN NewImage ELSE IF k = 1 THEN Img(a, EmptyMap) ELSE Img(a, c)]
<1>1. img = Img(a, c) /\ IsFiniteSet(a) /\ ConfigMap(c) /\ IsFiniteSet(Key)
  BY DEF WellFormed, Hypotheses
<1>2. Encoded(img) = <<S1, S2>>
  <2> DEFINE R1 == {AddRec(e) : e \in a}
             R2 == {ConfigRec(r, c[r]) : r \in DOMAIN c}
  <2>1. ToRecords(img) = <<R1, R2>>
    BY DEF ToRecords, ConfigRecords, AddRec, ConfigRec
  <2>2. \A e : ToKraft(img, AddRec(e)) = AddBatch(e)
    BY DEF ToKraft, AddRec, AclWire, AddBatch
  <2>3. ASSUME NEW r \in DOMAIN c PROVE ToKraft(img, ConfigRec(r, c[r])) = MapBatch(c, r)
    <3> DEFINE Config(k) == [type |-> "Config", owner |-> r, key |-> k, set |-> k \in c[r]]
    <3>1. Keys(img, r) = c[r]
      BY <1>1, KeysValue
    <3>2. {Config(k) : k \in c[r]} = KeyWires(r, c[r], TRUE)
      BY DEF KeyWires, ConfigWire
    <3>3. {Config(k) : k \in Keys(img, r) \ c[r]} = KeyWires(r, {}, FALSE)
      BY <3>1 DEF KeyWires
    <3>4. ToKraft(img, ConfigRec(r, c[r])) =
            SetToSeq({Config(k) : k \in c[r]}) \o SetToSeq({Config(k) : k \in Keys(img, r) \ c[r]})
      BY DEF ToKraft, ConfigRec, ConfigToKraft
    <3> QED BY <3>2, <3>3, <3>4 DEF MapBatch, Sets, Drops
  <2>4. {ToKraft(img, rec) : rec \in R1} = S1
    BY <2>2
  <2>5. {ToKraft(img, rec) : rec \in R2} = S2
    BY <2>3
  <2> HIDE DEF R1, R2, S1, S2
  <2>6. Encoded(img) = [k \in 1..2 |-> {ToKraft(img, rec) : rec \in <<R1, R2>>[k]}]
    BY <2>1 DEF Encoded
  <2>7. 1..2 = {1, 2} /\ <<R1, R2>>[1] = R1 /\ <<R1, R2>>[2] = R2
    OBVIOUS
  <2> QED BY <2>4, <2>5, <2>6, <2>7
<1>3. m[0] = NewImage /\ m[1] = Img(a, EmptyMap) /\ m[2] = Img(a, c)
  OBVIOUS
<1>4. NewImage = Img({}, EmptyMap)
  BY DEF NewImage, Img
<1>5. Batches!Replay(m[0], S1) = m[1] /\ Batches!Replay(m[1], S2) = m[2]
  BY <1>1, <1>3, <1>4, AclSection, ConfigSection
<1> HIDE DEF m, S1, S2
<1> DEFINE sections == <<S1, S2>>
<1>6. Batches!Between(m, sections, 2)
  <2>1. ASSUME NEW k \in 1..2 PROVE m[k] = Batches!Replay(m[k - 1], sections[k])
    <3>1. k = 1 \/ k = 2
      OBVIOUS
    <3>2. sections[1] = S1 /\ sections[2] = S2 /\ 1 - 1 = 0 /\ 2 - 1 = 1
      OBVIOUS
    <3> QED BY <1>5, <3>1, <3>2
  <2> QED BY <1>3, <2>1 DEF Batches!Between
<1>7. DOMAIN sections = 1..2 /\ 2 \in Nat
  OBVIOUS
<1> HIDE DEF sections
<1>8. Batches!FromRecords(sections) = m[2]
  BY <1>6, <1>7, Batches!FromRecordsIs
<1> QED BY <1>1, <1>2, <1>3, <1>8, SnapIs DEF sections

-----------------------------------------------------------------------------
(* The log *)

\* What is committed and not applied was encoded with some image.
Batched(u) ==
  \E S : /\ u \in Seq(S)
         /\ \A b \in S : /\ b.record \in Record
                         /\ \E enc : WellFormed(enc) /\ b.wires = ToKraft(enc, b.record)

\* A serial controller has encoded at most one batch that is not applied, with
\* the image it still has.
Fresh == Len(unapplied) <= 1 /\ \A i \in DOMAIN unapplied :
           unapplied[i].wires = ToKraft(image, unapplied[i].record)

SettingsInv ==
  /\ image = replayed /\ WellFormed(image) /\ WellFormed(direct)
  /\ direct.acls \subseteq replayed.acls
  /\ serial => ~skipped /\ replayed = direct /\ Fresh
  /\ serial \in BOOLEAN /\ skipped \in BOOLEAN
  /\ pending \subseteq Record
  /\ Batched(unapplied)

\* The handlers build records of three kinds.
LEMMA RequestsAre ==
  ASSUME NEW img, NEW n
  PROVE  Requests(img, n) = Record
BY DEF Requests, Record, AddRec, DeleteRec, ConfigRec

\* The empty image is one that records can lead to.
LEMMA NewWellFormed == WellFormed(NewImage)
<1>1. ConfigMap(EmptyMap)
  <2>1. DOMAIN EmptyMap = {} /\ EmptyMap = [r \in DOMAIN EmptyMap |-> EmptyMap[r]]
    BY DEF EmptyMap
  <2> QED BY <2>1, FS_EmptySet DEF ConfigMap
<1>2. NewImage = Img({}, EmptyMap)
  BY DEF NewImage, Img
<1> QED BY <1>1, <1>2, ImgFields, FS_EmptySet DEF WellFormed

\* The log before the first request.
LEMMA SettingsInit ==
  ASSUME Serial \subseteq BOOLEAN, Init
  PROVE  SettingsInv
<1>1. Batched(<<>>)
  <2> DEFINE S == {}
  <2>1. <<>> \in Seq(S)
    OBVIOUS
  <2>2. \A b \in S : /\ b.record \in Record
                     /\ \E enc : WellFormed(enc) /\ b.wires = ToKraft(enc, b.record)
    OBVIOUS
  <2> HIDE DEF S
  <2> QED BY <2>1, <2>2 DEF Batched
<1>2. unapplied = <<>> => Fresh
  BY DEF Fresh
<1> QED BY <1>1, <1>2, NewWellFormed DEF Init, SettingsInv

\* A record is committed.
LEMMA SubmitKeeps ==
  ASSUME SettingsInv, NEW rec \in pending, Submit(rec)
  PROVE  SettingsInv'
<1> DEFINE new == [record |-> rec, wires |-> ToKraft(image, rec)]
<1>1. /\ unapplied' = Append(unapplied, new) /\ pending' = pending \ {rec}
      /\ image' = image /\ replayed' = replayed /\ direct' = direct /\ serial' = serial
      /\ skipped' = skipped
      /\ serial => Len(unapplied) <= 0
  BY DEF Submit
<1>2. rec \in Record /\ WellFormed(image) /\ new.record = rec /\ new.wires = ToKraft(image, rec)
  BY DEF SettingsInv
<1> HIDE DEF new
<1>3. PICK S : /\ unapplied \in Seq(S)
               /\ \A b \in S : /\ b.record \in Record
                               /\ \E enc : WellFormed(enc) /\ b.wires = ToKraft(enc, b.record)
  BY DEF SettingsInv, Batched
<1>4. Batched(unapplied')
  <2>1. unapplied' \in Seq(S \cup {new})
    BY <1>1, <1>3
  <2>2. ASSUME NEW b \in S \cup {new}
        PROVE  b.record \in Record /\ \E enc : WellFormed(enc) /\ b.wires = ToKraft(enc, b.record)
    BY <1>2, <1>3
  <2> QED BY <2>1, <2>2 DEF Batched
<1>5. ASSUME serial PROVE Fresh'
  <2>1. Len(unapplied) = 0
    BY <1>1, <1>3, <1>5
  <2>2. Len(unapplied') = 1 /\ DOMAIN unapplied' = {1} /\ unapplied'[1] = new
    BY <1>1, <1>3, <2>1
  <2> QED BY <1>1, <1>2, <2>2 DEF Fresh
<1> QED BY <1>1, <1>4, <1>5 DEF SettingsInv, WellFormed

\* A batch is applied.
LEMMA ApplyKeeps ==
  ASSUME Hypotheses, SettingsInv, ApplyNext
  PROVE  SettingsInv'
<1> DEFINE entry == Head(unapplied)
           rec == entry.record
           wires == entry.wires
<1>1. /\ unapplied # <<>> /\ unapplied' = Tail(unapplied) /\ pending' = pending /\ serial' = serial
      /\ image' = ApplyBatch(image, wires) /\ replayed' = ApplyBatch(replayed, wires)
      /\ direct' = Apply(direct, rec)
  BY DEF ApplyNext
<1>2. /\ skipped' \in BOOLEAN
      /\ ~skipped /\ Resolved(image, wires) => ~skipped'
  BY DEF ApplyNext, Resolved
<1>3. PICK S : /\ unapplied \in Seq(S)
               /\ \A b \in S : /\ b.record \in Record
                               /\ \E enc : WellFormed(enc) /\ b.wires = ToKraft(enc, b.record)
  BY DEF SettingsInv, Batched
<1>4. entry \in S /\ unapplied' \in Seq(S) /\ Len(unapplied') = Len(unapplied) - 1
      /\ entry = unapplied[1] /\ 1 \in DOMAIN unapplied /\ Len(unapplied) \in Nat
  BY <1>1, <1>3
<1>5. Batched(unapplied')
  BY <1>3, <1>4 DEF Batched
<1>6. PICK enc : WellFormed(enc) /\ wires = ToKraft(enc, rec) /\ rec \in Record
  BY <1>3, <1>4
<1> HIDE DEF entry
<1>7. /\ image = replayed /\ WellFormed(image) /\ WellFormed(direct)
      /\ direct.acls \subseteq image.acls
  BY DEF SettingsInv
<1>8. Carries(enc, rec, image, direct) /\ Carries(image, rec, image, direct)
  BY <1>6, <1>7, RecordCarries
<1>9. /\ WellFormed(ApplyBatch(image, wires)) /\ WellFormed(Apply(direct, rec))
      /\ Apply(direct, rec).acls \subseteq ApplyBatch(image, wires).acls
  BY <1>6, <1>7, <1>8 DEF Carries
<1>10. ASSUME serial PROVE ~skipped' /\ replayed' = direct' /\ Fresh'
  <2>1. ~skipped /\ replayed = direct /\ Len(unapplied) <= 1 /\ wires = ToKraft(image, rec)
    BY <1>4, <1>10 DEF SettingsInv, Fresh
  <2>2. ApplyBatch(image, wires) = Apply(image, rec) /\ Resolved(image, wires)
    BY <1>8, <2>1 DEF Carries
  <2>3. Len(unapplied') <= 1 /\ DOMAIN unapplied' = {}
    BY <1>4, <2>1
  <2>4. Fresh'
    BY <2>3 DEF Fresh
  <2> QED BY <1>1, <1>2, <1>7, <2>1, <2>2, <2>4
<1>11. WellFormed(image') /\ WellFormed(direct')
  BY <1>1, <1>9
<1>12. WellFormed(image)' /\ WellFormed(direct)' /\ Batched(unapplied)'
  BY <1>5, <1>11 DEF WellFormed, Batched
<1>13. image' = replayed' /\ direct'.acls \subseteq replayed'.acls
  BY <1>1, <1>7, <1>9
<1>14. pending' \subseteq Record /\ serial' \in BOOLEAN
  BY <1>1 DEF SettingsInv
<1> QED BY <1>1, <1>2, <1>10, <1>12, <1>13, <1>14 DEF SettingsInv

\* A replica restarts.
LEMMA RestartKeeps ==
  ASSUME Hypotheses, SettingsInv, Restart
  PROVE  SettingsInv'
<1>1. image' = FromSnapshot(image)
      /\ UNCHANGED <<replayed, direct, unapplied, pending, serial, skipped>>
  BY DEF Restart
<1>2. image' = image
  BY <1>1, SnapshotExact DEF SettingsInv
<1> QED BY <1>1, <1>2 DEF SettingsInv, WellFormed, Batched, Fresh

\* Every step keeps the invariant.
LEMMA SettingsNext ==
  ASSUME Hypotheses, SettingsInv, [Next]_vars
  PROVE  SettingsInv'
<1>1. CASE Ask
  <2>1. PICK rec \in Record : pending' = pending \cup {rec}
    BY <1>1, RequestsAre DEF Ask
  <2>2. UNCHANGED <<image, replayed, direct, unapplied, serial, skipped>>
    BY <1>1 DEF Ask
  <2> QED BY <2>1, <2>2 DEF SettingsInv, WellFormed, Batched, Fresh
<1>2. ASSUME NEW rec \in pending, Refuse(rec) PROVE SettingsInv'
  <2>1. pending' = pending \ {rec} /\ UNCHANGED <<image, replayed, direct, unapplied, serial, skipped>>
    BY <1>2 DEF Refuse
  <2> QED BY <2>1 DEF SettingsInv, WellFormed, Batched, Fresh
<1>3. CASE UNCHANGED vars
  BY <1>3 DEF vars, SettingsInv, WellFormed, Batched, Fresh
<1> QED BY <1>1, <1>2, <1>3, SubmitKeeps, ApplyKeeps, RestartKeeps DEF Next

\* For every set of entries of one shape, and finitely many keys, replicas that
\* read KIP-631 records of ACLs and configs hold what was written, however they
\* restart and however far the controller is behind.
THEOREM SettingsFaithful ==
  ASSUME OneShape, IsFiniteSet(Key), Serial \subseteq BOOLEAN
  PROVE  Spec => []SettingsLogFaithful
<1>1. Init => SettingsInv
  BY SettingsInit
<1>2. SettingsInv /\ [Next]_vars => SettingsInv'
  BY SettingsNext DEF Hypotheses
<1>3. SettingsInv => SettingsLogFaithful
  BY DEF SettingsInv, SettingsLogFaithful
<1> QED BY <1>1, <1>2, <1>3, PTL DEF Spec

=============================================================================
