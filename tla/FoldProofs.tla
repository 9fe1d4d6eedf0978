----------------------------- MODULE FoldProofs -----------------------------
(***************************************************************************)
(* What a fold over records computes, for every image and every Apply.     *)
(* from_records (MetadataLog!FromRecords, restated here without the state  *)
(* of the log) is a fold over the sections of a snapshot, and in each      *)
(* section a fold over a set of records in an order nobody fixes.  The two *)
(* theorems say that the folds are what they look like: a section ends in  *)
(* the image that each of its records leads to when it comes last          *)
(* (ReplayIs), and the sections follow one another (FromRecordsIs).  The   *)
(* proofs about the parts of the image instantiate this module with their  *)
(* Apply.                                                                  *)
(*                                                                         *)
(* The recursive functions behind the folds are shown to exist and to be   *)
(* unique by looking at a smallest counterexample.                         *)
(***************************************************************************)
EXTENDS Naturals, Sequences, FiniteSets, FiniteSetsExt, SequencesExt, TLAPS,
        FiniteSetTheorems

CONSTANTS
  Empty,        \* the image before the first record
  Apply(_, _)   \* the image after a record

\* Numbers that contain 0 and the successor of each member are all of Nat.
LEMMA SetInduction ==
    ASSUME NEW T, 0 \in T, \A k \in Nat : k \in T => k + 1 \in T
    PROVE  Nat \subseteq T
<1> SUFFICES ASSUME Nat \ T # {} PROVE FALSE
  OBVIOUS
<1> DEFINE R == OpToRel(<, Nat)
           Bad == Nat \ T
<1>1. IsWellFoundedOn(R, Nat)
  BY NatLessThanWellFounded
<1>2. PICK k \in Bad : \A j \in Bad : ~(<<j, k>> \in R)
  <2> HIDE DEF R
  <2> QED BY <1>1, WFMin
<1>3. R = {ss \in Nat \X Nat : ss[1] < ss[2]}
  BY Zenon DEF OpToRel
<1> HIDE DEF R
<1>4. k - 1 \in Nat /\ k - 1 \in T
  <2>1. k # 0 /\ k - 1 \in Nat
    OBVIOUS
  <2>2. <<k - 1, k>> \in R
    BY <1>3, <2>1
  <2> QED BY <1>2, <2>1, <2>2
<1> QED
  BY <1>4

\* g and h are computed alike: equal on the empty set, and on a set whenever
\* they are on the set without the element c chooses from it.
Alike(g, h, c, S) ==
    /\ g[{}] = h[{}]
    /\ \A s \in SUBSET S : s # {} =>
         c[s] \in s /\ (g[s \ {c[s]}] = h[s \ {c[s]}] => g[s] = h[s])

\* Functions that are computed alike agree.
LEMMA SubsetRecursion ==
    ASSUME NEW S, IsFiniteSet(S), NEW g, NEW h, NEW c, Alike(g, h, c, S)
    PROVE  g[S] = h[S]
<1> USE DEF Alike
<1> SUFFICES ASSUME g[S] # h[S] PROVE FALSE
  OBVIOUS
<1> DEFINE Bad == {s \in FiniteSubsetsOf(S) : g[s] # h[s]}
           R == StrictSubsetOrdering(S)
<1>1. S \in Bad /\ Bad \subseteq FiniteSubsetsOf(S)
  BY DEF FiniteSubsetsOf
<1>2. IsWellFoundedOn(R, FiniteSubsetsOf(S))
  BY FS_StrictSubsetOrderingWellFounded
<1>3. PICK s \in Bad : \A t \in Bad : ~(<<t, s>> \in R)
  <2> HIDE DEF Bad, R
  <2> QED BY <1>1, <1>2, WFMin
<1>4. s \in SUBSET S /\ IsFiniteSet(s) /\ s # {} /\ g[s] # h[s]
  BY <1>3 DEF FiniteSubsetsOf
<1> DEFINE t == s \ {c[s]}
<1>5. c[s] \in s /\ g[t] # h[t]
  BY <1>4
<1>6. t \in FiniteSubsetsOf(S)
  BY <1>4, FS_RemoveElement DEF FiniteSubsetsOf
<1>7. <<t, s>> \in R
  BY <1>4, <1>5 DEF StrictSubsetOrdering
<1> QED
  BY <1>3, <1>5, <1>6, <1>7

-----------------------------------------------------------------------------
(* One section *)

\* The records of a section, applied to an image in the order FoldSet picks.
Replay(base, section) == FoldSet(LAMBDA rec, acc : Apply(acc, rec), base, section)

\* h says, for every part of a section, the image its records lead to,
\* whichever of them comes last.
Tracks(h, base, section) ==
    /\ h = [s \in SUBSET section |-> h[s]]
    /\ h[{}] = base
    /\ \A s \in SUBSET section, x \in section : x \in s => h[s] = Apply(h[s \ {x}], x)

\* A section is applied to the end, and the order of its records does not
\* matter, once some h tracks it.
LEMMA ReplayIs ==
    ASSUME NEW base, NEW S, IsFiniteSet(S), NEW h, Tracks(h, base, S)
    PROVE  Replay(base, S) = h[S]
<1> DEFINE Step(g, s) == IF s = {} THEN base
                         ELSE Apply(g[s \ {CHOOSE x \in s : TRUE}], CHOOSE x \in s : TRUE)
           iter == CHOOSE g : g = [s \in SUBSET S |-> Step(g, s)]
           c == [s \in SUBSET S |-> CHOOSE x \in s : TRUE]
<1>1. Replay(base, S) = iter[S]
  BY DEF Replay, FoldSet, MapThenFoldSet
<1>2. ASSUME NEW s \in SUBSET S, s # {}
      PROVE  c[s] \in s /\ h[s] = Apply(h[s \ {c[s]}], c[s])
  BY <1>2 DEF Tracks
<1>3. h = [s \in SUBSET S |-> Step(h, s)]
  <2>1. ASSUME NEW s \in SUBSET S PROVE h[s] = Step(h, s)
    BY <1>2 DEF Tracks
  <2> QED BY <2>1 DEF Tracks
<1>4. iter = [s \in SUBSET S |-> Step(iter, s)]
  <2> HIDE DEF Step
  <2> QED BY <1>3, Zenon
<1>5. \A s \in SUBSET S : s # {} =>
        c[s] \in s /\ (iter[s \ {c[s]}] = h[s \ {c[s]}] => iter[s] = h[s])
  <2> SUFFICES ASSUME NEW s \in SUBSET S, s # {}, iter[s \ {c[s]}] = h[s \ {c[s]}]
               PROVE  iter[s] = h[s]
    BY <1>2
  <2>1. iter[s] = Step(iter, s)
    BY <1>4, Zenon
  <2>2. Step(iter, s) = Apply(iter[s \ {c[s]}], c[s])
    OBVIOUS
  <2> QED BY <2>1, <2>2, <1>2
<1>6. iter[{}] = h[{}]
  <2>1. {} \in SUBSET S
    OBVIOUS
  <2>2. iter[{}] = Step(iter, {})
    BY <1>4, <2>1, Zenon
  <2> QED BY <1>3, <2>1, <2>2
<1>7. iter[S] = h[S]
  <2> HIDE DEF iter, c
  <2>1. Alike(iter, h, c, S)
    BY <1>5, <1>6 DEF Alike
  <2> QED BY <2>1, SubsetRecursion
<1> QED BY <1>1, <1>7

\* A section that has no record leaves the image; one with a single record
\* applies it.
LEMMA ReplayNone ==
    ASSUME NEW base
    PROVE  Replay(base, {}) = base
<1> DEFINE h == [s \in SUBSET {} |-> base]
<1>1. Tracks(h, base, {})
  BY DEF Tracks
<1>2. h[{}] = base
  OBVIOUS
<1> HIDE DEF h
<1> QED
  BY <1>1, <1>2, FS_EmptySet, ReplayIs

\* A section of one record applies it.
LEMMA ReplayOne ==
    ASSUME NEW base, NEW x
    PROVE  Replay(base, {x}) = Apply(base, x)
<1> DEFINE h == [s \in SUBSET {x} |-> IF s = {} THEN base ELSE Apply(base, x)]
<1>1. h[{}] = base /\ h[{x}] = Apply(base, x) /\ h = [s \in SUBSET {x} |-> h[s]]
  OBVIOUS
<1> HIDE DEF h
<1>2. ASSUME NEW s \in SUBSET {x}, NEW y \in {x}, y \in s
      PROVE  h[s] = Apply(h[s \ {y}], y)
  <2>1. s = {x} /\ y = x /\ s \ {y} = {}
    BY <1>2
  <2> QED BY <1>1, <2>1
<1>3. Tracks(h, base, {x})
  BY <1>1, <1>2 DEF Tracks
<1> QED
  BY <1>1, <1>3, FS_Singleton, ReplayIs

-----------------------------------------------------------------------------
(* The sections of a snapshot *)

\* As in MetadataLog.
FromRecords(sections) ==
    FoldLeft(LAMBDA img, section :
               FoldSet(LAMBDA rec, acc : Apply(acc, rec), img, section),
             Empty, sections)

\* The function that FoldLeft recurses through, on some of the sections.
LoadOf(base, g, sections, s) ==
    IF s = {} THEN base ELSE Replay(g[s \ {Max(s)}], sections[Max(s)])

Loads(base, g, sections, k) ==
    g = [s \in SUBSET (1..k) |-> LoadOf(base, g, sections, s)]

\* The last section of those that include section k + 1.
LEMMA MaxOf ==
    ASSUME NEW k \in Nat, NEW s \in SUBSET (1..(k + 1)), k + 1 \in s
    PROVE  Max(s) = k + 1
<1>1. \A y \in s : k + 1 >= y
  OBVIOUS
<1>2. \A x \in s : (\A y \in s : x >= y) => x = k + 1
  OBVIOUS
<1>3. Max(s) \in s /\ \A y \in s : Max(s) >= y
  BY <1>1 DEF Max
<1> QED
  BY <1>2, <1>3

\* There is such a function, however many sections there are.
LEMMA LoadsExists ==
    ASSUME NEW base, NEW sections, NEW n \in Nat
    PROVE  \E g : Loads(base, g, sections, n)
<1> DEFINE T == {k \in Nat : \E g : Loads(base, g, sections, k)}
<1>1. 0 \in T
  <2> DEFINE g == [s \in SUBSET (1..0) |-> base]
  <2>1. \A s \in SUBSET (1..0) : s = {}
    OBVIOUS
  <2>2. Loads(base, g, sections, 0)
    BY <2>1 DEF Loads, LoadOf
  <2> QED BY <2>2
<1>2. ASSUME NEW k \in Nat, k \in T PROVE k + 1 \in T
  <2>1. PICK g : Loads(base, g, sections, k)
    BY <1>2
  <2> DEFINE Value(s) == IF k + 1 \in s THEN Replay(g[s \ {k + 1}], sections[k + 1])
                                        ELSE g[s]
             h == [s \in SUBSET (1..(k + 1)) |-> Value(s)]
  <2>2. ASSUME NEW s \in SUBSET (1..(k + 1)) PROVE h[s] = LoadOf(base, h, sections, s)
    <3>1. CASE k + 1 \in s
      <4>1. Max(s) = k + 1 /\ s # {}
        BY <3>1, MaxOf
      <4>2. s \ {k + 1} \in SUBSET (1..(k + 1)) /\ k + 1 \notin s \ {k + 1}
        OBVIOUS
      <4>3. h[s \ {k + 1}] = g[s \ {k + 1}]
        BY <4>2
      <4>4. h[s] = Replay(g[s \ {k + 1}], sections[k + 1])
        BY <3>1
      <4> HIDE DEF h
      <4> QED BY <4>1, <4>3, <4>4 DEF LoadOf
    <3>2. CASE k + 1 \notin s
      <4>1. s \in SUBSET (1..k)
        BY <3>2
      <4>2. h[s] = g[s]
        BY <3>2
      <4>3. g[s] = LoadOf(base, g, sections, s)
        BY <2>1, <4>1 DEF Loads
      <4>4. s \ {Max(s)} \in SUBSET (1..(k + 1)) /\ k + 1 \notin s \ {Max(s)}
        BY <3>2
      <4>5. h[s \ {Max(s)}] = g[s \ {Max(s)}]
        BY <4>4
      <4> HIDE DEF h
      <4> QED BY <4>2, <4>3, <4>5 DEF LoadOf
    <3> QED BY <3>1, <3>2
  <2>3. Loads(base, h, sections, k + 1)
    <3>1. h = [s \in SUBSET (1..(k + 1)) |-> h[s]]
      OBVIOUS
    <3> HIDE DEF h
    <3> QED BY <2>2, <3>1 DEF Loads
  <2> QED BY <2>3
<1> HIDE DEF T
<1>3. Nat \subseteq T
  BY <1>1, <1>2, SetInduction
<1> QED
  BY <1>3 DEF T

\* m lists the images between the sections.
Between(m, sections, n) ==
    m[0] = Empty /\ \A k \in 1..n : m[k] = Replay(m[k - 1], sections[k])

\* There are such images, for as many sections as one likes.
LEMMA BetweenExists ==
    ASSUME NEW sections, NEW n \in Nat
    PROVE  \E m : Between(m, sections, n)
<1> DEFINE T == {k \in Nat : \E m : Between(m, sections, k)}
<1>1. 0 \in T
  <2>1. Between([k \in 0..0 |-> Empty], sections, 0)
    BY DEF Between
  <2> QED BY <2>1
<1>2. ASSUME NEW k \in Nat, k \in T PROVE k + 1 \in T
  <2>1. PICK m : Between(m, sections, k)
    BY <1>2
  <2> DEFINE g == [j \in 0..(k + 1) |->
                     IF j = k + 1 THEN Replay(m[k], sections[k + 1]) ELSE m[j]]
  <2>2. g[0] = Empty
    BY <2>1 DEF Between
  <2>3. ASSUME NEW j \in 1..(k + 1) PROVE g[j] = Replay(g[j - 1], sections[j])
    <3>1. CASE j = k + 1
      <4>1. g[j] = Replay(m[k], sections[k + 1]) /\ g[j - 1] = m[k]
        BY <3>1
      <4> QED BY <3>1, <4>1
    <3>2. CASE j # k + 1
      <4>1. j \in 1..k /\ g[j] = m[j] /\ g[j - 1] = m[j - 1]
        BY <3>2
      <4> QED BY <2>1, <4>1 DEF Between
    <3> QED BY <3>1, <3>2
  <2> HIDE DEF g
  <2>4. Between(g, sections, k + 1)
    BY <2>2, <2>3 DEF Between
  <2> QED BY <2>4
<1> HIDE DEF T
<1>3. n \in T
  BY <1>1, <1>2, SetInduction
<1> QED BY <1>3 DEF T

-----------------------------------------------------------------------------
(* Numbers and listings *)

\* A set of numbers that is not empty has a least member.
LEMMA LeastExists ==
    ASSUME NEW T \in SUBSET Nat, T # {}
    PROVE  \E m \in T : \A x \in T : m <= x
<1> DEFINE R == OpToRel(<, Nat)
<1>1. IsWellFoundedOn(R, Nat)
  BY NatLessThanWellFounded
<1>2. PICK m \in T : \A x \in T : ~(<<x, m>> \in R)
  <2> HIDE DEF R
  <2> QED BY <1>1, WFMin
<1>3. R = {ss \in Nat \X Nat : ss[1] < ss[2]}
  BY Zenon DEF OpToRel
<1> HIDE DEF R
<1>4. ASSUME NEW x \in T PROVE m <= x
  <2>1. m \in Nat /\ x \in Nat /\ ~(<<x, m>> \in R)
    BY <1>2
  <2>2. ~(x < m)
    BY <1>3, <2>1
  <2> QED BY <2>1, <2>2
<1> QED BY <1>4

\* s lists the n members of U, each once.
Lists(s, U, n) ==
    /\ s \in [1..n -> U] /\ U = {s[i] : i \in 1..n}
    /\ \A i, j \in 1..n : i # j => s[i] # s[j]

\* A finite set whose members have keys has a member with the greatest key.
LEMMA GreatestExists ==
    ASSUME NEW U, IsFiniteSet(U), U # {}, NEW key, \A u \in U : key[u] \in Nat
    PROVE  \E g \in U : \A u \in U : key[u] <= key[g]
<1> DEFINE Has(V) == \E g \in V : \A u \in V : key[u] <= key[g]
           T == {k \in Nat : \A V \in SUBSET U : Cardinality(V) = k + 1 => Has(V)}
<1>1. \A V \in SUBSET U : IsFiniteSet(V)
  BY FS_Subset
<1>2. 0 \in T
  <2> SUFFICES ASSUME NEW V \in SUBSET U, Cardinality(V) = 1 PROVE Has(V)
    OBVIOUS
  <2>1. PICK x : V = {x}
    BY <1>1, FS_Singleton
  <2> QED BY <2>1
<1>3. ASSUME NEW k \in Nat, k \in T PROVE k + 1 \in T
  <2> SUFFICES ASSUME NEW V \in SUBSET U, Cardinality(V) = k + 2 PROVE Has(V)
    OBVIOUS
  <2>1. PICK x : x \in V
    BY FS_EmptySet
  <2>2. V \ {x} \in SUBSET U /\ Cardinality(V \ {x}) = k + 1
    <3>1. IsFiniteSet(V)
      BY <1>1
    <3>2. Cardinality(V \ {x}) = Cardinality(V) - 1
      BY <2>1, <3>1, FS_RemoveElement
    <3> QED BY <3>2
  <2>3. PICK g \in V \ {x} : \A u \in V \ {x} : key[u] <= key[g]
    BY <1>3, <2>2
  <2>4. key[x] \in Nat /\ key[g] \in Nat /\ \A u \in V : key[u] \in Nat
    BY <2>1
  <2>5. CASE key[x] <= key[g]
    <3>1. \A u \in V : key[u] <= key[g]
      BY <2>3, <2>5
    <3> QED BY <3>1
  <2>6. CASE key[g] < key[x]
    <3>1. \A u \in V : key[u] <= key[x]
      BY <2>3, <2>4, <2>6
    <3> QED BY <2>1, <3>1
  <2> QED BY <2>4, <2>5, <2>6
<1> HIDE DEF T, Has
<1>4. Nat \subseteq T
  BY <1>2, <1>3, SetInduction
<1>5. Cardinality(U) - 1 \in Nat /\ Cardinality(U) \in Nat
  <2>1. Cardinality(U) \in Nat /\ Cardinality(U) # 0
    BY FS_CardinalityType, FS_EmptySet
  <2> QED BY <2>1
<1>6. Cardinality(U) = (Cardinality(U) - 1) + 1
  BY <1>5
<1>7. Has(U)
  BY <1>4, <1>5, <1>6 DEF T
<1> QED BY <1>7 DEF Has

\* A finite set can be listed in the order of its keys: one with the greatest
\* key last.
LEMMA ListingExists ==
    ASSUME NEW U, IsFiniteSet(U), NEW key, \A u \in U : key[u] \in Nat
    PROVE  \E s : /\ Lists(s, U, Cardinality(U))
                  /\ \A i, j \in 1..Cardinality(U) : i < j => key[s[i]] <= key[s[j]]
<1> DEFINE Sorted(s, k) == \A i, j \in 1..k : i < j => key[s[i]] <= key[s[j]]
           Has(V, k) == \E s : Lists(s, V, k) /\ Sorted(s, k)
           T == {k \in Nat : \A V \in SUBSET U : Cardinality(V) = k => Has(V, k)}
<1>1. \A V \in SUBSET U : IsFiniteSet(V)
  BY FS_Subset
<1>2. 0 \in T
  <2> SUFFICES ASSUME NEW V \in SUBSET U, Cardinality(V) = 0 PROVE Has(V, 0)
    OBVIOUS
  <2>1. V = {}
    BY <1>1, FS_EmptySet
  <2> DEFINE s == [i \in 1..0 |-> 0]
  <2>2. Lists(s, V, 0) /\ Sorted(s, 0)
    BY <2>1 DEF Lists
  <2> QED BY <2>2
<1>3. ASSUME NEW k \in Nat, k \in T PROVE k + 1 \in T
  <2> SUFFICES ASSUME NEW V \in SUBSET U, Cardinality(V) = k + 1 PROVE Has(V, k + 1)
    OBVIOUS
  <2>1. V # {}
    BY FS_EmptySet
  <2>2. PICK g \in V : \A u \in V : key[u] <= key[g]
    BY <1>1, <2>1, GreatestExists
  <2>3. V \ {g} \in SUBSET U /\ Cardinality(V \ {g}) = k
    <3>1. IsFiniteSet(V)
      BY <1>1
    <3>2. Cardinality(V \ {g}) = Cardinality(V) - 1
      BY <3>1, FS_RemoveElement
    <3> QED BY <3>2
  <2>4. PICK p : Lists(p, V \ {g}, k) /\ Sorted(p, k)
    BY <1>3, <2>3
  <2> DEFINE s == [i \in 1..(k + 1) |-> IF i = k + 1 THEN g ELSE p[i]]
  <2>5. /\ s[k + 1] = g /\ s = [i \in 1..(k + 1) |-> s[i]]
        /\ \A i \in 1..k : s[i] = p[i] /\ p[i] \in V /\ p[i] # g
        /\ \A i \in 1..(k + 1) : i \in 1..k \/ i = k + 1
        /\ k + 1 \in 1..(k + 1) /\ 1..k \subseteq 1..(k + 1)
    BY <2>4 DEF Lists
  <2> HIDE DEF s
  <2>6. s \in [1..(k + 1) -> V]
    BY <2>5
  <2>7. V = {s[i] : i \in 1..(k + 1)}
    <3>1. ASSUME NEW v \in V PROVE \E i \in 1..(k + 1) : v = s[i]
      <4>1. CASE v = g
        BY <2>5, <4>1
      <4>2. CASE v # g
        <5>1. PICK i \in 1..k : v = p[i]
          BY <2>4, <4>2 DEF Lists
        <5> QED BY <2>5, <5>1
      <4> QED BY <4>1, <4>2
    <3> QED BY <2>6, <3>1
  <2>8. \A i, j \in 1..(k + 1) : i # j => s[i] # s[j]
    BY <2>4, <2>5 DEF Lists
  <2>9. ASSUME NEW i \in 1..(k + 1), NEW j \in 1..(k + 1), i < j PROVE key[s[i]] <= key[s[j]]
    <3>1. i \in 1..k
      BY <2>9
    <3>2. CASE j = k + 1
      BY <2>2, <2>5, <3>1, <3>2
    <3>3. CASE j \in 1..k
      BY <2>4, <2>5, <2>9, <3>1, <3>3
    <3> QED BY <2>5, <3>2, <3>3
  <2>10. Lists(s, V, k + 1) /\ Sorted(s, k + 1)
    BY <2>6, <2>7, <2>8, <2>9 DEF Lists
  <2> QED BY <2>10
<1> HIDE DEF T, Has
<1>4. Nat \subseteq T
  BY <1>2, <1>3, SetInduction
<1>5. Cardinality(U) \in Nat
  BY FS_CardinalityType
<1>6. Has(U, Cardinality(U))
  BY <1>4, <1>5 DEF T
<1> QED BY <1>6 DEF Has
-----------------------------------------------------------------------------
(* The sections of a snapshot, and sequences *)

\* m lists the images that the sections lead to from an image.
Leads(m, base, sections, n) ==
    m[0] = base /\ \A k \in 1..n : m[k] = Replay(m[k - 1], sections[k])

\* The function gives for the first sections what applying them in turn gives.
LEMMA LoadsTo ==
    ASSUME NEW base, NEW sections, NEW n \in Nat, NEW g, Loads(base, g, sections, n),
           NEW m, Leads(m, base, sections, n)
    PROVE  g[1..n] = m[n]
<1> DEFINE T == {k \in Nat : k <= n => g[1..k] = m[k]}
<1>1. 0 \in T
  <2>1. 1..0 = {} /\ {} \in SUBSET (1..n)
    OBVIOUS
  <2> QED BY <2>1 DEF Loads, LoadOf, Leads
<1>2. ASSUME NEW k \in Nat, k \in T PROVE k + 1 \in T
  <2> SUFFICES ASSUME k + 1 <= n PROVE g[1..(k + 1)] = m[k + 1]
    OBVIOUS
  <2> DEFINE s == 1..(k + 1)
  <2>1. s \in SUBSET (1..n) /\ s # {} /\ s \ {k + 1} = 1..k /\ k + 1 \in 1..n
    OBVIOUS
  <2>2. Max(s) = k + 1
    BY MaxOf
  <2>3. g[s] = LoadOf(base, g, sections, s)
    BY <2>1 DEF Loads
  <2>4. g[s] = Replay(g[1..k], sections[k + 1])
    BY <2>1, <2>2, <2>3 DEF LoadOf
  <2>5. g[1..k] = m[k]
    BY <1>2
  <2>6. m[k + 1] = Replay(m[k], sections[k + 1])
    BY <2>1 DEF Leads
  <2> QED BY <2>4, <2>5, <2>6
<1> HIDE DEF T
<1>3. Nat \subseteq T
  BY <1>1, <1>2, SetInduction
<1> QED
  BY <1>3 DEF T

\* from_records applies the sections one after the other, to the last.
LEMMA FromRecordsIs ==
    ASSUME NEW n \in Nat, NEW sections, DOMAIN sections = 1..n,
           NEW m, Between(m, sections, n)
    PROVE  FromRecords(sections) = m[n]
<1> DEFINE iter == CHOOSE g : Loads(Empty, g, sections, n)
<1>1. FromRecords(sections) = iter[1..n]
  BY DEF FromRecords, FoldLeft, MapThenFoldSet, Loads, LoadOf, Replay
<1>2. Loads(Empty, iter, sections, n)
  BY LoadsExists, Zenon
<1> HIDE DEF iter
<1>3. iter[1..n] = m[n]
  <2>1. Leads(m, Empty, sections, n)
    BY DEF Leads, Between
  <2> QED BY <1>2, <2>1, LoadsTo
<1> QED BY <1>1, <1>3

-----------------------------------------------------------------------------
(* A sequence of records *)

\* The records of a sequence, applied to an image in their order.
InTurn(base, recs) == FoldLeft(Apply, base, recs)

\* Numbers up to n have a greatest one.
LEMMA MaxIn ==
    ASSUME NEW n \in Nat, NEW s \in SUBSET (1..n), s # {}
    PROVE  Max(s) \in 1..n
<1> DEFINE key == [y \in s |-> y]
<1>1. IsFiniteSet(s)
  <2>1. IsFiniteSet(1..n)
    BY FS_Interval
  <2> QED BY <2>1, FS_Subset
<1>2. \A y \in s : key[y] = y /\ y \in Nat
  OBVIOUS
<1>3. \A y \in s : key[y] \in Nat
  BY <1>2
<1> HIDE DEF key
<1>4. PICK x \in s : \A y \in s : key[y] <= key[x]
  BY <1>1, <1>3, GreatestExists
<1>5. \A y \in s : x >= y
  BY <1>2, <1>4
<1>6. Max(s) \in s
  BY <1>5 DEF Max
<1> QED BY <1>6

\* m lists the images between the records.
Walks(m, base, recs, n) ==
    m[0] = base /\ \A k \in 1..n : m[k] = Apply(m[k - 1], recs[k])

\* A sequence is applied to the end, in its order: it is the fold over the
\* sections that have one of its records each.
LEMMA InTurnIs ==
    ASSUME NEW base, NEW n \in Nat, NEW recs, DOMAIN recs = 1..n,
           NEW m, Walks(m, base, recs, n)
    PROVE  InTurn(base, recs) = m[n]
<1> DEFINE Step(g, s) == IF s = {} THEN base ELSE Apply(g[s \ {Max(s)}], recs[Max(s)])
           iter == CHOOSE g : g = [s \in SUBSET (1..n) |-> Step(g, s)]
           sections == [k \in 1..n |-> {recs[k]}]
<1>1. InTurn(base, recs) = iter[1..n]
  BY DEF InTurn, FoldLeft, MapThenFoldSet
<1>2. ASSUME NEW s \in SUBSET (1..n), s # {} PROVE Max(s) \in 1..n
  BY <1>2, MaxIn
<1>3. ASSUME NEW g PROVE \A s \in SUBSET (1..n) : Step(g, s) = LoadOf(base, g, sections, s)
  <2> SUFFICES ASSUME NEW s \in SUBSET (1..n), s # {}
               PROVE  Step(g, s) = LoadOf(base, g, sections, s)
    BY DEF LoadOf
  <2>1. sections[Max(s)] = {recs[Max(s)]}
    BY <1>2
  <2> HIDE DEF sections
  <2>2. Replay(g[s \ {Max(s)}], {recs[Max(s)]}) = Apply(g[s \ {Max(s)}], recs[Max(s)])
    BY ReplayOne
  <2> QED BY <2>1, <2>2 DEF LoadOf
<1>4. ASSUME NEW g PROVE g = [s \in SUBSET (1..n) |-> Step(g, s)] <=> Loads(base, g, sections, n)
  <2> HIDE DEF Step, sections
  <2> QED BY <1>3 DEF Loads
<1>5. \E g : g = [s \in SUBSET (1..n) |-> Step(g, s)]
  <2>1. \E g : Loads(base, g, sections, n)
    BY LoadsExists
  <2> HIDE DEF Step, sections
  <2> QED BY <1>4, <2>1, Zenon
<1>6. iter = [s \in SUBSET (1..n) |-> Step(iter, s)]
  <2> HIDE DEF Step
  <2> QED BY <1>5, Zenon
<1> HIDE DEF iter
<1>7. Loads(base, iter, sections, n)
  BY <1>4, <1>6
<1>8. Leads(m, base, sections, n)
  BY ReplayOne DEF Leads, Walks
<1> HIDE DEF sections
<1>9. iter[1..n] = m[n]
  BY <1>7, <1>8, LoadsTo
<1> QED BY <1>1, <1>9
=============================================================================
