--------------------------- MODULE ContainerLemmas ---------------------------
(***************************************************************************)
(* What the operations on vectors do, and how sums over finite sets add    *)
(* up, for every vector and set: what the proofs about the components that *)
(* keep them cite.                                                         *)
(***************************************************************************)
EXTENDS StdContainers, SequencesExt, FiniteSetTheorems, SequenceTheorems, WellFoundedInduction, TLAPS

(***************************************************************************)
(* Vectors                                                                 *)
(***************************************************************************)
\* A set of numbers has a least one
LEMMA LeastNumber ==
  ASSUME NEW I, I \subseteq Nat, I # {}
  PROVE  \E k \in I : \A i \in I : k <= i
<1> DEFINE R == {ss \in Nat \X Nat : ss[1] < ss[2]}
<1>1. IsWellFoundedOn(R, Nat)
  BY NatLessThanWellFounded DEF OpToRel
<1>2. \E p \in I : \A q \in I : ~ (<<q, p>> \in R)
  BY <1>1, WFMin
<1>3. \E p \in I : \A q \in I : ~ (q < p)
  BY <1>1, <1>2, Zenon
<1> QED BY <1>3

Rising(f, n) == \A i, j \in 1..n : i < j => f[i] < f[j]
Listed(n) == \A I : I \subseteq Nat /\ IsFiniteSet(I) /\ Cardinality(I) = n =>
               \E f \in [1..n -> I] : Rising(f, n)

\* Every set of numbers can be listed, lowest first
LEMMA AllListed == \A n \in Nat : Listed(n)
<1> DEFINE Bad == {n \in Nat : ~Listed(n)}
<1>1. SUFFICES ASSUME Bad # {} PROVE FALSE
  OBVIOUS
<1>2. PICK n \in Bad : \A m \in Bad : n <= m
  BY <1>1, LeastNumber
<1>3. PICK I : /\ I \subseteq Nat /\ IsFiniteSet(I) /\ Cardinality(I) = n
               /\ ~ \E f \in [1..n -> I] : Rising(f, n)
  BY <1>2 DEF Listed
<1>4. CASE n = 0
  <2>1. [i \in 1..n |-> 0] \in [1..n -> I] /\ Rising([i \in 1..n |-> 0], n)
    BY <1>4 DEF Rising
  <2> QED BY <1>3, <2>1
<1>5. CASE n # 0
  <2>1. I # {} /\ n \in Nat \ {0}
    BY <1>2, <1>3, <1>5, FS_EmptySet
  <2>2. PICK k \in I : \A i \in I : k <= i
    BY <1>3, <2>1, LeastNumber
  <2>3. /\ I \ {k} \subseteq Nat /\ IsFiniteSet(I \ {k})
        /\ Cardinality(I \ {k}) = n - 1
    BY <1>3, <2>2, FS_RemoveElement
  <2>4. Listed(n - 1)
    BY <1>2, <2>1
  <2>5. PICK f \in [1..(n - 1) -> I \ {k}] : Rising(f, n - 1)
    BY <2>3, <2>4 DEF Listed
  <2> DEFINE g == [i \in 1..n |-> IF i = 1 THEN k ELSE f[i - 1]]
  <2>6. \A i \in 1..n : i # 1 => i - 1 \in 1..(n - 1) /\ g[i] = f[i - 1] /\ f[i - 1] \in I \ {k}
    BY <2>1, <2>5
  <2>7. g \in [1..n -> I]
    BY <2>2, <2>6
  <2>8. Rising(g, n)
    <3>1. SUFFICES ASSUME NEW i \in 1..n, NEW j \in 1..n, i < j PROVE g[i] < g[j]
      BY DEF Rising
    <3>2. CASE i = 1
      <4>1. g[i] = k /\ j # 1 /\ k \in Nat
        BY <1>3, <3>1, <3>2
      <4>2. g[j] \in Nat /\ g[j] # k /\ k <= g[j]
        BY <1>3, <2>2, <2>6, <4>1
      <4> HIDE DEF g
      <4> QED BY <4>1, <4>2
    <3>3. CASE i # 1
      BY <2>1, <2>5, <2>6, <3>1, <3>3 DEF Rising
    <3> QED BY <3>2, <3>3
  <2> QED BY <1>3, <2>7, <2>8
<1> QED BY <1>4, <1>5

\* The numbers of a set, each once and in their order
LEMMA AscendingFinite ==
  ASSUME NEW I, I \subseteq Nat, IsFiniteSet(I)
  PROVE  /\ Cardinality(I) \in Nat
         /\ Ascending(I) \in [1..Cardinality(I) -> I] /\ Rising(Ascending(I), Cardinality(I))
         /\ \A i \in I : \E k \in 1..Cardinality(I) : Ascending(I)[k] = i
<1> DEFINE c == Cardinality(I)
<1>1. IsFiniteSet(I) /\ c \in Nat /\ I \subseteq Nat
  BY FS_CardinalityType
<1>2. \E f \in [1..c -> I] : \A i, j \in DOMAIN f : i < j => f[i] < f[j]
  BY <1>1, AllListed DEF Listed, Rising
<1>3. Ascending(I) \in [1..c -> I] /\ Rising(Ascending(I), c)
  BY <1>2 DEF Ascending, Rising
<1>4. Ascending(I) \in Injection(1..c, I)
  <2>1. ASSUME NEW i \in 1..c, NEW j \in 1..c, Ascending(I)[i] = Ascending(I)[j] PROVE i = j
    <3>0. PICK x \in Nat : Ascending(I)[i] = x
      BY <1>1, <1>3
    <3>1. ~(Ascending(I)[i] < Ascending(I)[j]) /\ ~(Ascending(I)[j] < Ascending(I)[i])
      BY <2>1, <3>0
    <3>2. ~(i < j) /\ ~(j < i)
      BY <1>3, <3>1 DEF Rising
    <3> QED BY <1>1, <3>2
  <2> QED BY <1>3, <2>1 DEF Injection, IsInjective
<1>5. IsFiniteSet(1..c) /\ Cardinality(1..c) = c
  BY <1>1, FS_Interval
<1>6. Ascending(I) \in Surjection(1..c, I)
  BY <1>1, <1>4, <1>5, FS_Injection
<1> QED BY <1>1, <1>3, <1>6 DEF Surjection

LEMMA AscendingIs ==
  ASSUME NEW n \in Nat, NEW I, I \subseteq 1..n
  PROVE  /\ Cardinality(I) \in Nat
         /\ Ascending(I) \in [1..Cardinality(I) -> I] /\ Rising(Ascending(I), Cardinality(I))
         /\ \A i \in I : \E k \in 1..Cardinality(I) : Ascending(I)[k] = i
<1>1. I \subseteq Nat
  OBVIOUS
<1>2. IsFiniteSet(I)
  <2>1. IsFiniteSet(1..n)
    BY FS_Interval
  <2> QED BY <2>1, FS_Subset
<1> QED BY <1>1, <1>2, AscendingFinite

\* A vector of the elements at positions I, each once and in their order
Picks(r, s, I) ==
  \E f \in [DOMAIN r -> I] :
    /\ \A k \in DOMAIN r : r[k] = s[f[k]]
    /\ \A j, k \in DOMAIN r : j < k => f[j] < f[k]
    /\ \A i \in I : \E k \in DOMAIN r : f[k] = i

\* The elements that stay when others are erased
LEMMA ElementsAtIs ==
  ASSUME NEW S, NEW s \in Seq(S), NEW I, I \subseteq DOMAIN s
  PROVE  ElementsAt(s, I) \in Seq(S) /\ Picks(ElementsAt(s, I), s, I)
<1> DEFINE f == Ascending(I)
           c == Cardinality(I)
           r == ElementsAt(s, I)
<1>1. DOMAIN s = 1..Len(s) /\ Len(s) \in Nat
  OBVIOUS
<1>2. /\ c \in Nat /\ f \in [1..c -> I] /\ Rising(f, c)
      /\ \A i \in I : \E k \in 1..c : f[k] = i
  BY <1>1, AscendingIs
<1>3. r = [i \in 1..c |-> s[f[i]]]
  BY <1>2 DEF ElementsAt
<1> HIDE DEF f, r, c
<1>4. \A i \in 1..c : s[f[i]] \in S
  BY <1>1, <1>2
<1>5. r \in Seq(S) /\ DOMAIN r = 1..c
  BY <1>2, <1>3, <1>4
<1>6. f \in [DOMAIN r -> I] /\ \A k \in DOMAIN r : r[k] = s[f[k]]
  BY <1>2, <1>3, <1>5
<1>7. /\ \A j, k \in DOMAIN r : j < k => f[j] < f[k]
      /\ \A i \in I : \E k \in DOMAIN r : f[k] = i
  BY <1>2, <1>5 DEF Rising
<1>8. Picks(r, s, I)
  BY <1>6, <1>7 DEF Picks
<1> QED BY <1>5, <1>8 DEF r

\* A vector without one of its elements
LEMMA RemoveAtIs ==
  ASSUME NEW S, NEW s \in Seq(S), NEW v \in DOMAIN s
  PROVE  RemoveAt(s, v) \in Seq(S) /\ Picks(RemoveAt(s, v), s, DOMAIN s \ {v})
<1> DEFINE a == SubSeq(s, 1, v - 1)
           b == SubSeq(s, v + 1, Len(s))
           r == a \o b
           n == Len(s)
           f == [k \in 1..(n - 1) |-> IF k < v THEN k ELSE k + 1]
<1>1. n \in Nat /\ v \in 1..n /\ DOMAIN s = 1..n
  OBVIOUS
<1>2. a \in Seq(S) /\ Len(a) = v - 1 /\ \A i \in 1..(v - 1) : a[i] = s[i]
  BY <1>1, SubSeqProperties
<1>3. b \in Seq(S) /\ Len(b) = n - v /\ \A i \in 1..(n - v) : b[i] = s[v + i]
  BY <1>1, SubSeqProperties
<1> HIDE DEF a, b, n
<1>4. r \in Seq(S) /\ Len(r) = n - 1 /\ DOMAIN r = 1..(n - 1)
  <2>1. r \in Seq(S) /\ Len(r) = Len(a) + Len(b)
    BY <1>2, <1>3, ConcatProperties, Zenon
  <2>2. Len(a) + Len(b) = n - 1
    BY <1>1, <1>2, <1>3
  <2> HIDE DEF r
  <2> QED BY <2>1, <2>2
<1>5. \A k \in 1..(n - 1) : r[k] = s[f[k]]
  <2>1. ASSUME NEW k \in 1..(n - 1), k < v PROVE r[k] = s[f[k]]
    BY <1>1, <1>2, <1>3, <2>1
  <2>2. ASSUME NEW k \in 1..(n - 1), ~(k < v) PROVE r[k] = s[f[k]]
    <3>1. r[k] = b[k - (v - 1)] /\ k - (v - 1) \in 1..(n - v)
      BY <1>1, <1>2, <1>3, <2>2
    <3>2. f[k] = k + 1 /\ v + (k - (v - 1)) = k + 1
      BY <1>1, <2>2
    <3> QED BY <1>3, <3>1, <3>2
  <2> QED BY <2>1, <2>2
<1>6. f \in [1..(n - 1) -> (1..n) \ {v}]
  BY <1>1
<1>7. \A j, k \in 1..(n - 1) : j < k => f[j] < f[k]
  BY <1>1
<1>8. \A i \in (1..n) \ {v} : \E k \in 1..(n - 1) : f[k] = i
  <2>1. ASSUME NEW i \in (1..n) \ {v} PROVE \E k \in 1..(n - 1) : f[k] = i
    <3>1. CASE i < v
      <4>1. i \in 1..(n - 1) /\ f[i] = i
        BY <1>1, <3>1
      <4> QED BY <4>1
    <3>2. CASE ~(i < v)
      <4>1. i - 1 \in 1..(n - 1) /\ f[i - 1] = i
        BY <1>1, <3>2
      <4> QED BY <4>1
    <3> QED BY <3>1, <3>2
  <2> QED BY <2>1
<1>9. RemoveAt(s, v) = r
  BY DEF RemoveAt, a, b, n
<1> HIDE DEF r, f
<1>10. f \in [DOMAIN r -> DOMAIN s \ {v}] /\ \A k \in DOMAIN r : r[k] = s[f[k]]
  BY <1>1, <1>4, <1>5, <1>6
<1>11. /\ \A j, k \in DOMAIN r : j < k => f[j] < f[k]
       /\ \A i \in DOMAIN s \ {v} : \E k \in DOMAIN r : f[k] = i
  BY <1>1, <1>4, <1>7, <1>8
<1>12. Picks(r, s, DOMAIN s \ {v})
  BY <1>10, <1>11 DEF Picks
<1> QED BY <1>4, <1>9, <1>12

\* Each element once
Unrepeated(s) == \A i, j \in DOMAIN s : s[i] = s[j] => i = j

\* What the elements at some positions are, and that none is there twice
LEMMA PicksElements ==
  ASSUME NEW s, NEW r, NEW n \in Nat, DOMAIN s = 1..n, NEW m \in Nat, DOMAIN r = 1..m,
         NEW I, I \subseteq DOMAIN s, Picks(r, s, I)
  PROVE  ToSet(r) = {s[i] : i \in I} /\ (Unrepeated(s) => Unrepeated(r))
<1>1. PICK f \in [DOMAIN r -> I] :
        /\ \A k \in DOMAIN r : r[k] = s[f[k]]
        /\ \A j, k \in DOMAIN r : j < k => f[j] < f[k]
        /\ \A i \in I : \E k \in DOMAIN r : f[k] = i
  BY DEF Picks
<1>2. ToSet(r) = {s[i] : i \in I}
  BY <1>1 DEF ToSet
<1>3. ASSUME Unrepeated(s), NEW j \in DOMAIN r, NEW k \in DOMAIN r, r[j] = r[k] PROVE j = k
  <2>1. f[j] = f[k] /\ f[j] \in 1..n
    BY <1>1, <1>3 DEF Unrepeated
  <2>2. ~(f[j] < f[k]) /\ ~(f[k] < f[j])
    BY <2>1
  <2>3. ~(j < k) /\ ~(k < j)
    BY <1>1, <2>2
  <2> QED BY <2>3
<1> QED BY <1>2, <1>3 DEF Unrepeated

LEMMA ElementsAtElements ==
  ASSUME NEW S, NEW s \in Seq(S), NEW I, I \subseteq DOMAIN s
  PROVE  /\ ElementsAt(s, I) \in Seq(S) /\ ToSet(ElementsAt(s, I)) = {s[i] : i \in I}
         /\ Unrepeated(s) => Unrepeated(ElementsAt(s, I))
<1> DEFINE r == ElementsAt(s, I)
<1>1. r \in Seq(S) /\ Picks(r, s, I)
  BY ElementsAtIs
<1> HIDE DEF r
<1>2. Len(s) \in Nat /\ DOMAIN s = 1..Len(s) /\ Len(r) \in Nat /\ DOMAIN r = 1..Len(r)
  BY <1>1
<1>3. ToSet(r) = {s[i] : i \in I} /\ (Unrepeated(s) => Unrepeated(r))
  BY <1>1, <1>2, PicksElements, Zenon
<1> QED BY <1>1, <1>3 DEF r

LEMMA DroppingIs ==
  ASSUME NEW S, NEW s \in Seq(S), NEW E
  PROVE  /\ Dropping(s, E) \in Seq(S) /\ ToSet(Dropping(s, E)) = ToSet(s) \ E
         /\ Unrepeated(s) => Unrepeated(Dropping(s, E))
<1> DEFINE I == {i \in DOMAIN s : s[i] \notin E}
<1>1. {s[i] : i \in I} = ToSet(s) \ E
  BY DEF ToSet
<1>2. Dropping(s, E) = ElementsAt(s, I)
  BY DEF Dropping
<1> HIDE DEF I
<1>3. I \subseteq DOMAIN s
  BY DEF I
<1> QED BY <1>1, <1>2, <1>3, ElementsAtElements

\* Without repetitions the first is the only one
LEMMA DroppingFirstIs ==
  ASSUME NEW S, NEW s \in Seq(S), NEW E, Unrepeated(s)
  PROVE  /\ DroppingFirst(s, E) \in Seq(S) /\ ToSet(DroppingFirst(s, E)) = ToSet(s) \ E
         /\ Unrepeated(DroppingFirst(s, E))
<1>1. \A i \in DOMAIN s : ~ \E j \in 1..i - 1 : s[j] = s[i]
  <2> SUFFICES ASSUME NEW i \in DOMAIN s, NEW j \in 1..i - 1, s[j] = s[i] PROVE FALSE
    OBVIOUS
  <2>1. j \in DOMAIN s /\ j # i
    OBVIOUS
  <2> QED BY <2>1 DEF Unrepeated
<1>2. {i \in DOMAIN s : s[i] \in E => \E j \in 1..i - 1 : s[j] = s[i]} = {i \in DOMAIN s : s[i] \notin E}
  BY <1>1
<1>3. DroppingFirst(s, E) = Dropping(s, E)
  BY <1>2 DEF DroppingFirst, Dropping
<1> QED BY <1>3, DroppingIs

LEMMA AppendElements ==
  ASSUME NEW S, NEW s \in Seq(S), NEW x \in S
  PROVE  /\ Append(s, x) \in Seq(S) /\ ToSet(Append(s, x)) = ToSet(s) \cup {x}
         /\ Unrepeated(s) /\ x \notin ToSet(s) => Unrepeated(Append(s, x))
<1>1. /\ Append(s, x) \in Seq(S) /\ DOMAIN Append(s, x) = 1..Len(s) + 1 /\ DOMAIN s = 1..Len(s) /\ Len(s) \in Nat
      /\ Append(s, x)[Len(s) + 1] = x /\ \A i \in 1..Len(s) : Append(s, x)[i] = s[i]
  OBVIOUS
<1> DEFINE r == Append(s, x)
<1> HIDE DEF r
<1>2. ToSet(r) = ToSet(s) \cup {x}
  BY <1>1 DEF ToSet, r
<1>3. Unrepeated(s) /\ x \notin ToSet(s) => Unrepeated(r)
  BY <1>1 DEF ToSet, Unrepeated, r
<1> QED BY <1>1, <1>2, <1>3 DEF r

LEMMA ConcatElements ==
  ASSUME NEW S, NEW s \in Seq(S), NEW t \in Seq(S)
  PROVE  /\ s \o t \in Seq(S) /\ ToSet(s \o t) = ToSet(s) \cup ToSet(t)
         /\ Unrepeated(s) /\ Unrepeated(t) /\ ToSet(s) \cap ToSet(t) = {} => Unrepeated(s \o t)
<1> DEFINE r == s \o t
<1>1. /\ Len(s) \in Nat /\ Len(t) \in Nat /\ DOMAIN s = 1..Len(s) /\ DOMAIN t = 1..Len(t)
      /\ r \in Seq(S) /\ DOMAIN r = 1..Len(s) + Len(t)
      /\ \A i \in DOMAIN r : r[i] = IF i <= Len(s) THEN s[i] ELSE t[i - Len(s)]
  OBVIOUS
<1> HIDE DEF r
<1>2. ASSUME NEW i \in DOMAIN r PROVE r[i] \in ToSet(s) \cup ToSet(t)
  <2>1. CASE i <= Len(s)
    BY <1>1, <2>1 DEF ToSet
  <2>2. CASE ~(i <= Len(s))
    <3>1. i - Len(s) \in DOMAIN t
      BY <1>1, <2>2
    <3> QED BY <1>1, <2>2, <3>1 DEF ToSet
  <2> QED BY <2>1, <2>2
<1>3. \A i \in DOMAIN s : i \in DOMAIN r /\ r[i] = s[i]
  BY <1>1
<1>4. ASSUME NEW i \in DOMAIN t PROVE Len(s) + i \in DOMAIN r /\ r[Len(s) + i] = t[i]
  <2>1. Len(s) + i \in DOMAIN r /\ ~(Len(s) + i <= Len(s)) /\ Len(s) + i - Len(s) = i
    BY <1>1
  <2> QED BY <1>1, <2>1
<1>5. ToSet(r) = ToSet(s) \cup ToSet(t)
  <2>1. ToSet(s) \subseteq ToSet(r)
    BY <1>3 DEF ToSet
  <2>2. ToSet(t) \subseteq ToSet(r)
    BY <1>4 DEF ToSet
  <2>3. ToSet(r) \subseteq ToSet(s) \cup ToSet(t)
    BY <1>2 DEF ToSet
  <2> QED BY <2>1, <2>2, <2>3
<1>6. ASSUME Unrepeated(s), Unrepeated(t), ToSet(s) \cap ToSet(t) = {},
             NEW i \in DOMAIN r, NEW j \in DOMAIN r, r[i] = r[j]
      PROVE  i = j
  <2>1. ASSUME NEW k \in DOMAIN r
        PROVE  \/ k \in DOMAIN s /\ r[k] = s[k] /\ r[k] \in ToSet(s)
               \/ k - Len(s) \in DOMAIN t /\ r[k] = t[k - Len(s)] /\ r[k] \in ToSet(t)
    <3>1. CASE k <= Len(s)
      BY <1>1, <3>1 DEF ToSet
    <3>2. CASE ~(k <= Len(s))
      <4>1. k - Len(s) \in DOMAIN t
        BY <1>1, <3>2
      <4> QED BY <1>1, <3>2, <4>1 DEF ToSet
    <3> QED BY <3>1, <3>2
  <2>2. CASE r[i] \in ToSet(s)
    BY <1>6, <2>1, <2>2 DEF Unrepeated
  <2>3. CASE r[i] \notin ToSet(s)
    <3>1. i - Len(s) \in DOMAIN t /\ j - Len(s) \in DOMAIN t /\ t[i - Len(s)] = t[j - Len(s)]
      BY <1>6, <2>1, <2>3
    <3>2. i - Len(s) = j - Len(s)
      BY <1>6, <3>1 DEF Unrepeated
    <3> QED BY <1>1, <3>2
  <2> QED BY <2>2, <2>3
<1> QED BY <1>1, <1>5, <1>6 DEF Unrepeated, r

\* A finite set as a vector
LEMMA SetToSeqIs ==
  ASSUME NEW S, IsFiniteSet(S)
  PROVE  SetToSeq(S) \in Seq(S) /\ ToSet(SetToSeq(S)) = S /\ Unrepeated(SetToSeq(S)) /\ Len(SetToSeq(S)) = Cardinality(S)
<1> DEFINE n == Cardinality(S)
           f == SetToSeq(S)
<1>1. n \in Nat /\ ExistsBijection(1..n, S)
  BY FS_CardinalityType
<1>2. \E g \in [1..n -> S] : IsInjective(g)
  BY <1>1 DEF ExistsBijection, Bijection, Injection
<1>3. f \in [1..n -> S] /\ IsInjective(f)
  BY <1>2 DEF SetToSeq
<1> HIDE DEF f
<1>4. IsFiniteSet(1..n) /\ Cardinality(1..n) = n
  BY <1>1, FS_Interval
<1>5. f \in Injection(1..n, S)
  BY <1>3 DEF Injection
<1>6. f \in Surjection(1..n, S)
  BY <1>1, <1>4, <1>5, FS_Injection
<1>7. f \in Seq(S) /\ DOMAIN f = 1..n /\ Len(f) = n
  BY <1>1, <1>3
<1>8. ToSet(f) = S
  BY <1>3, <1>6, <1>7 DEF ToSet, Surjection
<1>9. Unrepeated(f)
  BY <1>3 DEF Unrepeated, IsInjective
<1> QED BY <1>7, <1>8, <1>9 DEF f

\* A vector without repetitions is as long as its elements are many
LEMMA UnrepeatedLength ==
  ASSUME NEW S, NEW s \in Seq(S)
  PROVE  /\ IsFiniteSet(ToSet(s)) /\ Cardinality(ToSet(s)) <= Len(s) /\ Cardinality(ToSet(s)) \in Nat
         /\ Unrepeated(s) <=> Len(s) = Cardinality(ToSet(s))
<1>1. DOMAIN s = 1..Len(s) /\ Len(s) \in Nat
  OBVIOUS
<1>2. IsFiniteSet(DOMAIN s) /\ Cardinality(DOMAIN s) = Len(s)
  BY <1>1, FS_Interval
<1>3. s \in Surjection(DOMAIN s, ToSet(s))
  BY <1>1 DEF Surjection, ToSet
<1>4. IsFiniteSet(ToSet(s)) /\ Cardinality(ToSet(s)) <= Len(s) /\ (Cardinality(ToSet(s)) = Len(s) <=> s \in Injection(DOMAIN s, ToSet(s)))
  BY <1>2, <1>3, FS_Surjection
<1>5. s \in Injection(DOMAIN s, ToSet(s)) <=> Unrepeated(s)
  BY <1>3 DEF Injection, IsInjective, Surjection, Unrepeated
<1> QED BY <1>4, <1>5, FS_CardinalityType

(***************************************************************************)
(* Finite sets and sums                                                    *)
(***************************************************************************)
\* Induction over finite sets, in the collection of those for which something holds
LEMMA SetInduction ==
  ASSUME NEW S, IsFiniteSet(S), NEW Q, {} \in Q,
         \A T \in SUBSET S : T # {} /\ (\A x \in T : T \ {x} \in Q) => T \in Q
  PROVE  S \in Q
<1> DEFINE Bad == {Cardinality(T) : T \in (SUBSET S) \ Q}
           R == {ss \in Nat \X Nat : ss[1] < ss[2]}
<1> SUFFICES ASSUME S \notin Q PROVE FALSE
  OBVIOUS
<1>1. \A T \in SUBSET S : IsFiniteSet(T) /\ Cardinality(T) \in Nat
  BY FS_Subset, FS_CardinalityType
<1>2. Bad \subseteq Nat /\ Bad # {}
  BY <1>1
<1>3. \E n \in Bad : \A m \in Bad : ~ (<<m, n>> \in R)
  BY <1>2, WFMin, NatLessThanWellFounded DEF OpToRel
<1>4. PICK T \in (SUBSET S) \ Q : \A U \in (SUBSET S) \ Q : ~ (Cardinality(U) < Cardinality(T))
  <2>1. PICK n \in Bad : \A m \in Bad : ~ (<<m, n>> \in R)
    BY <1>3
  <2>2. PICK T \in (SUBSET S) \ Q : n = Cardinality(T)
    BY <2>1
  <2>3. ASSUME NEW U \in (SUBSET S) \ Q PROVE ~ (Cardinality(U) < Cardinality(T))
    <3>1. Cardinality(U) \in Bad /\ Cardinality(U) \in Nat /\ Cardinality(T) \in Nat
      BY <1>1
    <3>2. ~ (<<Cardinality(U), Cardinality(T)>> \in R)
      BY <2>1, <2>2, <3>1
    <3> QED BY <3>1, <3>2
  <2> QED BY <2>2, <2>3
<1>5. \A x \in T : T \ {x} \in Q
  <2> SUFFICES ASSUME NEW x \in T PROVE T \ {x} \in Q
    OBVIOUS
  <2>1. Cardinality(T \ {x}) = Cardinality(T) - 1
    BY <1>1, FS_RemoveElement
  <2> QED BY <1>1, <1>4, <2>1
<1> QED BY <1>4, <1>5

\* What the numbers of g at S add up to, and as many things
SumOf(g, S) == MapThenSumSet(LAMBDA x : g[x], S)
Units(g, S) == UNION {{x} \X (1..g[x]) : x \in S}
Total(g, S) == Cardinality(Units(g, S))
Adds(F, g, S) == F = [s \in SUBSET S |-> IF s = {} THEN 0
                        ELSE g[CHOOSE x \in s : TRUE] + F[s \ {CHOOSE x \in s : TRUE}]]

LEMMA UnitsOfOne ==
  ASSUME NEW x, NEW n \in Nat
  PROVE  IsFiniteSet({x} \X (1..n)) /\ Cardinality({x} \X (1..n)) = n
<1> DEFINE f == [i \in 1..n |-> <<x, i>>]
<1>1. f \in Bijection(1..n, {x} \X (1..n))
  BY DEF Bijection, Injection, IsInjective, Surjection
<1>2. ExistsBijection(1..n, {x} \X (1..n))
  BY <1>1 DEF ExistsBijection
<1> QED BY <1>2, FS_CountingElements, FS_NatBijection

LEMMA UnitsGrow ==
  ASSUME NEW g, NEW S, NEW x, x \notin S, g[x] \in Nat, IsFiniteSet(Units(g, S))
  PROVE  /\ IsFiniteSet(Units(g, S \cup {x})) /\ Total(g, S) \in Nat
         /\ Total(g, S \cup {x}) = Total(g, S) + g[x]
<1> DEFINE one == {x} \X (1..g[x])
<1>1. Units(g, S \cup {x}) = Units(g, S) \cup one
  BY DEF Units
<1>2. Units(g, S) \cap one = {}
  BY DEF Units
<1>3. IsFiniteSet(one) /\ Cardinality(one) = g[x]
  BY UnitsOfOne
<1> HIDE DEF one
<1> DEFINE U == Units(g, S)
<1>4. Cardinality(U \cup one) = Cardinality(U) + Cardinality(one) - Cardinality({})
  <2> HIDE DEF U
  <2> QED BY <1>2, <1>3, FS_Union DEF U
<1>5. IsFiniteSet(Units(g, S) \cup one)
  BY <1>3, FS_Union
<1>6. Cardinality(U) \in Nat /\ Cardinality({}) = 0
  BY FS_EmptySet, FS_CardinalityType
<1>7. Cardinality(U \cup one) = Cardinality(U) + g[x]
  <2> HIDE DEF U
  <2> QED BY <1>3, <1>4, <1>6
<1> QED BY <1>1, <1>5, <1>6, <1>7 DEF Total

LEMMA UnitsFinite ==
  ASSUME NEW g, NEW S, IsFiniteSet(S), \A x \in S : g[x] \in Nat
  PROVE  IsFiniteSet(Units(g, S)) /\ Total(g, S) \in Nat
<1> DEFINE Q == {T \in SUBSET S : IsFiniteSet(Units(g, T))}
<1>1. {} \in Q
  BY FS_EmptySet DEF Units
<1>2. ASSUME NEW T \in SUBSET S, T # {}, \A x \in T : T \ {x} \in Q
      PROVE  T \in Q
  <2>1. PICK x \in T : TRUE
    BY <1>2
  <2>2. (T \ {x}) \cup {x} = T /\ T \ {x} \in Q /\ g[x] \in Nat
    BY <1>2, <2>1
  <2> QED BY <2>2, UnitsGrow
<1>3. S \in Q
  <2> HIDE DEF Q
  <2> QED BY <1>1, <1>2, SetInduction
<1> QED BY <1>3, FS_CardinalityType DEF Total

\* Counting things one by one adds up
LEMMA TotalAdds ==
  ASSUME NEW g, NEW S, IsFiniteSet(S), \A x \in S : g[x] \in Nat
  PROVE  Adds([s \in SUBSET S |-> Total(g, s)], g, S)
<1> DEFINE F == [s \in SUBSET S |-> Total(g, s)]
<1>1. Total(g, {}) = 0
  BY FS_EmptySet DEF Total, Units
<1>2. ASSUME NEW s \in SUBSET S, s # {}, NEW x, x = CHOOSE y \in s : TRUE
      PROVE  Total(g, s) = g[x] + F[s \ {x}]
  <2>1. x \in s /\ g[x] \in Nat /\ IsFiniteSet(s \ {x}) /\ (s \ {x}) \cup {x} = s
    BY <1>2, FS_Subset
  <2>2. IsFiniteSet(Units(g, s \ {x})) /\ Total(g, s \ {x}) \in Nat
    BY <2>1, UnitsFinite
  <2>3. Total(g, (s \ {x}) \cup {x}) = Total(g, s \ {x}) + g[x]
    BY <2>1, <2>2, UnitsGrow
  <2>4. Total(g, s) = Total(g, s \ {x}) + g[x]
    BY <2>1, <2>3
  <2>5. F[s \ {x}] = Total(g, s \ {x})
    OBVIOUS
  <2> QED BY <2>1, <2>2, <2>4, <2>5
<1> QED BY <1>1, <1>2 DEF Adds

\* The sum is the only function that adds up
LEMMA SumIsTotal ==
  ASSUME NEW g, NEW S, IsFiniteSet(S), \A x \in S : g[x] \in Nat
  PROVE  SumOf(g, S) = Total(g, S) /\ Total(g, S) \in Nat
<1> DEFINE F == CHOOSE F : Adds(F, g, S)
           Q == {T \in SUBSET S : F[T] = Total(g, T)}
<1>1. Adds(F, g, S)
  BY TotalAdds, Zenon
<1>2. SumOf(g, S) = F[S]
  BY DEF SumOf, MapThenSumSet, MapThenFoldSet, Adds
<1> HIDE DEF F
<1>3. {} \in Q
  BY <1>1, FS_EmptySet DEF Adds, Total, Units
<1>4. ASSUME NEW T \in SUBSET S, T # {}, \A x \in T : T \ {x} \in Q
      PROVE  T \in Q
  <2> DEFINE x == CHOOSE y \in T : TRUE
  <2>1. x \in T /\ T \ {x} \in SUBSET S
    BY <1>4
  <2>2. F[T] = g[x] + F[T \ {x}]
    BY <1>1, <1>4 DEF Adds
  <2>3. Total(g, T) = g[x] + Total(g, T \ {x})
    <3> DEFINE H == [s \in SUBSET S |-> Total(g, s)]
    <3>1. Adds(H, g, S)
      BY TotalAdds
    <3> HIDE DEF H
    <3>2. H[T] = g[x] + H[T \ {x}]
      BY <1>4, <3>1 DEF Adds
    <3> QED BY <2>1, <3>2 DEF H
  <2> QED BY <1>4, <2>1, <2>2, <2>3
<1>5. S \in Q
  <2> HIDE DEF Q
  <2> QED BY <1>3, <1>4, SetInduction
<1> QED BY <1>2, <1>5, UnitsFinite

LEMMA SumOfNone == \A g : SumOf(g, {}) = 0
<1> TAKE g
<1>1. SumOf(g, {}) = Total(g, {})
  BY SumIsTotal, FS_EmptySet
<1>2. Units(g, {}) = {}
  BY DEF Units
<1> QED BY <1>1, <1>2, FS_EmptySet DEF Total

LEMMA SumOfOne ==
  ASSUME NEW g, NEW x, g[x] \in Nat
  PROVE  SumOf(g, {x}) = g[x]
<1>1. SumOf(g, {x}) = Total(g, {x})
  BY SumIsTotal, FS_Singleton
<1>2. Units(g, {x}) = {x} \X (1..g[x])
  BY DEF Units
<1> QED BY <1>1, <1>2, UnitsOfOne DEF Total

LEMMA SumOfTwo ==
  ASSUME NEW g, NEW A, IsFiniteSet(A), NEW B, IsFiniteSet(B), A \cap B = {},
         \A x \in A \cup B : g[x] \in Nat
  PROVE  SumOf(g, A \cup B) = SumOf(g, A) + SumOf(g, B) /\ SumOf(g, A) \in Nat /\ SumOf(g, B) \in Nat
<1> DEFINE U == Units(g, A)
           V == Units(g, B)
<1>1. SumOf(g, A) = Total(g, A) /\ Total(g, A) \in Nat /\ SumOf(g, B) = Total(g, B) /\ Total(g, B) \in Nat
  BY SumIsTotal
<1>2. SumOf(g, A \cup B) = Total(g, A \cup B)
  BY SumIsTotal, FS_Union
<1>3. Units(g, A \cup B) = U \cup V /\ U \cap V = {}
  BY DEF Units
<1>4. IsFiniteSet(U) /\ IsFiniteSet(V) /\ Cardinality(U) = Total(g, A) /\ Cardinality(V) = Total(g, B)
  BY UnitsFinite DEF Total
<1> HIDE DEF U, V
<1>5. Cardinality(U \cup V) = Cardinality(U) + Cardinality(V) - Cardinality({})
  BY <1>3, <1>4, FS_Union
<1>6. Cardinality(U \cup V) = Total(g, A) + Total(g, B)
  BY <1>1, <1>4, <1>5, FS_EmptySet
<1> QED BY <1>1, <1>2, <1>3, <1>6 DEF Total

LEMMA SameSum ==
  ASSUME NEW S, IsFiniteSet(S), NEW g, NEW h,
         \A x \in S : g[x] \in Nat /\ h[x] = g[x]
  PROVE  SumOf(g, S) = SumOf(h, S)
<1>1. Units(g, S) = Units(h, S)
  BY DEF Units
<1> QED BY <1>1, SumIsTotal DEF Total

(***************************************************************************)
(* Vectors that are sorted, and how often something is in one              *)
(***************************************************************************)
\* The places of a stable sort are the positions, each once, in the order of the keys
LEMMA PlacesAre ==
  ASSUME NEW n \in Nat, NEW s, DOMAIN s = 1..n, NEW key, \A i \in 1..n : key[s[i]] \in Int
  PROVE  /\ \A i \in 1..n : PlaceOf(s, key, i) \in 1..n
         /\ \A i, j \in 1..n : PlaceOf(s, key, i) = PlaceOf(s, key, j) => i = j
         /\ \A i, j \in 1..n : key[s[i]] < key[s[j]] => PlaceOf(s, key, i) < PlaceOf(s, key, j)
<1> DEFINE upto(i) == {j \in 1..n : key[s[j]] < key[s[i]] \/ (key[s[j]] = key[s[i]] /\ j <= i)}
           less(i, j) == key[s[i]] < key[s[j]] \/ (key[s[i]] = key[s[j]] /\ i < j)
<1>1. \A i : PlaceOf(s, key, i) = Cardinality(upto(i))
  BY DEF PlaceOf
<1>2. IsFiniteSet(1..n) /\ Cardinality(1..n) = n
  <2>1. IsFiniteSet(1..n) /\ Cardinality(1..n) = IF 1 > n THEN 0 ELSE n - 1 + 1
    BY FS_Interval
  <2> QED BY <2>1
<1>3. ASSUME NEW i \in 1..n PROVE IsFiniteSet(upto(i)) /\ Cardinality(upto(i)) \in 1..n
  <2>1. upto(i) \subseteq 1..n /\ i \in upto(i)
    OBVIOUS
  <2>2. IsFiniteSet(upto(i)) /\ Cardinality(upto(i)) <= n
    BY <1>2, <2>1, FS_Subset
  <2>3. Cardinality(upto(i)) # 0 /\ Cardinality(upto(i)) \in Nat
    BY <2>1, <2>2, FS_EmptySet, FS_CardinalityType
  <2> HIDE DEF upto
  <2> QED BY <2>2, <2>3
<1>4. ASSUME NEW i \in 1..n, NEW j \in 1..n, less(i, j) PROVE Cardinality(upto(i)) < Cardinality(upto(j))
  <2>1. upto(i) \subseteq upto(j) /\ j \in upto(j) /\ j \notin upto(i)
    BY <1>4
  <2>2. IsFiniteSet(upto(j)) /\ Cardinality(upto(j)) \in 1..n /\ Cardinality(upto(i)) \in 1..n
    <3> HIDE DEF upto
    <3> QED BY <1>3
  <2> HIDE DEF upto
  <2> DEFINE A == upto(i)
             B == upto(j)
  <2>3. Cardinality(A) <= Cardinality(B) /\ (Cardinality(A) = Cardinality(B) => A = B)
    BY <2>1, <2>2, FS_Subset
  <2> QED BY <2>1, <2>2, <2>3
<1>5. \A i, j \in 1..n : i = j \/ less(i, j) \/ less(j, i)
  OBVIOUS
<1> HIDE DEF upto, less
<1>6. \A i \in 1..n : Cardinality(upto(i)) \in Nat
  BY <1>3
<1>7. ASSUME NEW i \in 1..n, NEW j \in 1..n, Cardinality(upto(i)) = Cardinality(upto(j)) PROVE i = j
  BY <1>4, <1>5, <1>6, <1>7
<1>8. ASSUME NEW i \in 1..n, NEW j \in 1..n, key[s[i]] < key[s[j]] PROVE Cardinality(upto(i)) < Cardinality(upto(j))
  <2>1. less(i, j)
    BY <1>8 DEF less
  <2> QED BY <1>4, <2>1
<1> QED BY <1>1, <1>3, <1>7, <1>8

\* r is s in another order
Permutes(r, s) ==
  \E p \in Bijection(DOMAIN s, DOMAIN s) : DOMAIN r = DOMAIN s /\ \A k \in DOMAIN s : r[k] = s[p[k]]

LEMMA StableSortIs ==
  ASSUME NEW S, NEW s \in Seq(S), NEW key, \A x \in S : key[x] \in Int
  PROVE  /\ StableSort(s, key) \in Seq(S) /\ Permutes(StableSort(s, key), s)
         /\ \A i, j \in DOMAIN StableSort(s, key) : i < j => key[StableSort(s, key)[i]] <= key[StableSort(s, key)[j]]
<1> DEFINE n == Len(s)
           place == [i \in 1..n |-> PlaceOf(s, key, i)]
           p == [k \in 1..n |-> CHOOSE i \in 1..n : PlaceOf(s, key, i) = k]
           r == StableSort(s, key)
<1>1. n \in Nat /\ DOMAIN s = 1..n /\ \A i \in 1..n : s[i] \in S /\ key[s[i]] \in Int
  OBVIOUS
<1>2. /\ \A i \in 1..n : PlaceOf(s, key, i) \in 1..n
      /\ \A i, j \in 1..n : PlaceOf(s, key, i) = PlaceOf(s, key, j) => i = j
      /\ \A i, j \in 1..n : key[s[i]] < key[s[j]] => PlaceOf(s, key, i) < PlaceOf(s, key, j)
  BY <1>1, PlacesAre
<1> HIDE DEF n
<1>3. place \in Injection(1..n, 1..n)
  BY <1>2 DEF Injection, IsInjective
<1>4. IsFiniteSet(1..n)
  BY <1>1, FS_Interval
<1>5. \A k \in 1..n : \E i \in 1..n : place[i] = k
  <2> HIDE DEF place
  <2>1. place \in Surjection(1..n, 1..n)
    BY <1>3, <1>4, FS_Injection
  <2> QED BY <2>1 DEF Surjection
<1>6. \A k \in 1..n : p[k] \in 1..n /\ PlaceOf(s, key, p[k]) = k
  BY <1>5
<1>7. r = [k \in 1..n |-> s[p[k]]]
  BY <1>1 DEF StableSort
<1> HIDE DEF p, r, place
<1>8. r \in Seq(S) /\ DOMAIN r = 1..n
  BY <1>1, <1>6, <1>7
<1>9. Permutes(r, s)
  <2>1. \A i \in 1..n : p[PlaceOf(s, key, i)] = i
    BY <1>2, <1>6
  <2>2. \A i \in 1..n : \E k \in 1..n : p[k] = i
    BY <1>2, <2>1
  <2>3. \A k, l \in 1..n : p[k] = p[l] => k = l
    BY <1>6
  <2>4. p \in Bijection(1..n, 1..n)
    <3>1. p \in [1..n -> 1..n]
      BY <1>6 DEF p
    <3> QED BY <2>2, <2>3, <3>1 DEF Bijection, Injection, Surjection, IsInjective
  <2> QED BY <1>1, <1>7, <2>4 DEF Permutes
<1>10. ASSUME NEW i \in 1..n, NEW j \in 1..n, i < j PROVE key[r[i]] <= key[r[j]]
  <2>1. ~(key[s[p[j]]] < key[s[p[i]]])
    <3>1. p[i] \in 1..n /\ p[j] \in 1..n /\ PlaceOf(s, key, p[i]) = i /\ PlaceOf(s, key, p[j]) = j
      BY <1>6
    <3>2. ~(j < i)
      BY <1>1, <1>10
    <3>3. key[s[p[j]]] < key[s[p[i]]] => PlaceOf(s, key, p[j]) < PlaceOf(s, key, p[i])
      BY <1>2, <3>1
    <3> QED BY <3>1, <3>2, <3>3
  <2>2. key[s[p[j]]] \in Int /\ key[s[p[i]]] \in Int
    BY <1>1, <1>6
  <2>3. r[i] = s[p[i]] /\ r[j] = s[p[j]]
    BY <1>7
  <2> QED BY <2>1, <2>2, <2>3
<1> QED BY <1>8, <1>9, <1>10 DEF r

LEMMA PermutesElements ==
  ASSUME NEW s, NEW r, Permutes(r, s)
  PROVE  DOMAIN r = DOMAIN s /\ ToSet(r) = ToSet(s) /\ (Unrepeated(s) => Unrepeated(r))
<1>1. PICK p \in Bijection(DOMAIN s, DOMAIN s) : DOMAIN r = DOMAIN s /\ \A k \in DOMAIN s : r[k] = s[p[k]]
  BY DEF Permutes
<1>2. /\ \A k \in DOMAIN s : p[k] \in DOMAIN s
      /\ \A k, l \in DOMAIN s : p[k] = p[l] => k = l
      /\ \A i \in DOMAIN s : \E k \in DOMAIN s : p[k] = i
  BY <1>1 DEF Bijection, Injection, Surjection, IsInjective
<1>3. ToSet(r) = ToSet(s)
  <2>1. ASSUME NEW k \in DOMAIN r PROVE r[k] \in ToSet(s)
    <3>1. r[k] = s[p[k]] /\ p[k] \in DOMAIN s
      BY <1>1, <1>2
    <3> DEFINE i == p[k]
    <3>2. i \in DOMAIN s /\ r[k] = s[i]
      BY <3>1
    <3> HIDE DEF i
    <3> QED BY <3>2 DEF ToSet
  <2>2. ASSUME NEW i \in DOMAIN s PROVE s[i] \in ToSet(r)
    <3>1. PICK k \in DOMAIN s : p[k] = i
      BY <1>2
    <3>2. k \in DOMAIN r /\ r[k] = s[i]
      BY <1>1, <3>1
    <3> QED BY <3>2 DEF ToSet
  <2> QED BY <2>1, <2>2 DEF ToSet
<1>4. Unrepeated(s) => Unrepeated(r)
  <2> SUFFICES ASSUME Unrepeated(s), NEW j \in DOMAIN r, NEW k \in DOMAIN r, r[j] = r[k] PROVE j = k
    BY DEF Unrepeated
  <2>1. s[p[j]] = s[p[k]] /\ p[j] \in DOMAIN s /\ p[k] \in DOMAIN s
    BY <1>1, <1>2
  <2> QED BY <1>1, <1>2, <2>1 DEF Unrepeated
<1> QED BY <1>1, <1>3, <1>4

\* How often a is in a vector
LEMMA CopiesPermuted ==
  ASSUME NEW s, NEW r, Permutes(r, s), IsFiniteSet(DOMAIN s), NEW a
  PROVE  Copies(a, r) = Copies(a, s)
<1>1. PICK p \in Bijection(DOMAIN s, DOMAIN s) : DOMAIN r = DOMAIN s /\ \A k \in DOMAIN s : r[k] = s[p[k]]
  BY DEF Permutes
<1> DEFINE A == {k \in DOMAIN r : r[k] = a}
           B == {i \in DOMAIN s : s[i] = a}
           q == [k \in A |-> p[k]]
<1>2. q \in Bijection(A, B)
  <2>1. /\ \A k \in DOMAIN s : p[k] \in DOMAIN s
        /\ \A k, l \in DOMAIN s : p[k] = p[l] => k = l
        /\ \A i \in DOMAIN s : \E k \in DOMAIN s : p[k] = i
    BY <1>1 DEF Bijection, Injection, Surjection, IsInjective
  <2>2. \A k \in A : k \in DOMAIN s /\ q[k] = p[k] /\ p[k] \in B
    BY <1>1, <2>1
  <2>3. \A i \in B : \E k \in A : p[k] = i
    <3> SUFFICES ASSUME NEW i \in B PROVE \E k \in A : p[k] = i
      OBVIOUS
    <3>1. PICK k \in DOMAIN s : p[k] = i
      BY <2>1
    <3>2. k \in A
      BY <1>1, <3>1
    <3> QED BY <3>1, <3>2
  <2>4. q \in [A -> B]
    BY <2>2
  <2>5. (\A k, l \in A : q[k] = q[l] => k = l) /\ (\A i \in B : \E k \in A : q[k] = i)
    <3> HIDE DEF A, B, q
    <3> QED BY <2>1, <2>2, <2>3
  <2> QED BY <2>4, <2>5 DEF Bijection, Injection, Surjection, IsInjective
<1>3. IsFiniteSet(A)
  BY <1>1, FS_Subset
<1> HIDE DEF A, B, q
<1>4. Cardinality(A) = Cardinality(B)
  BY <1>2, <1>3, FS_Bijection DEF ExistsBijection
<1> QED BY <1>4 DEF Copies, A, B

LEMMA CopiesFinite ==
  ASSUME NEW S, NEW s \in Seq(S), NEW a
  PROVE  IsFiniteSet({i \in DOMAIN s : s[i] = a}) /\ Copies(a, s) \in Nat
<1>1. IsFiniteSet(DOMAIN s)
  BY FS_Interval
<1>2. {i \in DOMAIN s : s[i] = a} \subseteq DOMAIN s
  OBVIOUS
<1> QED BY <1>1, <1>2, FS_Subset, FS_CardinalityType DEF Copies

LEMMA CopiesBoth ==
  ASSUME NEW S, NEW s \in Seq(S), NEW t \in Seq(S), NEW a
  PROVE  Copies(a, s \o t) = Copies(a, s) + Copies(a, t)
<1> DEFINE m == Len(s)
           n == Len(t)
           r == s \o t
           A == {i \in DOMAIN s : s[i] = a}
           B == {i \in DOMAIN t : t[i] = a}
           C == {m + i : i \in B}
           f == [i \in B |-> m + i]
<1>1. /\ m \in Nat /\ n \in Nat /\ DOMAIN s = 1..m /\ DOMAIN t = 1..n /\ DOMAIN r = 1..m + n
      /\ \A i \in 1..m : r[i] = s[i]
      /\ \A i \in 1..n : r[m + i] = t[i]
  OBVIOUS
<1> HIDE DEF m, n, r
<1>2. {i \in DOMAIN r : r[i] = a} = A \cup C
  <2>1. ASSUME NEW i \in DOMAIN r, r[i] = a PROVE i \in A \cup C
    <3>1. CASE i <= m
      BY <1>1, <2>1, <3>1
    <3>2. CASE ~(i <= m)
      <4>1. i - m \in 1..n /\ m + (i - m) = i
        BY <1>1, <3>2
      <4>2. i - m \in B
        BY <1>1, <2>1, <4>1
      <4> QED BY <4>1, <4>2
    <3> QED BY <3>1, <3>2
  <2>2. ASSUME NEW i \in A \cup C PROVE i \in DOMAIN r /\ r[i] = a
    BY <1>1
  <2> QED BY <2>1, <2>2
<1>3. A \cap C = {}
  BY <1>1
<1>4. f \in Bijection(B, C)
  <2>1. B \subseteq Nat
    BY <1>1
  <2> HIDE DEF B
  <2> QED BY <1>1, <2>1 DEF Bijection, Injection, Surjection, IsInjective
<1>5. IsFiniteSet(A) /\ IsFiniteSet(B) /\ Cardinality(A) \in Nat /\ Cardinality(B) \in Nat
  BY CopiesFinite, FS_CardinalityType
<1> HIDE DEF A, B, C, f
<1>6. IsFiniteSet(C) /\ Cardinality(C) = Cardinality(B)
  BY <1>4, <1>5, FS_Bijection DEF ExistsBijection
<1>7. Cardinality(A \cup C) = Cardinality(A) + Cardinality(C) - Cardinality({})
  BY <1>3, <1>5, <1>6, FS_Union
<1>8. Cardinality({}) = 0
  BY FS_EmptySet
<1>9. Cardinality(A \cup C) = Cardinality(A) + Cardinality(B)
  BY <1>5, <1>6, <1>7, <1>8
<1> QED BY <1>2, <1>9 DEF Copies, A, B, r

LEMMA CopiesOne ==
  ASSUME NEW a, NEW x
  PROVE  Copies(a, <<x>>) = IF x = a THEN 1 ELSE 0
<1>1. DOMAIN <<x>> = {1} /\ <<x>>[1] = x
  OBVIOUS
<1> DEFINE s == <<x>>
<1>2. Copies(a, s) = Cardinality({i \in DOMAIN s : s[i] = a})
  BY DEF Copies
<1> HIDE DEF s
<1>3. CASE x = a
  <2>1. {i \in DOMAIN s : s[i] = a} = {1}
    BY <1>1, <1>3 DEF s
  <2> QED BY <1>2, <1>3, <2>1, FS_Singleton DEF s
<1>4. CASE x # a
  <2>1. {i \in DOMAIN s : s[i] = a} = {}
    BY <1>1, <1>4 DEF s
  <2> QED BY <1>2, <1>4, <2>1, FS_EmptySet DEF s
<1> QED BY <1>3, <1>4

LEMMA CopiesNone == \A a : Copies(a, <<>>) = 0
<1> TAKE a
<1>1. {i \in DOMAIN <<>> : <<>>[i] = a} = {}
  OBVIOUS
<1> QED BY <1>1, FS_EmptySet DEF Copies

LEMMA CopiesAppended ==
  ASSUME NEW S, NEW s \in Seq(S), NEW x \in S, NEW a
  PROVE  Copies(a, Append(s, x)) = Copies(a, s) + IF x = a THEN 1 ELSE 0
<1> DEFINE one == <<x>>
<1>1. Append(s, x) = s \o one /\ one \in Seq(S)
  OBVIOUS
<1>2. Copies(a, one) = IF x = a THEN 1 ELSE 0
  BY CopiesOne
<1> HIDE DEF one
<1> QED BY <1>1, <1>2, CopiesBoth

LEMMA CopiesTail ==
  ASSUME NEW S, NEW s \in Seq(S), s # <<>>, NEW a
  PROVE  /\ Tail(s) \in Seq(S) /\ Head(s) \in S
         /\ Copies(a, s) = (IF Head(s) = a THEN 1 ELSE 0) + Copies(a, Tail(s))
<1> DEFINE h == Head(s)
           t == Tail(s)
           one == <<h>>
<1>1. s = one \o t /\ one \in Seq(S) /\ t \in Seq(S) /\ h \in S
  OBVIOUS
<1> HIDE DEF h, t, one
<1>2. Copies(a, one \o t) = Copies(a, one) + Copies(a, t)
  BY <1>1, CopiesBoth
<1>3. Copies(a, one) = IF h = a THEN 1 ELSE 0
  BY CopiesOne DEF one
<1> QED BY <1>1, <1>2, <1>3 DEF h, t

\* A vector cut in two
LEMMA CutInTwo ==
  ASSUME NEW S, NEW s \in Seq(S), NEW k \in 0..Len(s)
  PROVE  /\ SubSeq(s, 1, k) \in Seq(S) /\ SubSeq(s, k + 1, Len(s)) \in Seq(S)
         /\ s = SubSeq(s, 1, k) \o SubSeq(s, k + 1, Len(s))
<1> DEFINE n == Len(s)
           t == SubSeq(s, 1, k)
           u == SubSeq(s, k + 1, n)
           r == t \o u
<1>1. n \in Nat /\ k \in Nat /\ k <= n /\ DOMAIN s = 1..n
  OBVIOUS
<1>2. t \in Seq(S) /\ Len(t) = k /\ \A i \in 1..k : t[i] = s[i]
  BY <1>1, SubSeqProperties
<1>3. u \in Seq(S) /\ Len(u) = n - k /\ \A i \in 1..n - k : u[i] = s[k + i]
  <2> DEFINE m == k + 1
  <2>1. m \in Int /\ n \in Int /\ \A i \in m..n : i \in 1..Len(s)
    BY <1>1
  <2>2. \A i \in m..n : s[i] \in S
    BY <1>1
  <2>3. /\ SubSeq(s, m, n) \in Seq(S)
        /\ Len(SubSeq(s, m, n)) = (IF m <= n THEN n - m + 1 ELSE 0)
        /\ \A i \in 1..n - m + 1 : SubSeq(s, m, n)[i] = s[m + i - 1]
    <3> HIDE DEF m, n
    <3> QED BY <2>1, <2>2, SubSeqProperties
  <2>4. n - m + 1 = n - k /\ (IF m <= n THEN n - m + 1 ELSE 0) = n - k /\ \A i \in 1..n - k : m + i - 1 = k + i
    <3> HIDE DEF n
    <3> QED BY <1>1
  <2> HIDE DEF m, n
  <2> QED BY <2>3, <2>4 DEF m
<1>4. r \in Seq(S) /\ Len(r) = Len(t) + Len(u)
  BY <1>2, <1>3, ConcatProperties
<1>5. Len(r) = n
  <2> HIDE DEF r, t, u, n
  <2> QED BY <1>1, <1>2, <1>3, <1>4
<1>6. \A i \in 1..n : r[i] = s[i]
  <2> SUFFICES ASSUME NEW i \in 1..n PROVE r[i] = s[i]
    OBVIOUS
  <2>1. r[i] = IF i <= Len(t) THEN t[i] ELSE u[i - Len(t)]
    <3> HIDE DEF t, u, n
    <3> QED BY <1>1, <1>2, <1>3
  <2> HIDE DEF r, t, u, n
  <2>2. CASE i <= k
    BY <1>1, <1>2, <2>1, <2>2
  <2>3. CASE ~(i <= k)
    <3>1. i - k \in 1..n - k /\ k + (i - k) = i
      BY <1>1, <2>3
    <3> QED BY <1>2, <1>3, <2>1, <2>3, <3>1
  <2> QED BY <2>2, <2>3
<1> HIDE DEF r, t, u
<1>7. r = s
  BY <1>1, <1>4, <1>5, <1>6
<1> QED BY <1>2, <1>3, <1>7 DEF r, t, u, n

LEMMA CopiesRemoved ==
  ASSUME NEW S, NEW s \in Seq(S), NEW k \in DOMAIN s, NEW a
  PROVE  /\ RemoveAt(s, k) \in Seq(S)
         /\ Copies(a, RemoveAt(s, k)) = Copies(a, s) - (IF s[k] = a THEN 1 ELSE 0)
<1> DEFINE n == Len(s)
           t == SubSeq(s, 1, k)
           v == SubSeq(s, k + 1, n)
           w == SubSeq(s, 1, k - 1)
           x == s[k]
<1>1. n \in Nat /\ k \in 1..n /\ k \in 0..Len(s) /\ x \in S
  OBVIOUS
<1>2. t \in Seq(S) /\ v \in Seq(S) /\ s = t \o v
  BY <1>1, CutInTwo
<1>3. w \in Seq(S) /\ t = Append(w, x)
  BY <1>1
<1>4. RemoveAt(s, k) = w \o v
  BY DEF RemoveAt
<1> HIDE DEF t, w, v, n, x
<1>5. Copies(a, t) = Copies(a, w) + (IF x = a THEN 1 ELSE 0)
  BY <1>1, <1>3, CopiesAppended
<1>6. Copies(a, s) = Copies(a, t) + Copies(a, v) /\ Copies(a, w \o v) = Copies(a, w) + Copies(a, v)
  BY <1>2, <1>3, CopiesBoth
<1>7. Copies(a, w) \in Nat /\ Copies(a, v) \in Nat
  BY <1>2, <1>3, CopiesFinite
<1>8. w \o v \in Seq(S)
  BY <1>2, <1>3
<1> QED BY <1>4, <1>5, <1>6, <1>7, <1>8 DEF x

(***************************************************************************)
(* Sums                                                                    *)
(***************************************************************************)
\* One summand changes
LEMMA SumChanged ==
  ASSUME NEW S, IsFiniteSet(S), NEW t \in S, NEW g, NEW h,
         \A x \in S : g[x] \in Nat, \A x \in S : h[x] \in Nat, \A x \in S \ {t} : h[x] = g[x]
  PROVE  SumOf(h, S) = SumOf(g, S) - g[t] + h[t] /\ SumOf(g, S) \in Nat /\ SumOf(h, S) \in Nat
<1> DEFINE R == S \ {t}
           one == {t}
<1>1. IsFiniteSet(R) /\ IsFiniteSet(one) /\ R \cap one = {} /\ S = R \cup one
  BY FS_Subset, FS_Singleton
<1>2. SumOf(g, one) = g[t] /\ SumOf(h, one) = h[t]
  BY SumOfOne
<1>3. \A x \in R : g[x] \in Nat /\ h[x] = g[x]
  OBVIOUS
<1>4. (\A x \in R \cup one : g[x] \in Nat) /\ (\A x \in R \cup one : h[x] \in Nat)
  OBVIOUS
<1> HIDE DEF R, one
<1>5. SumOf(g, R) = SumOf(h, R)
  BY <1>1, <1>3, SameSum
<1>6. SumOf(g, R \cup one) = SumOf(g, R) + SumOf(g, one) /\ SumOf(g, R) \in Nat
  BY <1>1, <1>4, SumOfTwo
<1>7. SumOf(h, R \cup one) = SumOf(h, R) + SumOf(h, one)
  BY <1>1, <1>4, SumOfTwo
<1> QED BY <1>1, <1>2, <1>5, <1>6, <1>7

\* Only what is in K counts
LEMMA SumOfPart ==
  ASSUME NEW S, IsFiniteSet(S), NEW K, K \subseteq S, NEW g,
         \A x \in S : g[x] \in Nat, \A x \in S \ K : g[x] = 0
  PROVE  SumOf(g, S) = SumOf(g, K)
<1>1. Units(g, S) = Units(g, K)
  <2>1. \A x \in S \ K : 1..g[x] = {}
    OBVIOUS
  <2>2. \A u : u \in Units(g, S) <=> u \in Units(g, K)
    BY <2>1 DEF Units
  <2> QED BY <2>2
<1>2. IsFiniteSet(K) /\ \A x \in K : g[x] \in Nat
  BY FS_Subset
<1>3. SumOf(g, S) = Total(g, S) /\ SumOf(g, K) = Total(g, K)
  BY <1>2, SumIsTotal
<1> QED BY <1>1, <1>3 DEF Total

\* The same numbers, otherwise numbered
LEMMA SumReindexed ==
  ASSUME NEW S, IsFiniteSet(S), NEW T, NEW f \in Bijection(T, S), NEW g, NEW h,
         \A x \in S : g[x] \in Nat, \A k \in T : h[k] = g[f[k]]
  PROVE  SumOf(h, T) = SumOf(g, S) /\ SumOf(g, S) \in Nat
<1>1. /\ f \in [T -> S]
      /\ \A k, l \in T : f[k] = f[l] => k = l
      /\ \A i \in S : \E k \in T : f[k] = i
  BY DEF Bijection, Injection, Surjection, IsInjective
<1> DEFINE U == Units(h, T)
           V == Units(g, S)
           m == [u \in U |-> <<f[u[1]], u[2]>>]
<1>2. IsFiniteSet(T)
  <2>1. ExistsBijection(T, S)
    BY DEF ExistsBijection
  <2>2. f \in Injection(T, S)
    BY <1>1 DEF Injection, IsInjective
  <2> QED BY <2>2, FS_Injection
<1>3. SumOf(h, T) = Total(h, T) /\ SumOf(g, S) = Total(g, S) /\ Total(g, S) \in Nat
  BY <1>1, <1>2, SumIsTotal
<1>4. IsFiniteSet(V)
  BY UnitsFinite
<1>5. \A u : u \in U <=> \E k \in T, n \in Nat : n \in 1..h[k] /\ u = <<k, n>>
  BY DEF Units
<1>6. \A u : u \in V <=> \E i \in S, n \in Nat : n \in 1..g[i] /\ u = <<i, n>>
  BY DEF Units
<1>7. m \in [U -> V]
  <2> SUFFICES ASSUME NEW u \in U PROVE <<f[u[1]], u[2]>> \in V
    OBVIOUS
  <2>1. PICK k \in T, n \in Nat : n \in 1..h[k] /\ u = <<k, n>>
    BY <1>5
  <2>2. f[k] \in S /\ n \in 1..g[f[k]] /\ <<f[u[1]], u[2]>> = <<f[k], n>>
    BY <1>1, <2>1
  <2> HIDE DEF U, V
  <2> QED BY <1>6, <2>2
<1>8. ASSUME NEW u \in U, NEW v \in U, m[u] = m[v] PROVE u = v
  <2>1. PICK k \in T, n \in Nat : n \in 1..h[k] /\ u = <<k, n>>
    BY <1>5
  <2>2. PICK l \in T, j \in Nat : j \in 1..h[l] /\ v = <<l, j>>
    BY <1>5
  <2>3. m[u] = <<f[k], n>> /\ m[v] = <<f[l], j>>
    BY <2>1, <2>2
  <2> HIDE DEF U, V, m
  <2>4. f[k] = f[l] /\ n = j
    <3> DEFINE x == f[k]
               y == f[l]
    <3>1. <<x, n>> = <<y, j>>
      BY <1>8, <2>3
    <3> HIDE DEF x, y
    <3>2. x = y /\ n = j
      BY <3>1
    <3> QED BY <3>2 DEF x, y
  <2> QED BY <1>1, <2>1, <2>2, <2>4
<1>9. ASSUME NEW v \in V PROVE \E u \in U : m[u] = v
  <2>1. PICK i \in S, n \in Nat : n \in 1..g[i] /\ v = <<i, n>>
    BY <1>6
  <2>2. PICK k \in T : f[k] = i
    BY <1>1
  <2>3. <<k, n>> \in U
    <3> HIDE DEF U
    <3> QED BY <1>5, <2>1, <2>2
  <2>4. m[<<k, n>>] = <<f[k], n>>
    BY <2>3
  <2> HIDE DEF U, V, m
  <2> QED BY <2>1, <2>2, <2>3, <2>4
<1> HIDE DEF U, V, m
<1>10. m \in Bijection(U, V)
  BY <1>7, <1>8, <1>9 DEF Bijection, Injection, Surjection, IsInjective
<1>11. Cardinality(U) = Cardinality(V)
  <2>1. ExistsBijection(U, V)
    BY <1>10 DEF ExistsBijection
  <2>2. m \in Injection(U, V)
    BY <1>10 DEF Bijection
  <2>3. IsFiniteSet(U)
    BY <1>4, <2>2, FS_Injection
  <2> QED BY <2>1, <2>3, FS_Bijection
<1> QED BY <1>3, <1>11 DEF Total, U, V

\* One more at each place in J
LEMMA SumOneMore ==
  ASSUME NEW S, IsFiniteSet(S), NEW J, J \subseteq S, NEW g, NEW h,
         \A x \in S : g[x] \in Nat, \A x \in S : h[x] = IF x \in J THEN g[x] + 1 ELSE g[x]
  PROVE  SumOf(h, S) = SumOf(g, S) + Cardinality(J) /\ SumOf(g, S) \in Nat /\ Cardinality(J) \in Nat
<1> DEFINE U == Units(h, S)
           V == Units(g, S)
           W == {<<x, h[x]>> : x \in J}
           f == [x \in J |-> <<x, h[x]>>]
<1>1. \A x \in S : h[x] \in Nat
  OBVIOUS
<1>2. SumOf(h, S) = Total(h, S) /\ SumOf(g, S) = Total(g, S) /\ Total(g, S) \in Nat
  BY <1>1, SumIsTotal
<1>3. IsFiniteSet(V) /\ IsFiniteSet(J) /\ Cardinality(J) \in Nat
  BY UnitsFinite, FS_Subset, FS_CardinalityType
<1>4. f \in Bijection(J, W)
  BY DEF Bijection, Injection, Surjection, IsInjective
<1>5. IsFiniteSet(W) /\ Cardinality(W) = Cardinality(J)
  <2> HIDE DEF W, f
  <2> QED BY <1>3, <1>4, FS_Bijection DEF ExistsBijection
<1>6. \A u : u \in U <=> \E x \in S, n \in Nat : n \in 1..h[x] /\ u = <<x, n>>
  BY DEF Units
<1>7. \A u : u \in V <=> \E x \in S, n \in Nat : n \in 1..g[x] /\ u = <<x, n>>
  BY DEF Units
<1>8. \A u : u \in W <=> \E x \in J : u = <<x, h[x]>>
  OBVIOUS
<1> HIDE DEF U, V, W, f
<1>9. ASSUME NEW u \in U PROVE u \in V \cup W
  <2>1. PICK x \in S, n \in Nat : n \in 1..h[x] /\ u = <<x, n>>
    BY <1>6
  <2>2. CASE x \in J /\ n = h[x]
    BY <1>8, <2>1, <2>2
  <2>3. CASE ~(x \in J /\ n = h[x])
    <3>1. n \in 1..g[x]
      BY <2>1, <2>3
    <3> QED BY <1>7, <2>1, <3>1
  <2> QED BY <2>2, <2>3
<1>10. ASSUME NEW u \in V PROVE u \in U
  <2>1. PICK x \in S, n \in Nat : n \in 1..g[x] /\ u = <<x, n>>
    BY <1>7
  <2>2. n \in 1..h[x]
    BY <2>1
  <2> QED BY <1>6, <2>1, <2>2
<1>11. ASSUME NEW u \in W PROVE u \in U /\ u \notin V
  <2>1. PICK x \in J : u = <<x, h[x]>>
    BY <1>8
  <2>2. h[x] \in 1..h[x] /\ h[x] \notin 1..g[x] /\ x \in S
    BY <2>1
  <2>3. ASSUME NEW y \in S, NEW n \in Nat, n \in 1..g[y], u = <<y, n>> PROVE FALSE
    BY <2>1, <2>2, <2>3
  <2> QED BY <1>6, <1>7, <2>1, <2>2, <2>3
<1>12. U = V \cup W /\ V \cap W = {}
  BY <1>9, <1>10, <1>11
<1>13. Cardinality(V \cup W) = Cardinality(V) + Cardinality(W) - Cardinality({})
  BY <1>3, <1>5, <1>12, FS_Union
<1>14. Cardinality(V) = Total(g, S) /\ Cardinality(U) = Total(h, S)
  BY DEF Total, U, V
<1>15. Cardinality({}) = 0
  BY FS_EmptySet
<1> QED BY <1>2, <1>3, <1>5, <1>12, <1>13, <1>14, <1>15

\* The elements at some positions are numbered anew
LEMMA PickedBijection ==
  ASSUME NEW S, NEW s \in Seq(S), NEW I, I \subseteq DOMAIN s
  PROVE  \E f \in Bijection(DOMAIN ElementsAt(s, I), I) :
            \A k \in DOMAIN ElementsAt(s, I) : ElementsAt(s, I)[k] = s[f[k]]
<1> DEFINE r == ElementsAt(s, I)
<1>1. r \in Seq(S) /\ Picks(r, s, I)
  BY ElementsAtIs
<1> HIDE DEF r
<1>2. PICK f \in [DOMAIN r -> I] :
        /\ \A k \in DOMAIN r : r[k] = s[f[k]]
        /\ \A j, k \in DOMAIN r : j < k => f[j] < f[k]
        /\ \A i \in I : \E k \in DOMAIN r : f[k] = i
  BY <1>1 DEF Picks
<1>3. ASSUME NEW j \in DOMAIN r, NEW k \in DOMAIN r, f[j] = f[k] PROVE j = k
  <2>1. j \in Nat /\ k \in Nat /\ f[j] \in Nat /\ f[k] \in Nat
    BY <1>1
  <2>2. ~(j < k) /\ ~(k < j)
    BY <1>2, <1>3, <2>1
  <2> QED BY <2>1, <2>2
<1>4. f \in Bijection(DOMAIN r, I)
  BY <1>2, <1>3 DEF Bijection, Injection, Surjection, IsInjective
<1> QED BY <1>2, <1>4 DEF r
=============================================================================
