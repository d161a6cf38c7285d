----------------------------- MODULE MindProofs -----------------------------
(***************************************************************************)
(* What an agent has in mind is filed where it is looked for, in any order *)
(* of calls and for any sizes, limits and importances: items, contexts,    *)
(* episodes and experiences; and its goals are a forest whose              *)
(* prerequisites go round in no circle. What it answers from is right:     *)
(* what its rules infer, and its answers to queries. And the plans of      *)
(* agentzero-planning lead where they are to lead.                         *)
(***************************************************************************)
EXTENDS AgentMind, PlanningEngine, ContainerLemmas

(***************************************************************************)
(* The working memory's buffer and its indexes                             *)
(***************************************************************************)
ItemRecords == [atom : Thoughts, importance : Nat, context : AllContexts]
Buffers == [items        : UNION {[I -> ItemRecords] : I \in SUBSET ItemIds},
            held         : SUBSET ItemIds,
            byThought    : UNION {[A -> ItemIds] : A \in SUBSET Thoughts},
            byContext    : SUBSET (AllContexts \X ItemIds),
            byImportance : Seq(Nat \X ItemIds)]

InContexts(m, I) == {<<m.items[i].context, i>> : i \in I}

\* The items of the buffer are those the indexes lead to, and each is once in each
WellFiled(m) ==
  /\ m \in Buffers
  /\ DOMAIN m.items = m.held
  /\ m.held = {m.byThought[a] : a \in DOMAIN m.byThought}
  /\ \A a \in DOMAIN m.byThought : m.items[m.byThought[a]].atom = a
  /\ m.byContext = InContexts(m, m.held)
  /\ ToSet(m.byImportance) = Entries(m, m.held) /\ Unrepeated(m.byImportance)

LEMMA FiledIs ==
  ASSUME NEW m, WellFiled(m)
  PROVE  /\ m.items \in [m.held -> ItemRecords] /\ m.held \subseteq ItemIds /\ IsFiniteSet(m.held)
         /\ DOMAIN m.byThought \subseteq Thoughts /\ m.byThought \in [DOMAIN m.byThought -> m.held]
         /\ \A i \in m.held : /\ m.items[i] \in ItemRecords /\ m.items[i].atom \in DOMAIN m.byThought
                              /\ m.byThought[m.items[i].atom] = i
         /\ m.byImportance \in Seq(Nat \X ItemIds) /\ Pointed(m) = m.held
         /\ m.byContext \subseteq AllContexts \X ItemIds
<1>1. m.items \in [m.held -> ItemRecords] /\ m.held \subseteq ItemIds
  BY DEF WellFiled, Buffers
<1>2. IsFiniteSet(m.held)
  BY <1>1, WorkingAssumption, FS_Subset
<1>3. DOMAIN m.byThought \subseteq Thoughts /\ m.byThought \in [DOMAIN m.byThought -> m.held]
  BY DEF WellFiled, Buffers
<1>4. \A i \in m.held : /\ m.items[i] \in ItemRecords /\ m.items[i].atom \in DOMAIN m.byThought
                        /\ m.byThought[m.items[i].atom] = i
  BY <1>1 DEF WellFiled
<1>5. m.byImportance \in Seq(Nat \X ItemIds) /\ m.byContext \subseteq AllContexts \X ItemIds
  BY DEF WellFiled, Buffers
<1>6. Pointed(m) = m.held
  BY DEF WellFiled, Pointed, Entries
<1> QED BY <1>1, <1>2, <1>3, <1>4, <1>5, <1>6

\* A buffer from its parts
Buffer(i, h, t, c, p) == [items |-> i, held |-> h, byThought |-> t, byContext |-> c, byImportance |-> p]

LEMMA BufferFields ==
  ASSUME NEW m, m \in Buffers
  PROVE  m = Buffer(m.items, m.held, m.byThought, m.byContext, m.byImportance)
  BY DEF Buffers, Buffer

LEMMA BufferUpdates ==
  ASSUME NEW i, NEW h, NEW t, NEW c, NEW p, NEW z
  PROVE  /\ [Buffer(i, h, t, c, p) EXCEPT !.items = z] = Buffer(z, h, t, c, p)
         /\ [Buffer(i, h, t, c, p) EXCEPT !.held = z] = Buffer(i, z, t, c, p)
         /\ [Buffer(i, h, t, c, p) EXCEPT !.byThought = z] = Buffer(i, h, z, c, p)
         /\ [Buffer(i, h, t, c, p) EXCEPT !.byContext = z] = Buffer(i, h, t, z, p)
         /\ [Buffer(i, h, t, c, p) EXCEPT !.byImportance = z] = Buffer(i, h, t, c, z)
         /\ Buffer(i, h, t, c, p).items = i /\ Buffer(i, h, t, c, p).held = h
         /\ Buffer(i, h, t, c, p).byThought = t /\ Buffer(i, h, t, c, p).byContext = c
         /\ Buffer(i, h, t, c, p).byImportance = p
  BY DEF Buffer

LEMMA BufferParts ==
  ASSUME NEW i, NEW h, NEW t, NEW c, NEW p, NEW m, m = Buffer(i, h, t, c, p)
  PROVE  m.items = i /\ m.held = h /\ m.byThought = t /\ m.byContext = c /\ m.byImportance = p
  BY DEF Buffer

LEMMA BuffersAre ==
  ASSUME NEW i \in UNION {[J -> ItemRecords] : J \in SUBSET ItemIds}, NEW h \in SUBSET ItemIds,
         NEW t \in UNION {[A -> ItemIds] : A \in SUBSET Thoughts},
         NEW c \in SUBSET (AllContexts \X ItemIds), NEW p \in Seq(Nat \X ItemIds)
  PROVE  Buffer(i, h, t, c, p) \in Buffers
<1> DEFINE S == UNION {[J -> ItemRecords] : J \in SUBSET ItemIds}
           T == UNION {[A -> ItemIds] : A \in SUBSET Thoughts}
           H == SUBSET ItemIds
           C == SUBSET (AllContexts \X ItemIds)
           P == Seq(Nat \X ItemIds)
<1>1. i \in S /\ h \in H /\ t \in T /\ c \in C /\ p \in P
  OBVIOUS
<1>2. Buffers = [items : S, held : H, byThought : T, byContext : C, byImportance : P]
  BY DEF Buffers
<1> HIDE DEF S, T, H, C, P
<1> QED BY <1>1, <1>2 DEF Buffer

LEMMA InBuffers ==
  ASSUME NEW n, n = Buffer(n.items, n.held, n.byThought, n.byContext, n.byImportance),
         NEW J \in SUBSET ItemIds, n.items \in [J -> ItemRecords], n.held \subseteq ItemIds,
         NEW A \in SUBSET Thoughts, n.byThought \in [A -> ItemIds],
         n.byContext \subseteq AllContexts \X ItemIds, n.byImportance \in Seq(Nat \X ItemIds)
  PROVE  n \in Buffers
<1> DEFINE i == n.items
           h == n.held
           t == n.byThought
           c == n.byContext
           p == n.byImportance
<1>1. n = Buffer(i, h, t, c, p)
  OBVIOUS
<1>2. i \in UNION {[K -> ItemRecords] : K \in SUBSET ItemIds} /\ h \in SUBSET ItemIds
  OBVIOUS
<1>3. t \in UNION {[B -> ItemIds] : B \in SUBSET Thoughts}
  OBVIOUS
<1>4. c \in SUBSET (AllContexts \X ItemIds) /\ p \in Seq(Nat \X ItemIds)
  OBVIOUS
<1> HIDE DEF i, h, t, c, p
<1> QED BY <1>1, <1>2, <1>3, <1>4, BuffersAre

LEMMA UnindexedIs ==
  ASSUME NEW i, NEW h, NEW t, NEW c, NEW p, NEW m, m = Buffer(i, h, t, c, p), NEW I
  PROVE  Unindexed(m, I) = Buffer(i, h, t, c \ InContexts(m, I), DroppingFirst(p, Entries(m, I)))
<1> DEFINE x == c \ InContexts(m, I)
           y == DroppingFirst(p, Entries(m, I))
           w == [m EXCEPT !.byContext = x]
<1>1. m.byContext = c /\ m.byImportance = p
  BY BufferUpdates
<1>2. Unindexed(m, I) = [w EXCEPT !.byImportance = y]
  BY <1>1 DEF Unindexed, InContexts
<1> HIDE DEF x, y
<1>3. w = Buffer(i, h, t, x, p)
  BY BufferUpdates
<1> HIDE DEF w
<1>4. Unindexed(m, I) = Buffer(i, h, t, x, y)
  BY <1>2, <1>3 DEF Buffer
<1> QED BY <1>4 DEF x, y

LEMMA IndexedIs ==
  ASSUME NEW i, NEW h, NEW t, NEW c, NEW p, NEW m, m = Buffer(i, h, t, c, p), NEW k
  PROVE  Indexed(m, k) = Buffer(i, h, t, c \cup {<<i[k].context, k>>}, Append(p, <<i[k].importance, k>>))
<1> DEFINE x == c \cup {<<i[k].context, k>>}
           y == Append(p, <<i[k].importance, k>>)
           w == [m EXCEPT !.byContext = x]
<1>1. m.byContext = c /\ m.byImportance = p /\ m.items = i
  BY BufferUpdates
<1>2. Indexed(m, k) = [w EXCEPT !.byImportance = y]
  BY <1>1 DEF Indexed
<1> HIDE DEF x, y
<1>3. w = Buffer(i, h, t, x, p)
  BY BufferUpdates
<1> HIDE DEF w
<1>4. Indexed(m, k) = Buffer(i, h, t, x, y)
  BY <1>2, <1>3 DEF Buffer
<1> QED BY <1>4 DEF x, y

\* Items leave the buffer and every index with it
LEMMA WithoutFiles ==
  ASSUME NEW m, WellFiled(m), NEW I, I \subseteq m.held
  PROVE  /\ WellFiled(WithoutItems(m, I)) /\ WithoutItems(m, I).held = m.held \ I
         /\ DOMAIN WithoutItems(m, I).byThought \subseteq DOMAIN m.byThought
<1> DEFINE atoms == {m.items[i].atom : i \in I}
           left == DroppingFirst(m.byImportance, Entries(m, I))
           r == [items |-> m.items, held |-> m.held \ I, byThought |-> Without(m.byThought, atoms),
                 byContext |-> m.byContext \ InContexts(m, I), byImportance |-> left]
           n == WithoutItems(m, I)
<1>1. /\ left \in Seq(Nat \X ItemIds) /\ ToSet(left) = ToSet(m.byImportance) \ Entries(m, I) /\ Unrepeated(left)
  <2>1. m.byImportance \in Seq(Nat \X ItemIds) /\ Unrepeated(m.byImportance)
    BY FiledIs DEF WellFiled
  <2> QED BY <2>1, DroppingFirstIs
<1>3. ToSet(left) = Entries(m, m.held \ I)
  BY <1>1 DEF WellFiled, Entries
<1> HIDE DEF left
<1>4. Pointed(r) = m.held \ I
  BY <1>3 DEF Pointed, Entries
<1>5. n = [r EXCEPT !.items = Without(m.items, DOMAIN m.items \ Pointed(r))]
  <2> DEFINE u == Unindexed(m, I)
             w == [u EXCEPT !.byThought = Without(@, atoms)]
             v == [w EXCEPT !.held = @ \ I]
             cs == m.byContext \ InContexts(m, I)
             i == m.items
             h == m.held
             t == m.byThought
             k == m.held \ I
             a == Without(m.byThought, atoms)
  <2>1. u = Buffer(i, h, t, cs, left)
    <3>1. m = Buffer(m.items, m.held, m.byThought, m.byContext, m.byImportance)
      BY BufferFields DEF WellFiled
    <3> QED BY <3>1, UnindexedIs DEF left
  <2>2. n = [v EXCEPT !.items = Without(@, DOMAIN @ \ Pointed(v))]
    BY DEF WithoutItems
  <2> HIDE DEF u, n, cs
  <2>3. w = [u EXCEPT !.byThought = a]
    BY <2>1, BufferUpdates DEF t
  <2> HIDE DEF w, atoms, i, h, t, a
  <2>4. w = Buffer(i, h, a, cs, left)
    BY <2>1, <2>3 DEF Buffer
  <2>5. w.held = m.held
    BY <2>4, BufferUpdates DEF h
  <2>50. v = [w EXCEPT !.held = k]
    BY <2>5 DEF k
  <2> HIDE DEF v, k
  <2>6. v = Buffer(i, k, a, cs, left)
    BY <2>4, <2>50 DEF Buffer
  <2>7. r = Buffer(i, k, a, cs, left)
    BY DEF Buffer, i, k, a, cs
  <2>8. v = r /\ r.items = m.items
    BY <2>6, <2>7
  <2> HIDE DEF v, r
  <2> QED BY <2>2, <2>8
<1>6. /\ n.held = m.held \ I /\ n.byThought = Without(m.byThought, atoms)
      /\ n.byContext = m.byContext \ InContexts(m, I) /\ n.byImportance = left
      /\ n.items = Without(m.items, DOMAIN m.items \ (m.held \ I))
      /\ DOMAIN n = {"items", "held", "byThought", "byContext", "byImportance"}
  BY <1>4, <1>5
<1>7. /\ DOMAIN n.items = m.held \ I /\ \A i \in m.held \ I : n.items[i] = m.items[i]
      /\ n.items \in [m.held \ I -> ItemRecords]
  <2>1. DOMAIN m.items \ (DOMAIN m.items \ (m.held \ I)) = m.held \ I
    BY DEF WellFiled
  <2>2. n.items = [x \in m.held \ I |-> m.items[x]]
    BY <1>6, <2>1 DEF Without
  <2> QED BY <2>2, FiledIs
<1>8. /\ DOMAIN n.byThought = DOMAIN m.byThought \ atoms
      /\ \A a \in DOMAIN m.byThought \ atoms : n.byThought[a] = m.byThought[a]
      /\ n.byThought \in [DOMAIN m.byThought \ atoms -> ItemIds]
  BY <1>6, FiledIs DEF Without
<1>9. ASSUME NEW a \in DOMAIN m.byThought PROVE a \in atoms <=> m.byThought[a] \in I
  BY FiledIs DEF WellFiled
<1> HIDE DEF n, r, atoms
<1>10. n.held = {n.byThought[a] : a \in DOMAIN n.byThought}
  <2>1. \A a \in DOMAIN n.byThought : n.byThought[a] \in n.held
    BY <1>6, <1>8, <1>9, FiledIs
  <2>2. ASSUME NEW i \in n.held PROVE m.items[i].atom \in DOMAIN n.byThought /\ n.byThought[m.items[i].atom] = i
    BY <1>6, <1>8, <1>9, FiledIs
  <2> QED BY <2>1, <2>2
<1>11. \A a \in DOMAIN n.byThought : n.items[n.byThought[a]].atom = a
  BY <1>6, <1>7, <1>8, <1>10 DEF WellFiled
<1>12. n.byContext = InContexts(n, n.held)
  BY <1>6, <1>7 DEF InContexts, WellFiled
<1>13. ToSet(n.byImportance) = Entries(n, n.held) /\ Unrepeated(n.byImportance)
  <2>1. Entries(n, n.held) = Entries(m, m.held \ I)
    BY <1>6, <1>7 DEF Entries
  <2> QED BY <1>1, <1>3, <1>6, <2>1
<1>14. n \in Buffers
  <2>1. /\ m.held \ I \in SUBSET ItemIds /\ DOMAIN m.byThought \ atoms \in SUBSET Thoughts
        /\ n.byContext \subseteq AllContexts \X ItemIds
    BY <1>6, FiledIs
  <2>2. n = Buffer(n.items, n.held, n.byThought, n.byContext, n.byImportance)
    BY <1>5 DEF r, n, Buffer
  <2> QED BY <1>1, <1>6, <1>7, <1>8, <2>1, <2>2, InBuffers
<1>15. WellFiled(n) /\ n.held = m.held \ I /\ DOMAIN n.byThought \subseteq DOMAIN m.byThought
  BY <1>6, <1>7, <1>8, <1>10, <1>11, <1>12, <1>13, <1>14 DEF WellFiled
<1> QED BY <1>15 DEF n

\* The same items and atoms, indexed as they now are
LEMMA RefiledIs ==
  ASSUME NEW m, WellFiled(m), NEW n,
         n = Buffer(n.items, m.held, m.byThought, n.byContext, n.byImportance),
         n.items \in [m.held -> ItemRecords], \A i \in m.held : n.items[i].atom = m.items[i].atom,
         n.byContext = InContexts(n, m.held),
         n.byImportance \in Seq(Nat \X ItemIds), ToSet(n.byImportance) = Entries(n, m.held), Unrepeated(n.byImportance)
  PROVE  WellFiled(n)
<1>1. n.held = m.held /\ n.byThought = m.byThought
  BY BufferUpdates
<1>2. m.held \in SUBSET ItemIds /\ DOMAIN m.byThought \in SUBSET Thoughts /\ m.byThought \in [DOMAIN m.byThought -> ItemIds]
  BY DEF WellFiled, Buffers
<1>3. DOMAIN n.items = m.held
  OBVIOUS
<1>4. n.byContext \subseteq AllContexts \X ItemIds
  <2> SUFFICES ASSUME NEW j \in m.held PROVE n.items[j].context \in AllContexts /\ j \in ItemIds
    BY DEF InContexts
  <2> QED BY <1>2 DEF ItemRecords
<1>5. n \in Buffers
  BY <1>1, <1>2, <1>4, InBuffers
<1>6. n.held = {n.byThought[a] : a \in DOMAIN n.byThought}
  BY <1>1 DEF WellFiled
<1>7. \A a \in DOMAIN n.byThought : n.items[n.byThought[a]].atom = a
  BY <1>1 DEF WellFiled
<1> QED BY <1>1, <1>3, <1>5, <1>6, <1>7 DEF WellFiled

LEMMA EntriesFinite ==
  ASSUME NEW m, NEW I, IsFiniteSet(I)
  PROVE  IsFiniteSet(Entries(m, I))
<1> DEFINE f == [i \in I |-> <<m.items[i].importance, i>>]
<1>1. f \in Surjection(I, Entries(m, I))
  BY DEF Surjection, Entries
<1> HIDE DEF f
<1> QED BY <1>1, FS_Surjection

\* An item that moves to another context is indexed there
LEMMA MoveFiles ==
  ASSUME NEW m, WellFiled(m), NEW i \in m.held, NEW c \in AllContexts
  PROVE  WellFiled(MoveTo(m, i, c)) /\ MoveTo(m, i, c).held = m.held
<1> DEFINE item == [m.items[i] EXCEPT !.context = c]
           left == DroppingFirst(m.byImportance, Entries(m, {i}))
           e == <<m.items[i].importance, i>>
           n == MoveTo(m, i, c)
<1>1. PICK it, h, t, x, p : m = Buffer(it, h, t, x, p)
  BY BufferFields DEF WellFiled
<1>2. /\ item \in ItemRecords /\ item.importance = m.items[i].importance /\ item.context = c
      /\ item.atom = m.items[i].atom
  <2>1. m.items[i] \in ItemRecords
    BY FiledIs
  <2> QED BY <2>1 DEF ItemRecords
<1> HIDE DEF item, left
<1>3. n = Buffer(With(it, i, item), h, t, (x \ {<<m.items[i].context, i>>}) \cup {<<c, i>>}, Append(left, e))
  <2> DEFINE u == Unindexed(m, {i})
             v == [u EXCEPT !.items = With(@, i, item)]
             y == x \ {<<m.items[i].context, i>>}
  <2>1. InContexts(m, {i}) = {<<m.items[i].context, i>>} /\ m.byImportance = p
    BY <1>1, BufferUpdates DEF InContexts
  <2>2. u = Buffer(it, h, t, y, left)
    <3> DEFINE I == {i}
    <3> HIDE DEF I
    <3>1. Unindexed(m, I) = Buffer(it, h, t, x \ InContexts(m, I), DroppingFirst(p, Entries(m, I)))
      BY <1>1, UnindexedIs
    <3> QED BY <2>1, <3>1 DEF left, I
  <2>3. n = Indexed(v, i)
    BY DEF MoveTo, item
  <2> HIDE DEF n, u, y
  <2>4. u.items = it
    BY <2>2, BufferUpdates
  <2> DEFINE j == With(it, i, item)
  <2>5. v = [u EXCEPT !.items = j] /\ j[i] = item
    BY <2>4 DEF With
  <2> HIDE DEF v, j
  <2>6. v = Buffer(j, h, t, y, left)
    BY <2>2, <2>5 DEF Buffer
  <2>7. n = Buffer(j, h, t, y \cup {<<j[i].context, i>>}, Append(left, <<j[i].importance, i>>))
    BY <2>3, <2>6, IndexedIs
  <2>8. <<j[i].context, i>> = <<c, i>> /\ <<j[i].importance, i>> = e
    BY <1>2, <2>5
  <2> QED BY <2>7, <2>8 DEF y, j
<1>4. m.items = it /\ m.held = h /\ m.byThought = t /\ m.byContext = x /\ m.byImportance = p
  BY <1>1, BufferUpdates
<1>5. /\ n.items = With(it, i, item) /\ n.byImportance = Append(left, e)
      /\ n.byContext = (x \ {<<m.items[i].context, i>>}) \cup {<<c, i>>}
  <2> DEFINE j == With(it, i, item)
             y == (x \ {<<m.items[i].context, i>>}) \cup {<<c, i>>}
             z == Append(left, e)
  <2>1. n = Buffer(j, h, t, y, z)
    BY <1>3
  <2> HIDE DEF n, j, y, z
  <2>2. n.items = j /\ n.byContext = y /\ n.byImportance = z
    BY <2>1, BufferParts
  <2> QED BY <2>2 DEF j, y, z
<1>6. n = Buffer(n.items, m.held, m.byThought, n.byContext, n.byImportance)
  BY <1>3, <1>4, <1>5
<1> HIDE DEF n
<1>7. /\ n.items \in [m.held -> ItemRecords] /\ n.items[i] = item
      /\ \A j \in m.held \ {i} : n.items[j] = m.items[j]
  BY <1>2, <1>4, <1>5, FiledIs DEF With
<1>8. n.byContext = InContexts(n, m.held)
  <2>1. x = InContexts(m, m.held)
    BY <1>4 DEF WellFiled
  <2> QED BY <1>2, <1>5, <1>7, <2>1 DEF InContexts
<1>9. n.byImportance \in Seq(Nat \X ItemIds) /\ ToSet(n.byImportance) = Entries(n, m.held) /\ Unrepeated(n.byImportance)
  <2>1. m.byImportance \in Seq(Nat \X ItemIds) /\ Unrepeated(m.byImportance) /\ ToSet(m.byImportance) = Entries(m, m.held)
    BY FiledIs DEF WellFiled
  <2>2. left \in Seq(Nat \X ItemIds) /\ ToSet(left) = Entries(m, m.held) \ Entries(m, {i}) /\ Unrepeated(left)
    BY <2>1, DroppingFirstIs DEF left
  <2>3. e \in Nat \X ItemIds /\ e \notin ToSet(left)
    <3>1. m.items[i] \in ItemRecords /\ i \in ItemIds
      BY FiledIs
    <3> QED BY <2>2, <3>1 DEF Entries, ItemRecords
  <2>4. (Entries(m, m.held) \ Entries(m, {i})) \cup {e} = Entries(n, m.held)
    BY <1>2, <1>7 DEF Entries
  <2> HIDE DEF e
  <2> DEFINE S == Nat \X ItemIds
  <2>5. left \in Seq(S) /\ e \in S
    BY <2>2, <2>3
  <2> HIDE DEF S
  <2>6. /\ Append(left, e) \in Seq(S) /\ ToSet(Append(left, e)) = ToSet(left) \cup {e}
        /\ Unrepeated(left) /\ e \notin ToSet(left) => Unrepeated(Append(left, e))
    BY <2>5, AppendElements
  <2> QED BY <1>5, <2>2, <2>3, <2>4, <2>6 DEF S
<1>10. WellFiled(n)
  BY <1>2, <1>6, <1>7, <1>8, <1>9, RefiledIs
<1>11. n.held = m.held
  BY <1>6, BufferParts
<1> QED BY <1>10, <1>11 DEF n

\* New importances, of which the index is told where they differ
LEMMA ReindexFiles ==
  ASSUME NEW m, WellFiled(m), NEW x, DOMAIN x \subseteq m.held, \A i \in DOMAIN x : x[i] \in Nat,
         NEW I, I \subseteq m.held, \A i \in DOMAIN x \ I : x[i] = m.items[i].importance
  PROVE  /\ WellFiled(Reindexed(m, SetImportance(m, x), I))
         /\ Reindexed(m, SetImportance(m, x), I).held = m.held
<1> DEFINE y == [i \in m.held |-> IF i \in DOMAIN x THEN [m.items[i] EXCEPT !.importance = x[i]] ELSE m.items[i]]
           left == DroppingFirst(m.byImportance, Entries(m, I))
           s == SetImportance(m, x)
           back == SetToSeq(Entries(s, I))
           n == Reindexed(m, s, I)
<1>1. PICK it, h, t, c, p : m = Buffer(it, h, t, c, p)
  BY BufferFields DEF WellFiled
<1>2. m.items = it /\ m.held = h /\ m.byThought = t /\ m.byContext = c /\ m.byImportance = p /\ DOMAIN it = h
  <2>1. DOMAIN m.items = m.held
    BY DEF WellFiled
  <2> QED BY <1>1, <2>1, BufferParts
<1>3. /\ y \in [m.held -> ItemRecords]
      /\ \A i \in m.held : /\ y[i].atom = m.items[i].atom /\ y[i].context = m.items[i].context
                           /\ i \notin I => y[i].importance = m.items[i].importance
  <2> SUFFICES ASSUME NEW i \in m.held
               PROVE  /\ y[i] \in ItemRecords /\ y[i].atom = m.items[i].atom /\ y[i].context = m.items[i].context
                      /\ i \notin I => y[i].importance = m.items[i].importance
    OBVIOUS
  <2>1. m.items[i] \in ItemRecords
    BY FiledIs
  <2> QED BY <2>1 DEF ItemRecords
<1>4. s = Buffer(y, h, t, c, p)
  <2>1. s = [m EXCEPT !.items = y]
    BY <1>2 DEF SetImportance
  <2> HIDE DEF s, y
  <2> QED BY <1>1, <2>1 DEF Buffer
<1> HIDE DEF y, s, left, back
<1>5. n = Buffer(y, h, t, c, left \o back)
  <2>1. n = [s EXCEPT !.byImportance = left \o back]
    <3>1. s.byImportance = m.byImportance
      BY <1>2, <1>4, BufferUpdates
    <3> QED BY <3>1 DEF Reindexed, left, back
  <2> DEFINE z == left \o back
  <2>2. n = [s EXCEPT !.byImportance = z]
    BY <2>1
  <2> HIDE DEF n, z
  <2>3. n = Buffer(y, h, t, c, z)
    BY <1>4, <2>2 DEF Buffer
  <2> QED BY <2>3 DEF z
<1> HIDE DEF n
<1>6. n.items = y /\ n.byContext = m.byContext /\ n.byImportance = left \o back /\ s.items = y
  <2> DEFINE z == left \o back
  <2>1. n = Buffer(y, h, t, c, z)
    BY <1>5
  <2> HIDE DEF z
  <2>2. n.items = y /\ n.byContext = c /\ n.byImportance = z /\ s.items = y
    BY <1>4, <2>1, BufferParts
  <2> QED BY <1>2, <2>2 DEF z
<1>7. n = Buffer(n.items, m.held, m.byThought, n.byContext, n.byImportance)
  BY <1>2, <1>5, <1>6
<1>8. n.byContext = InContexts(n, m.held)
  <2>1. InContexts(n, m.held) = InContexts(m, m.held)
    BY <1>3, <1>6 DEF InContexts
  <2> QED BY <1>6, <2>1 DEF WellFiled
<1>9. n.byImportance \in Seq(Nat \X ItemIds) /\ ToSet(n.byImportance) = Entries(n, m.held) /\ Unrepeated(n.byImportance)
  <2>1. m.byImportance \in Seq(Nat \X ItemIds) /\ Unrepeated(m.byImportance) /\ ToSet(m.byImportance) = Entries(m, m.held)
    BY FiledIs DEF WellFiled
  <2>2. left \in Seq(Nat \X ItemIds) /\ ToSet(left) = Entries(m, m.held) \ Entries(m, I) /\ Unrepeated(left)
    BY <2>1, DroppingFirstIs DEF left
  <2>3. IsFiniteSet(I)
    BY FiledIs, FS_Subset
  <2>4. back \in Seq(Entries(s, I)) /\ ToSet(back) = Entries(s, I) /\ Unrepeated(back)
    BY <2>3, EntriesFinite, SetToSeqIs DEF back
  <2>5. Entries(s, I) = Entries(n, I) /\ Entries(n, I) \subseteq Nat \X ItemIds
    <3>1. Entries(s, I) = Entries(n, I)
      BY <1>6 DEF Entries
    <3>2. ASSUME NEW i \in I PROVE n.items[i].importance \in Nat /\ i \in ItemIds
      BY <1>3, <1>6, FiledIs DEF ItemRecords
    <3> QED BY <3>1, <3>2 DEF Entries
  <2>6. back \in Seq(Nat \X ItemIds)
    BY <2>4, <2>5
  <2>7. Entries(m, m.held) \ Entries(m, I) = Entries(n, m.held \ I)
    BY <1>3, <1>6 DEF Entries
  <2>8. Entries(n, m.held \ I) \cup Entries(n, I) = Entries(n, m.held) /\ Entries(n, m.held \ I) \cap Entries(n, I) = {}
    BY DEF Entries
  <2> DEFINE S == Nat \X ItemIds
  <2>9. left \in Seq(S) /\ back \in Seq(S) /\ ToSet(left) \cap ToSet(back) = {}
    BY <2>2, <2>4, <2>5, <2>6, <2>7, <2>8
  <2> HIDE DEF S
  <2>10. left \o back \in Seq(S) /\ ToSet(left \o back) = ToSet(left) \cup ToSet(back) /\ Unrepeated(left \o back)
    BY <2>2, <2>4, <2>9, ConcatElements
  <2> QED BY <1>6, <2>2, <2>4, <2>5, <2>7, <2>8, <2>10 DEF S
<1>10. WellFiled(n) /\ n.held = m.held
  <2>1. n.items \in [m.held -> ItemRecords] /\ \A i \in m.held : n.items[i].atom = m.items[i].atom
    BY <1>3, <1>6
  <2>2. n.held = m.held
    BY <1>2, <1>5, BufferUpdates
  <2> QED BY <1>7, <1>8, <1>9, <2>1, <2>2, RefiledIs
<1> QED BY <1>10 DEF n, s

LEMMA NewFiles ==
  ASSUME NEW m, WellFiled(m), NEW a \in Thoughts, a \notin DOMAIN m.byThought, DOMAIN m.items # ItemIds,
         NEW x \in Nat, NEW c \in AllContexts
  PROVE  WellFiled(NewItem(m, a, x, c)) /\ Cardinality(NewItem(m, a, x, c).held) = Cardinality(m.held) + 1
<1> DEFINE i == CHOOSE i \in ItemIds \ DOMAIN m.items : TRUE
           item == [atom |-> a, importance |-> x, context |-> c]
           n == NewItem(m, a, x, c)
<1>1. PICK it, h, t, b, p : m = Buffer(it, h, t, b, p)
  BY BufferFields DEF WellFiled
<1>2. m.items = it /\ m.held = h /\ m.byThought = t /\ m.byContext = b /\ m.byImportance = p /\ DOMAIN it = h
  <2>1. DOMAIN m.items = m.held
    BY DEF WellFiled
  <2> QED BY <1>1, <2>1, BufferParts
<1>3. i \in ItemIds /\ i \notin m.held
  BY FiledIs DEF WellFiled
<1> HIDE DEF i
<1>4. n = Buffer(With(it, i, item), h \cup {i}, With(t, a, i), b \cup {<<c, i>>}, Append(p, <<x, i>>))
  <2> DEFINE j == With(it, i, item)
             k == h \cup {i}
             l == With(t, a, i)
             v1 == [m EXCEPT !.items = j]
             v2 == [v1 EXCEPT !.held = k]
             v3 == [v2 EXCEPT !.byThought = l]
  <2>1. n = Indexed(v3, i)
    BY <1>2 DEF NewItem, i
  <2>2. j[i] = item /\ <<item.context, i>> = <<c, i>> /\ <<item.importance, i>> = <<x, i>>
    BY DEF With
  <2> HIDE DEF n, item, j, k, l
  <2>3. v1 = Buffer(j, h, t, b, p)
    BY <1>1 DEF Buffer
  <2> HIDE DEF v1
  <2>4. v2 = Buffer(j, k, t, b, p)
    BY <2>3 DEF Buffer
  <2> HIDE DEF v2
  <2>5. v3 = Buffer(j, k, l, b, p)
    BY <2>4 DEF Buffer
  <2> HIDE DEF v3
  <2>6. n = Buffer(j, k, l, b \cup {<<j[i].context, i>>}, Append(p, <<j[i].importance, i>>))
    BY <2>1, <2>5, IndexedIs
  <2> QED BY <2>2, <2>6 DEF j, k, l
<1>5. /\ n.items = With(it, i, item) /\ n.held = h \cup {i} /\ n.byThought = With(t, a, i)
      /\ n.byContext = b \cup {<<c, i>>} /\ n.byImportance = Append(p, <<x, i>>)
  <2> DEFINE j == With(it, i, item)
             k == h \cup {i}
             l == With(t, a, i)
             y == b \cup {<<c, i>>}
             z == Append(p, <<x, i>>)
  <2>1. n = Buffer(j, k, l, y, z)
    BY <1>4
  <2> HIDE DEF n, j, k, l, y, z
  <2>2. n.items = j /\ n.held = k /\ n.byThought = l /\ n.byContext = y /\ n.byImportance = z
    BY <2>1, BufferParts
  <2> QED BY <2>2 DEF j, k, l, y, z
<1>6. n = Buffer(n.items, n.held, n.byThought, n.byContext, n.byImportance)
  BY <1>4, <1>5
<1> HIDE DEF n
<1>7. item \in ItemRecords /\ item.atom = a /\ item.importance = x /\ item.context = c
  BY DEF ItemRecords
<1> HIDE DEF item
<1>8. /\ n.items \in [n.held -> ItemRecords] /\ n.items[i] = item
      /\ \A j \in m.held : n.items[j] = m.items[j] /\ j # i
  BY <1>2, <1>3, <1>5, <1>7, FiledIs DEF With
<1>9. /\ DOMAIN n.byThought = DOMAIN m.byThought \cup {a} /\ n.byThought[a] = i
      /\ \A d \in DOMAIN m.byThought : n.byThought[d] = m.byThought[d] /\ d # a
  BY <1>2, <1>5 DEF With
<1>10. n.held = {n.byThought[d] : d \in DOMAIN n.byThought}
  BY <1>2, <1>5, <1>9 DEF WellFiled
<1>11. \A d \in DOMAIN n.byThought : n.items[n.byThought[d]].atom = d
  BY <1>7, <1>8, <1>9, FiledIs DEF WellFiled
<1>12. n.byContext = InContexts(n, n.held)
  <2>1. b = InContexts(m, m.held)
    BY <1>2 DEF WellFiled
  <2> QED BY <1>2, <1>5, <1>7, <1>8, <2>1 DEF InContexts
<1>13. n.byImportance \in Seq(Nat \X ItemIds) /\ ToSet(n.byImportance) = Entries(n, n.held) /\ Unrepeated(n.byImportance)
  <2>1. p \in Seq(Nat \X ItemIds) /\ Unrepeated(p) /\ ToSet(p) = Entries(m, m.held)
    BY <1>2, FiledIs DEF WellFiled
  <2>2. <<x, i>> \in Nat \X ItemIds /\ <<x, i>> \notin ToSet(p)
    BY <1>3, <2>1 DEF Entries
  <2>3. Entries(m, m.held) \cup {<<x, i>>} = Entries(n, n.held)
    BY <1>2, <1>5, <1>7, <1>8 DEF Entries
  <2> DEFINE S == Nat \X ItemIds
             e == <<x, i>>
  <2>4. p \in Seq(S) /\ e \in S
    BY <2>1, <2>2
  <2> HIDE DEF S, e
  <2>5. Append(p, e) \in Seq(S) /\ ToSet(Append(p, e)) = ToSet(p) \cup {e} /\ (Unrepeated(p) /\ e \notin ToSet(p) => Unrepeated(Append(p, e)))
    BY <2>4, AppendElements
  <2> QED BY <1>5, <2>1, <2>2, <2>3, <2>5 DEF S, e
<1>14. n \in Buffers
  <2>1. n.held \in SUBSET ItemIds
    BY <1>2, <1>3, <1>5, FiledIs
  <2>3. n.byThought \in [DOMAIN m.byThought \cup {a} -> ItemIds] /\ DOMAIN m.byThought \cup {a} \in SUBSET Thoughts
    BY <1>2, <1>3, <1>5, FiledIs DEF With
  <2>4. n.byContext \subseteq AllContexts \X ItemIds
    BY <1>2, <1>3, <1>5, FiledIs
  <2> QED BY <1>6, <1>8, <1>13, <2>1, <2>3, <2>4, InBuffers
<1>15. Cardinality(n.held) = Cardinality(m.held) + 1
  <2>1. IsFiniteSet(m.held)
    BY FiledIs
  <2> QED BY <1>2, <1>3, <1>5, <2>1, FS_AddElement
<1>16. WellFiled(n)
  BY <1>8, <1>10, <1>11, <1>12, <1>13, <1>14 DEF WellFiled
<1> QED BY <1>15, <1>16 DEF n

\* Importances that stay what they are
LEMMA SameImportances ==
  ASSUME NEW m, WellFiled(m), NEW x, DOMAIN x \subseteq m.held,
         \A i \in DOMAIN x : x[i] = m.items[i].importance
  PROVE  SetImportance(m, x) = m
<1> DEFINE y == [i \in DOMAIN m.items |-> IF i \in DOMAIN x THEN [m.items[i] EXCEPT !.importance = x[i]] ELSE m.items[i]]
<1>1. PICK it, h, t, c, p : m = Buffer(it, h, t, c, p)
  BY BufferFields DEF WellFiled
<1>2. m.items \in [m.held -> ItemRecords] /\ m.items = it
  BY <1>1, FiledIs, BufferParts
<1>3. ASSUME NEW i \in m.held PROVE y[i] = m.items[i]
  <2>1. m.items[i] \in ItemRecords
    BY <1>2
  <2>2. [m.items[i] EXCEPT !.importance = m.items[i].importance] = m.items[i]
    BY <2>1 DEF ItemRecords
  <2> QED BY <1>2, <2>2
<1>4. y = it
  BY <1>2, <1>3
<1>5. SetImportance(m, x) = [m EXCEPT !.items = y]
  BY DEF SetImportance
<1> HIDE DEF y
<1>6. SetImportance(m, x) = Buffer(y, h, t, c, p)
  BY <1>1, <1>5 DEF Buffer
<1> QED BY <1>1, <1>4, <1>6

\* The index has an entry for each item, and what it takes for the least is one of them
LEMMA EntriesCounted ==
  ASSUME NEW m, WellFiled(m)
  PROVE  Len(m.byImportance) = Cardinality(m.held) /\ Cardinality(m.held) \in Nat
<1>1. m.byImportance \in Seq(Nat \X ItemIds) /\ IsFiniteSet(m.held)
  BY FiledIs
<1>2. Len(m.byImportance) = Cardinality(Entries(m, m.held))
  <2> DEFINE S == Nat \X ItemIds
             s == m.byImportance
  <2>1. s \in Seq(S) /\ Unrepeated(s) /\ ToSet(s) = Entries(m, m.held)
    BY <1>1 DEF WellFiled
  <2> HIDE DEF S, s
  <2>2. Len(s) = Cardinality(ToSet(s))
    BY <2>1, UnrepeatedLength
  <2> QED BY <2>1, <2>2 DEF s
<1>3. Cardinality(Entries(m, m.held)) = Cardinality(m.held)
  <2> DEFINE f == [i \in m.held |-> <<m.items[i].importance, i>>]
  <2>1. f \in Bijection(m.held, Entries(m, m.held))
    BY DEF Bijection, Injection, Surjection, IsInjective, Entries
  <2> HIDE DEF f
  <2>2. ExistsBijection(m.held, Entries(m, m.held))
    BY <2>1 DEF ExistsBijection
  <2> QED BY <1>1, <2>2, FS_Bijection
<1> QED BY <1>1, <1>2, <1>3, FS_CardinalityType

LEMMA LeastImportantIs ==
  ASSUME NEW m, WellFiled(m), m.byImportance # <<>>
  PROVE  LeastImportant(m) \in m.held
<1> DEFINE s == m.byImportance
           V == {s[k][1] : k \in DOMAIN s}
<1>1. s \in Seq(Nat \X ItemIds) /\ s # <<>>
  BY FiledIs
<1>2. DOMAIN s = 1..Len(s) /\ 1 \in DOMAIN s /\ \A k \in DOMAIN s : s[k] \in Nat \X ItemIds
  BY <1>1
<1>3. V \subseteq Nat /\ V # {}
  BY <1>2
<1>4. PICK v \in V : \A w \in V : v <= w
  BY <1>3, LeastNumber
<1> DEFINE K == {k \in DOMAIN s : s[k][1] = v}
<1>5. K \subseteq Nat /\ K # {}
  BY <1>2, <1>4
<1>6. PICK k \in K : \A j \in K : k <= j
  BY <1>5, LeastNumber
<1>7. \A j \in DOMAIN s : s[k][1] < s[j][1] \/ (s[k][1] = s[j][1] /\ k <= j)
  <2> SUFFICES ASSUME NEW j \in DOMAIN s PROVE s[k][1] < s[j][1] \/ (s[k][1] = s[j][1] /\ k <= j)
    OBVIOUS
  <2>1. v <= s[j][1] /\ s[j][1] \in Nat /\ v \in Nat /\ s[k][1] = v
    BY <1>2, <1>3, <1>4, <1>6
  <2>2. s[j][1] = v => k <= j
    BY <1>6
  <2> QED BY <2>1, <2>2
<1>8. PICK l \in DOMAIN s : LeastImportant(m) = s[l][2]
  BY <1>6, <1>7 DEF LeastImportant
<1>9. s[l] \in Entries(m, m.held)
  BY <1>8 DEF WellFiled, ToSet
<1> QED BY <1>8, <1>9 DEF Entries
-----------------------------------------------------------------------------
\* What a call that makes room first still has to do
CallGoesOn ==
  \/ /\ evicting.next = "unlock"
     /\ evicting.target = IF bufferSize = 0 THEN 0 ELSE bufferSize - 1
  \/ /\ evicting.next = "insert" /\ evicting.target = bufferSize - 1
     /\ evicting.atom \in Thoughts \ DOMAIN memory.byThought
     /\ evicting.importance \in Nat /\ evicting.context \in AllContexts
     /\ DOMAIN memory.items # ItemIds

\* Until an importance has changed without its index
BufferInv ==
  /\ bufferSize \in Nat /\ activeContext \in AllContexts /\ drifted \in BOOLEAN
  /\ ~drifted => /\ WellFiled(memory)
                 /\ Unlocked => Cardinality(memory.held) <= IF bufferSize = 0 THEN 1 ELSE bufferSize
                 /\ ~Unlocked => CallGoesOn

LEMMA NoItemsFiled == WellFiled(NoItems) /\ NoItems.held = {} /\ Cardinality(NoItems.held) = 0
<1>1. NoItems = Buffer(NoKeys, {}, NoKeys, {}, <<>>)
  BY DEF NoItems, Buffer
<1>2. /\ NoItems.items = NoKeys /\ NoItems.held = {} /\ NoItems.byThought = NoKeys
      /\ NoItems.byContext = {} /\ NoItems.byImportance = <<>>
  BY DEF NoItems
<1>3. NoKeys \in [{} -> ItemRecords] /\ NoKeys \in [{} -> ItemIds] /\ DOMAIN NoKeys = {}
  BY DEF NoKeys
<1>4. NoItems \in Buffers
  <2> DEFINE n == NoItems
             E == {}
  <2>1. n = Buffer(n.items, n.held, n.byThought, n.byContext, n.byImportance)
    BY <1>1, <1>2
  <2>3. n.items \in [E -> ItemRecords] /\ n.held \subseteq ItemIds /\ n.byThought \in [E -> ItemIds]
    BY <1>2, <1>3
  <2>4. n.byContext \subseteq AllContexts \X ItemIds /\ E \in SUBSET ItemIds /\ E \in SUBSET Thoughts
    BY <1>2
  <2>5. n.byImportance \in Seq(Nat \X ItemIds)
    BY <1>2
  <2> HIDE DEF n, E
  <2>2. n \in Buffers
    BY <2>1, <2>3, <2>4, <2>5, InBuffers
  <2> QED BY <2>2 DEF n
<1>5. ToSet(<<>>) = {} /\ Unrepeated(<<>>)
  BY DEF ToSet, Unrepeated
<1> QED BY <1>2, <1>3, <1>4, <1>5, FS_EmptySet DEF WellFiled, Entries, InContexts

LEMMA BufferInitial == WorkingInit => BufferInv
<1> SUFFICES ASSUME WorkingInit PROVE BufferInv
  OBVIOUS
<1>1. bufferSize \in Nat
  BY WorkingAssumption DEF WorkingInit
<1>2. activeContext \in AllContexts /\ drifted \in BOOLEAN /\ Unlocked /\ memory = NoItems
  BY DEF WorkingInit, AllContexts, Unlocked
<1>3. WellFiled(memory) /\ Cardinality(memory.held) = 0
  BY <1>2, NoItemsFiled
<1>4. Cardinality(memory.held) <= IF bufferSize = 0 THEN 1 ELSE bufferSize
  BY <1>1, <1>3
<1> QED BY <1>1, <1>2, <1>3, <1>4 DEF BufferInv

\* With room made or not: what is left of the items fits as before
LEMMA Fewer ==
  ASSUME NEW h, IsFiniteSet(h), NEW I
  PROVE  IsFiniteSet(h \ I) /\ Cardinality(h \ I) <= Cardinality(h) /\ Cardinality(h) \in Nat /\ Cardinality(h \ I) \in Nat
  BY FS_Subset, FS_CardinalityType

Fits == Cardinality(memory.held) <= IF bufferSize = 0 THEN 1 ELSE bufferSize

LEMMA RemovalKeeps ==
  ASSUME BufferInv, Unlocked, NEW I, ~drifted => I \subseteq memory.held,
         memory' = WithoutItems(memory, I), UNCHANGED <<activeContext, bufferSize, threshold, evicting, drifted>>
  PROVE  BufferInv'
<1>1. /\ bufferSize' \in Nat /\ activeContext' \in AllContexts /\ drifted' \in BOOLEAN
      /\ Unlocked' /\ drifted' = drifted /\ bufferSize' = bufferSize
  BY DEF BufferInv, Unlocked
<1>2. ASSUME ~drifted
      PROVE  WellFiled(memory') /\ Cardinality(memory'.held) <= IF bufferSize = 0 THEN 1 ELSE bufferSize
  <2>1. WellFiled(memory) /\ Fits /\ bufferSize \in Nat /\ I \subseteq memory.held
    BY <1>2 DEF BufferInv, Fits
  <2> DEFINE m == memory
             n == WithoutItems(m, I)
  <2>2. WellFiled(m) /\ I \subseteq m.held
    BY <2>1
  <2>3. IsFiniteSet(m.held)
    BY <2>2, FiledIs
  <2>4. WellFiled(n) /\ n.held = m.held \ I
    BY <2>2, WithoutFiles
  <2>5. Cardinality(m.held \ I) <= Cardinality(m.held) /\ Cardinality(m.held) \in Nat /\ Cardinality(m.held \ I) \in Nat
    BY <2>3, Fewer
  <2> QED BY <2>1, <2>4, <2>5 DEF Fits
<1> QED BY <1>1, <1>2 DEF BufferInv

LEMMA UpdateItemKeeps ==
  ASSUME BufferInv, NEW a \in Thoughts, NEW x \in Importances, NEW c \in AllContexts \cup {Unnamed}, UpdateItem(a, x, c)
  PROVE  BufferInv'
<1> DEFINE i == memory.byThought[a]
           m == SetImportance(memory, [j \in {i} |-> x])
<1>1. /\ Unlocked /\ a \in DOMAIN memory.byThought /\ memory' = IF c \in {Unnamed, m.items[i].context} THEN m ELSE MoveTo(m, i, c)
      /\ drifted' = (drifted \/ x # memory.items[i].importance)
      /\ UNCHANGED <<activeContext, bufferSize, threshold, evicting>>
  BY DEF UpdateItem
<1>2. bufferSize' \in Nat /\ activeContext' \in AllContexts /\ drifted' \in BOOLEAN /\ Unlocked' /\ bufferSize' = bufferSize
  BY <1>1 DEF BufferInv, Unlocked
<1>3. ASSUME ~drifted'
      PROVE  WellFiled(memory') /\ Cardinality(memory'.held) <= IF bufferSize = 0 THEN 1 ELSE bufferSize
  <2>1. WellFiled(memory) /\ Fits /\ x = memory.items[i].importance
    BY <1>1, <1>3 DEF BufferInv, Fits
  <2>2. i \in memory.held
    BY <1>1, <2>1, FiledIs
  <2>3. DOMAIN [j \in {i} |-> x] = {i} /\ [j \in {i} |-> x][i] = x
    OBVIOUS
  <2>4. m = memory
    <3> DEFINE z == [j \in {i} |-> x]
    <3>1. DOMAIN z \subseteq memory.held /\ \A j \in DOMAIN z : z[j] = memory.items[j].importance
      BY <2>1, <2>2, <2>3
    <3> HIDE DEF z
    <3>2. SetImportance(memory, z) = memory
      BY <2>1, <3>1, SameImportances
    <3> QED BY <3>2 DEF z
  <2> HIDE DEF m
  <2>5. CASE c \in {Unnamed, m.items[i].context}
    BY <1>1, <2>1, <2>4, <2>5 DEF Fits
  <2>6. CASE c \notin {Unnamed, m.items[i].context}
    <3>1. c \in AllContexts
      BY <2>6
    <3>2. WellFiled(MoveTo(memory, i, c)) /\ MoveTo(memory, i, c).held = memory.held
      BY <2>1, <2>2, <3>1, MoveFiles
    <3>3. memory' = MoveTo(memory, i, c)
      BY <1>1, <2>4, <2>6
    <3> QED BY <2>1, <3>2, <3>3 DEF Fits
  <2> QED BY <2>5, <2>6
<1> QED BY <1>2, <1>3 DEF BufferInv

LEMMA AddItemKeeps ==
  ASSUME BufferInv, NEW a \in Thoughts, NEW x \in Importances, NEW c \in AllContexts \cup {Unnamed}, AddItem(a, x, c)
  PROVE  BufferInv'
<1> DEFINE d == IF c = Unnamed THEN activeContext ELSE c
<1>1. /\ a \notin DOMAIN memory.byThought /\ DOMAIN memory.items # ItemIds
      /\ evicting' = [next |-> "insert", target |-> bufferSize - 1, atom |-> a, importance |-> x, context |-> d]
      /\ UNCHANGED <<memory, activeContext, bufferSize, threshold, drifted>>
  BY DEF AddItem
<1>2. x \in Nat
  BY WorkingAssumption
<1>3. d \in AllContexts
  BY DEF BufferInv
<1> HIDE DEF d
<1>4. /\ evicting'.next = "insert" /\ evicting'.target = bufferSize - 1 /\ evicting'.atom = a
      /\ evicting'.importance = x /\ evicting'.context = d
  BY <1>1
<1>5. ~Unlocked'
  BY <1>4 DEF Unlocked, NotEvicting
<1>6. CallGoesOn'
  BY <1>1, <1>2, <1>3, <1>4 DEF CallGoesOn
<1> QED BY <1>1, <1>5, <1>6 DEF BufferInv

LEMMA UpdateImportanceKeeps ==
  ASSUME BufferInv, NEW a \in Thoughts, NEW x \in Importances, UpdateImportance(a, x)
  PROVE  BufferInv'
<1> DEFINE i == memory.byThought[a]
           z == [j \in {i} |-> x]
           n == Reindexed(memory, SetImportance(memory, z), {i})
<1>1. /\ Unlocked /\ a \in DOMAIN memory.byThought /\ memory' = n
      /\ UNCHANGED <<activeContext, bufferSize, threshold, evicting, drifted>>
  BY DEF UpdateImportance
<1>2. x \in Nat
  BY WorkingAssumption
<1>3. DOMAIN z = {i} /\ z[i] = x
  OBVIOUS
<1>4. /\ bufferSize' \in Nat /\ activeContext' \in AllContexts /\ drifted' \in BOOLEAN
      /\ Unlocked' /\ drifted' = drifted /\ bufferSize' = bufferSize
  BY <1>1 DEF BufferInv, Unlocked
<1>5. ASSUME ~drifted
      PROVE  WellFiled(memory') /\ Cardinality(memory'.held) <= IF bufferSize = 0 THEN 1 ELSE bufferSize
  <2>1. WellFiled(memory) /\ Fits
    BY <1>1, <1>5 DEF BufferInv, Fits
  <2>2. i \in memory.held
    BY <1>1, <2>1, FiledIs
  <2> DEFINE I == {i}
  <2>3. /\ DOMAIN z \subseteq memory.held /\ I \subseteq memory.held
        /\ \A j \in DOMAIN z : z[j] \in Nat
        /\ \A j \in DOMAIN z \ I : z[j] = memory.items[j].importance
    BY <1>2, <1>3, <2>2
  <2>4. n = Reindexed(memory, SetImportance(memory, z), I)
    OBVIOUS
  <2> HIDE DEF I, z, n
  <2>5. WellFiled(n) /\ n.held = memory.held
    BY <2>1, <2>3, <2>4, ReindexFiles
  <2> QED BY <1>1, <2>1, <2>5 DEF Fits
<1> QED BY <1>4, <1>5 DEF BufferInv

LEMMA SetMaxCapacityKeeps ==
  ASSUME BufferInv, NEW cap \in BufferSizes, SetMaxCapacity(cap)
  PROVE  BufferInv'
<1> DEFINE size == Cardinality(memory.held)
<1>1. /\ Unlocked /\ bufferSize' = cap /\ evicting' = IF size > cap THEN EnforceFrom(size, cap) ELSE NotEvicting
      /\ UNCHANGED <<memory, activeContext, threshold, drifted>>
  BY DEF SetMaxCapacity
<1>2. cap \in Nat
  BY WorkingAssumption
<1>3. ASSUME ~drifted
      PROVE  /\ WellFiled(memory')
             /\ Unlocked' => Cardinality(memory'.held) <= IF bufferSize' = 0 THEN 1 ELSE bufferSize'
             /\ ~Unlocked' => CallGoesOn'
  <2>1. WellFiled(memory) /\ size \in Nat
    BY <1>3, EntriesCounted DEF BufferInv
  <2>2. CASE size > cap
    <3>1. evicting' = [next |-> "unlock", target |-> IF cap = 0 THEN 0 ELSE cap - 1]
      BY <1>1, <1>2, <2>1, <2>2 DEF EnforceFrom
    <3>2. evicting'.next = "unlock" /\ evicting'.target = IF bufferSize' = 0 THEN 0 ELSE bufferSize' - 1
      BY <1>1, <3>1
    <3>3. ~Unlocked'
      BY <3>2 DEF Unlocked, NotEvicting
    <3> QED BY <1>1, <2>1, <3>2, <3>3 DEF CallGoesOn
  <2>3. CASE ~(size > cap)
    <3>1. Unlocked' /\ size <= cap
      BY <1>1, <1>2, <2>1, <2>3 DEF Unlocked
    <3> QED BY <1>1, <1>2, <2>1, <3>1
  <2> QED BY <2>2, <2>3
<1> QED BY <1>1, <1>2, <1>3 DEF BufferInv

LEMMA RunCleanupKeeps ==
  ASSUME BufferInv, NEW faded \in [memory.held -> UNION {Decays(x) : x \in Importances}],
         NEW aged \in SUBSET memory.held, \A i \in memory.held : faded[i] \in Decays(memory.items[i].importance),
         RunCleanup(faded, aged)
  PROVE  BufferInv'
<1> DEFINE sig == Significant(memory, faded)
           d == Decayed(memory, faded)
           I == aged \cup {i \in d.held : d.items[i].importance < threshold}
           c == WithoutItems(d, I)
           size == Cardinality(c.held)
<1>1. /\ Unlocked /\ memory' = c /\ evicting' = EnforceFrom(size, bufferSize)
      /\ drifted' = (drifted \/ \E i \in memory.held \ sig : faded[i] # memory.items[i].importance)
      /\ UNCHANGED <<activeContext, bufferSize, threshold>>
  BY DEF RunCleanup
<1>2. bufferSize' = bufferSize /\ bufferSize \in Nat /\ activeContext' \in AllContexts /\ drifted' \in BOOLEAN
  BY <1>1 DEF BufferInv
<1>3. ASSUME ~drifted'
      PROVE  /\ WellFiled(memory')
             /\ Unlocked' => Cardinality(memory'.held) <= IF bufferSize' = 0 THEN 1 ELSE bufferSize'
             /\ ~Unlocked' => CallGoesOn'
  <2>1. WellFiled(memory) /\ \A i \in memory.held \ sig : faded[i] = memory.items[i].importance
    BY <1>1, <1>3 DEF BufferInv
  <2>2. sig \subseteq memory.held
    BY DEF Significant
  <2>3. DOMAIN faded = memory.held /\ \A i \in DOMAIN faded : faded[i] \in Nat
    <3> SUFFICES ASSUME NEW i \in memory.held PROVE faded[i] \in Nat
      OBVIOUS
    <3>1. memory.items[i].importance \in Nat
      BY <2>1, FiledIs DEF ItemRecords
    <3> QED BY <3>1 DEF Decays
  <2>4. d = Reindexed(memory, SetImportance(memory, faded), sig)
    BY DEF Decayed
  <2> HIDE DEF sig, d
  <2>5. WellFiled(d) /\ d.held = memory.held
    BY <2>1, <2>2, <2>3, <2>4, ReindexFiles
  <2>6. I \subseteq d.held
    BY <2>5
  <2> HIDE DEF I
  <2>7. WellFiled(c)
    BY <2>5, <2>6, WithoutFiles
  <2>8. size \in Nat
    BY <2>7, EntriesCounted
  <2> HIDE DEF c
  <2>9. CASE size < bufferSize
    <3>1. Unlocked'
      BY <1>1, <2>9 DEF Unlocked, EnforceFrom
    <3> QED BY <1>1, <1>2, <2>7, <2>8, <2>9, <3>1
  <2>10. CASE ~(size < bufferSize)
    <3>1. evicting' = [next |-> "unlock", target |-> IF bufferSize = 0 THEN 0 ELSE bufferSize - 1]
      BY <1>1, <2>10 DEF EnforceFrom
    <3>2. evicting'.next = "unlock" /\ evicting'.target = IF bufferSize' = 0 THEN 0 ELSE bufferSize' - 1
      BY <1>2, <3>1
    <3>3. ~Unlocked'
      BY <3>2 DEF Unlocked, NotEvicting
    <3> QED BY <1>1, <2>7, <3>2, <3>3 DEF CallGoesOn
  <2> QED BY <2>9, <2>10
<1> QED BY <1>2, <1>3 DEF BufferInv

LEMMA EvictOneKeeps ==
  ASSUME BufferInv, EvictOne
  PROVE  BufferInv'
<1>1. /\ ~Unlocked /\ memory.byImportance # <<>> /\ memory' = WithoutItems(memory, {LeastImportant(memory)})
      /\ UNCHANGED <<activeContext, bufferSize, threshold, evicting, drifted>>
  BY DEF EvictOne, Crowded
<1>2. ~Unlocked' /\ drifted' = drifted
  BY <1>1 DEF Unlocked
<1>3. ASSUME ~drifted PROVE WellFiled(memory') /\ CallGoesOn'
  <2> DEFINE I == {LeastImportant(memory)}
             n == WithoutItems(memory, I)
  <2>1. WellFiled(memory) /\ I \subseteq memory.held /\ CallGoesOn
    BY <1>1, <1>3, LeastImportantIs DEF BufferInv
  <2>2. memory' = n
    BY <1>1
  <2> HIDE DEF I
  <2>3. WellFiled(n) /\ n.held = memory.held \ I /\ DOMAIN n.byThought \subseteq DOMAIN memory.byThought
    BY <2>1, WithoutFiles
  <2> HIDE DEF n
  <2>4. DOMAIN memory.items # ItemIds => DOMAIN n.items # ItemIds
    <3>1. DOMAIN n.items = n.held /\ DOMAIN memory.items = memory.held /\ memory.held \subseteq ItemIds
      BY <2>1, <2>3, FiledIs DEF WellFiled
    <3> QED BY <2>3, <3>1
  <2>5. CallGoesOn'
    <3>1. CASE evicting.next = "unlock"
      BY <1>1, <2>1, <3>1 DEF CallGoesOn
    <3>2. CASE evicting.next # "unlock"
      <4>1. /\ evicting.next = "insert" /\ evicting.target = bufferSize - 1
            /\ evicting.atom \in Thoughts \ DOMAIN memory.byThought
            /\ evicting.importance \in Nat /\ evicting.context \in AllContexts
            /\ DOMAIN memory.items # ItemIds
        BY <2>1, <3>2 DEF CallGoesOn
      <4>2. evicting.atom \in Thoughts \ DOMAIN n.byThought /\ DOMAIN n.items # ItemIds
        BY <2>3, <2>4, <4>1
      <4> QED BY <1>1, <2>2, <4>1, <4>2 DEF CallGoesOn
    <3> QED BY <3>1, <3>2
  <2> QED BY <2>2, <2>3, <2>5
<1> QED BY <1>1, <1>2, <1>3 DEF BufferInv

LEMMA FinishCallKeeps ==
  ASSUME BufferInv, FinishCall
  PROVE  BufferInv'
<1> DEFINE n == NewItem(memory, evicting.atom, evicting.importance, evicting.context)
<1>1. /\ ~Unlocked /\ ~Crowded /\ memory' = IF evicting.next = "insert" THEN n ELSE memory
      /\ Unlocked' /\ UNCHANGED <<activeContext, bufferSize, threshold, drifted>>
  BY DEF FinishCall, Unlocked
<1>2. bufferSize' = bufferSize /\ bufferSize \in Nat /\ activeContext' \in AllContexts /\ drifted' \in BOOLEAN
  BY <1>1 DEF BufferInv
<1>3. ASSUME ~drifted PROVE WellFiled(memory') /\ Cardinality(memory'.held) <= IF bufferSize = 0 THEN 1 ELSE bufferSize
  <2>1. WellFiled(memory) /\ CallGoesOn
    BY <1>1, <1>3 DEF BufferInv
  <2>2. Cardinality(memory.held) \in Nat /\ Len(memory.byImportance) = Cardinality(memory.held)
    BY <2>1, EntriesCounted
  <2>3. Cardinality(memory.held) <= evicting.target \/ Cardinality(memory.held) = 0
    <3>1. evicting.target \in Int
      BY <1>2, <2>1 DEF CallGoesOn
    <3> QED BY <1>1, <2>2, <3>1 DEF Crowded
  <2>4. CASE evicting.next = "unlock"
    <3>1. evicting.target = IF bufferSize = 0 THEN 0 ELSE bufferSize - 1
      BY <2>1, <2>4 DEF CallGoesOn
    <3> QED BY <1>1, <1>2, <2>1, <2>2, <2>3, <2>4, <3>1
  <2>5. CASE evicting.next # "unlock"
    <3>1. /\ evicting.next = "insert" /\ evicting.target = bufferSize - 1
          /\ evicting.atom \in Thoughts /\ evicting.atom \notin DOMAIN memory.byThought
          /\ evicting.importance \in Nat /\ evicting.context \in AllContexts
          /\ DOMAIN memory.items # ItemIds
      BY <2>1, <2>5 DEF CallGoesOn
    <3>2. WellFiled(n) /\ Cardinality(n.held) = Cardinality(memory.held) + 1
      BY <2>1, <3>1, NewFiles
    <3>3. memory' = n
      BY <1>1, <3>1
    <3> HIDE DEF n
    <3> QED BY <1>2, <2>2, <2>3, <3>1, <3>2, <3>3
  <2> QED BY <2>4, <2>5
<1> QED BY <1>1, <1>2, <1>3 DEF BufferInv

LEMMA BufferInductive == BufferInv /\ [WorkingNext]_workingVars => BufferInv'
<1> SUFFICES ASSUME BufferInv, [WorkingNext]_workingVars PROVE BufferInv'
  OBVIOUS
<1>1. CASE UNCHANGED workingVars
  BY <1>1 DEF workingVars, BufferInv, Unlocked, CallGoesOn
<1>2. CASE ItemStep
  <2>1. ASSUME NEW a \in Thoughts, NEW x \in Importances, NEW c \in AllContexts \cup {Unnamed},
               UpdateItem(a, x, c) \/ AddItem(a, x, c)
        PROVE  BufferInv'
    BY <2>1, UpdateItemKeeps, AddItemKeeps
  <2>2. ASSUME NEW a \in Thoughts, NEW x \in Importances, UpdateImportance(a, x) PROVE BufferInv'
    BY <2>2, UpdateImportanceKeeps
  <2>3. ASSUME NEW a \in Thoughts, RemoveItem(a) PROVE BufferInv'
    <3> DEFINE I == {memory.byThought[a]}
    <3>1. /\ Unlocked /\ a \in DOMAIN memory.byThought /\ memory' = WithoutItems(memory, I)
          /\ UNCHANGED <<activeContext, bufferSize, threshold, evicting, drifted>>
      BY <2>3 DEF RemoveItem
    <3>2. ~drifted => I \subseteq memory.held
      BY <3>1, FiledIs DEF BufferInv
    <3> HIDE DEF I
    <3> QED BY <3>1, <3>2, RemovalKeeps
  <2> QED BY <1>2, <2>1, <2>2, <2>3 DEF ItemStep
<1>3. CASE UpkeepStep
  <2>1. ASSUME NEW c \in AllContexts, SetActiveContext(c) PROVE BufferInv'
    BY <2>1 DEF SetActiveContext, BufferInv, Unlocked, CallGoesOn
  <2>2. ASSUME NEW c \in AllContexts, ClearContext(c) PROVE BufferInv'
    <3> DEFINE I == {p[2] : p \in {q \in memory.byContext : q[1] = c}}
    <3>1. /\ Unlocked /\ memory' = WithoutItems(memory, I)
          /\ UNCHANGED <<activeContext, bufferSize, threshold, evicting, drifted>>
      BY <2>2 DEF ClearContext
    <3>2. ~drifted => I \subseteq memory.held
      BY DEF BufferInv, WellFiled, InContexts
    <3> HIDE DEF I
    <3> QED BY <3>1, <3>2, RemovalKeeps
  <2>3. CASE ClearItems
    <3>1. Unlocked' /\ memory' = NoItems /\ bufferSize' = bufferSize /\ activeContext' = activeContext /\ drifted' = FALSE
      BY <2>3 DEF ClearItems, Unlocked
    <3>2. WellFiled(memory') /\ Cardinality(memory'.held) = 0
      BY <3>1, NoItemsFiled
    <3>3. bufferSize \in Nat /\ activeContext \in AllContexts
      BY DEF BufferInv
    <3>4. Cardinality(memory'.held) <= IF bufferSize' = 0 THEN 1 ELSE bufferSize'
      BY <3>1, <3>2, <3>3
    <3> QED BY <3>1, <3>2, <3>3, <3>4 DEF BufferInv
  <2>4. ASSUME NEW x \in Thresholds, SetThreshold(x) PROVE BufferInv'
    BY <2>4 DEF SetThreshold, BufferInv, Unlocked, CallGoesOn
  <2>5. ASSUME NEW cap \in BufferSizes, SetMaxCapacity(cap) PROVE BufferInv'
    BY <2>5, SetMaxCapacityKeeps
  <2>6. ASSUME NEW faded \in [memory.held -> UNION {Decays(x) : x \in Importances}],
               NEW aged \in SUBSET memory.held,
               \A i \in memory.held : faded[i] \in Decays(memory.items[i].importance), RunCleanup(faded, aged)
        PROVE  BufferInv'
    BY <2>6, RunCleanupKeeps
  <2> QED BY <1>3, <2>1, <2>2, <2>3, <2>4, <2>5, <2>6 DEF UpkeepStep
<1>4. CASE EvictionStep
  BY <1>4, EvictOneKeeps, FinishCallKeeps DEF EvictionStep
<1> QED BY <1>1, <1>2, <1>3, <1>4 DEF WorkingNext

LEMMA BufferInvSuffices == BufferInv => BufferIsIndexed
<1> SUFFICES ASSUME BufferInv, Unlocked, ~drifted PROVE BufferIsIndexed
  BY DEF BufferIsIndexed
<1>1. WellFiled(memory) /\ Cardinality(memory.held) <= IF bufferSize = 0 THEN 1 ELSE bufferSize
  BY DEF BufferInv
<1>2. Len(memory.byImportance) = Cardinality(memory.held)
  BY <1>1, EntriesCounted
<1> QED BY <1>1, <1>2 DEF WellFiled, BufferIsIndexed, Entries, InContexts

\* WorkingMemory finds an item by its id, by its atom and by its context wherever it is, with no
\* entry for what is gone and the buffer within its size, through adds, removals, evictions and
\* changes of size, until importances drift: for any numbers of items, atoms and contexts.
THEOREM BufferIndexed == WorkingInit /\ [][WorkingNext]_workingVars => []BufferIsIndexed
<1> QED BY BufferInitial, BufferInductive, BufferInvSuffices, PTL

(***************************************************************************)
(* The contexts and their indexes                                          *)
(***************************************************************************)
ContextRecords == [type : ContextTypes, atoms : SUBSET ContextAtoms, low : BOOLEAN]
IndexEntries == [id : ContextIds, low : BOOLEAN]

\* The index has each context of H once
IndexesOnce(s, H) ==
  /\ s \in Seq(IndexEntries)
  /\ \A i, j \in DOMAIN s : s[i].id = s[j].id => i = j
  /\ {s[i].id : i \in DOMAIN s} = H

ContextsWith(at, a) == IF a \in DOMAIN at THEN at[a] ELSE {}

\* The atoms' lists of contexts are what the contexts of m hold
HoldsSame(at, m) ==
  /\ \A a \in DOMAIN at : at[a] # {} /\ a \in ContextAtoms
  /\ \A a \in ContextAtoms : ContextsWith(at, a) = {c \in DOMAIN m : a \in m[c].atoms}

ContextMapOk(m) == DOMAIN m \subseteq ContextIds /\ m \in [DOMAIN m -> ContextRecords]

ContextInv ==
  /\ ContextMapOk(contextMap)
  /\ IndexesOnce(importanceIndex, Held)
  /\ typeIndex = {<<contextMap[c].type, c>> : c \in Held}
  /\ HoldsSame(atomContexts, contextMap)
  /\ activeId \subseteq Held

LEMMA UnlistedIs ==
  ASSUME NEW s, NEW H, IndexesOnce(s, H), NEW C
  PROVE  IndexesOnce(Unlisted(s, C), H \ C)
<1> DEFINE I == {i \in DOMAIN s : s[i].id \notin C}
           r == ElementsAt(s, I)
<1>1. s \in Seq(IndexEntries) /\ r = Unlisted(s, C) /\ I \subseteq DOMAIN s
  BY DEF IndexesOnce, Unlisted
<1>2. {s[i].id : i \in I} = H \ C
  BY DEF IndexesOnce
<1> HIDE DEF I, r
<1>3. r \in Seq(IndexEntries) /\ Picks(r, s, I)
  BY <1>1, ElementsAtIs DEF r
<1>4. PICK f \in [DOMAIN r -> I] :
        /\ \A k \in DOMAIN r : r[k] = s[f[k]]
        /\ \A j, k \in DOMAIN r : j < k => f[j] < f[k]
        /\ \A i \in I : \E k \in DOMAIN r : f[k] = i
  BY <1>3 DEF Picks
<1>5. {r[k].id : k \in DOMAIN r} = H \ C
  BY <1>2, <1>4
<1>6. ASSUME NEW j \in DOMAIN r, NEW k \in DOMAIN r, r[j].id = r[k].id PROVE j = k
  <2>1. f[j] = f[k] /\ f[j] \in Nat /\ j \in Nat /\ k \in Nat
    BY <1>1, <1>3, <1>4, <1>6 DEF IndexesOnce
  <2>2. ~(j < k) /\ ~(k < j)
    BY <1>4, <2>1
  <2> QED BY <2>1, <2>2
<1> QED BY <1>1, <1>3, <1>5, <1>6 DEF IndexesOnce

LEMMA InsertedIs ==
  ASSUME NEW s, NEW H, IndexesOnce(s, H), NEW c \in ContextIds, c \notin H, NEW low \in BOOLEAN,
         NEW r \in Inserted(s, c, low)
  PROVE  IndexesOnce(r, H \cup {c})
<1> DEFINE e == [id |-> c, low |-> low]
<1>1. PICK p \in 1..Len(s) + 1 : r = InsertAt(s, p, e)
  BY DEF Inserted
<1>2. s \in Seq(IndexEntries) /\ e \in IndexEntries /\ e.id = c
  BY DEF IndexesOnce, IndexEntries
<1> HIDE DEF e
<1>3. /\ Len(s) \in Nat /\ DOMAIN s = 1..Len(s) /\ r \in Seq(IndexEntries) /\ DOMAIN r = 1..Len(s) + 1
      /\ \A k \in DOMAIN r : r[k] = IF k < p THEN s[k] ELSE IF k = p THEN e ELSE s[k - 1]
  <2> DEFINE a == SubSeq(s, 1, p - 1)
             b == SubSeq(s, p, Len(s))
             m == Len(s)
             t == a \o <<e>>
  <2>1. m \in Nat /\ DOMAIN s = 1..m /\ p \in 1..m + 1
    BY <1>2
  <2>2. a \in Seq(IndexEntries) /\ Len(a) = p - 1 /\ \A k \in 1..p - 1 : a[k] = s[k]
    BY <1>2, <2>1
  <2>3. b \in Seq(IndexEntries) /\ Len(b) = m - p + 1 /\ \A k \in 1..m - p + 1 : b[k] = s[p + k - 1]
    BY <1>2, <2>1
  <2>4. r = t \o b
    BY <1>1 DEF InsertAt
  <2> HIDE DEF a, b, m
  <2>5. t \in Seq(IndexEntries) /\ Len(t) = p /\ t[p] = e /\ \A k \in 1..p - 1 : t[k] = s[k]
    BY <1>2, <2>1, <2>2
  <2> HIDE DEF t
  <2>6. r \in Seq(IndexEntries) /\ Len(r) = m + 1 /\ DOMAIN r = 1..m + 1
    BY <2>1, <2>3, <2>4, <2>5
  <2>7. ASSUME NEW k \in 1..m + 1 PROVE r[k] = IF k < p THEN s[k] ELSE IF k = p THEN e ELSE s[k - 1]
    <3>1. CASE k <= p
      BY <2>1, <2>3, <2>4, <2>5, <3>1
    <3>2. CASE k > p
      <4>1. r[k] = b[k - p] /\ k - p \in 1..m - p + 1
        BY <2>1, <2>3, <2>4, <2>5, <3>2
      <4>2. b[k - p] = s[p + (k - p) - 1] /\ p + (k - p) - 1 = k - 1
        BY <2>1, <2>3, <4>1
      <4> QED BY <2>1, <3>2, <4>1, <4>2
    <3> QED BY <2>1, <3>1, <3>2
  <2> QED BY <2>1, <2>6, <2>7 DEF m
<1>4. \A i \in DOMAIN s : s[i].id # c
  BY DEF IndexesOnce
<1>5. \A i, j \in DOMAIN r : r[i].id = r[j].id => i = j
  <2> DEFINE g == [k \in DOMAIN r |-> IF k < p THEN k ELSE k - 1]
  <2>1. \A k \in DOMAIN r \ {p} : g[k] \in DOMAIN s /\ r[k] = s[g[k]]
    BY <1>1, <1>3
  <2>2. \A i, j \in DOMAIN r \ {p} : g[i] = g[j] => i = j
    BY <1>1, <1>3
  <2>3. p \in DOMAIN r /\ r[p].id = c
    BY <1>1, <1>2, <1>3
  <2> HIDE DEF g
  <2>4. ASSUME NEW i \in DOMAIN r \ {p}, NEW j \in DOMAIN r \ {p}, r[i].id = r[j].id PROVE i = j
    BY <2>1, <2>2, <2>4 DEF IndexesOnce
  <2>5. \A i \in DOMAIN r \ {p} : r[i].id # c
    BY <1>4, <2>1
  <2> QED BY <2>3, <2>4, <2>5
<1>6. {r[i].id : i \in DOMAIN r} = H \cup {c}
  <2>1. \A k \in DOMAIN r : r[k].id \in H \cup {c}
    BY <1>1, <1>2, <1>3 DEF IndexesOnce
  <2>2. ASSUME NEW d \in H PROVE \E k \in DOMAIN r : r[k].id = d
    <3>1. PICK i \in DOMAIN s : s[i].id = d
      BY DEF IndexesOnce
    <3>2. CASE i < p
      BY <1>1, <1>3, <3>1, <3>2
    <3>3. CASE i >= p
      <4>1. i + 1 \in DOMAIN r /\ r[i + 1] = s[i]
        BY <1>1, <1>3, <3>3
      <4> QED BY <3>1, <4>1
    <3> QED BY <1>1, <1>3, <3>2, <3>3
  <2>3. p \in DOMAIN r /\ r[p].id = c
    BY <1>1, <1>2, <1>3
  <2> QED BY <2>1, <2>2, <2>3
<1> QED BY <1>3, <1>5, <1>6 DEF IndexesOnce

\* An entry that moves
LEMMA MovedIs ==
  ASSUME NEW s, NEW H, IndexesOnce(s, H), NEW c \in H, c \in ContextIds, NEW low \in BOOLEAN,
         NEW r \in Inserted(Unlisted(s, {c}), c, low)
  PROVE  IndexesOnce(r, H)
<1> DEFINE u == Unlisted(s, {c})
           G == H \ {c}
<1>1. IndexesOnce(u, G)
  BY UnlistedIs
<1>2. c \notin G /\ G \cup {c} = H /\ r \in Inserted(u, c, low)
  OBVIOUS
<1> HIDE DEF u, G
<1>3. IndexesOnce(r, G \cup {c})
  BY <1>1, <1>2, InsertedIs
<1> QED BY <1>2, <1>3

LEMMA OnceIsMany ==
  ASSUME NEW s, NEW H, IndexesOnce(s, H)
  PROVE  Len(s) = Cardinality(H) /\ IsFiniteSet(H)
<1> DEFINE f == [i \in DOMAIN s |-> s[i].id]
<1>1. s \in Seq(IndexEntries) /\ DOMAIN s = 1..Len(s) /\ Len(s) \in Nat
  BY DEF IndexesOnce
<1>2. f \in Bijection(DOMAIN s, H)
  BY DEF IndexesOnce, Bijection, Injection, Surjection, IsInjective
<1>3. ExistsBijection(DOMAIN s, H)
  BY <1>2 DEF ExistsBijection
<1> QED BY <1>1, <1>3, FS_Interval, FS_Bijection

\* The atoms' lists after contexts go, and after atoms come to a context or leave it
LEMMA OutsideHolds ==
  ASSUME NEW m, HoldsSame(atomContexts, m), NEW C
  PROVE  HoldsSame(AtomsOutside(C), Without(m, C))
<1> DEFINE at == AtomsOutside(C)
           n == Without(m, C)
<1>1. /\ DOMAIN at = {b \in DOMAIN atomContexts : ~(atomContexts[b] \subseteq C)}
      /\ \A a \in DOMAIN at : at[a] = atomContexts[a] \ C
  BY DEF AtomsOutside
<1>2. DOMAIN n = DOMAIN m \ C /\ \A c \in DOMAIN n : n[c] = m[c]
  BY DEF Without
<1> HIDE DEF at, n
<1>3. \A a \in DOMAIN at : at[a] # {} /\ a \in ContextAtoms
  BY <1>1 DEF HoldsSame
<1>4. ASSUME NEW a \in ContextAtoms PROVE ContextsWith(at, a) = {c \in DOMAIN n : a \in n[c].atoms}
  <2>1. ContextsWith(at, a) = ContextsWith(atomContexts, a) \ C
    BY <1>1 DEF ContextsWith
  <2>2. ContextsWith(atomContexts, a) = {c \in DOMAIN m : a \in m[c].atoms}
    BY DEF HoldsSame
  <2> QED BY <1>2, <2>1, <2>2
<1> QED BY <1>3, <1>4 DEF HoldsSame, at, n

LEMMA AlsoInHolds ==
  ASSUME NEW m, HoldsSame(atomContexts, m), NEW A, A \subseteq ContextAtoms, NEW c \in DOMAIN m,
         NEW n, DOMAIN n = DOMAIN m, \A d \in DOMAIN m : n[d].atoms = m[d].atoms \cup IF d = c THEN A ELSE {}
  PROVE  HoldsSame(AlsoIn(A, c), n)
<1> DEFINE at == AlsoIn(A, c)
<1>1. /\ DOMAIN at = DOMAIN atomContexts \cup A
      /\ \A a \in DOMAIN at : at[a] = ContextsWith(atomContexts, a) \cup (IF a \in A THEN {c} ELSE {})
  BY DEF AlsoIn, ContextsWith
<1> HIDE DEF at
<1>2. \A a \in DOMAIN at : at[a] # {} /\ a \in ContextAtoms
  BY <1>1 DEF HoldsSame, ContextsWith
<1>3. ASSUME NEW a \in ContextAtoms PROVE ContextsWith(at, a) = {d \in DOMAIN n : a \in n[d].atoms}
  <2>1. ContextsWith(at, a) = ContextsWith(atomContexts, a) \cup (IF a \in A THEN {c} ELSE {})
    BY <1>1 DEF ContextsWith
  <2>2. ContextsWith(atomContexts, a) = {d \in DOMAIN m : a \in m[d].atoms}
    BY DEF HoldsSame
  <2> QED BY <2>1, <2>2
<1> QED BY <1>2, <1>3 DEF HoldsSame, at

LEMMA NotInHolds ==
  ASSUME NEW m, HoldsSame(atomContexts, m), NEW A, NEW c \in DOMAIN m,
         NEW n, DOMAIN n = DOMAIN m, \A d \in DOMAIN m : n[d].atoms = m[d].atoms \ IF d = c THEN A ELSE {}
  PROVE  HoldsSame(NotIn(A, c), n)
<1> DEFINE at == NotIn(A, c)
<1>1. /\ DOMAIN at = {b \in DOMAIN atomContexts : b \notin A \/ atomContexts[b] # {c}}
      /\ \A a \in DOMAIN at : at[a] = IF a \in A THEN atomContexts[a] \ {c} ELSE atomContexts[a]
  BY DEF NotIn
<1> HIDE DEF at
<1>2. \A a \in DOMAIN at : at[a] # {} /\ a \in ContextAtoms
  <2> SUFFICES ASSUME NEW a \in DOMAIN at PROVE at[a] # {} /\ a \in ContextAtoms
    OBVIOUS
  <2>1. atomContexts[a] # {} /\ a \in ContextAtoms
    BY <1>1 DEF HoldsSame
  <2>2. atomContexts[a] # {c} => atomContexts[a] \ {c} # {}
    BY <2>1
  <2> QED BY <1>1, <2>1, <2>2
<1>3. ASSUME NEW a \in ContextAtoms PROVE ContextsWith(at, a) = {d \in DOMAIN n : a \in n[d].atoms}
  <2>1. ContextsWith(at, a) = ContextsWith(atomContexts, a) \ (IF a \in A THEN {c} ELSE {})
    BY <1>1 DEF ContextsWith
  <2>2. ContextsWith(atomContexts, a) = {d \in DOMAIN m : a \in m[d].atoms}
    BY DEF HoldsSame
  <2> QED BY <2>1, <2>2
<1> QED BY <1>2, <1>3 DEF HoldsSame, at
-----------------------------------------------------------------------------
LEMMA ContextMapFacts ==
  ASSUME NEW m, ContextMapOk(m), NEW c \in DOMAIN m
  PROVE  /\ c \in ContextIds /\ m[c] \in ContextRecords /\ m[c].type \in ContextTypes
         /\ m[c].atoms \subseteq ContextAtoms /\ m[c].low \in BOOLEAN
  BY DEF ContextMapOk, ContextRecords

LEMMA ContextsInitial == ContextInit => ContextInv
<1> SUFFICES ASSUME ContextInit PROVE ContextInv
  OBVIOUS
<1>1. /\ contextMap = NoKeys /\ typeIndex = {} /\ importanceIndex = <<>> /\ atomContexts = NoKeys
      /\ activeId = {} /\ Held = {} /\ DOMAIN NoKeys = {}
  BY DEF ContextInit, NoKeys, Held
<1> QED BY <1>1 DEF ContextInv, ContextMapOk, IndexesOnce, HoldsSame, ContextsWith

\* All that a step may change of the contexts but where they are listed
LEMMA ContextStep ==
  ASSUME NEW m, DOMAIN m \subseteq ContextIds, \A c \in DOMAIN m : m[c] \in ContextRecords, m = [c \in DOMAIN m |-> m[c]],
         contextMap' = m, IndexesOnce(importanceIndex', DOMAIN m),
         typeIndex' = {<<m[c].type, c>> : c \in DOMAIN m}, HoldsSame(atomContexts', m), activeId' \subseteq DOMAIN m
  PROVE  ContextInv'
<1>1. m \in [DOMAIN m -> ContextRecords]
  OBVIOUS
<1> QED BY <1>1 DEF ContextInv, ContextMapOk, Held

LEMMA CreateKeeps ==
  ASSUME ContextInv, NEW c \in ContextIds, NEW type \in ContextTypes, NEW low \in BOOLEAN, CreateContext(c, type, low)
  PROVE  ContextInv'
<1> DEFINE C == Expendable
           d == Without(contextMap, C)
           e == [type |-> type, atoms |-> {}, low |-> low]
           m == With(d, c, e)
           H == DOMAIN contextMap \ C
<1>1. /\ c \notin DOMAIN contextMap /\ contextMap' = m
      /\ typeIndex' = {p \in typeIndex : p[2] \notin C} \cup {<<type, c>>}
      /\ importanceIndex' \in Inserted(Unlisted(importanceIndex, C), c, low)
      /\ atomContexts' = AtomsOutside(C) /\ activeId' = activeId \ C
  BY DEF CreateContext, DeleteAll, ActiveOutside, Held
<1> HIDE DEF C
<1>2. DOMAIN d = H /\ \A x \in H : d[x] = contextMap[x]
  BY DEF Without
<1>3. e \in ContextRecords /\ e.type = type /\ e.atoms = {}
  BY DEF ContextRecords
<1> HIDE DEF e
<1>4. DOMAIN m = H \cup {c} /\ m[c] = e /\ (\A x \in H : m[x] = contextMap[x]) /\ m = [x \in DOMAIN m |-> m[x]]
  BY <1>1, <1>2 DEF With
<1>5. HoldsSame(AtomsOutside(C), d)
  BY OutsideHolds DEF ContextInv
<1> HIDE DEF m
<1>6. HoldsSame(atomContexts', m)
  BY <1>1, <1>2, <1>3, <1>4, <1>5 DEF HoldsSame
<1>7. IndexesOnce(importanceIndex', DOMAIN m)
  <2> DEFINE u == Unlisted(importanceIndex, C)
  <2>1. IndexesOnce(u, H)
    BY UnlistedIs DEF ContextInv, Held
  <2>2. importanceIndex' \in Inserted(u, c, low) /\ c \notin H
    BY <1>1
  <2> HIDE DEF u, H
  <2>3. PICK r : r = importanceIndex'
    OBVIOUS
  <2>4. IndexesOnce(r, H \cup {c})
    BY <2>1, <2>2, <2>3, InsertedIs
  <2> QED BY <1>4, <2>3, <2>4
<1>8. DOMAIN m \subseteq ContextIds /\ \A x \in DOMAIN m : m[x] \in ContextRecords
  BY <1>3, <1>4, ContextMapFacts DEF ContextInv
<1>9. typeIndex' = {<<m[x].type, x>> : x \in DOMAIN m}
  <2>1. typeIndex = {<<contextMap[x].type, x>> : x \in DOMAIN contextMap}
    BY DEF ContextInv, Held
  <2>2. {p \in typeIndex : p[2] \notin C} = {<<contextMap[x].type, x>> : x \in H}
    BY <2>1
  <2> QED BY <1>1, <1>3, <1>4, <2>2
<1>10. activeId' \subseteq DOMAIN m
  BY <1>1, <1>4 DEF ContextInv, Held
<1> QED BY <1>1, <1>4, <1>6, <1>7, <1>8, <1>9, <1>10, ContextStep

LEMMA DeleteKeeps ==
  ASSUME ContextInv, NEW c \in ContextIds, DeleteContext(c)
  PROVE  ContextInv'
<1> DEFINE C == {c}
           m == Without(contextMap, C)
<1>1. /\ contextMap' = m /\ typeIndex' = {p \in typeIndex : p[2] \notin C}
      /\ importanceIndex' = Unlisted(importanceIndex, C)
      /\ atomContexts' = AtomsOutside(C) /\ activeId' = activeId \ C
  BY DEF DeleteContext, DeleteAll, ActiveOutside, Held
<1> HIDE DEF C
<1>2. /\ DOMAIN m = DOMAIN contextMap \ C /\ (\A x \in DOMAIN m : m[x] = contextMap[x])
      /\ m = [x \in DOMAIN m |-> m[x]]
  BY DEF Without
<1>3. HoldsSame(AtomsOutside(C), m)
  BY OutsideHolds DEF ContextInv
<1> HIDE DEF m
<1>4. IndexesOnce(Unlisted(importanceIndex, C), DOMAIN m)
  BY <1>2, UnlistedIs DEF ContextInv, Held
<1>5. typeIndex' = {<<m[x].type, x>> : x \in DOMAIN m}
  <2>1. typeIndex = {<<contextMap[x].type, x>> : x \in DOMAIN contextMap}
    BY DEF ContextInv, Held
  <2> QED BY <1>1, <1>2, <2>1
<1>6. DOMAIN m \subseteq ContextIds /\ \A x \in DOMAIN m : m[x] \in ContextRecords
  BY <1>2, ContextMapFacts DEF ContextInv
<1>7. activeId' \subseteq DOMAIN m
  BY <1>1, <1>2 DEF ContextInv, Held
<1> QED BY <1>1, <1>2, <1>3, <1>4, <1>5, <1>6, <1>7, ContextStep

\* A step that leaves the contexts and their types as they are
LEMMA SameContexts ==
  ASSUME ContextInv, NEW m, DOMAIN m = DOMAIN contextMap, m = [c \in DOMAIN m |-> m[c]], contextMap' = m,
         \A c \in DOMAIN m : m[c] \in ContextRecords /\ m[c].type = contextMap[c].type,
         UNCHANGED typeIndex, IndexesOnce(importanceIndex', Held), HoldsSame(atomContexts', m), activeId' \subseteq Held
  PROVE  ContextInv'
<1>1. typeIndex' = {<<m[c].type, c>> : c \in DOMAIN m}
  BY DEF ContextInv, Held
<1>2. IndexesOnce(importanceIndex', DOMAIN m) /\ activeId' \subseteq DOMAIN m /\ DOMAIN m \subseteq ContextIds
  BY DEF ContextInv, Held, ContextMapOk
<1> QED BY <1>1, <1>2, ContextStep

\* The lists of the atoms depend on the atoms the contexts hold
LEMMA SameAtoms ==
  ASSUME NEW at, NEW m, HoldsSame(at, m), NEW n, DOMAIN n = DOMAIN m, \A c \in DOMAIN m : n[c].atoms = m[c].atoms
  PROVE  HoldsSame(at, n)
  BY DEF HoldsSame

LEMMA ActivateKeeps ==
  ASSUME ContextInv, NEW c \in ContextIds, ActivateContext(c)
  PROVE  ContextInv'
<1> DEFINE m == [contextMap EXCEPT ![c].low = FALSE]
<1>1. /\ c \in Held /\ activeId' = {c} /\ contextMap' = m
      /\ UNCHANGED <<typeIndex, importanceIndex, atomContexts>>
  BY DEF ActivateContext
<1>2. /\ DOMAIN m = DOMAIN contextMap /\ m = [x \in DOMAIN m |-> m[x]]
      /\ \A x \in DOMAIN m : /\ m[x] \in ContextRecords /\ m[x].type = contextMap[x].type
                            /\ m[x].atoms = contextMap[x].atoms
  <2>1. DOMAIN m = DOMAIN contextMap /\ m = [x \in DOMAIN m |-> m[x]]
    OBVIOUS
  <2>2. ASSUME NEW x \in DOMAIN m
        PROVE  m[x] \in ContextRecords /\ m[x].type = contextMap[x].type /\ m[x].atoms = contextMap[x].atoms
    <3>1. contextMap[x] \in ContextRecords
      BY <2>1, ContextMapFacts DEF ContextInv
    <3>2. m[x] = IF x = c THEN [contextMap[x] EXCEPT !.low = FALSE] ELSE contextMap[x]
      BY <2>1
    <3> HIDE DEF m
    <3> QED BY <3>1, <3>2 DEF ContextRecords
  <2> QED BY <2>1, <2>2
<1> HIDE DEF m
<1>3. HoldsSame(atomContexts, m) /\ IndexesOnce(importanceIndex, Held)
  BY <1>2, SameAtoms DEF ContextInv
<1> QED BY <1>1, <1>2, <1>3, SameContexts

LEMMA AddAtomKeeps ==
  ASSUME ContextInv, NEW c \in ContextIds, NEW a \in ContextAtoms, AddAtom(c, a)
  PROVE  ContextInv'
<1> DEFINE m == [contextMap EXCEPT ![c].atoms = @ \cup {a}, ![c].low = FALSE]
           A == {a}
<1>1. /\ c \in DOMAIN contextMap /\ contextMap' = m /\ atomContexts' = AlsoIn(A, c)
      /\ UNCHANGED <<typeIndex, importanceIndex, activeId>>
  BY DEF AddAtom, Held
<1>2. /\ DOMAIN m = DOMAIN contextMap /\ m = [x \in DOMAIN m |-> m[x]]
      /\ \A x \in DOMAIN m : /\ m[x] \in ContextRecords /\ m[x].type = contextMap[x].type
                            /\ m[x].atoms = contextMap[x].atoms \cup IF x = c THEN A ELSE {}
  <2>1. DOMAIN m = DOMAIN contextMap /\ m = [x \in DOMAIN m |-> m[x]]
    OBVIOUS
  <2>2. ASSUME NEW x \in DOMAIN m
        PROVE  /\ m[x] \in ContextRecords /\ m[x].type = contextMap[x].type
               /\ m[x].atoms = contextMap[x].atoms \cup IF x = c THEN A ELSE {}
    <3>1. contextMap[x] \in ContextRecords
      BY <2>1, ContextMapFacts DEF ContextInv
    <3>2. CASE x # c
      BY <2>1, <3>1, <3>2
    <3>3. CASE x = c
      <4>1. m[x] = [[contextMap[x] EXCEPT !.atoms = contextMap[x].atoms \cup {a}] EXCEPT !.low = FALSE]
        BY <2>1, <3>3
      <4> QED BY <3>1, <3>3, <4>1 DEF ContextRecords
    <3> QED BY <3>2, <3>3
  <2> QED BY <2>1, <2>2
<1> HIDE DEF m
<1>3. A \subseteq ContextAtoms /\ HoldsSame(atomContexts, contextMap)
  BY DEF ContextInv
<1> HIDE DEF A
<1>4. HoldsSame(AlsoIn(A, c), m)
  BY <1>1, <1>2, <1>3, AlsoInHolds
<1>5. IndexesOnce(importanceIndex', Held) /\ activeId' \subseteq Held /\ HoldsSame(atomContexts', m)
  BY <1>1, <1>4 DEF ContextInv
<1> QED BY <1>1, <1>2, <1>5, SameContexts

LEMMA RemoveAtomsKeeps ==
  ASSUME ContextInv, NEW c \in ContextIds, NEW A, RemoveAtoms(c, A)
  PROVE  ContextInv'
<1> DEFINE m == [contextMap EXCEPT ![c].atoms = @ \ A]
<1>1. /\ c \in DOMAIN contextMap /\ contextMap' = m /\ atomContexts' = NotIn(A, c)
      /\ UNCHANGED <<typeIndex, importanceIndex, activeId>>
  BY DEF RemoveAtoms, Held
<1>2. /\ DOMAIN m = DOMAIN contextMap /\ m = [x \in DOMAIN m |-> m[x]]
      /\ \A x \in DOMAIN m : /\ m[x] \in ContextRecords /\ m[x].type = contextMap[x].type
                            /\ m[x].atoms = contextMap[x].atoms \ IF x = c THEN A ELSE {}
  <2>1. DOMAIN m = DOMAIN contextMap /\ m = [x \in DOMAIN m |-> m[x]]
    OBVIOUS
  <2>2. ASSUME NEW x \in DOMAIN m
        PROVE  /\ m[x] \in ContextRecords /\ m[x].type = contextMap[x].type
               /\ m[x].atoms = contextMap[x].atoms \ IF x = c THEN A ELSE {}
    <3>1. contextMap[x] \in ContextRecords
      BY <2>1, ContextMapFacts DEF ContextInv
    <3>2. CASE x # c
      BY <2>1, <3>1, <3>2
    <3>3. CASE x = c
      <4>1. m[x] = [contextMap[x] EXCEPT !.atoms = contextMap[x].atoms \ A]
        BY <2>1, <3>3
      <4> QED BY <3>1, <3>3, <4>1 DEF ContextRecords
    <3> QED BY <3>2, <3>3
  <2> QED BY <2>1, <2>2
<1> HIDE DEF m
<1>3. HoldsSame(atomContexts, contextMap)
  BY DEF ContextInv
<1>4. HoldsSame(NotIn(A, c), m)
  BY <1>1, <1>2, <1>3, NotInHolds
<1>5. IndexesOnce(importanceIndex', Held) /\ activeId' \subseteq Held /\ HoldsSame(atomContexts', m)
  BY <1>1, <1>4 DEF ContextInv
<1> QED BY <1>1, <1>2, <1>5, SameContexts

\* A context that takes over the atoms of another
MergedInto(c, low, A) == [contextMap EXCEPT ![c].low = low, ![c].atoms = @ \cup A]

LEMMA MergedMap ==
  ASSUME ContextMapOk(contextMap), NEW c \in DOMAIN contextMap, NEW low \in BOOLEAN, NEW A, A \subseteq ContextAtoms,
         NEW m, m = MergedInto(c, low, A)
  PROVE  /\ DOMAIN m = DOMAIN contextMap /\ m = [x \in DOMAIN m |-> m[x]]
         /\ \A x \in DOMAIN m : /\ m[x] \in ContextRecords /\ m[x].type = contextMap[x].type
                               /\ m[x].atoms = contextMap[x].atoms \cup IF x = c THEN A ELSE {}
<1>0. m = [contextMap EXCEPT ![c].low = low, ![c].atoms = @ \cup A]
  BY DEF MergedInto
<1>1. DOMAIN m = DOMAIN contextMap /\ m = [x \in DOMAIN m |-> m[x]]
  BY <1>0
<1>2. ASSUME NEW x \in DOMAIN m
      PROVE  /\ m[x] \in ContextRecords /\ m[x].type = contextMap[x].type
             /\ m[x].atoms = contextMap[x].atoms \cup IF x = c THEN A ELSE {}
  <2>1. contextMap[x] \in ContextRecords
    BY <1>1, ContextMapFacts
  <2>2. CASE x # c
    BY <1>0, <1>1, <2>1, <2>2
  <2>3. CASE x = c
    <3> DEFINE v == [contextMap[x] EXCEPT !.low = low]
    <3>1. v \in ContextRecords /\ v.type = contextMap[x].type /\ v.atoms = contextMap[x].atoms
      BY <2>1 DEF ContextRecords
    <3>2. m[x] = [v EXCEPT !.atoms = v.atoms \cup A]
      BY <1>0, <1>1, <2>3
    <3> HIDE DEF v
    <3> QED BY <2>3, <3>1, <3>2 DEF ContextRecords
  <2> QED BY <2>2, <2>3
<1> QED BY <1>1, <1>2

LEMMA MergeKeeps ==
  ASSUME ContextInv, NEW source \in ContextIds, NEW target \in ContextIds, MergeContexts(source, target)
  PROVE  ContextInv'
<1> DEFINE A == contextMap[source].atoms
<1>1. PICK low \in Means(source, target) :
        /\ contextMap' = [contextMap EXCEPT ![target].low = low, ![target].atoms = @ \cup A]
        /\ WithImportance(target, low)
  BY DEF MergeContexts
<1>2. source \in DOMAIN contextMap /\ target \in DOMAIN contextMap /\ atomContexts' = AlsoIn(A, target)
  BY DEF MergeContexts, MergedAtoms, Held
<1>3. ContextMapOk(contextMap) /\ A \subseteq ContextAtoms /\ low \in BOOLEAN
  BY <1>2, ContextMapFacts DEF ContextInv, Means
<1> HIDE DEF A
<1> DEFINE m == MergedInto(target, low, A)
<1>4. contextMap' = m
  BY <1>1 DEF MergedInto
<1>5. /\ DOMAIN m = DOMAIN contextMap /\ m = [x \in DOMAIN m |-> m[x]]
      /\ \A x \in DOMAIN m : /\ m[x] \in ContextRecords /\ m[x].type = contextMap[x].type
                            /\ m[x].atoms = contextMap[x].atoms \cup IF x = target THEN A ELSE {}
  BY <1>2, <1>3, MergedMap
<1> HIDE DEF m
<1>6. HoldsSame(AlsoIn(A, target), m)
  BY <1>2, <1>3, <1>5, AlsoInHolds DEF ContextInv
<1>7. IndexesOnce(importanceIndex', Held)
  <2>1. PICK r \in Inserted(Unlisted(importanceIndex, {target}), target, low) : r = importanceIndex'
    BY <1>1 DEF WithImportance
  <2>2. IndexesOnce(importanceIndex, Held) /\ target \in Held
    BY <1>2 DEF ContextInv, Held
  <2>3. IndexesOnce(r, Held)
    BY <1>3, <2>1, <2>2, MovedIs
  <2> QED BY <2>1, <2>3
<1>8. UNCHANGED typeIndex /\ activeId' \subseteq Held
  BY <1>1 DEF WithImportance, ContextInv
<1> QED BY <1>2, <1>4, <1>5, <1>6, <1>7, <1>8, SameContexts

LEMMA MergeAndDeleteKeeps ==
  ASSUME ContextInv, NEW source \in ContextIds, NEW target \in ContextIds, MergeAndDelete(source, target)
  PROVE  ContextInv'
<1> DEFINE A == contextMap[source].atoms
           C == {source}
           merged == AlsoIn(A, target)
<1>1. /\ source \in DOMAIN contextMap /\ target \in DOMAIN contextMap
      /\ typeIndex' = {p \in typeIndex : p[2] # source} /\ activeId' = activeId \ C
      /\ atomContexts' = [a \in {b \in DOMAIN merged : merged[b] # {source}} |-> merged[a] \ {source}]
  BY DEF MergeAndDelete, MergedAtoms, ActiveOutside, Held
<1>2. PICK low \in Means(source, target) :
        /\ contextMap' = Without([contextMap EXCEPT ![target].low = low, ![target].atoms = @ \cup A], C)
        /\ \E index \in Inserted(Unlisted(importanceIndex, {target}), target, low) :
             importanceIndex' = Unlisted(index, C)
  BY DEF MergeAndDelete
<1>3. ContextMapOk(contextMap) /\ A \subseteq ContextAtoms /\ low \in BOOLEAN
  BY <1>1, ContextMapFacts DEF ContextInv, Means
<1> HIDE DEF A, merged
<1> DEFINE n == MergedInto(target, low, A)
           m == Without(n, C)
<1>4. contextMap' = m
  BY <1>2 DEF MergedInto
<1>5. /\ DOMAIN n = DOMAIN contextMap
      /\ \A x \in DOMAIN n : /\ n[x] \in ContextRecords /\ n[x].type = contextMap[x].type
                            /\ n[x].atoms = contextMap[x].atoms \cup IF x = target THEN A ELSE {}
  BY <1>1, <1>3, MergedMap
<1> HIDE DEF n
<1>6. HoldsSame(merged, n)
  BY <1>1, <1>3, <1>5, AlsoInHolds DEF ContextInv, merged
<1>7. DOMAIN m = DOMAIN contextMap \ C /\ (\A x \in DOMAIN m : m[x] = n[x]) /\ m = [x \in DOMAIN m |-> m[x]]
  BY <1>5 DEF Without
<1> HIDE DEF m
<1>8. HoldsSame(atomContexts', m)
  <2> DEFINE at == [a \in {b \in DOMAIN merged : merged[b] # {source}} |-> merged[a] \ {source}]
  <2>1. /\ DOMAIN at = {b \in DOMAIN merged : merged[b] # {source}}
        /\ \A a \in DOMAIN at : at[a] = merged[a] \ {source}
    OBVIOUS
  <2>2. atomContexts' = at
    BY <1>1
  <2> HIDE DEF at
  <2>3. ASSUME NEW a \in DOMAIN at PROVE at[a] # {} /\ a \in ContextAtoms
    <3>1. merged[a] # {} /\ a \in ContextAtoms /\ merged[a] # {source}
      BY <1>6, <2>1 DEF HoldsSame
    <3>2. merged[a] \ {source} # {}
      BY <3>1
    <3> QED BY <2>1, <3>1, <3>2
  <2>4. ASSUME NEW a \in ContextAtoms PROVE ContextsWith(at, a) = {c \in DOMAIN m : a \in m[c].atoms}
    <3>1. ContextsWith(at, a) = ContextsWith(merged, a) \ {source}
      BY <2>1 DEF ContextsWith
    <3>2. ContextsWith(merged, a) = {c \in DOMAIN n : a \in n[c].atoms}
      BY <1>6 DEF HoldsSame
    <3> QED BY <1>5, <1>7, <3>1, <3>2
  <2> QED BY <2>2, <2>3, <2>4 DEF HoldsSame
<1>9. IndexesOnce(importanceIndex', DOMAIN m)
  <2>1. PICK r \in Inserted(Unlisted(importanceIndex, {target}), target, low) : importanceIndex' = Unlisted(r, C)
    BY <1>2
  <2>2. IndexesOnce(importanceIndex, Held) /\ target \in Held /\ DOMAIN m = Held \ C
    BY <1>1, <1>7 DEF ContextInv, Held
  <2>3. IndexesOnce(r, Held)
    BY <1>3, <2>1, <2>2, MovedIs
  <2> HIDE DEF C
  <2> QED BY <2>1, <2>2, <2>3, UnlistedIs
<1>10. typeIndex' = {<<m[x].type, x>> : x \in DOMAIN m}
  <2>1. typeIndex = {<<contextMap[x].type, x>> : x \in DOMAIN contextMap}
    BY DEF ContextInv, Held
  <2> QED BY <1>1, <1>5, <1>7, <2>1
<1>11. /\ DOMAIN m \subseteq ContextIds /\ activeId' \subseteq DOMAIN m
       /\ \A x \in DOMAIN m : m[x] \in ContextRecords
  BY <1>1, <1>5, <1>7 DEF ContextInv, ContextMapOk, Held
<1> QED BY <1>4, <1>7, <1>8, <1>9, <1>10, <1>11, ContextStep

LEMMA SetImportanceKeeps ==
  ASSUME ContextInv, NEW c \in ContextIds, NEW low \in BOOLEAN, SetContextImportance(c, low)
  PROVE  ContextInv'
<1> DEFINE m == [contextMap EXCEPT ![c].low = low]
<1>1. c \in Held /\ contextMap' = m /\ WithImportance(c, low) /\ UNCHANGED atomContexts
  BY DEF SetContextImportance
<1>2. /\ DOMAIN m = DOMAIN contextMap /\ m = [x \in DOMAIN m |-> m[x]]
      /\ \A x \in DOMAIN m : /\ m[x] \in ContextRecords /\ m[x].type = contextMap[x].type
                            /\ m[x].atoms = contextMap[x].atoms
  <2>1. DOMAIN m = DOMAIN contextMap /\ m = [x \in DOMAIN m |-> m[x]]
    OBVIOUS
  <2>2. ASSUME NEW x \in DOMAIN m
        PROVE  m[x] \in ContextRecords /\ m[x].type = contextMap[x].type /\ m[x].atoms = contextMap[x].atoms
    <3>1. contextMap[x] \in ContextRecords
      BY <2>1, ContextMapFacts DEF ContextInv
    <3>2. m[x] = IF x = c THEN [contextMap[x] EXCEPT !.low = low] ELSE contextMap[x]
      BY <2>1
    <3> HIDE DEF m
    <3> QED BY <3>1, <3>2 DEF ContextRecords
  <2> QED BY <2>1, <2>2
<1> HIDE DEF m
<1>3. HoldsSame(atomContexts, m)
  BY <1>2, SameAtoms DEF ContextInv
<1>4. IndexesOnce(importanceIndex', Held)
  <2>1. PICK r \in Inserted(Unlisted(importanceIndex, {c}), c, low) : r = importanceIndex'
    BY <1>1 DEF WithImportance
  <2>2. IndexesOnce(importanceIndex, Held)
    BY DEF ContextInv
  <2>3. IndexesOnce(r, Held)
    BY <1>1, <2>1, <2>2, MovedIs
  <2> QED BY <2>1, <2>3
<1>5. UNCHANGED typeIndex /\ activeId' \subseteq Held
  BY <1>1 DEF WithImportance, ContextInv
<1> QED BY <1>1, <1>2, <1>3, <1>4, <1>5, SameContexts

LEMMA DecayKeeps ==
  ASSUME ContextInv, NEW C \in SUBSET Held, DecayImportances(C)
  PROVE  ContextInv'
<1> DEFINE m == [c \in Held |-> IF c \in C THEN [contextMap[c] EXCEPT !.low = FALSE] ELSE contextMap[c]]
<1>1. /\ contextMap' = m /\ UNCHANGED <<typeIndex, atomContexts, activeId>>
      /\ \E s \in SetToSeqs(Held) : importanceIndex' = [i \in DOMAIN s |-> [id |-> s[i], low |-> contextMap'[s[i]].low]]
  BY DEF DecayImportances
<1>2. /\ DOMAIN m = DOMAIN contextMap /\ m = [x \in DOMAIN m |-> m[x]]
      /\ \A x \in DOMAIN m : /\ m[x] \in ContextRecords /\ m[x].type = contextMap[x].type
                            /\ m[x].atoms = contextMap[x].atoms
  <2>1. DOMAIN m = DOMAIN contextMap /\ m = [x \in DOMAIN m |-> m[x]]
    BY DEF Held
  <2>2. ASSUME NEW x \in DOMAIN m
        PROVE  m[x] \in ContextRecords /\ m[x].type = contextMap[x].type /\ m[x].atoms = contextMap[x].atoms
    <3>1. contextMap[x] \in ContextRecords
      BY <2>1, ContextMapFacts DEF ContextInv
    <3>2. m[x] = IF x \in C THEN [contextMap[x] EXCEPT !.low = FALSE] ELSE contextMap[x]
      BY <2>1
    <3> HIDE DEF m
    <3> QED BY <3>1, <3>2 DEF ContextRecords
  <2> QED BY <2>1, <2>2
<1> HIDE DEF m
<1>3. PICK s \in SetToSeqs(Held) : importanceIndex' = [i \in DOMAIN s |-> [id |-> s[i], low |-> m[s[i]].low]]
  BY <1>1
<1>4. IndexesOnce(importanceIndex', Held)
  <2> DEFINE n == Cardinality(Held)
             r == [i \in DOMAIN s |-> [id |-> s[i], low |-> m[s[i]].low]]
  <2>1. IsFiniteSet(Held) /\ n \in Nat
    BY OnceIsMany, FS_CardinalityType DEF ContextInv
  <2>2. s \in [1..n -> Held] /\ \A i, j \in 1..n : i # j => s[i] # s[j]
    BY DEF SetToSeqs
  <2>3. IsFiniteSet(1..n) /\ Cardinality(1..n) = n
    BY <2>1, FS_Interval
  <2> HIDE DEF n
  <2>4. s \in Injection(1..n, Held)
    BY <2>2 DEF Injection, IsInjective
  <2>5. s \in Surjection(1..n, Held)
    BY <2>1, <2>3, <2>4, FS_Injection DEF n
  <2>6. DOMAIN s = 1..n /\ \A c \in Held : \E i \in 1..n : s[i] = c
    BY <2>2, <2>5 DEF Surjection
  <2>7. ASSUME NEW i \in 1..n PROVE r[i] \in IndexEntries /\ r[i].id = s[i]
    <3>1. s[i] \in DOMAIN m /\ s[i] \in ContextIds
      BY <1>2, <2>2, ContextMapFacts DEF Held, ContextInv
    <3>2. m[s[i]].low \in BOOLEAN
      BY <1>2, <3>1 DEF ContextRecords
    <3> QED BY <2>6, <3>1, <3>2 DEF IndexEntries
  <2>8. r \in Seq(IndexEntries) /\ DOMAIN r = 1..n
    BY <2>1, <2>6, <2>7 DEF n
  <2>9. importanceIndex' = r
    BY <1>3
  <2> HIDE DEF r
  <2>10. {r[i].id : i \in DOMAIN r} = Held
    BY <2>2, <2>6, <2>7, <2>8
  <2>11. \A i, j \in DOMAIN r : r[i].id = r[j].id => i = j
    BY <2>2, <2>7, <2>8
  <2> QED BY <2>8, <2>9, <2>10, <2>11 DEF IndexesOnce
<1>5. HoldsSame(atomContexts, m)
  BY <1>2, SameAtoms DEF ContextInv
<1>6. activeId' \subseteq Held
  BY <1>1 DEF ContextInv
<1> QED BY <1>1, <1>2, <1>4, <1>5, <1>6, SameContexts

LEMMA ContextsInductive == ContextInv /\ [ContextNext]_contextVars => ContextInv'
<1> SUFFICES ASSUME ContextInv, [ContextNext]_contextVars PROVE ContextInv'
  OBVIOUS
<1>1. CASE UNCHANGED contextVars
  BY <1>1 DEF contextVars, ContextInv, Held
<1>2. ASSUME NEW c \in ContextIds, NEW type \in ContextTypes, NEW low \in BOOLEAN, CreateContext(c, type, low)
      PROVE  ContextInv'
  BY <1>2, CreateKeeps
<1>3. ASSUME NEW c \in ContextIds, DeleteContext(c) \/ ActivateContext(c)
      PROVE  ContextInv'
  BY <1>3, DeleteKeeps, ActivateKeeps
<1>4. ASSUME NEW c \in ContextIds, NEW a \in ContextAtoms, AddAtom(c, a) \/ RemoveAtoms(c, {a}) \/ RemoveAtoms(c, ContextAtoms)
      PROVE  ContextInv'
  <2> DEFINE A == {a}
  <2>1. AddAtom(c, a) \/ RemoveAtoms(c, A) \/ RemoveAtoms(c, ContextAtoms)
    BY <1>4
  <2> HIDE DEF A
  <2> QED BY <2>1, AddAtomKeeps, RemoveAtomsKeeps
<1>5. ASSUME NEW c \in ContextIds, RemoveAtoms(c, ContextAtoms) PROVE ContextInv'
  BY <1>5, RemoveAtomsKeeps
<1>6. ASSUME NEW c \in ContextIds, NEW low \in BOOLEAN, SetContextImportance(c, low) PROVE ContextInv'
  BY <1>6, SetImportanceKeeps
<1>7. ASSUME NEW c \in ContextIds, NEW d \in ContextIds, MergeContexts(c, d) \/ MergeAndDelete(c, d) PROVE ContextInv'
  BY <1>7, MergeKeeps, MergeAndDeleteKeeps
<1>8. ASSUME NEW C \in SUBSET Held, DecayImportances(C) PROVE ContextInv'
  BY <1>8, DecayKeeps
<1>9. CASE ClearActiveContext
  BY <1>9 DEF ClearActiveContext, ContextInv, Held
<1>10. CASE ClearAllContexts
  <2>1. /\ contextMap' = NoKeys /\ typeIndex' = {} /\ importanceIndex' = <<>> /\ atomContexts' = NoKeys
        /\ activeId' = {} /\ DOMAIN NoKeys = {} /\ Held' = {}
    BY <1>10 DEF ClearAllContexts, NoKeys, Held
  <2> QED BY <2>1 DEF ContextInv, ContextMapOk, IndexesOnce, HoldsSame, ContextsWith
<1> QED BY <1>1, <1>2, <1>3, <1>4, <1>5, <1>6, <1>7, <1>8, <1>9, <1>10 DEF ContextNext

LEMMA ContextInvSuffices == ContextInv => ContextsAgree
<1> SUFFICES ASSUME ContextInv PROVE ContextsAgree
  OBVIOUS
<1>1. Len(importanceIndex) = Cardinality(Held)
  BY OnceIsMany DEF ContextInv
<1>2. {e.id : e \in ToSet(importanceIndex)} = Held
  BY DEF ContextInv, IndexesOnce, ToSet
<1>3. {} \notin {atomContexts[a] : a \in DOMAIN atomContexts}
  BY DEF ContextInv, HoldsSame
<1>4. \A a \in ContextAtoms :
        (IF a \in DOMAIN atomContexts THEN atomContexts[a] ELSE {}) = {c \in Held : a \in contextMap[c].atoms}
  BY DEF ContextInv, HoldsSame, ContextsWith, Held
<1> QED BY <1>1, <1>2, <1>3, <1>4 DEF ContextsAgree, ContextInv

\* ContextManager files each context by type, by importance and by each of its atoms, and no
\* other, whatever is created, changed, merged, activated and removed: for any contexts.
THEOREM ContextsIndexed == ContextSpec => []ContextsAgree
<1> QED BY ContextsInitial, ContextsInductive, ContextInvSuffices, PTL DEF ContextSpec

(***************************************************************************)
(* The episodes and their indexes                                          *)
(***************************************************************************)
EpisodeRecords == [id : Nat \X Nat, at : Nat, context : EpisodeContexts]

\* The index of a set of episodes
TimeEntries(all) == {<<e.at, e.id>> : e \in all}
ContextEntries(all) == {<<e.context, e.id>> : e \in {f \in all : f.context # Contextless}}
ById(all) == [id \in {e.id : e \in all} |-> CHOOSE e \in all : e.id = id]
IndexOf(all) == [id |-> ById(all), time |-> SetToBag(TimeEntries(all)), context |-> SetToBag(ContextEntries(all))]

Distinct(all) == \A e, f \in all : e.id = f.id => e = f

\* In the order of the counter, which is at n
Chronological(s, n) ==
  /\ s \in Seq(EpisodeRecords)
  /\ \A i, j \in DOMAIN s : i < j => s[i].id[2] < s[j].id[2]
  /\ \A i \in DOMAIN s : s[i].id[2] < n

EpisodeInv ==
  /\ sequence \in Nat /\ episodeLimit \in Nat
  /\ Chronological(episodes, sequence)
  /\ episodeIndex = IndexOf(ToSet(episodes))
  /\ episodeLimit # 0 => Len(episodes) <= episodeLimit

LEMMA ChronologicalFacts ==
  ASSUME NEW s, NEW n \in Nat, Chronological(s, n)
  PROVE  /\ s \in Seq(EpisodeRecords) /\ Len(s) \in Nat /\ DOMAIN s = 1..Len(s)
         /\ \A i \in DOMAIN s : s[i] \in EpisodeRecords /\ s[i].id[2] \in Nat
         /\ \A i, j \in DOMAIN s : s[i].id = s[j].id => i = j
         /\ Distinct(ToSet(s))
<1>1. s \in Seq(EpisodeRecords) /\ Len(s) \in Nat /\ DOMAIN s = 1..Len(s)
  BY DEF Chronological
<1>2. ASSUME NEW i \in DOMAIN s PROVE s[i] \in EpisodeRecords /\ s[i].id[2] \in Nat
  <2>1. s[i] \in EpisodeRecords
    BY <1>1
  <2> QED BY <2>1 DEF EpisodeRecords
<1>3. ASSUME NEW i \in DOMAIN s, NEW j \in DOMAIN s, s[i].id = s[j].id PROVE i = j
  <2>1. s[i].id[2] = s[j].id[2] /\ s[i].id[2] \in Nat
    BY <1>2, <1>3
  <2>2. ~(i < j) /\ ~(j < i)
    BY <2>1 DEF Chronological
  <2> QED BY <1>1, <2>2
<1>4. Distinct(ToSet(s))
  <2> SUFFICES ASSUME NEW e \in ToSet(s), NEW f \in ToSet(s), e.id = f.id PROVE e = f
    BY DEF Distinct
  <2>1. PICK i \in DOMAIN s : e = s[i]
    BY DEF ToSet
  <2>2. PICK j \in DOMAIN s : f = s[j]
    BY DEF ToSet
  <2> QED BY <1>3, <2>1, <2>2
<1> QED BY <1>1, <1>2, <1>3, <1>4

LEMMA BagMore ==
  ASSUME NEW S, NEW x, x \notin S
  PROVE  SetToBag(S) (+) SetToBag({x}) = SetToBag(S \cup {x})
  BY DEF (+), SetToBag

LEMMA BagLess ==
  ASSUME NEW S, NEW x
  PROVE  SetToBag(S) (-) SetToBag({x}) = SetToBag(S \ {x})
  BY DEF (-), SetToBag

LEMMA BagSame ==
  ASSUME NEW S
  PROVE  SetToBag(S) (+) EmptyBag = SetToBag(S) /\ SetToBag(S) (-) EmptyBag = SetToBag(S)
  BY DEF (+), (-), SetToBag, EmptyBag

LEMMA AddedIs ==
  ASSUME NEW all, Distinct(all), NEW e, \A f \in all : f.id # e.id
  PROVE  Added(IndexOf(all), e) = IndexOf(all \cup {e}) /\ Distinct(all \cup {e})
<1> DEFINE b == all \cup {e}
<1>1. With(ById(all), e.id, e) = ById(b)
  <2>1. {f.id : f \in b} = {f.id : f \in all} \cup {e.id}
    OBVIOUS
  <2>2. (CHOOSE f \in b : f.id = e.id) = e
    <3>1. \A f \in b : f.id = e.id <=> f = e
      OBVIOUS
    <3> QED BY <3>1
  <2>3. ASSUME NEW i \in {f.id : f \in all} PROVE (CHOOSE f \in b : f.id = i) = CHOOSE f \in all : f.id = i
    <3>1. i # e.id
      OBVIOUS
    <3>2. \A f : (f \in b /\ f.id = i) <=> (f \in all /\ f.id = i)
      BY <3>1
    <3> QED BY <3>2
  <2> DEFINE I == {f.id : f \in all}
             J == {f.id : f \in b}
             F == [i \in I |-> CHOOSE f \in all : f.id = i]
             G == [i \in J |-> CHOOSE f \in b : f.id = i]
             x == e.id
  <2>4. F = ById(all) /\ G = ById(b)
    BY DEF ById
  <2>5. J = I \cup {x} /\ x \notin I /\ G[x] = e /\ (\A i \in I : G[i] = F[i])
    <3>1. J = I \cup {x} /\ x \notin I
      BY <2>1
    <3>2. G[x] = e
      BY <2>1, <2>2
    <3>3. ASSUME NEW i \in I PROVE G[i] = F[i]
      <4>1. i \in J
        BY <2>1
      <4>2. (CHOOSE f \in b : f.id = i) = CHOOSE f \in all : f.id = i
        BY <2>3
      <4>3. G[i] = (CHOOSE f \in b : f.id = i) /\ F[i] = CHOOSE f \in all : f.id = i
        BY <4>1
      <4> QED BY <4>2, <4>3
    <3> QED BY <3>1, <3>2, <3>3
  <2>6. DOMAIN F = I /\ G = [i \in J |-> G[i]]
    OBVIOUS
  <2>7. With(F, x, e) = G
    <3> HIDE DEF I, J, F, G, x
    <3>1. With(F, x, e) = [i \in J |-> IF i = x THEN e ELSE F[i]]
      BY <2>5, <2>6 DEF With
    <3>2. \A i \in J : (IF i = x THEN e ELSE F[i]) = G[i]
      BY <2>5
    <3> QED BY <2>6, <3>1, <3>2
  <2> QED BY <2>4, <2>7
<1>2. SetToBag(TimeEntries(all)) (+) SetToBag({<<e.at, e.id>>}) = SetToBag(TimeEntries(b))
  <2>1. TimeEntries(b) = TimeEntries(all) \cup {<<e.at, e.id>>} /\ <<e.at, e.id>> \notin TimeEntries(all)
    BY DEF TimeEntries
  <2> QED BY <2>1, BagMore
<1>3. SetToBag(ContextEntries(all)) (+) ContextEntry(e) = SetToBag(ContextEntries(b))
  <2>1. CASE e.context = Contextless
    <3>1. ContextEntries(b) = ContextEntries(all)
      BY <2>1 DEF ContextEntries
    <3> QED BY <2>1, <3>1, BagSame DEF ContextEntry
  <2>2. CASE e.context # Contextless
    <3>1. /\ ContextEntries(b) = ContextEntries(all) \cup {<<e.context, e.id>>}
          /\ <<e.context, e.id>> \notin ContextEntries(all)
      BY <2>2 DEF ContextEntries
    <3>2. ContextEntry(e) = SetToBag({<<e.context, e.id>>})
      BY <2>2 DEF ContextEntry
    <3> QED BY <3>1, <3>2, BagMore
  <2> QED BY <2>1, <2>2
<1>4. Added(IndexOf(all), e) = IndexOf(b)
  BY <1>1, <1>2, <1>3 DEF Added, IndexOf
<1>5. Distinct(b)
  BY DEF Distinct
<1> QED BY <1>4, <1>5

LEMMA RemovedIs ==
  ASSUME NEW all, Distinct(all), NEW e \in all
  PROVE  Removed(IndexOf(all), e) = IndexOf(all \ {e})
<1> DEFINE b == all \ {e}
<1>1. Without(ById(all), {e.id}) = ById(b)
  <2>1. {f.id : f \in b} = {f.id : f \in all} \ {e.id}
    BY DEF Distinct
  <2>2. ASSUME NEW i \in {f.id : f \in b} PROVE (CHOOSE f \in b : f.id = i) = CHOOSE f \in all : f.id = i
    <3>1. i # e.id
      BY <2>1
    <3>2. \A f : (f \in b /\ f.id = i) <=> (f \in all /\ f.id = i)
      BY <3>1
    <3> QED BY <3>2
  <2> HIDE DEF b
  <2> QED BY <2>1, <2>2 DEF Without, ById
<1>2. SetToBag(TimeEntries(all)) (-) SetToBag({<<e.at, e.id>>}) = SetToBag(TimeEntries(b))
  <2>1. TimeEntries(b) = TimeEntries(all) \ {<<e.at, e.id>>}
    BY DEF TimeEntries, Distinct
  <2> QED BY <2>1, BagLess
<1>3. SetToBag(ContextEntries(all)) (-) ContextEntry(e) = SetToBag(ContextEntries(b))
  <2>1. CASE e.context = Contextless
    <3>1. ContextEntries(b) = ContextEntries(all)
      BY <2>1 DEF ContextEntries
    <3> QED BY <2>1, <3>1, BagSame DEF ContextEntry
  <2>2. CASE e.context # Contextless
    <3>1. ContextEntries(b) = ContextEntries(all) \ {<<e.context, e.id>>}
      BY <2>2 DEF ContextEntries, Distinct
    <3>2. ContextEntry(e) = SetToBag({<<e.context, e.id>>})
      BY <2>2 DEF ContextEntry
    <3> QED BY <3>1, <3>2, BagLess
  <2> QED BY <2>1, <2>2
<1> QED BY <1>1, <1>2, <1>3 DEF Removed, IndexOf

\* Episodes that leave, others staying in their order
LEMMA FewerInOrder ==
  ASSUME NEW s, NEW n \in Nat, Chronological(s, n), NEW r \in Seq(EpisodeRecords), NEW I, I \subseteq DOMAIN s, Picks(r, s, I)
  PROVE  Chronological(r, n)
<1>1. PICK f \in [DOMAIN r -> I] :
        /\ \A k \in DOMAIN r : r[k] = s[f[k]]
        /\ \A j, k \in DOMAIN r : j < k => f[j] < f[k]
  BY DEF Picks
<1> QED BY <1>1 DEF Chronological

LEMMA FirstLeaves ==
  ASSUME NEW s, NEW n \in Nat, Chronological(s, n), s # <<>>
  PROVE  /\ Chronological(Tail(s), n) /\ ToSet(Tail(s)) = ToSet(s) \ {Head(s)} /\ Len(Tail(s)) = Len(s) - 1
         /\ Head(s) \in ToSet(s)
<1>1. /\ s \in Seq(EpisodeRecords) /\ Len(s) \in Nat /\ DOMAIN s = 1..Len(s) /\ Len(s) # 0
      /\ \A i, j \in DOMAIN s : s[i].id = s[j].id => i = j
  BY ChronologicalFacts
<1> DEFINE t == Tail(s)
<1>2. /\ t \in Seq(EpisodeRecords) /\ Len(t) = Len(s) - 1 /\ DOMAIN t = 1..Len(s) - 1 /\ Head(s) = s[1]
      /\ \A i \in 1..Len(s) - 1 : t[i] = s[i + 1]
  BY <1>1
<1> HIDE DEF t
<1>3. \A i \in DOMAIN t : i + 1 \in DOMAIN s /\ i + 1 # 1 /\ t[i] = s[i + 1]
  BY <1>1, <1>2
<1>4. Chronological(t, n)
  BY <1>1, <1>2, <1>3 DEF Chronological
<1>5. ToSet(t) = ToSet(s) \ {s[1]}
  <2>1. \A i \in DOMAIN t : t[i] \in ToSet(s) \ {s[1]}
    BY <1>1, <1>3 DEF ToSet
  <2>2. ASSUME NEW e \in ToSet(s) \ {s[1]} PROVE e \in ToSet(t)
    <3>1. PICK i \in DOMAIN s : e = s[i]
      BY DEF ToSet
    <3>2. i - 1 \in DOMAIN t /\ t[i - 1] = s[i]
      BY <1>1, <1>2, <3>1
    <3> QED BY <3>1, <3>2 DEF ToSet
  <2> QED BY <2>1, <2>2 DEF ToSet
<1>6. s[1] \in ToSet(s)
  BY <1>1 DEF ToSet
<1> QED BY <1>2, <1>4, <1>5, <1>6 DEF t

LEMMA StoreKeeps ==
  ASSUME EpisodeInv, NEW now \in Instants, NEW at \in Instants, NEW c \in EpisodeContexts, StoreEpisode(now, at, c)
  PROVE  EpisodeInv'
<1> DEFINE e == [id |-> <<now, sequence>>, at |-> at, context |-> c]
           all == Append(episodes, e)
           ix == Added(episodeIndex, e)
<1>1. /\ sequence' = sequence + 1 /\ episodeLimit' = episodeLimit
      /\ IF episodeLimit = 0 \/ Len(all) <= episodeLimit
         THEN episodes' = all /\ episodeIndex' = ix
         ELSE episodes' = Tail(all) /\ episodeIndex' = Removed(ix, ix.id[Head(all).id])
  BY DEF StoreEpisode
<1>2. /\ sequence \in Nat /\ sequence + 1 \in Nat /\ episodeLimit \in Nat /\ Chronological(episodes, sequence)
      /\ episodeIndex = IndexOf(ToSet(episodes)) /\ (episodeLimit # 0 => Len(episodes) <= episodeLimit)
  BY DEF EpisodeInv
<1>3. e \in EpisodeRecords /\ e.id[2] = sequence
  BY <1>2, EpisodeAssumption DEF EpisodeRecords
<1> HIDE DEF e
<1>4. /\ episodes \in Seq(EpisodeRecords) /\ Len(episodes) \in Nat /\ DOMAIN episodes = 1..Len(episodes)
      /\ \A i \in DOMAIN episodes : episodes[i].id[2] \in Nat
      /\ Distinct(ToSet(episodes))
  BY <1>2, ChronologicalFacts
<1>5. /\ all \in Seq(EpisodeRecords) /\ Len(all) = Len(episodes) + 1 /\ DOMAIN all = 1..Len(episodes) + 1
      /\ all[Len(episodes) + 1] = e /\ \A i \in 1..Len(episodes) : all[i] = episodes[i]
  BY <1>3, <1>4
<1>6. ToSet(all) = ToSet(episodes) \cup {e}
  BY <1>3, <1>4, AppendElements
<1> HIDE DEF all
<1>7. Chronological(all, sequence + 1)
  <2>1. ASSUME NEW i \in DOMAIN all PROVE all[i].id[2] < sequence + 1 /\ (i # Len(episodes) + 1 => all[i].id[2] < sequence)
    BY <1>2, <1>3, <1>4, <1>5 DEF Chronological
  <2>2. ASSUME NEW i \in DOMAIN all, NEW j \in DOMAIN all, i < j PROVE all[i].id[2] < all[j].id[2]
    <3>1. i \in 1..Len(episodes) /\ all[i] = episodes[i]
      BY <1>4, <1>5, <2>2
    <3>2. CASE j = Len(episodes) + 1
      BY <1>3, <1>5, <2>1, <3>1, <3>2, <1>4
    <3>3. CASE j # Len(episodes) + 1
      <4>1. j \in DOMAIN episodes /\ all[j] = episodes[j]
        BY <1>4, <1>5, <3>3
      <4> QED BY <1>2, <1>4, <2>2, <3>1, <4>1 DEF Chronological
    <3> QED BY <3>2, <3>3
  <2> QED BY <1>5, <2>1, <2>2 DEF Chronological
<1>8. ix = IndexOf(ToSet(all))
  <2>1. ASSUME NEW f \in ToSet(episodes) PROVE f.id # e.id
    <3>1. PICK i \in DOMAIN episodes : f = episodes[i]
      BY DEF ToSet
    <3>2. f.id[2] \in Nat /\ f.id[2] < sequence
      BY <1>2, <1>4, <3>1 DEF Chronological
    <3> QED BY <1>2, <1>3, <3>2
  <2> QED BY <1>2, <1>4, <1>6, <2>1, AddedIs
<1> HIDE DEF ix
<1>9. CASE episodeLimit = 0 \/ Len(all) <= episodeLimit
  BY <1>1, <1>2, <1>7, <1>8, <1>9 DEF EpisodeInv
<1>10. CASE ~(episodeLimit = 0 \/ Len(all) <= episodeLimit)
  <2>1. episodes' = Tail(all) /\ episodeIndex' = Removed(ix, ix.id[Head(all).id])
    BY <1>1, <1>10
  <2>2. all # <<>>
    BY <1>4, <1>5
  <2>3. /\ Chronological(Tail(all), sequence + 1) /\ ToSet(Tail(all)) = ToSet(all) \ {Head(all)}
        /\ Len(Tail(all)) = Len(all) - 1 /\ Head(all) \in ToSet(all)
    BY <1>2, <1>7, <2>2, FirstLeaves
  <2>4. Distinct(ToSet(all))
    BY <1>2, <1>7, ChronologicalFacts
  <2>5. ix.id[Head(all).id] = Head(all)
    <3>1. ix.id = ById(ToSet(all))
      BY <1>8 DEF IndexOf
    <3>2. \A f \in ToSet(all) : f.id = Head(all).id <=> f = Head(all)
      BY <2>3, <2>4 DEF Distinct
    <3> QED BY <2>3, <3>1, <3>2 DEF ById
  <2>6. episodeIndex' = IndexOf(ToSet(episodes'))
    BY <1>8, <2>1, <2>3, <2>4, <2>5, RemovedIs
  <2>7. Len(episodes') <= episodeLimit
    BY <1>2, <1>4, <1>5, <1>10, <2>1, <2>3
  <2> QED BY <1>1, <1>2, <2>1, <2>3, <2>6, <2>7 DEF EpisodeInv
<1> QED BY <1>9, <1>10

LEMMA RemoveKeeps ==
  ASSUME EpisodeInv, NEW id \in DOMAIN episodeIndex.id, RemoveEpisode(id)
  PROVE  EpisodeInv'
<1> DEFINE all == ToSet(episodes)
           I == {i \in 1..Len(episodes) : episodes[i].id = id}
<1>1. /\ sequence \in Nat /\ episodeLimit \in Nat /\ Chronological(episodes, sequence)
      /\ episodeIndex = IndexOf(all) /\ (episodeLimit # 0 => Len(episodes) <= episodeLimit)
  BY DEF EpisodeInv
<1>2. /\ episodes \in Seq(EpisodeRecords) /\ Len(episodes) \in Nat /\ DOMAIN episodes = 1..Len(episodes)
      /\ Distinct(all) /\ \A i, j \in DOMAIN episodes : episodes[i].id = episodes[j].id => i = j
  BY <1>1, ChronologicalFacts
<1>3. PICK m \in DOMAIN episodes : episodes[m].id = id
  BY <1>1 DEF IndexOf, ById, ToSet
<1>4. I = {m}
  BY <1>2, <1>3
<1>5. SelectInSeq(episodes, LAMBDA e : e.id = id) = m
  <2>1. m \in Nat
    BY <1>2
  <2>2. Min({m}) = m
    BY <2>1 DEF Min
  <2> QED BY <1>4, <2>2 DEF SelectInSeq
<1>6. m # 0
  BY <1>2
<1>7. episodes' = RemoveAt(episodes, m) /\ episodeIndex' = Removed(episodeIndex, episodeIndex.id[id])
  BY <1>5, <1>6 DEF RemoveEpisode
<1>8. episodes' \in Seq(EpisodeRecords) /\ Picks(episodes', episodes, DOMAIN episodes \ {m})
  BY <1>2, <1>7, RemoveAtIs
<1>9. Chronological(episodes', sequence)
  BY <1>1, <1>8, FewerInOrder
<1>10. ToSet(episodes') = all \ {episodes[m]}
  <2> DEFINE J == DOMAIN episodes \ {m}
  <2>1. PICK r : r = episodes'
    OBVIOUS
  <2>2. J \subseteq DOMAIN episodes /\ Picks(r, episodes, J) /\ r \in Seq(EpisodeRecords)
    BY <1>8, <2>1
  <2>3. {episodes[i] : i \in J} = all \ {episodes[m]}
    BY <1>2 DEF ToSet
  <2> HIDE DEF J
  <2>4. Len(r) \in Nat /\ DOMAIN r = 1..Len(r)
    BY <2>2
  <2>5. ToSet(r) = {episodes[i] : i \in J}
    BY <1>2, <2>2, <2>4, PicksElements
  <2> QED BY <2>1, <2>3, <2>5
<1>11. episodeIndex.id[id] = episodes[m]
  <2>1. episodeIndex.id = ById(all)
    BY <1>1 DEF IndexOf
  <2>2. episodes[m] \in all /\ \A f \in all : f.id = id <=> f = episodes[m]
    BY <1>2, <1>3 DEF Distinct, ToSet
  <2> HIDE DEF all
  <2> QED BY <1>3, <2>1, <2>2 DEF ById
<1>12. episodeIndex' = IndexOf(ToSet(episodes'))
  <2>1. episodes[m] \in all
    BY DEF ToSet
  <2> HIDE DEF all
  <2> QED BY <1>1, <1>2, <1>7, <1>10, <1>11, <2>1, RemovedIs
<1>13. Len(episodes') <= Len(episodes)
  <2>1. episodes' = SubSeq(episodes, 1, m - 1) \o SubSeq(episodes, m + 1, Len(episodes))
    BY <1>7 DEF RemoveAt
  <2>2. Len(SubSeq(episodes, 1, m - 1)) = m - 1 /\ Len(SubSeq(episodes, m + 1, Len(episodes))) = Len(episodes) - m
    BY <1>2
  <2>3. SubSeq(episodes, 1, m - 1) \in Seq(EpisodeRecords) /\ SubSeq(episodes, m + 1, Len(episodes)) \in Seq(EpisodeRecords)
    BY <1>2
  <2>4. Len(episodes') = m - 1 + (Len(episodes) - m)
    BY <2>1, <2>2, <2>3, ConcatProperties
  <2> QED BY <1>2, <2>4
<1>14. sequence' = sequence /\ episodeLimit' = episodeLimit
  BY DEF RemoveEpisode
<1>15. Len(episodes') \in Nat
  BY <1>8
<1> QED BY <1>1, <1>2, <1>9, <1>12, <1>13, <1>14, <1>15 DEF EpisodeInv

LEMMA NoEpisodes ==
  ASSUME NEW n \in Nat
  PROVE  Chronological(<<>>, n) /\ NoIndexes = IndexOf(ToSet(<<>>)) /\ Len(<<>>) = 0
<1>1. ToSet(<<>>) = {}
  BY DEF ToSet
<1>2. ById({}) = NoKeys
  BY DEF ById, NoKeys
<1>3. TimeEntries({}) = {} /\ ContextEntries({}) = {}
  BY DEF TimeEntries, ContextEntries
<1>4. EmptyBag = SetToBag({})
  BY DEF EmptyBag
<1>5. NoIndexes = IndexOf({})
  BY <1>2, <1>3, <1>4 DEF NoIndexes, IndexOf
<1>6. Chronological(<<>>, n)
  BY DEF Chronological
<1> QED BY <1>1, <1>5, <1>6

LEMMA EpisodesInitial == EpisodeInit => EpisodeInv
<1> SUFFICES ASSUME EpisodeInit PROVE EpisodeInv
  OBVIOUS
<1>1. episodeLimit \in Nat /\ episodes = <<>> /\ sequence = 0 /\ episodeIndex = NoIndexes
  BY EpisodeAssumption DEF EpisodeInit
<1>2. Chronological(<<>>, 0) /\ NoIndexes = IndexOf(ToSet(<<>>)) /\ Len(<<>>) = 0
  BY NoEpisodes
<1> QED BY <1>1, <1>2 DEF EpisodeInv

LEMMA EpisodesInductive == EpisodeInv /\ [EpisodeNext]_episodeVars => EpisodeInv'
<1> SUFFICES ASSUME EpisodeInv, [EpisodeNext]_episodeVars PROVE EpisodeInv'
  OBVIOUS
<1>1. CASE UNCHANGED episodeVars
  BY <1>1 DEF episodeVars, EpisodeInv
<1>2. ASSUME NEW now \in Instants, NEW at \in Instants, NEW c \in EpisodeContexts, StoreEpisode(now, at, c)
      PROVE  EpisodeInv'
  BY <1>2, StoreKeeps
<1>3. ASSUME NEW id \in DOMAIN episodeIndex.id, RemoveEpisode(id) PROVE EpisodeInv'
  BY <1>3, RemoveKeeps
<1>4. ASSUME NEW counter \in {0, sequence}, ClearEpisodes(counter) PROVE EpisodeInv'
  <2>1. /\ episodes' = <<>> /\ episodeIndex' = NoIndexes /\ sequence' = counter /\ episodeLimit' = episodeLimit
        /\ counter \in Nat /\ episodeLimit \in Nat
    BY <1>4 DEF ClearEpisodes, EpisodeInv
  <2>2. Chronological(<<>>, counter) /\ NoIndexes = IndexOf(ToSet(<<>>)) /\ Len(<<>>) = 0
    BY <2>1, NoEpisodes
  <2> QED BY <2>1, <2>2 DEF EpisodeInv
<1> QED BY <1>1, <1>2, <1>3, <1>4 DEF EpisodeNext

LEMMA EpisodeInvSuffices == EpisodeInv => EpisodesAgree
<1> SUFFICES ASSUME EpisodeInv PROVE EpisodesAgree
  OBVIOUS
<1>1. \A i, j \in DOMAIN episodes : episodes[i].id = episodes[j].id => i = j
  BY ChronologicalFacts DEF EpisodeInv
<1>2. IsInjective([i \in DOMAIN episodes |-> episodes[i].id])
  BY <1>1 DEF IsInjective
<1>3. /\ episodeIndex.id = [id \in {e.id : e \in ToSet(episodes)} |-> CHOOSE e \in ToSet(episodes) : e.id = id]
      /\ episodeIndex.time = SetToBag({<<e.at, e.id>> : e \in ToSet(episodes)})
      /\ episodeIndex.context = SetToBag({<<e.context, e.id>> : e \in {f \in ToSet(episodes) : f.context # Contextless}})
  BY DEF EpisodeInv, IndexOf, ById, TimeEntries, ContextEntries
<1> QED BY <1>2, <1>3 DEF EpisodesAgree, EpisodeInv, Chronological

\* EpisodicMemory finds its episodes by id, by time and by context, each once, in the order of
\* its counter and within its limit, although clocks go back and the counter starts anew.
THEOREM EpisodesIndexed == EpisodeSpec => []EpisodesAgree
<1> QED BY EpisodesInitial, EpisodesInductive, EpisodeInvSuffices, PTL DEF EpisodeSpec

(***************************************************************************)
(* The experiences and their indexes                                       *)
(***************************************************************************)
ExperienceRecords ==
  [type : ExperienceTypes, context : ExperienceContexts, at : Nat, importance : Weights]

\* What a vector is indexed by
Ids(s) == [i \in DOMAIN s |-> Id(s[i])]
TypesOf(s) == [i \in DOMAIN s |-> s[i].type]
ContextsOf(s) == [i \in DOMAIN s |-> s[i].context]

\* f has the last position of each key
LastOf(f, ks) ==
  /\ DOMAIN f = {ks[i] : i \in DOMAIN ks}
  /\ \A k \in DOMAIN f : f[k] \in DOMAIN ks /\ ks[f[k]] = k
  /\ \A i \in DOMAIN ks : f[ks[i]] >= i

\* f has the positions of each key but none, each once
AllOf(f, ks, none) ==
  /\ DOMAIN f = {ks[i] : i \in DOMAIN ks} \ none
  /\ \A k \in DOMAIN f : f[k] \in Seq(DOMAIN ks) /\ ToSet(f[k]) = {i \in DOMAIN ks : ks[i] = k} /\ Unrepeated(f[k])

WellIndexed(s, byId, byType, byContext) ==
  /\ LastOf(byId, Ids(s))
  /\ AllOf(byType, TypesOf(s), {})
  /\ AllOf(byContext, ContextsOf(s), {NoContext})

ExperienceInv ==
  /\ experiences \in Seq(ExperienceRecords) /\ experienceTime \in Nat
  /\ WellIndexed(experiences, experienceIndex, ofType, inContext)

\* A finite set of numbers has a greatest one
LEMMA MaxIs ==
  ASSUME NEW n \in Nat, NEW I, I \subseteq 1..n, I # {}
  PROVE  Max(I) \in I /\ \A i \in I : Max(I) >= i
<1> DEFINE J == {n - i : i \in I}
<1>1. J \subseteq Nat /\ J # {}
  OBVIOUS
<1> HIDE DEF J
<1>2. PICK k \in J : \A j \in J : k <= j
  BY <1>1, LeastNumber
<1> USE DEF J
<1>3. PICK m \in I : k = n - m
  BY <1>2
<1>4. ASSUME NEW i \in I PROVE m >= i
  <2>1. n - i \in J
    OBVIOUS
  <2>2. k <= n - i
    BY <1>2, <2>1
  <2> QED BY <1>3, <2>2
<1>5. \E m1 \in I : \A i \in I : m1 >= i
  BY <1>4
<1> QED BY <1>5 DEF Max

\* One more key at the end
LEMMA LastOfMore ==
  ASSUME NEW n \in Nat, NEW f, NEW ks, DOMAIN ks = 1..n, LastOf(f, ks),
         NEW ls, DOMAIN ls = 1..n + 1, \A i \in 1..n : ls[i] = ks[i],
         NEW k, ls[n + 1] = k
  PROVE  LastOf(With(f, k, n + 1), ls)
<1> DEFINE g == With(f, k, n + 1)
<1>1. DOMAIN g = DOMAIN f \cup {k} /\ g[k] = n + 1 /\ \A x \in DOMAIN f : x # k => g[x] = f[x]
  BY DEF With
<1> HIDE DEF g
<1>2. DOMAIN g = {ls[i] : i \in DOMAIN ls}
  BY <1>1 DEF LastOf
<1>3. ASSUME NEW x \in DOMAIN g PROVE g[x] \in DOMAIN ls /\ ls[g[x]] = x
  BY <1>1 DEF LastOf
<1>4. ASSUME NEW i \in DOMAIN ls PROVE g[ls[i]] >= i
  <2>1. CASE ls[i] = k
    BY <1>1, <2>1
  <2>2. CASE ls[i] # k
    <3>1. i \in 1..n /\ ls[i] = ks[i]
      BY <2>2
    <3> QED BY <1>1, <2>2, <3>1 DEF LastOf
  <2> QED BY <2>1, <2>2
<1> QED BY <1>2, <1>3, <1>4 DEF LastOf, g

LEMMA AllOfMore ==
  ASSUME NEW n \in Nat, NEW f, NEW ks, DOMAIN ks = 1..n, NEW none, AllOf(f, ks, none),
         NEW ls, DOMAIN ls = 1..n + 1, \A i \in 1..n : ls[i] = ks[i],
         NEW k, ls[n + 1] = k
  PROVE  IF k \in none THEN AllOf(f, ls, none)
         ELSE AllOf(With(f, k, IF k \in DOMAIN f THEN Append(f[k], n + 1) ELSE <<n + 1>>), ls, none)
<1>0. ASSUME NEW x \in DOMAIN f, x # k
      PROVE  f[x] \in Seq(DOMAIN ls) /\ ToSet(f[x]) = {i \in DOMAIN ls : ls[i] = x} /\ Unrepeated(f[x])
  <2>1. f[x] \in Seq(DOMAIN ks) /\ ToSet(f[x]) = {i \in DOMAIN ks : ks[i] = x} /\ Unrepeated(f[x])
    BY DEF AllOf
  <2>2. {i \in DOMAIN ls : ls[i] = x} = {i \in DOMAIN ks : ks[i] = x} /\ DOMAIN ks \subseteq DOMAIN ls
    BY <1>0
  <2> QED BY <2>1, <2>2
<1>1. CASE k \in none
  <2>1. DOMAIN f = {ls[i] : i \in DOMAIN ls} \ none
    BY <1>1 DEF AllOf
  <2>2. k \notin DOMAIN f
    BY <1>1 DEF AllOf
  <2> QED BY <1>0, <1>1, <2>1, <2>2 DEF AllOf
<1>2. CASE k \notin none
  <2> DEFINE v == IF k \in DOMAIN f THEN Append(f[k], n + 1) ELSE <<n + 1>>
             g == With(f, k, v)
  <2>1. DOMAIN g = DOMAIN f \cup {k} /\ g[k] = v /\ \A x \in DOMAIN f : x # k => g[x] = f[x]
    BY DEF With
  <2>2. v \in Seq(DOMAIN ls) /\ ToSet(v) = {i \in DOMAIN ls : ls[i] = k} /\ Unrepeated(v)
    <3>1. CASE k \in DOMAIN f
      <4> DEFINE D == 1..n
                 E == 1..n + 1
                 m == n + 1
                 s == f[k]
      <4>1. s \in Seq(E) /\ ToSet(s) = {i \in D : ks[i] = k} /\ Unrepeated(s) /\ m \in E /\ m \notin ToSet(s)
        BY <3>1 DEF AllOf
      <4>2. {i \in D : ks[i] = k} \cup {m} = {i \in E : ls[i] = k}
        OBVIOUS
      <4> HIDE DEF D, E, m, s
      <4>3. Append(s, m) \in Seq(E) /\ ToSet(Append(s, m)) = ToSet(s) \cup {m} /\ Unrepeated(Append(s, m))
        BY <4>1, AppendElements
      <4>4. v = Append(s, m) /\ DOMAIN ls = E
        BY <3>1 DEF s, m, E
      <4> QED BY <4>1, <4>2, <4>3, <4>4
    <3>2. CASE k \notin DOMAIN f
      <4>1. {i \in DOMAIN ls : ls[i] = k} = {n + 1}
        BY <1>2, <3>2 DEF AllOf
      <4>2. v = <<n + 1>>
        BY <3>2
      <4>3. ToSet(<<n + 1>>) = {n + 1} /\ Unrepeated(<<n + 1>>) /\ <<n + 1>> \in Seq(1..n + 1)
        BY DEF ToSet, Unrepeated
      <4> QED BY <4>1, <4>2, <4>3
    <3> QED BY <3>1, <3>2
  <2> HIDE DEF v, g
  <2>3. DOMAIN g = {ls[i] : i \in DOMAIN ls} \ none
    BY <1>2, <2>1 DEF AllOf
  <2>4. ASSUME NEW x \in DOMAIN g
        PROVE  g[x] \in Seq(DOMAIN ls) /\ ToSet(g[x]) = {i \in DOMAIN ls : ls[i] = x} /\ Unrepeated(g[x])
    <3>1. CASE x = k
      BY <2>1, <2>2, <3>1
    <3>2. CASE x # k
      BY <1>0, <2>1, <3>2
    <3> QED BY <3>1, <3>2
  <2>5. AllOf(g, ls, none)
    BY <2>3, <2>4 DEF AllOf
  <2> QED BY <1>2, <2>5 DEF g, v
<1> QED BY <1>1, <1>2

\* The indexes made anew
LEMMA LastOfAnew ==
  ASSUME NEW n \in Nat, NEW ks, DOMAIN ks = 1..n, NEW f,
         f = [k \in {ks[i] : i \in 1..n} |-> Max({i \in 1..n : ks[i] = k})]
  PROVE  LastOf(f, ks)
<1>1. ASSUME NEW k \in {ks[i] : i \in 1..n}
      PROVE  f[k] \in {i \in 1..n : ks[i] = k} /\ \A i \in {j \in 1..n : ks[j] = k} : f[k] >= i
  <2> DEFINE I == {i \in 1..n : ks[i] = k}
  <2>1. I \subseteq 1..n /\ I # {} /\ f[k] = Max(I)
    OBVIOUS
  <2> HIDE DEF I
  <2>2. Max(I) \in I /\ \A i \in I : Max(I) >= i
    BY <2>1, MaxIs
  <2>3. f[k] \in I /\ \A i \in I : f[k] >= i
    BY <2>1, <2>2
  <2> QED BY <2>3 DEF I
<1> QED BY <1>1 DEF LastOf

LEMMA AllOfAnew ==
  ASSUME NEW n \in Nat, NEW ks, DOMAIN ks = 1..n, NEW none, NEW f,
         f = [k \in {ks[i] : i \in 1..n} \ none |-> Ascending({i \in 1..n : ks[i] = k})]
  PROVE  AllOf(f, ks, none)
<1>1. ASSUME NEW k \in DOMAIN f
      PROVE  f[k] \in Seq(DOMAIN ks) /\ ToSet(f[k]) = {i \in DOMAIN ks : ks[i] = k} /\ Unrepeated(f[k])
  <2> DEFINE I == {i \in 1..n : ks[i] = k}
             c == Cardinality(I)
             g == Ascending(I)
  <2>1. I \subseteq 1..n /\ f[k] = g
    OBVIOUS
  <2>2. c \in Nat /\ g \in [1..c -> I] /\ Rising(g, c) /\ \A i \in I : \E j \in 1..c : g[j] = i
    BY <2>1, AscendingIs
  <2>3. I = {i \in DOMAIN ks : ks[i] = k} /\ I \subseteq Nat
    OBVIOUS
  <2> HIDE DEF I, c, g
  <2>4. g \in Seq(I) /\ ToSet(g) = I
    BY <2>2 DEF ToSet
  <2>5. Unrepeated(g)
    <3> SUFFICES ASSUME NEW i \in 1..c, NEW j \in 1..c, g[i] = g[j] PROVE i = j
      BY <2>2 DEF Unrepeated
    <3>1. g[i] \in Nat /\ ~(g[i] < g[j]) /\ ~(g[j] < g[i])
      BY <2>2, <2>3
    <3>2. ~(i < j) /\ ~(j < i)
      BY <2>2, <3>1 DEF Rising
    <3> QED BY <2>2, <3>2
  <2>6. g \in Seq(DOMAIN ks)
    BY <2>1, <2>2, <2>4
  <2> QED BY <2>1, <2>3, <2>4, <2>5, <2>6
<1> QED BY <1>1 DEF AllOf

LEMMA ReindexIs ==
  ASSUME NEW all \in Seq(ExperienceRecords), Reindex(all)
  PROVE  WellIndexed(all, experienceIndex', ofType', inContext')
<1> DEFINE n == Len(all)
           ids == Ids(all)
           types == TypesOf(all)
           contexts == ContextsOf(all)
<1>1. n \in Nat /\ DOMAIN all = 1..n
  OBVIOUS
<1>2. DOMAIN ids = 1..n /\ DOMAIN types = 1..n /\ DOMAIN contexts = 1..n
  BY <1>1 DEF Ids, TypesOf, ContextsOf
<1>3. experienceIndex' = [k \in {ids[i] : i \in 1..n} |-> Max({i \in 1..n : ids[i] = k})]
  <2>1. {Id(x) : x \in ToSet(all)} = {ids[i] : i \in 1..n}
    BY <1>1 DEF ToSet, Ids
  <2>2. \A k : {i \in DOMAIN all : Id(all[i]) = k} = {i \in 1..n : ids[i] = k}
    BY <1>1 DEF Ids
  <2> QED BY <2>1, <2>2 DEF Reindex
<1>4. ofType' = [k \in {types[i] : i \in 1..n} \ {} |-> Ascending({i \in 1..n : types[i] = k})]
  <2>1. {x.type : x \in ToSet(all)} = {types[i] : i \in 1..n} \ {}
    BY <1>1 DEF ToSet, TypesOf
  <2>2. \A k : {i \in DOMAIN all : all[i].type = k} = {i \in 1..n : types[i] = k}
    BY <1>1 DEF TypesOf
  <2> QED BY <2>1, <2>2 DEF Reindex, Positions
<1>5. inContext' = [k \in {contexts[i] : i \in 1..n} \ {NoContext} |-> Ascending({i \in 1..n : contexts[i] = k})]
  <2>1. {x.context : x \in ToSet(all)} \ {NoContext} = {contexts[i] : i \in 1..n} \ {NoContext}
    BY <1>1 DEF ToSet, ContextsOf
  <2>2. \A k : {i \in DOMAIN all : all[i].context = k} = {i \in 1..n : contexts[i] = k}
    BY <1>1 DEF ContextsOf
  <2> QED BY <2>1, <2>2 DEF Reindex, Positions
<1> HIDE DEF n, ids, types, contexts
<1>6. PICK a : a = experienceIndex'
  OBVIOUS
<1>7. PICK b : b = ofType'
  OBVIOUS
<1>8. PICK c : c = inContext'
  OBVIOUS
<1>9. LastOf(a, ids)
  BY <1>1, <1>2, <1>3, <1>6, LastOfAnew
<1>10. AllOf(b, types, {})
  BY <1>1, <1>2, <1>4, <1>7, AllOfAnew
<1>11. AllOf(c, contexts, {NoContext})
  BY <1>1, <1>2, <1>5, <1>8, AllOfAnew
<1> QED BY <1>6, <1>7, <1>8, <1>9, <1>10, <1>11 DEF WellIndexed, ids, types, contexts

LEMMA IndexIs ==
  ASSUME NEW s \in Seq(ExperienceRecords), NEW x \in ExperienceRecords,
         WellIndexed(s, experienceIndex, ofType, inContext), Index(x, Len(Append(s, x)))
  PROVE  WellIndexed(Append(s, x), experienceIndex', ofType', inContext')
<1> DEFINE n == Len(s)
           m == n + 1
           r == Append(s, x)
           ids == Ids(r)
           types == TypesOf(r)
           contexts == ContextsOf(r)
<1>1. /\ n \in Nat /\ DOMAIN s = 1..n /\ DOMAIN r = 1..n + 1 /\ Len(r) = n + 1
      /\ r[n + 1] = x /\ \A i \in 1..n : r[i] = s[i]
  OBVIOUS
<1>2. /\ DOMAIN Ids(s) = 1..n /\ DOMAIN TypesOf(s) = 1..n /\ DOMAIN ContextsOf(s) = 1..n
      /\ DOMAIN ids = 1..n + 1 /\ DOMAIN types = 1..n + 1 /\ DOMAIN contexts = 1..n + 1
      /\ ids[n + 1] = Id(x) /\ types[n + 1] = x.type /\ contexts[n + 1] = x.context
      /\ \A i \in 1..n : ids[i] = Ids(s)[i]
      /\ \A i \in 1..n : types[i] = TypesOf(s)[i]
      /\ \A i \in 1..n : contexts[i] = ContextsOf(s)[i]
  <2> HIDE DEF r, n
  <2> QED BY <1>1 DEF Ids, TypesOf, ContextsOf
<1>3. /\ experienceIndex' = With(experienceIndex, Id(x), n + 1)
      /\ ofType' = With(ofType, x.type, IF x.type \in DOMAIN ofType THEN Append(ofType[x.type], n + 1) ELSE <<n + 1>>)
      /\ inContext' = IF x.context = NoContext THEN inContext
           ELSE With(inContext, x.context, IF x.context \in DOMAIN inContext THEN Append(inContext[x.context], n + 1) ELSE <<n + 1>>)
  BY <1>1 DEF Index
<1> HIDE DEF n, m, r, ids, types, contexts
<1>4. LastOf(With(experienceIndex, Id(x), n + 1), ids)
  <2>1. LastOf(experienceIndex, Ids(s))
    BY DEF WellIndexed
  <2> QED BY <1>1, <1>2, <2>1, LastOfMore
<1>5. AllOf(With(ofType, x.type, IF x.type \in DOMAIN ofType THEN Append(ofType[x.type], n + 1) ELSE <<n + 1>>), types, {})
  <2>1. AllOf(ofType, TypesOf(s), {})
    BY DEF WellIndexed
  <2>2. IF x.type \in {} THEN AllOf(ofType, types, {})
        ELSE AllOf(With(ofType, x.type, IF x.type \in DOMAIN ofType THEN Append(ofType[x.type], n + 1) ELSE <<n + 1>>), types, {})
    BY <1>1, <1>2, <2>1, AllOfMore
  <2> QED BY <2>2
<1>6. IF x.context \in {NoContext} THEN AllOf(inContext, contexts, {NoContext})
      ELSE AllOf(With(inContext, x.context, IF x.context \in DOMAIN inContext THEN Append(inContext[x.context], n + 1) ELSE <<n + 1>>), contexts, {NoContext})
  <2> DEFINE none == {NoContext}
             k == x.context
             ks == ContextsOf(s)
  <2>1. AllOf(inContext, ks, none)
    BY DEF WellIndexed
  <2>2. DOMAIN ks = 1..n /\ DOMAIN contexts = 1..n + 1 /\ contexts[n + 1] = k /\ \A i \in 1..n : contexts[i] = ks[i]
    BY <1>2
  <2> HIDE DEF none, k, ks
  <2>3. IF k \in none THEN AllOf(inContext, contexts, none)
        ELSE AllOf(With(inContext, k, IF k \in DOMAIN inContext THEN Append(inContext[k], n + 1) ELSE <<n + 1>>), contexts, none)
    BY <1>1, <2>1, <2>2, AllOfMore
  <2> QED BY <2>3 DEF none, k
<1>7. AllOf(inContext', contexts, {NoContext})
  <2>1. CASE x.context = NoContext
    <3>1. AllOf(inContext, contexts, {NoContext})
      BY <1>6, <2>1
    <3> QED BY <1>3, <2>1, <3>1
  <2>2. CASE x.context # NoContext
    <3>1. AllOf(With(inContext, x.context, IF x.context \in DOMAIN inContext THEN Append(inContext[x.context], n + 1) ELSE <<n + 1>>), contexts, {NoContext})
      BY <1>6, <2>2
    <3> QED BY <1>3, <2>2, <3>1
  <2> QED BY <2>1, <2>2
<1>8. LastOf(experienceIndex', ids) /\ AllOf(ofType', types, {})
  BY <1>3, <1>4, <1>5
<1> QED BY <1>7, <1>8 DEF WellIndexed, ids, types, contexts, r

\* Importance is no part of what is indexed
LEMMA SameKeys ==
  ASSUME NEW s, NEW r, DOMAIN r = DOMAIN s,
         \A i \in DOMAIN s : r[i].type = s[i].type /\ r[i].context = s[i].context /\ r[i].at = s[i].at
  PROVE  Ids(r) = Ids(s) /\ TypesOf(r) = TypesOf(s) /\ ContextsOf(r) = ContextsOf(s)
  BY DEF Ids, TypesOf, ContextsOf, Id

LEMMA RetainedIs ==
  ASSUME NEW all \in Seq(ExperienceRecords)
  PROVE  RetainedExperiences(all) \in Seq(ExperienceRecords)
<1> DEFINE Good(x) == x.importance >= ImportanceThreshold /\ experienceTime - x.at <= RetentionPeriod
           good == {i \in DOMAIN all : Good(all[i])}
           Lighter(i, j) == all[i].importance < all[j].importance \/ (all[i].importance = all[j].importance /\ i < j)
           kept == {i \in good : Cardinality({j \in good : Lighter(i, j)}) < maxExperiences}
<1>1. RetainedExperiences(all) = ElementsAt(all, kept)
  BY DEF RetainedExperiences
<1>2. kept \subseteq DOMAIN all
  OBVIOUS
<1> HIDE DEF kept
<1> QED BY <1>1, <1>2, ElementsAtIs

LEMMA RecordKeeps ==
  ASSUME ExperienceInv, NEW t \in ExperienceTypes, NEW c \in ExperienceContexts, NEW w \in Weights,
         RecordExperience(t, c, w)
  PROVE  ExperienceInv'
<1> DEFINE x == [type |-> t, context |-> c, at |-> experienceTime, importance |-> w]
           all == Append(experiences, x)
<1>1. experiences \in Seq(ExperienceRecords) /\ x \in ExperienceRecords /\ all \in Seq(ExperienceRecords)
  BY DEF ExperienceInv, ExperienceRecords
<1>2. experienceTime' \in Nat
  BY DEF ExperienceInv, RecordExperience
<1>3. CASE Len(all) > maxExperiences
  <2>1. experiences' = RetainedExperiences(all) /\ Reindex(experiences')
    BY <1>3 DEF RecordExperience
  <2>2. PICK s : s = experiences'
    OBVIOUS
  <2>3. s \in Seq(ExperienceRecords) /\ Reindex(s)
    BY <1>1, <2>1, <2>2, RetainedIs
  <2>4. WellIndexed(s, experienceIndex', ofType', inContext')
    BY <2>3, ReindexIs
  <2> QED BY <1>2, <2>2, <2>3, <2>4 DEF ExperienceInv
<1>4. CASE ~(Len(all) > maxExperiences)
  <2>1. experiences' = all /\ Index(x, Len(all))
    BY <1>4 DEF RecordExperience
  <2>2. WellIndexed(experiences, experienceIndex, ofType, inContext)
    BY DEF ExperienceInv
  <2>3. WellIndexed(all, experienceIndex', ofType', inContext')
    <3> HIDE DEF x
    <3> QED BY <1>1, <2>1, <2>2, IndexIs
  <2> QED BY <1>1, <1>2, <2>1, <2>3 DEF ExperienceInv
<1> QED BY <1>3, <1>4

LEMMA UpdateKeeps ==
  ASSUME ExperienceInv, NEW id \in DOMAIN experienceIndex, NEW w \in Weights, UpdateExperienceImportance(id, w)
  PROVE  ExperienceInv'
<1> DEFINE k == experienceIndex[id]
           s == experiences
           r == [s EXCEPT ![k].importance = w]
<1>1. /\ experiences' = r /\ experienceIndex' = experienceIndex /\ ofType' = ofType
      /\ inContext' = inContext /\ experienceTime' = experienceTime
  BY DEF UpdateExperienceImportance
<1>2. s \in Seq(ExperienceRecords) /\ k \in DOMAIN s
  BY DEF ExperienceInv, WellIndexed, LastOf, Ids
<1> HIDE DEF k
<1>3. DOMAIN r = DOMAIN s /\ \A i \in DOMAIN s : r[i] = IF i = k THEN [s[k] EXCEPT !.importance = w] ELSE s[i]
  BY <1>2
<1>4. \A i \in DOMAIN s : s[i] \in ExperienceRecords
  BY <1>2
<1> HIDE DEF r
<1>5. ASSUME NEW i \in DOMAIN s
      PROVE  /\ r[i] \in ExperienceRecords
             /\ r[i].type = s[i].type /\ r[i].context = s[i].context /\ r[i].at = s[i].at
  BY <1>3, <1>4 DEF ExperienceRecords
<1>6. r \in Seq(ExperienceRecords)
  <2>1. DOMAIN r = 1..Len(s) /\ Len(s) \in Nat /\ r = [i \in DOMAIN r |-> r[i]]
    BY <1>2, <1>3 DEF r
  <2> QED BY <1>3, <1>5, <2>1
<1>7. Ids(r) = Ids(s) /\ TypesOf(r) = TypesOf(s) /\ ContextsOf(r) = ContextsOf(s)
  BY <1>3, <1>5, SameKeys
<1>8. WellIndexed(r, experienceIndex, ofType, inContext)
  BY <1>7 DEF ExperienceInv, WellIndexed
<1> QED BY <1>1, <1>6, <1>8 DEF ExperienceInv

LEMMA ExperiencesInitial == ExperienceInit => ExperienceInv
<1> SUFFICES ASSUME ExperienceInit PROVE ExperienceInv
  OBVIOUS
<1>1. experiences = <<>> /\ experienceIndex = <<>> /\ ofType = <<>> /\ inContext = <<>> /\ experienceTime = 0
  BY DEF ExperienceInit
<1>2. LastOf(<<>>, Ids(<<>>)) /\ AllOf(<<>>, TypesOf(<<>>), {}) /\ AllOf(<<>>, ContextsOf(<<>>), {NoContext})
  BY DEF LastOf, AllOf, Ids, TypesOf, ContextsOf
<1> QED BY <1>1, <1>2 DEF ExperienceInv, WellIndexed

LEMMA ExperiencesInductive == ExperienceInv /\ [ExperienceNext]_experienceVars => ExperienceInv'
<1> SUFFICES ASSUME ExperienceInv, [ExperienceNext]_experienceVars PROVE ExperienceInv'
  OBVIOUS
<1>1. CASE UNCHANGED experienceVars
  BY <1>1 DEF experienceVars, ExperienceInv, WellIndexed
<1>2. ASSUME NEW t \in ExperienceTypes, NEW c \in ExperienceContexts, NEW w \in Weights, RecordExperience(t, c, w)
      PROVE  ExperienceInv'
  BY <1>2, RecordKeeps
<1>3. CASE ConsolidateMemory
  <2>1. experiences' = RetainedExperiences(experiences) /\ Reindex(experiences') /\ experienceTime' = experienceTime
    BY <1>3 DEF ConsolidateMemory
  <2>2. PICK s : s = experiences'
    OBVIOUS
  <2>3. s \in Seq(ExperienceRecords) /\ Reindex(s) /\ experienceTime \in Nat
    BY <2>1, <2>2, RetainedIs DEF ExperienceInv
  <2>4. WellIndexed(s, experienceIndex', ofType', inContext')
    BY <2>3, ReindexIs
  <2> QED BY <2>1, <2>2, <2>3, <2>4 DEF ExperienceInv
<1>4. CASE ClearAllExperiences
  <2>1. experiences' = <<>> /\ Reindex(<<>>) /\ experienceTime' = experienceTime /\ experienceTime \in Nat
    BY <1>4 DEF ClearAllExperiences, ExperienceInv
  <2>2. <<>> \in Seq(ExperienceRecords)
    OBVIOUS
  <2>3. WellIndexed(<<>>, experienceIndex', ofType', inContext')
    BY <2>1, <2>2, ReindexIs
  <2> QED BY <2>1, <2>2, <2>3 DEF ExperienceInv
<1>5. CASE TimePasses
  BY <1>5 DEF TimePasses, ExperienceInv, WellIndexed
<1>6. ASSUME NEW id \in DOMAIN experienceIndex, NEW w \in Weights, UpdateExperienceImportance(id, w)
      PROVE  ExperienceInv'
  BY <1>6, UpdateKeeps
<1>7. ASSUME NEW n \in ExperienceLimits, SetMaxExperiences(n) PROVE ExperienceInv'
  BY <1>7 DEF SetMaxExperiences, ExperienceInv, WellIndexed
<1> QED BY <1>1, <1>2, <1>3, <1>4, <1>5, <1>6, <1>7 DEF ExperienceNext

LEMMA ExperienceInvSuffices == ExperienceInv => ExperiencesAgree
<1> SUFFICES ASSUME ExperienceInv PROVE ExperiencesAgree
  OBVIOUS
<1>1. DOMAIN Ids(experiences) = DOMAIN experiences /\ DOMAIN TypesOf(experiences) = DOMAIN experiences /\ DOMAIN ContextsOf(experiences) = DOMAIN experiences
  BY DEF Ids, TypesOf, ContextsOf
<1>2. ASSUME NEW i \in DOMAIN experiences
      PROVE  /\ Ids(experiences)[i] = Id(experiences[i])
             /\ TypesOf(experiences)[i] = experiences[i].type
             /\ ContextsOf(experiences)[i] = experiences[i].context
  BY DEF Ids, TypesOf, ContextsOf
<1>3. /\ LastOf(experienceIndex, Ids(experiences)) /\ AllOf(ofType, TypesOf(experiences), {})
      /\ AllOf(inContext, ContextsOf(experiences), {NoContext})
  BY DEF ExperienceInv, WellIndexed
<1>4. \A id \in DOMAIN experienceIndex : experienceIndex[id] \in DOMAIN experiences /\ Id(experiences[experienceIndex[id]]) = id
  BY <1>1, <1>2, <1>3 DEF LastOf
<1>5. ASSUME NEW i \in DOMAIN experiences
      PROVE  /\ Id(experiences[i]) \in DOMAIN experienceIndex /\ experienceIndex[Id(experiences[i])] >= i
             /\ experiences[i].type \in DOMAIN ofType /\ i \in ToSet(ofType[experiences[i].type])
             /\ experiences[i].context # NoContext =>
                  experiences[i].context \in DOMAIN inContext /\ i \in ToSet(inContext[experiences[i].context])
  BY <1>1, <1>2, <1>3 DEF LastOf, AllOf
<1>6. ASSUME NEW t \in DOMAIN ofType
      PROVE  (\A i \in ToSet(ofType[t]) : i \in DOMAIN experiences /\ experiences[i].type = t) /\ IsInjective(ofType[t])
  BY <1>1, <1>2, <1>3 DEF AllOf, IsInjective, Unrepeated
<1>7. ASSUME NEW c \in DOMAIN inContext
      PROVE  (\A i \in ToSet(inContext[c]) : i \in DOMAIN experiences /\ experiences[i].context = c) /\ IsInjective(inContext[c])
  BY <1>1, <1>2, <1>3 DEF AllOf, IsInjective, Unrepeated
<1> QED BY <1>4, <1>5, <1>6, <1>7 DEF ExperiencesAgree

\* ExperienceManager's positions are those of what they say, although consolidation and limits
\* shift them and two experiences may have one id.
THEOREM ExperiencesIndexed == ExperienceSpec => []ExperiencesAgree
<1> QED BY ExperiencesInitial, ExperiencesInductive, ExperienceInvSuffices, PTL DEF ExperienceSpec

(***************************************************************************)
(* The forest of goals and its prerequisites                               *)
(***************************************************************************)
GoalRecords == [parent : SUBSET GoalAtoms, subgoals : Seq(GoalAtoms), dependencies : SUBSET GoalAtoms]

ParentsOf(forest) == [g \in DOMAIN forest |-> forest[g].parent]
SubgoalsOf(forest) == [g \in DOMAIN forest |-> forest[g].subgoals]

\* A list of goals, each once
Lists(s, S) == s \in Seq(GoalAtoms) /\ Unrepeated(s) /\ ToSet(s) = S

\* The goals V with these parents and subgoals are a forest with these roots
Whole(V, parent, subgoals, roots) ==
  /\ \A g \in V : parent[g] = {} \/ \E p \in V : parent[g] = {p}
  /\ \A g \in V : Lists(subgoals[g], {h \in V : parent[h] = {g}})
  /\ Lists(roots, {g \in V : parent[g] = {}})

Acyclic(V, R) == \A S \in SUBSET V : S # {} => \E g \in S : \A h \in S : <<g, h>> \notin R
EdgesUp(V, parent) == {e \in V \X V : e[2] \in parent[e[1]]}

GoalInv ==
  /\ GoalsIn \subseteq GoalAtoms
  /\ \A g \in GoalsIn : goalNodes[g] \in GoalRecords /\ goalNodes[g].dependencies \subseteq GoalsIn
  /\ Whole(GoalsIn, ParentsOf(goalNodes), SubgoalsOf(goalNodes), rootGoals)
  /\ Acyclic(GoalsIn, dependencyGraph \cup EdgesUp(GoalsIn, ParentsOf(goalNodes)))
  /\ GraphIsCurrent

\* Vectors of goals
LEMMA ListMore ==
  ASSUME NEW s, NEW S, Lists(s, S), NEW g \in GoalAtoms, g \notin S
  PROVE  Lists(Append(s, g), S \cup {g})
  BY AppendElements DEF Lists

LEMMA ListLess ==
  ASSUME NEW s, NEW S, Lists(s, S), NEW E
  PROVE  Lists(Dropping(s, E), S \ E)
  BY DroppingIs DEF Lists

LEMMA ListBoth ==
  ASSUME NEW s, NEW S, Lists(s, S), NEW t, NEW T, Lists(t, T), S \cap T = {}
  PROVE  Lists(s \o t, S \cup T)
  BY ConcatElements DEF Lists

(* Graphs without cycles *)

LEMMA FewerEdges ==
  ASSUME NEW V, NEW R, Acyclic(V, R), NEW W, W \subseteq V, NEW Q, \A g, h \in W : <<g, h>> \in Q => <<g, h>> \in R
  PROVE  Acyclic(W, Q)
<1> SUFFICES ASSUME NEW S \in SUBSET W, S # {} PROVE \E g \in S : \A h \in S : <<g, h>> \notin Q
  BY DEF Acyclic
<1>1. PICK g \in S : \A h \in S : <<g, h>> \notin R
  BY DEF Acyclic
<1> QED BY <1>1

\* One more, to which no edge leads
LEMMA NewSource ==
  ASSUME NEW V, NEW R, Acyclic(V, R), NEW x, x \notin V, NEW Q,
         \A g, h \in V : <<g, h>> \in Q => <<g, h>> \in R,
         \A g \in V \cup {x} : <<g, x>> \notin Q
  PROVE  Acyclic(V \cup {x}, Q)
<1> SUFFICES ASSUME NEW S \in SUBSET (V \cup {x}), S # {} PROVE \E g \in S : \A h \in S : <<g, h>> \notin Q
  BY DEF Acyclic
<1>1. CASE S \ {x} = {}
  BY <1>1
<1>2. CASE S \ {x} # {}
  <2>1. PICK g \in S \ {x} : \A h \in S \ {x} : <<g, h>> \notin R
    BY <1>2 DEF Acyclic
  <2> QED BY <2>1
<1> QED BY <1>1, <1>2

\* One more edge, from where its target does not lead
LEMMA NewEdge ==
  ASSUME NEW V, NEW R, Acyclic(V, R), NEW g \in V, NEW x \in V,
         NEW C, x \in C, g \notin C, \A e \in R : e[1] \in C => e[2] \in C
  PROVE  Acyclic(V, R \cup {<<g, x>>})
<1> SUFFICES ASSUME NEW S \in SUBSET V, S # {} PROVE \E a \in S : \A b \in S : <<a, b>> \notin R \cup {<<g, x>>}
  BY DEF Acyclic
<1>1. CASE S \cap C = {}
  <2>1. PICK a \in S : \A b \in S : <<a, b>> \notin R
    BY DEF Acyclic
  <2>2. x \notin S
    BY <1>1
  <2> QED BY <2>1, <2>2
<1>2. CASE S \cap C # {}
  <2>1. PICK a \in S \cap C : \A b \in S \cap C : <<a, b>> \notin R
    BY <1>2 DEF Acyclic
  <2>2. ASSUME NEW b \in S, <<a, b>> \in R PROVE FALSE
    <3>1. <<a, b>>[1] \in C => <<a, b>>[2] \in C
      BY <2>2
    <3> QED BY <2>1, <2>2, <3>1
  <2>3. a # g
    OBVIOUS
  <2> QED BY <2>2, <2>3
<1> QED BY <1>1, <1>2

\* One less, with edges past it
LEMMA Bypassed ==
  ASSUME NEW V, NEW R, Acyclic(V, R), NEW x \in V, NEW Q,
         \A g, h \in V \ {x} : <<g, h>> \in Q => <<g, h>> \in R \/ (<<g, x>> \in R /\ <<x, h>> \in R)
  PROVE  Acyclic(V \ {x}, Q)
<1> SUFFICES ASSUME NEW S \in SUBSET (V \ {x}), S # {} PROVE \E g \in S : \A h \in S : <<g, h>> \notin Q
  BY DEF Acyclic
<1>0. S \cup {x} \in SUBSET V /\ S \cup {x} # {}
  OBVIOUS
<1>1. PICK g \in S \cup {x} : \A h \in S \cup {x} : <<g, h>> \notin R
  BY <1>0 DEF Acyclic
<1>2. CASE g \in S
  BY <1>1, <1>2
<1>3. CASE g = x
  <2>1. PICK a \in S : \A h \in S : <<a, h>> \notin R
    BY DEF Acyclic
  <2> QED BY <1>1, <1>3, <2>1
<1> QED BY <1>2, <1>3

(* Forests *)

\* The parents and subgoals of W, when g is added below P
Grown(up, down, W, parent, subgoals, g, P) ==
  \A h \in W : /\ up[h] = (IF h = g THEN P ELSE parent[h])
               /\ down[h] = (IF h = g THEN <<>> ELSE IF h \in P THEN Append(subgoals[h], g) ELSE subgoals[h])

LEMMA WholeAdd ==
  ASSUME NEW V, V \subseteq GoalAtoms, NEW parent, NEW subgoals, NEW roots, Whole(V, parent, subgoals, roots),
         NEW g \in GoalAtoms, g \notin V, NEW W, W = V \cup {g}, NEW P, P = {} \/ \E p \in V : P = {p},
         NEW up, NEW down, Grown(up, down, W, parent, subgoals, g, P)
  PROVE  Whole(W, up, down, IF P = {} THEN Append(roots, g) ELSE roots)
<1> DEFINE rs == IF P = {} THEN Append(roots, g) ELSE roots
<1>0. \A h \in W : /\ up[h] = (IF h = g THEN P ELSE parent[h])
                  /\ down[h] = (IF h = g THEN <<>> ELSE IF h \in P THEN Append(subgoals[h], g) ELSE subgoals[h])
  BY DEF Grown
<1>1. \A h \in W : up[h] = {} \/ \E p \in W : up[h] = {p}
  BY <1>0 DEF Whole
<1>2. ASSUME NEW h \in W PROVE Lists(down[h], {x \in W : up[x] = {h}})
  <2>1. CASE h = g
    <3>0. ASSUME NEW x \in W, up[x] = {h} PROVE FALSE
      <4>1. h \in up[x]
        BY <3>0
      <4>2. \A p \in V : p # h
        BY <2>1
      <4> QED BY <1>0, <2>1, <4>1, <4>2 DEF Whole
    <3>1. down[h] = <<>> /\ {x \in W : up[x] = {h}} = {}
      BY <1>0, <2>1, <3>0
    <3>2. Lists(<<>>, {})
      BY DEF Lists, Unrepeated, ToSet
    <3> QED BY <2>1, <3>1, <3>2
  <2>2. CASE h # g /\ h \in P
    <3>1. P = {h} /\ h \in V
      BY <2>2
    <3>2. {x \in W : up[x] = {h}} = {x \in V : parent[x] = {h}} \cup {g}
      BY <1>0, <2>2, <3>1
    <3>3. Lists(subgoals[h], {x \in V : parent[x] = {h}}) /\ down[h] = Append(subgoals[h], g)
      BY <1>0, <2>2, <3>1 DEF Whole
    <3> QED BY <3>2, <3>3, ListMore
  <2>3. CASE h # g /\ h \notin P
    <3>1. {x \in W : up[x] = {h}} = {x \in V : parent[x] = {h}} /\ down[h] = subgoals[h]
      BY <1>0, <2>3
    <3> QED BY <2>3, <3>1 DEF Whole
  <2> QED BY <2>1, <2>2, <2>3
<1>3. Lists(rs, {h \in W : up[h] = {}})
  <2>1. Lists(roots, {h \in V : parent[h] = {}})
    BY DEF Whole
  <2>2. CASE P = {}
    <3>1. {h \in W : up[h] = {}} = {h \in V : parent[h] = {}} \cup {g}
      BY <1>0, <2>2
    <3> QED BY <2>1, <2>2, <3>1, ListMore
  <2>3. CASE P # {}
    <3>1. {h \in W : up[h] = {}} = {h \in V : parent[h] = {}}
      BY <1>0, <2>3
    <3> QED BY <2>1, <2>3, <3>1
  <2> QED BY <2>2, <2>3
<1> QED BY <1>1, <1>2, <1>3 DEF Whole

\* The same for W without G
CutTo(up, down, W, parent, subgoals, G) ==
  \A h \in W : up[h] = parent[h] /\ down[h] = Dropping(subgoals[h], G)

\* Without some and all below them
LEMMA WholeCut ==
  ASSUME NEW V, NEW parent, NEW subgoals, NEW roots, Whole(V, parent, subgoals, roots),
         NEW G, \A h \in V \ G : parent[h] \cap G = {},
         NEW W, W = V \ G, NEW up, NEW down, CutTo(up, down, W, parent, subgoals, G)
  PROVE  Whole(V \ G, up, down, Dropping(roots, G))
<1>0a. \A h \in W : up[h] = parent[h] /\ down[h] = Dropping(subgoals[h], G)
  BY DEF CutTo
<1> USE <1>0a
<1>1. \A h \in V \ G : up[h] = {} \/ \E p \in V \ G : up[h] = {p}
  BY DEF Whole
<1>2. ASSUME NEW h \in V \ G PROVE Lists(down[h], {x \in V \ G : up[x] = {h}})
  <2>1. Lists(subgoals[h], {x \in V : parent[x] = {h}})
    BY DEF Whole
  <2>2. {x \in V \ G : up[x] = {h}} = {x \in V : parent[x] = {h}} \ G
    OBVIOUS
  <2> QED BY <2>1, <2>2, ListLess
<1>3. Lists(Dropping(roots, G), {h \in V \ G : up[h] = {}})
  <2>1. Lists(roots, {h \in V : parent[h] = {}})
    BY DEF Whole
  <2>2. {h \in V \ G : up[h] = {}} = {h \in V : parent[h] = {}} \ G
    OBVIOUS
  <2> QED BY <2>1, <2>2, ListLess
<1> QED BY <1>1, <1>2, <1>3 DEF Whole

\* The same for W without g, whose subgoals are its parent's
MovedUp(up, down, W, parent, subgoals, g) ==
  \A h \in W :
    /\ up[h] = (IF h \in ToSet(subgoals[g]) THEN parent[g] ELSE parent[h])
    /\ down[h] = Dropping(IF h \in parent[g] THEN subgoals[h] \o subgoals[g] ELSE subgoals[h], {g})

\* Without one, whose subgoals move up
LEMMA WholeWithout ==
  ASSUME NEW V, NEW parent, NEW subgoals, NEW roots, Whole(V, parent, subgoals, roots),
         NEW g \in V, g \notin parent[g],
         NEW W, W = V \ {g}, NEW up, NEW down, MovedUp(up, down, W, parent, subgoals, g)
  PROVE  Whole(V \ {g}, up, down, IF parent[g] = {} THEN Dropping(roots, {g}) \o subgoals[g] ELSE roots)
<1>0a. \A h \in W :
           /\ up[h] = (IF h \in ToSet(subgoals[g]) THEN parent[g] ELSE parent[h])
           /\ down[h] = Dropping(IF h \in parent[g] THEN subgoals[h] \o subgoals[g] ELSE subgoals[h], {g})
  BY DEF MovedUp
<1> USE <1>0a
<1> DEFINE moved == {h \in V : parent[h] = {g}}
           rs == IF parent[g] = {} THEN Dropping(roots, {g}) \o subgoals[g] ELSE roots
           P == parent[g]
<1>0. /\ Lists(subgoals[g], moved) /\ ToSet(subgoals[g]) = moved /\ g \notin moved
      /\ P = {} \/ \E p \in W : P = {p}
  BY DEF Whole, Lists
<1>1. \A h \in W : up[h] = {} \/ \E p \in W : up[h] = {p}
  <2> SUFFICES ASSUME NEW h \in W PROVE up[h] = {} \/ \E p \in W : up[h] = {p}
    OBVIOUS
  <2>1. CASE h \in moved
    BY <1>0, <2>1
  <2>2. CASE h \notin moved
    <3>1. up[h] = parent[h] /\ parent[h] # {g}
      BY <1>0, <2>2
    <3>2. parent[h] = {} \/ \E p \in V : parent[h] = {p}
      BY DEF Whole
    <3> QED BY <3>1, <3>2
  <2> QED BY <2>1, <2>2
<1>2. ASSUME NEW h \in W PROVE Lists(down[h], {x \in W : up[x] = {h}})
  <2> DEFINE mine == {x \in V : parent[x] = {h}}
             one == {g}
             new == {x \in W : up[x] = {h}}
  <2>1. Lists(subgoals[h], mine)
    BY DEF Whole
  <2>2. CASE h \in P
    <3>1. P = {h}
      BY <1>0, <2>2
    <3>2. mine \cap moved = {}
      OBVIOUS
    <3>3. new = (mine \cup moved) \ one
      <4>1. ASSUME NEW x \in W PROVE up[x] = {h} <=> x \in mine \cup moved
        BY <1>0, <3>1
      <4> QED BY <4>1
    <3>4. down[h] = Dropping(subgoals[h] \o subgoals[g], one)
      BY <2>2
    <3> HIDE DEF mine, moved, new, one
    <3>5. Lists(subgoals[h] \o subgoals[g], mine \cup moved)
      BY <1>0, <2>1, <3>2, ListBoth
    <3>6. Lists(down[h], new)
      BY <3>3, <3>4, <3>5, ListLess
    <3> QED BY <3>6 DEF new
  <2>3. CASE h \notin P
    <3>1. new = mine \ one
      <4>1. ASSUME NEW x \in W PROVE up[x] = {h} <=> x \in mine
        BY <1>0, <2>3
      <4> QED BY <4>1
    <3>2. down[h] = Dropping(subgoals[h], one)
      BY <2>3
    <3> HIDE DEF mine, new, one
    <3>3. Lists(down[h], new)
      BY <2>1, <3>1, <3>2, ListLess
    <3> QED BY <3>3 DEF new
  <2> QED BY <2>2, <2>3
<1>3. Lists(rs, {h \in W : up[h] = {}})
  <2> DEFINE old == {h \in V : parent[h] = {}}
             new == {h \in W : up[h] = {}}
             one == {g}
  <2>1. Lists(roots, old)
    BY DEF Whole
  <2>2. CASE P = {}
    <3>1. new = (old \ one) \cup moved /\ (old \ one) \cap moved = {}
      <4>1. ASSUME NEW x \in W PROVE up[x] = {} <=> x \in old \cup moved
        BY <1>0, <2>2
      <4> QED BY <1>0, <4>1
    <3>2. rs = Dropping(roots, one) \o subgoals[g]
      BY <2>2
    <3> HIDE DEF old, moved, new, one, rs
    <3>3. Lists(Dropping(roots, one), old \ one)
      BY <2>1, ListLess
    <3>4. Lists(Dropping(roots, one) \o subgoals[g], (old \ one) \cup moved)
      BY <1>0, <3>1, <3>3, ListBoth
    <3> QED BY <3>1, <3>2, <3>4 DEF new, rs
  <2>3. CASE P # {}
    <3>1. new = old
      <4>1. ASSUME NEW x \in W PROVE up[x] = {} <=> x \in old
        BY <1>0, <2>3
      <4>2. g \notin old
        BY <2>3
      <4> QED BY <4>1, <4>2
    <3> QED BY <2>1, <2>3, <3>1
  <2> QED BY <2>2, <2>3
<1> QED BY <1>1, <1>2, <1>3 DEF Whole

\* The same for W with g below p no longer
Detached(up, down, W, parent, subgoals, p, g) ==
  \A h \in W : /\ up[h] = (IF h = g THEN {} ELSE parent[h])
               /\ down[h] = (IF h = p THEN Dropping(subgoals[h], {g}) ELSE subgoals[h])

\* One becomes a root
LEMMA WholeDetach ==
  ASSUME NEW V, NEW parent, NEW subgoals, NEW roots, Whole(V, parent, subgoals, roots), V \subseteq GoalAtoms,
         NEW g \in V, NEW p \in V, parent[g] = {p}, p # g,
         NEW W, W = V, NEW up, NEW down, Detached(up, down, W, parent, subgoals, p, g)
  PROVE  Whole(V, up, down, IF g \in ToSet(roots) THEN roots ELSE Append(roots, g))
<1>0a. \A h \in W : /\ up[h] = (IF h = g THEN {} ELSE parent[h])
                      /\ down[h] = (IF h = p THEN Dropping(subgoals[h], {g}) ELSE subgoals[h])
  BY DEF Detached
<1> USE <1>0a
<1> DEFINE rs == IF g \in ToSet(roots) THEN roots ELSE Append(roots, g)
           old == {h \in V : parent[h] = {}}
           one == {g}
<1>1. \A h \in V : up[h] = {} \/ \E q \in V : up[h] = {q}
  BY DEF Whole
<1>2. ASSUME NEW h \in V PROVE Lists(down[h], {x \in V : up[x] = {h}})
  <2> DEFINE mine == {x \in V : parent[x] = {h}}
             new == {x \in V : up[x] = {h}}
  <2>1. Lists(subgoals[h], mine)
    BY DEF Whole
  <2>2. CASE h = p
    <3>1. new = mine \ one /\ down[h] = Dropping(subgoals[h], one)
      BY <2>2
    <3> HIDE DEF mine, new, one
    <3>2. Lists(down[h], new)
      BY <2>1, <3>1, ListLess
    <3> QED BY <3>2 DEF new
  <2>3. CASE h # p
    <3>1. new = mine /\ down[h] = subgoals[h]
      BY <2>3
    <3> QED BY <2>1, <3>1
  <2> QED BY <2>2, <2>3
<1>3. Lists(rs, {h \in V : up[h] = {}})
  <2>1. Lists(roots, old) /\ g \notin old
    BY DEF Whole
  <2>2. rs = Append(roots, g)
    BY <2>1 DEF Lists
  <2>3. {h \in V : up[h] = {}} = old \cup {g}
    OBVIOUS
  <2> HIDE DEF old, rs
  <2>4. Lists(rs, old \cup {g})
    BY <2>1, <2>2, ListMore
  <2> QED BY <2>3, <2>4 DEF rs
<1> QED BY <1>1, <1>2, <1>3 DEF Whole

(* The steps *)

\* The invariant from its parts
LEMMA GoalInvIs ==
  GoalInv <=> /\ GoalsIn \subseteq GoalAtoms
              /\ \A g \in GoalsIn : goalNodes[g] \in GoalRecords /\ goalNodes[g].dependencies \subseteq GoalsIn
              /\ Whole(GoalsIn, ParentsOf(goalNodes), SubgoalsOf(goalNodes), rootGoals)
              /\ Acyclic(GoalsIn, GoalEdges)
              /\ GraphIsCurrent
<1>1. ParentEdges = EdgesUp(GoalsIn, ParentsOf(goalNodes))
  BY DEF ParentEdges, EdgesUp, ParentsOf, GoalsIn
<1> QED BY <1>1 DEF GoalInv, GoalEdges

LEMMA SubgoalsSet ==
  ASSUME NEW r \in GoalRecords, NEW s \in Seq(GoalAtoms)
  PROVE  /\ [r EXCEPT !.subgoals = s] \in GoalRecords /\ [r EXCEPT !.subgoals = s].subgoals = s
         /\ [r EXCEPT !.subgoals = s].parent = r.parent /\ [r EXCEPT !.subgoals = s].dependencies = r.dependencies
  BY DEF GoalRecords

\* What a step leaves, from what it makes of the goals' records
LEMMA GoalInvNext ==
  ASSUME NEW n, n = goalNodes', NEW W, W \subseteq GoalAtoms, DOMAIN n = W,
         \A h \in W : n[h] \in GoalRecords /\ n[h].dependencies \subseteq W,
         Whole(W, ParentsOf(n), SubgoalsOf(n), rootGoals'),
         dependencyGraph' = {e \in W \X W : e[2] \in n[e[1]].dependencies},
         NEW Q, Acyclic(W, Q),
         \A g, h \in W : h \in n[g].dependencies \/ h \in n[g].parent => <<g, h>> \in Q
  PROVE  GoalInv'
<1>1. GoalsIn' = W
  BY DEF GoalsIn
<1>2. GraphIsCurrent'
  BY <1>1 DEF GraphIsCurrent
<1>3. Acyclic(W, dependencyGraph' \cup EdgesUp(W, ParentsOf(n)))
  <2> DEFINE R == dependencyGraph' \cup EdgesUp(W, ParentsOf(n))
  <2>1. \A g, h \in W : <<g, h>> \in R => <<g, h>> \in Q
    BY DEF EdgesUp, ParentsOf
  <2> HIDE DEF R
  <2>2. Acyclic(W, R)
    BY <2>1, FewerEdges
  <2> QED BY <2>2 DEF R
<1> QED BY <1>1, <1>2, <1>3 DEF GoalInv

LEMMA AddKeeps ==
  ASSUME GoalInv, NEW g \in GoalAtoms, NEW P, P = {} \/ \E p \in GoalsIn : P = {p}, AddGoal(g, P)
  PROVE  GoalInv'
<1> DEFINE V == GoalsIn
           W == V \cup {g}
           parents == ParentsOf(goalNodes)
           subgoals == SubgoalsOf(goalNodes)
           down(h) == IF h = g THEN <<>> ELSE IF h \in P THEN Append(goalNodes[h].subgoals, g) ELSE goalNodes[h].subgoals
           edges == GoalEdges \cup {<<g, p>> : p \in P}
<1>1. /\ V \subseteq GoalAtoms /\ \A h \in V : goalNodes[h] \in GoalRecords /\ goalNodes[h].dependencies \subseteq V
      /\ Whole(V, parents, subgoals, rootGoals)
      /\ Acyclic(V, GoalEdges) /\ dependencyGraph = {e \in V \X V : e[2] \in goalNodes[e[1]].dependencies}
      /\ P = {} \/ \E p \in V : P = {p}
  BY GoalInvIs DEF GraphIsCurrent
<1>2. /\ g \notin V /\ P \subseteq V /\ P \subseteq GoalAtoms
      /\ goalNodes' = [h \in W |-> IF h = g THEN NewGoal(P)
           ELSE IF h \in P THEN [goalNodes[h] EXCEPT !.subgoals = Append(@, g)] ELSE goalNodes[h]]
      /\ rootGoals' = (IF P = {} THEN Append(rootGoals, g) ELSE rootGoals)
      /\ dependencyGraph' = dependencyGraph
  BY <1>1 DEF AddGoal
<1>3. ASSUME NEW h \in W
      PROVE  /\ goalNodes'[h] \in GoalRecords
             /\ goalNodes'[h].parent = IF h = g THEN P ELSE goalNodes[h].parent
             /\ goalNodes'[h].subgoals = down(h)
             /\ goalNodes'[h].dependencies = IF h = g THEN {} ELSE goalNodes[h].dependencies
  <2>1. CASE h = g
    <3>1. goalNodes'[h] = NewGoal(P)
      BY <1>2, <2>1
    <3> QED BY <1>2, <2>1, <3>1 DEF NewGoal, GoalRecords
  <2>2. CASE h # g /\ h \in P
    <3> DEFINE s == Append(goalNodes[h].subgoals, g)
    <3>1. goalNodes'[h] = [goalNodes[h] EXCEPT !.subgoals = s] /\ goalNodes[h] \in GoalRecords
      BY <1>1, <1>2, <2>2
    <3>2. s \in Seq(GoalAtoms)
      BY <3>1 DEF GoalRecords
    <3>3. down(h) = s
      BY <2>2
    <3> HIDE DEF s
    <3> QED BY <2>2, <3>1, <3>2, <3>3, SubgoalsSet
  <2>3. CASE h # g /\ h \notin P
    <3>1. goalNodes'[h] = goalNodes[h] /\ goalNodes[h] \in GoalRecords
      BY <1>1, <1>2, <2>3
    <3> QED BY <2>3, <3>1
  <2> QED BY <2>1, <2>2, <2>3
<1>4. PICK n : n = goalNodes'
  OBVIOUS
<1>5. DOMAIN n = W
  BY <1>2, <1>4
<1>6. /\ \A h \in W : ParentsOf(n)[h] = IF h = g THEN P ELSE parents[h]
      /\ \A h \in W : SubgoalsOf(n)[h] =
           IF h = g THEN <<>> ELSE IF h \in P THEN Append(subgoals[h], g) ELSE subgoals[h]
  BY <1>3, <1>4, <1>5 DEF ParentsOf, SubgoalsOf, GoalsIn
<1>7. Whole(W, ParentsOf(n), SubgoalsOf(n), rootGoals')
  <2> DEFINE up == ParentsOf(n)
             below == SubgoalsOf(n)
             rs == IF P = {} THEN Append(rootGoals, g) ELSE rootGoals
  <2>1. /\ V \subseteq GoalAtoms /\ Whole(V, parents, subgoals, rootGoals) /\ g \notin V
        /\ P = {} \/ \E p \in V : P = {p}
        /\ W = V \cup {g} /\ Grown(up, below, W, parents, subgoals, g, P)
    BY <1>1, <1>2, <1>6 DEF Grown
  <2> HIDE DEF V, W, parents, subgoals, up, below
  <2>2. Whole(W, up, below, rs)
    BY <2>1, WholeAdd
  <2> QED BY <1>2, <2>2 DEF up, below
<1>8. \A h \in W : n[h] \in GoalRecords /\ n[h].dependencies \subseteq W
  BY <1>1, <1>3, <1>4
<1>9. dependencyGraph' = {e \in W \X W : e[2] \in n[e[1]].dependencies}
  <2>1. \A a, b : a \in V /\ b \in V /\ b \in goalNodes[a].dependencies <=> a \in W /\ b \in W /\ b \in n[a].dependencies
    BY <1>1, <1>2, <1>3, <1>4
  <2> QED BY <1>1, <1>2, <2>1
<1>10. Acyclic(W, edges)
  <2>1. \A e \in GoalEdges : e[1] \in V /\ e[2] \in V /\ e = <<e[1], e[2]>>
    BY <1>1 DEF GoalEdges, ParentEdges
  <2>2. \A a, b \in V : <<a, b>> \in edges => <<a, b>> \in GoalEdges
    BY <1>2
  <2>3. \A a \in W : <<a, g>> \notin edges
    BY <1>2, <2>1
  <2> HIDE DEF edges, V
  <2> QED BY <1>1, <1>2, <2>2, <2>3, NewSource
<1>11. \A a, b \in W : b \in n[a].dependencies \/ b \in n[a].parent => <<a, b>> \in edges
  <2> SUFFICES ASSUME NEW a \in W, NEW b \in W, b \in n[a].dependencies \/ b \in n[a].parent PROVE <<a, b>> \in edges
    OBVIOUS
  <2>1. CASE a = g
    BY <1>3, <1>4, <2>1
  <2>2. CASE a # g
    <3>1. a \in V /\ b \in V /\ (b \in goalNodes[a].dependencies \/ b \in goalNodes[a].parent)
      <4>1. parents[a] = {} \/ \E p \in V : parents[a] = {p}
        BY <1>1, <2>2 DEF Whole
      <4>2. goalNodes[a].parent \subseteq V
        BY <2>2, <4>1 DEF ParentsOf, GoalsIn
      <4> QED BY <1>1, <1>3, <1>4, <2>2, <4>2
    <3> QED BY <1>1, <3>1 DEF GoalEdges, ParentEdges
  <2> QED BY <2>1, <2>2
<1>12. W \subseteq GoalAtoms
  BY <1>1
<1> HIDE DEF W, edges
<1> QED BY <1>4, <1>5, <1>7, <1>8, <1>9, <1>10, <1>11, <1>12, GoalInvNext

\* g and all below it
LEMMA SubtreeIs ==
  ASSUME NEW g \in GoalsIn
  PROVE  Subtree(g) \subseteq GoalsIn /\ \A h \in GoalsIn : \A p \in goalNodes[h].parent : p \in Subtree(g) => h \in Subtree(g)
<1>1. ASSUME NEW h \in GoalsIn, NEW p \in goalNodes[h].parent, p \in Subtree(g) PROVE h \in Subtree(g)
  <2>1. p \in GoalsIn /\ g \in Reached(ParentEdges, p)
    BY <1>1 DEF Subtree, Lineage
  <2>2. ASSUME NEW S \in SUBSET GoalsIn, h \in S, ClosedUnder(S, ParentEdges) PROVE g \in S
    <3>1. <<h, p>> \in ParentEdges
      BY <2>1, <1>1 DEF ParentEdges
    <3>2. p \in S
      <4>1. <<h, p>>[1] \in S => <<h, p>>[2] \in S
        BY <2>2, <3>1 DEF ClosedUnder
      <4> QED BY <2>2, <4>1
    <3> QED BY <2>1, <2>2, <3>2 DEF Reached
  <2>3. g \in Reached(ParentEdges, h)
    BY <2>2 DEF Reached
  <2> QED BY <2>3 DEF Subtree, Lineage
<1> QED BY <1>1 DEF Subtree

\* What the invariant says of the goals' records
LEMMA GoalFacts ==
  ASSUME GoalInv
  PROVE  /\ GoalsIn \subseteq GoalAtoms
         /\ \A h \in GoalsIn : /\ goalNodes[h] \in GoalRecords /\ goalNodes[h].dependencies \subseteq GoalsIn
                               /\ goalNodes[h].parent \subseteq GoalsIn /\ h \notin goalNodes[h].parent
                               /\ goalNodes[h].parent = {} \/ \E p \in GoalsIn : goalNodes[h].parent = {p}
                               /\ ParentsOf(goalNodes)[h] = goalNodes[h].parent /\ SubgoalsOf(goalNodes)[h] = goalNodes[h].subgoals
         /\ Whole(GoalsIn, ParentsOf(goalNodes), SubgoalsOf(goalNodes), rootGoals)
         /\ Acyclic(GoalsIn, GoalEdges)
         /\ dependencyGraph = {e \in GoalsIn \X GoalsIn : e[2] \in goalNodes[e[1]].dependencies}
         /\ \A g, h \in GoalsIn : h \in goalNodes[g].dependencies \/ h \in goalNodes[g].parent => <<g, h>> \in GoalEdges
<1>1. /\ GoalsIn \subseteq GoalAtoms
      /\ \A h \in GoalsIn : goalNodes[h] \in GoalRecords /\ goalNodes[h].dependencies \subseteq GoalsIn
      /\ Whole(GoalsIn, ParentsOf(goalNodes), SubgoalsOf(goalNodes), rootGoals)
      /\ Acyclic(GoalsIn, GoalEdges)
      /\ dependencyGraph = {e \in GoalsIn \X GoalsIn : e[2] \in goalNodes[e[1]].dependencies}
  BY GoalInvIs DEF GraphIsCurrent
<1>2. \A g, h \in GoalsIn : h \in goalNodes[g].dependencies \/ h \in goalNodes[g].parent => <<g, h>> \in GoalEdges
  BY <1>1 DEF GoalEdges, ParentEdges
<1>3. ASSUME NEW h \in GoalsIn
      PROVE  /\ ParentsOf(goalNodes)[h] = goalNodes[h].parent /\ SubgoalsOf(goalNodes)[h] = goalNodes[h].subgoals
             /\ goalNodes[h].parent = {} \/ \E p \in GoalsIn : goalNodes[h].parent = {p}
  <2>1. ParentsOf(goalNodes)[h] = {} \/ \E p \in GoalsIn : ParentsOf(goalNodes)[h] = {p}
    BY <1>1 DEF Whole
  <2>2. ParentsOf(goalNodes)[h] = goalNodes[h].parent /\ SubgoalsOf(goalNodes)[h] = goalNodes[h].subgoals
    BY DEF ParentsOf, SubgoalsOf, GoalsIn
  <2> QED BY <2>1, <2>2
<1>4. ASSUME NEW h \in GoalsIn PROVE goalNodes[h].parent \subseteq GoalsIn /\ h \notin goalNodes[h].parent
  <2>1. goalNodes[h].parent \subseteq GoalsIn
    BY <1>3
  <2>2. <<h, h>> \notin GoalEdges
    <3>1. {h} \in SUBSET GoalsIn /\ {h} # {}
      OBVIOUS
    <3>2. \E x \in {h} : \A y \in {h} : <<x, y>> \notin GoalEdges
      BY <1>1, <3>1 DEF Acyclic
    <3> QED BY <3>2
  <2> QED BY <1>2, <2>1, <2>2
<1> QED BY <1>1, <1>2, <1>3, <1>4

\* A record of goals has the fields it was made from
LEMMA GoalRecord ==
  ASSUME NEW r \in GoalRecords
  PROVE  /\ r = [parent |-> r.parent, subgoals |-> r.subgoals, dependencies |-> r.dependencies]
         /\ r.parent \in SUBSET GoalAtoms /\ r.subgoals \in Seq(GoalAtoms) /\ r.dependencies \in SUBSET GoalAtoms
  BY DEF GoalRecords

LEMMA PrunedIs ==
  ASSUME NEW r \in GoalRecords, NEW G
  PROVE  /\ Pruned(r, G) \in GoalRecords /\ Pruned(r, G).parent = r.parent
         /\ Pruned(r, G).subgoals = Dropping(r.subgoals, G) /\ Pruned(r, G).dependencies = r.dependencies \ G
<1> DEFINE P == r.parent
           s == r.subgoals
           t == Dropping(s, G)
           d == r.dependencies
           e == d \ G
<1>1. r = [parent |-> P, subgoals |-> s, dependencies |-> d] /\ P \in SUBSET GoalAtoms /\ s \in Seq(GoalAtoms) /\ d \in SUBSET GoalAtoms
  BY GoalRecord
<1>2. t \in Seq(GoalAtoms) /\ e \in SUBSET GoalAtoms
  BY <1>1, DroppingIs
<1>3. Pruned(r, G) = [[r EXCEPT !.subgoals = t] EXCEPT !.dependencies = e]
  BY DEF Pruned
<1> HIDE DEF P, s, t, d, e
<1>4. [r EXCEPT !.subgoals = t] = [parent |-> P, subgoals |-> t, dependencies |-> d]
  BY <1>1
<1>5. [[parent |-> P, subgoals |-> t, dependencies |-> d] EXCEPT !.dependencies = e] = [parent |-> P, subgoals |-> t, dependencies |-> e]
  OBVIOUS
<1>6. Pruned(r, G) = [parent |-> P, subgoals |-> t, dependencies |-> e]
  BY <1>3, <1>4, <1>5
<1>7. Pruned(r, G) \in GoalRecords
  BY <1>1, <1>2, <1>6 DEF GoalRecords
<1>8. Pruned(r, G).parent = P /\ Pruned(r, G).subgoals = t /\ Pruned(r, G).dependencies = e
  BY <1>6
<1> QED BY <1>7, <1>8 DEF P, s, t, d, e

LEMMA RemoveSubtreeKeeps ==
  ASSUME GoalInv, NEW g, RemoveSubtree(g)
  PROVE  GoalInv'
<1> DEFINE V == GoalsIn
           G == Subtree(g)
           W == V \ G
           parents == ParentsOf(goalNodes)
           subgoals == SubgoalsOf(goalNodes)
<1>1. /\ V \subseteq GoalAtoms
      /\ \A h \in V : /\ goalNodes[h] \in GoalRecords /\ goalNodes[h].dependencies \subseteq V
                     /\ goalNodes[h].parent \subseteq V
                     /\ parents[h] = goalNodes[h].parent /\ subgoals[h] = goalNodes[h].subgoals
      /\ Whole(V, parents, subgoals, rootGoals) /\ Acyclic(V, GoalEdges)
      /\ dependencyGraph = {e \in V \X V : e[2] \in goalNodes[e[1]].dependencies}
      /\ \A a, b \in V : b \in goalNodes[a].dependencies \/ b \in goalNodes[a].parent => <<a, b>> \in GoalEdges
  BY GoalFacts
<1>2. /\ g \in V
      /\ goalNodes' = [h \in W |-> Pruned(goalNodes[h], G)]
      /\ rootGoals' = Dropping(rootGoals, G)
      /\ dependencyGraph' = {e \in dependencyGraph : e[1] \notin G /\ e[2] \notin G}
  BY DEF RemoveSubtree, RootsWithout
<1>3. G \subseteq V /\ \A h \in W : goalNodes[h].parent \cap G = {}
  BY <1>2, SubtreeIs
<1> HIDE DEF G
<1>4. ASSUME NEW h \in W
      PROVE  /\ goalNodes'[h] \in GoalRecords
             /\ goalNodes'[h].parent = goalNodes[h].parent
             /\ goalNodes'[h].subgoals = Dropping(goalNodes[h].subgoals, G)
             /\ goalNodes'[h].dependencies = goalNodes[h].dependencies \ G
  BY <1>1, <1>2, PrunedIs
<1>5. PICK n : n = goalNodes'
  OBVIOUS
<1>6. DOMAIN n = W
  BY <1>2, <1>5
<1>7. Whole(W, ParentsOf(n), SubgoalsOf(n), rootGoals')
  <2> DEFINE up == ParentsOf(n)
             below == SubgoalsOf(n)
  <2>1. /\ Whole(V, parents, subgoals, rootGoals) /\ W = V \ G /\ \A h \in V \ G : parents[h] \cap G = {}
        /\ CutTo(up, below, W, parents, subgoals, G)
    BY <1>1, <1>3, <1>4, <1>5, <1>6 DEF CutTo, ParentsOf, SubgoalsOf
  <2> HIDE DEF V, W, parents, subgoals, up, below
  <2>2. Whole(V \ G, up, below, Dropping(rootGoals, G))
    BY <2>1, WholeCut
  <2> QED BY <1>2, <2>1, <2>2 DEF up, below
<1>8. \A h \in W : n[h] \in GoalRecords /\ n[h].dependencies \subseteq W
  BY <1>1, <1>4, <1>5
<1>9. dependencyGraph' = {e \in W \X W : e[2] \in n[e[1]].dependencies}
  BY <1>1, <1>2, <1>4, <1>5
<1>10. Acyclic(W, GoalEdges)
  <2>1. W \subseteq V /\ \A a, b \in W : <<a, b>> \in GoalEdges => <<a, b>> \in GoalEdges
    OBVIOUS
  <2> HIDE DEF W, V
  <2> QED BY <1>1, <2>1, FewerEdges
<1>11. \A a, b \in W : b \in n[a].dependencies \/ b \in n[a].parent => <<a, b>> \in GoalEdges
  BY <1>1, <1>4, <1>5
<1>12. W \subseteq GoalAtoms
  BY <1>1
<1> HIDE DEF W
<1> QED BY <1>5, <1>6, <1>7, <1>8, <1>9, <1>10, <1>11, <1>12, GoalInvNext

LEMMA RaisedIs ==
  ASSUME GoalInv, NEW g \in GoalsIn, NEW h \in GoalsIn
  PROVE  /\ Raised(h, g) \in GoalRecords /\ Raised(h, g).dependencies = goalNodes[h].dependencies
         /\ Raised(h, g).parent = IF h \in ToSet(goalNodes[g].subgoals) THEN goalNodes[g].parent ELSE goalNodes[h].parent
         /\ Raised(h, g).subgoals = IF h \in goalNodes[g].parent THEN goalNodes[h].subgoals \o goalNodes[g].subgoals
                                   ELSE goalNodes[h].subgoals
<1> DEFINE r == goalNodes[h]
           n == goalNodes[g]
           P == r.parent
           s == r.subgoals
           d == r.dependencies
           Q == IF h \in ToSet(n.subgoals) THEN n.parent ELSE r.parent
           t == IF h \in n.parent THEN s \o n.subgoals ELSE s
<1>1. r \in GoalRecords /\ n \in GoalRecords
  BY GoalFacts
<1>2. r = [parent |-> P, subgoals |-> s, dependencies |-> d] /\ P \in SUBSET GoalAtoms /\ s \in Seq(GoalAtoms) /\ d \in SUBSET GoalAtoms
  BY <1>1, GoalRecord
<1>3. Q \in SUBSET GoalAtoms /\ t \in Seq(GoalAtoms)
  <2>1. n.parent \in SUBSET GoalAtoms /\ n.subgoals \in Seq(GoalAtoms)
    BY <1>1, GoalRecord
  <2>2. s \o n.subgoals \in Seq(GoalAtoms)
    <3> HIDE DEF n, s
    <3> QED BY <1>2, <2>1, ConcatProperties
  <2> QED BY <1>2, <2>1, <2>2
<1>4. Raised(h, g) = [[r EXCEPT !.parent = Q] EXCEPT !.subgoals = t]
  BY DEF Raised
<1> HIDE DEF P, s, d, Q, t, r, n
<1>5. [r EXCEPT !.parent = Q] = [parent |-> Q, subgoals |-> s, dependencies |-> d]
  BY <1>2
<1>6. [[parent |-> Q, subgoals |-> s, dependencies |-> d] EXCEPT !.subgoals = t] = [parent |-> Q, subgoals |-> t, dependencies |-> d]
  OBVIOUS
<1>7. Raised(h, g) = [parent |-> Q, subgoals |-> t, dependencies |-> d]
  BY <1>4, <1>5, <1>6
<1>8. Raised(h, g) \in GoalRecords
  BY <1>2, <1>3, <1>7 DEF GoalRecords
<1>9. Raised(h, g).parent = Q /\ Raised(h, g).subgoals = t /\ Raised(h, g).dependencies = d
  BY <1>7
<1> QED BY <1>8, <1>9 DEF P, s, d, Q, t, r, n

LEMMA RemoveGoalKeeps ==
  ASSUME GoalInv, NEW g, RemoveGoal(g)
  PROVE  GoalInv'
<1> DEFINE V == GoalsIn
           one == {g}
           W == V \ one
           parents == ParentsOf(goalNodes)
           subgoals == SubgoalsOf(goalNodes)
<1>1. /\ V \subseteq GoalAtoms
      /\ \A h \in V : /\ goalNodes[h] \in GoalRecords /\ goalNodes[h].dependencies \subseteq V
                     /\ goalNodes[h].parent \subseteq V /\ h \notin goalNodes[h].parent
                     /\ parents[h] = goalNodes[h].parent /\ subgoals[h] = goalNodes[h].subgoals
      /\ Whole(V, parents, subgoals, rootGoals) /\ Acyclic(V, GoalEdges)
      /\ dependencyGraph = {e \in V \X V : e[2] \in goalNodes[e[1]].dependencies}
      /\ \A a, b \in V : b \in goalNodes[a].dependencies \/ b \in goalNodes[a].parent => <<a, b>> \in GoalEdges
  BY GoalFacts
<1>2. /\ g \in V
      /\ goalNodes' = [h \in W |-> Pruned(Raised(h, g), one)]
      /\ rootGoals' = IF goalNodes[g].parent = {} THEN Dropping(rootGoals, one) \o goalNodes[g].subgoals ELSE rootGoals
      /\ dependencyGraph' = {e \in dependencyGraph : e[1] # g /\ e[2] # g}
  BY DEF RemoveGoal, RootsWithout
<1>3. g \notin goalNodes[g].parent
  BY <1>1, <1>2
<1>4. ASSUME NEW h \in W
      PROVE  /\ goalNodes'[h] \in GoalRecords
             /\ goalNodes'[h].parent = IF h \in ToSet(goalNodes[g].subgoals) THEN goalNodes[g].parent ELSE goalNodes[h].parent
             /\ goalNodes'[h].subgoals =
                  Dropping(IF h \in goalNodes[g].parent THEN goalNodes[h].subgoals \o goalNodes[g].subgoals ELSE goalNodes[h].subgoals, one)
             /\ goalNodes'[h].dependencies = goalNodes[h].dependencies \ one
  <2> DEFINE r == Raised(h, g)
  <2>1. /\ r \in GoalRecords /\ r.dependencies = goalNodes[h].dependencies
        /\ r.parent = IF h \in ToSet(goalNodes[g].subgoals) THEN goalNodes[g].parent ELSE goalNodes[h].parent
        /\ r.subgoals = IF h \in goalNodes[g].parent THEN goalNodes[h].subgoals \o goalNodes[g].subgoals
                        ELSE goalNodes[h].subgoals
    BY <1>2, RaisedIs
  <2>2. goalNodes'[h] = Pruned(r, one)
    BY <1>2
  <2> HIDE DEF r, one
  <2>3. /\ Pruned(r, one) \in GoalRecords /\ Pruned(r, one).parent = r.parent
        /\ Pruned(r, one).subgoals = Dropping(r.subgoals, one) /\ Pruned(r, one).dependencies = r.dependencies \ one
    BY <2>1, PrunedIs
  <2> QED BY <2>1, <2>2, <2>3
<1>5. PICK n : n = goalNodes'
  OBVIOUS
<1>6. DOMAIN n = W
  BY <1>2, <1>5
<1>7. Whole(W, ParentsOf(n), SubgoalsOf(n), rootGoals')
  <2> DEFINE up == ParentsOf(n)
             below == SubgoalsOf(n)
             rs == IF parents[g] = {} THEN Dropping(rootGoals, {g}) \o subgoals[g] ELSE rootGoals
  <2>1. Whole(V, parents, subgoals, rootGoals) /\ W = V \ {g} /\ g \in V /\ g \notin parents[g]
    BY <1>1, <1>2, <1>3
  <2>2. \A h \in W : up[h] = n[h].parent /\ below[h] = n[h].subgoals
    BY <1>6 DEF ParentsOf, SubgoalsOf
  <2>3. \A h \in W : parents[h] = goalNodes[h].parent /\ subgoals[h] = goalNodes[h].subgoals
    BY <1>1
  <2>4. parents[g] = goalNodes[g].parent /\ subgoals[g] = goalNodes[g].subgoals
    BY <1>1, <1>2
  <2>5. MovedUp(up, below, W, parents, subgoals, g)
    <3> HIDE DEF V, W, parents, subgoals, up, below
    <3> QED BY <1>4, <1>5, <2>2, <2>3, <2>4 DEF MovedUp
  <2>6. rootGoals' = rs
    BY <1>2, <2>4
  <2> HIDE DEF V, W, parents, subgoals, up, below
  <2>7. Whole(V \ {g}, up, below, rs)
    BY <2>1, <2>5, WholeWithout
  <2> QED BY <2>1, <2>6, <2>7 DEF up, below
<1>8. \A h \in W : n[h] \in GoalRecords /\ n[h].dependencies \subseteq W
  BY <1>1, <1>4, <1>5
<1>9. dependencyGraph' = {e \in W \X W : e[2] \in n[e[1]].dependencies}
  <2>1. \A a \in W : n[a].dependencies = goalNodes[a].dependencies \ one
    BY <1>4, <1>5
  <2>2. \A a, b : a \in V /\ b \in V /\ b \in goalNodes[a].dependencies /\ a # g /\ b # g
              <=> a \in W /\ b \in W /\ b \in n[a].dependencies
    BY <2>1
  <2>3. dependencyGraph' = {e \in V \X V : e[2] \in goalNodes[e[1]].dependencies /\ e[1] # g /\ e[2] # g}
    BY <1>1, <1>2
  <2> HIDE DEF V, W
  <2> QED BY <2>2, <2>3
<1> DEFINE edges == {e \in W \X W : e[2] \in n[e[1]].dependencies \/ e[2] \in n[e[1]].parent}
<1>10. Acyclic(W, edges)
  <2>1. ASSUME NEW a \in W, NEW b \in W, <<a, b>> \in edges
        PROVE  <<a, b>> \in GoalEdges \/ (<<a, g>> \in GoalEdges /\ <<g, b>> \in GoalEdges)
    <3>1. b \in n[a].dependencies \/ b \in n[a].parent
      BY <2>1
    <3>2. CASE a \in ToSet(goalNodes[g].subgoals) /\ b \in goalNodes[g].parent
      <4>1. parents[a] = {g}
        BY <1>1, <1>2, <3>2 DEF Whole, Lists
      <4>2. g \in goalNodes[a].parent
        BY <1>1, <4>1
      <4> QED BY <1>1, <1>2, <3>2, <4>2
    <3>3. CASE ~(a \in ToSet(goalNodes[g].subgoals) /\ b \in goalNodes[g].parent)
      <4>1. b \in goalNodes[a].dependencies \/ b \in goalNodes[a].parent
        BY <1>4, <1>5, <3>1, <3>3
      <4> QED BY <1>1, <4>1
    <3> QED BY <3>2, <3>3
  <2>2. W = V \ {g}
    OBVIOUS
  <2> HIDE DEF W, V, edges
  <2>3. Acyclic(V \ {g}, edges)
    BY <1>1, <1>2, <2>1, <2>2, Bypassed
  <2> QED BY <2>2, <2>3
<1>11. \A a, b \in W : b \in n[a].dependencies \/ b \in n[a].parent => <<a, b>> \in edges
  OBVIOUS
<1>12. W \subseteq GoalAtoms
  BY <1>1
<1> HIDE DEF W, edges
<1> QED BY <1>5, <1>6, <1>7, <1>8, <1>9, <1>10, <1>11, <1>12, GoalInvNext

LEMMA DetachKeeps ==
  ASSUME GoalInv, NEW p, NEW g, DetachSubgoal(p, g)
  PROVE  GoalInv'
<1> DEFINE V == GoalsIn
           parents == ParentsOf(goalNodes)
           subgoals == SubgoalsOf(goalNodes)
           s == Dropping(goalNodes[p].subgoals, {g})
<1>1. /\ V \subseteq GoalAtoms
      /\ \A h \in V : /\ goalNodes[h] \in GoalRecords /\ goalNodes[h].dependencies \subseteq V
                     /\ goalNodes[h].parent \subseteq V /\ h \notin goalNodes[h].parent
                     /\ parents[h] = goalNodes[h].parent /\ subgoals[h] = goalNodes[h].subgoals
      /\ Whole(V, parents, subgoals, rootGoals) /\ Acyclic(V, GoalEdges)
      /\ dependencyGraph = {e \in V \X V : e[2] \in goalNodes[e[1]].dependencies}
      /\ \A a, b \in V : b \in goalNodes[a].dependencies \/ b \in goalNodes[a].parent => <<a, b>> \in GoalEdges
  BY GoalFacts
<1>2. /\ p \in V /\ g \in V /\ goalNodes[g].parent = {p} /\ p # g
      /\ goalNodes' = [[goalNodes EXCEPT ![p].subgoals = s] EXCEPT ![g].parent = {}]
      /\ rootGoals' = IF g \in ToSet(rootGoals) THEN rootGoals ELSE Append(rootGoals, g)
      /\ dependencyGraph' = dependencyGraph
  <2>1. p \in V /\ g \in V /\ goalNodes[g].parent = {p}
    BY DEF DetachSubgoal
  <2>2. p # g
    BY <1>1, <2>1
  <2> QED BY <2>1, <2>2 DEF DetachSubgoal
<1>3. s \in Seq(GoalAtoms)
  BY <1>1, <1>2, GoalRecord, DroppingIs
<1>4. PICK n : n = goalNodes'
  OBVIOUS
<1>5. DOMAIN n = V /\ n[p] = [goalNodes[p] EXCEPT !.subgoals = s] /\ n[g] = [goalNodes[g] EXCEPT !.parent = {}]
      /\ \A h \in V : h # p /\ h # g => n[h] = goalNodes[h]
  <2> HIDE DEF s
  <2> QED BY <1>2, <1>4 DEF GoalsIn
<1>6. ASSUME NEW h \in V
      PROVE  /\ n[h] \in GoalRecords
             /\ n[h].parent = IF h = g THEN {} ELSE goalNodes[h].parent
             /\ n[h].subgoals = IF h = p THEN Dropping(goalNodes[h].subgoals, {g}) ELSE goalNodes[h].subgoals
             /\ n[h].dependencies = goalNodes[h].dependencies
  <2>1. CASE h = p
    <3>1. goalNodes[h] \in GoalRecords /\ s = Dropping(goalNodes[h].subgoals, {g}) /\ n[h] = [goalNodes[h] EXCEPT !.subgoals = s]
      BY <1>1, <1>5, <2>1
    <3> HIDE DEF s
    <3> QED BY <1>2, <1>3, <2>1, <3>1, SubgoalsSet
  <2>2. CASE h = g
    <3>1. goalNodes[h] \in GoalRecords /\ n[h] = [goalNodes[h] EXCEPT !.parent = {}]
      BY <1>1, <1>5, <2>2
    <3> QED BY <1>2, <2>2, <3>1 DEF GoalRecords
  <2>3. CASE h # p /\ h # g
    BY <1>1, <1>5, <2>3
  <2> QED BY <2>1, <2>2, <2>3
<1>7. Whole(V, ParentsOf(n), SubgoalsOf(n), rootGoals')
  <2> DEFINE up == ParentsOf(n)
             below == SubgoalsOf(n)
             rs == IF g \in ToSet(rootGoals) THEN rootGoals ELSE Append(rootGoals, g)
  <2>1. Whole(V, parents, subgoals, rootGoals) /\ V \subseteq GoalAtoms /\ g \in V /\ p \in V /\ parents[g] = {p} /\ p # g
    BY <1>1, <1>2
  <2>2. \A h \in V : up[h] = n[h].parent /\ below[h] = n[h].subgoals
    BY <1>5 DEF ParentsOf, SubgoalsOf
  <2>3. \A h \in V : parents[h] = goalNodes[h].parent /\ subgoals[h] = goalNodes[h].subgoals
    BY <1>1
  <2>4. Detached(up, below, V, parents, subgoals, p, g)
    <3> HIDE DEF V, parents, subgoals, up, below
    <3> QED BY <1>6, <2>2, <2>3 DEF Detached
  <2> HIDE DEF V, parents, subgoals, up, below
  <2>5. Whole(V, up, below, rs)
    BY <2>1, <2>4, WholeDetach
  <2> QED BY <1>2, <2>5 DEF up, below
<1>8. \A h \in V : n[h] \in GoalRecords /\ n[h].dependencies \subseteq V
  BY <1>1, <1>6
<1>9. dependencyGraph' = {e \in V \X V : e[2] \in n[e[1]].dependencies}
  BY <1>1, <1>2, <1>6
<1>10. \A a, b \in V : b \in n[a].dependencies \/ b \in n[a].parent => <<a, b>> \in GoalEdges
  BY <1>1, <1>6
<1> HIDE DEF V
<1> QED BY <1>1, <1>4, <1>5, <1>7, <1>8, <1>9, <1>10, GoalInvNext

\* One dependency more or less in the graph
LEMMA EdgesLess ==
  ASSUME NEW V, NEW f, NEW D, D = {e \in V \X V : e[2] \in f[e[1]].dependencies}, NEW g, NEW pre,
         NEW n, \A a, b \in V : b \in n[a].dependencies <=> b \in f[a].dependencies /\ ~(a = g /\ b = pre)
  PROVE  D \ {<<g, pre>>} = {e \in V \X V : e[2] \in n[e[1]].dependencies}
  OBVIOUS

LEMMA AddDependencyKeeps ==
  ASSUME GoalInv, NEW g, NEW pre, AddGoalDependency(g, pre)
  PROVE  GoalInv'
<1> DEFINE V == GoalsIn
           d == goalNodes[g].dependencies \cup {pre}
           edges == GoalEdges \cup {<<g, pre>>}
<1>1. /\ V \subseteq GoalAtoms
      /\ \A h \in V : goalNodes[h] \in GoalRecords /\ goalNodes[h].dependencies \subseteq V
      /\ Whole(V, ParentsOf(goalNodes), SubgoalsOf(goalNodes), rootGoals) /\ Acyclic(V, GoalEdges)
      /\ dependencyGraph = {e \in V \X V : e[2] \in goalNodes[e[1]].dependencies}
      /\ \A a, b \in V : b \in goalNodes[a].dependencies \/ b \in goalNodes[a].parent => <<a, b>> \in GoalEdges
  BY GoalFacts
<1>2. /\ g \in V /\ pre \in V /\ g \notin Reached(GoalEdges, pre)
      /\ goalNodes' = [goalNodes EXCEPT ![g].dependencies = d]
      /\ dependencyGraph' = dependencyGraph \cup {<<g, pre>>} /\ rootGoals' = rootGoals
  BY DEF AddGoalDependency, HasDependencyCycle
<1>3. PICK n : n = goalNodes'
  OBVIOUS
<1>4. DOMAIN n = V /\ n[g] = [goalNodes[g] EXCEPT !.dependencies = d] /\ \A h \in V : h # g => n[h] = goalNodes[h]
  <2> HIDE DEF d
  <2> QED BY <1>2, <1>3 DEF GoalsIn
<1>5. ASSUME NEW h \in V
      PROVE  /\ n[h] \in GoalRecords /\ n[h].parent = goalNodes[h].parent /\ n[h].subgoals = goalNodes[h].subgoals
             /\ n[h].dependencies = IF h = g THEN goalNodes[h].dependencies \cup {pre} ELSE goalNodes[h].dependencies
  <2>1. CASE h = g
    <3>1. goalNodes[h] \in GoalRecords /\ n[h] = [goalNodes[h] EXCEPT !.dependencies = d] /\ d \in SUBSET GoalAtoms
      BY <1>1, <1>2, <1>4, <2>1
    <3>2. d = goalNodes[h].dependencies \cup {pre}
      BY <2>1
    <3> HIDE DEF d
    <3>3. n[h] \in GoalRecords /\ n[h].parent = goalNodes[h].parent /\ n[h].subgoals = goalNodes[h].subgoals /\ n[h].dependencies = d
      BY <3>1 DEF GoalRecords
    <3> QED BY <2>1, <3>2, <3>3
  <2>2. CASE h # g
    BY <1>1, <1>4, <2>2
  <2> QED BY <2>1, <2>2
<1>6. Whole(V, ParentsOf(n), SubgoalsOf(n), rootGoals')
  <2>1. ParentsOf(n) = ParentsOf(goalNodes) /\ SubgoalsOf(n) = SubgoalsOf(goalNodes)
    BY <1>4, <1>5 DEF ParentsOf, SubgoalsOf, GoalsIn
  <2> QED BY <1>1, <1>2, <2>1
<1>7. \A h \in V : n[h].dependencies \subseteq V
  BY <1>1, <1>2, <1>5
<1>8. dependencyGraph' = {e \in V \X V : e[2] \in n[e[1]].dependencies}
  <2>1. \A a, b \in V : b \in n[a].dependencies <=> b \in goalNodes[a].dependencies \/ (a = g /\ b = pre)
    BY <1>5
  <2>2. PICK D : D = dependencyGraph
    OBVIOUS
  <2>3. D = {e \in V \X V : e[2] \in goalNodes[e[1]].dependencies} /\ g \in V
    BY <1>1, <1>2, <2>2
  <2> HIDE DEF V
  <2>4. ASSUME NEW e \in V \X V PROVE e \in D \cup {<<g, pre>>} <=> e[2] \in n[e[1]].dependencies
    <3>1. e = <<e[1], e[2]>> /\ e[1] \in V /\ e[2] \in V
      OBVIOUS
    <3>2. e = <<g, pre>> <=> e[1] = g /\ e[2] = pre
      BY <3>1
    <3>3. e \in D <=> e[2] \in goalNodes[e[1]].dependencies
      BY <2>3
    <3>4. e[2] \in n[e[1]].dependencies <=> e[2] \in goalNodes[e[1]].dependencies \/ (e[1] = g /\ e[2] = pre)
      BY <3>1, <2>1
    <3> QED BY <3>2, <3>3, <3>4
  <2>5. D \cup {<<g, pre>>} \subseteq V \X V
    BY <1>2, <2>3
  <2>6. D \cup {<<g, pre>>} = {e \in V \X V : e[2] \in n[e[1]].dependencies}
    BY <2>4, <2>5
  <2> QED BY <1>2, <2>2, <2>6
<1>9. Acyclic(V, edges)
  <2>1. PICK C \in SUBSET V : pre \in C /\ ClosedUnder(C, GoalEdges) /\ g \notin C
    BY <1>2 DEF Reached
  <2>2. \A e \in GoalEdges : e[1] \in C => e[2] \in C
    BY <2>1 DEF ClosedUnder
  <2> HIDE DEF V
  <2> QED BY <1>1, <1>2, <2>1, <2>2, NewEdge
<1>10. \A a, b \in V : b \in n[a].dependencies \/ b \in n[a].parent => <<a, b>> \in edges
  BY <1>1, <1>5
<1>11. \A h \in V : n[h] \in GoalRecords /\ n[h].dependencies \subseteq V
  BY <1>5, <1>7
<1> HIDE DEF V, edges
<1> QED BY <1>1, <1>3, <1>4, <1>6, <1>8, <1>9, <1>10, <1>11, GoalInvNext

LEMMA RemoveDependencyKeeps ==
  ASSUME GoalInv, NEW g, NEW pre, RemoveGoalDependency(g, pre)
  PROVE  GoalInv'
<1> DEFINE V == GoalsIn
           d == goalNodes[g].dependencies \ {pre}
<1>1. /\ V \subseteq GoalAtoms
      /\ \A h \in V : goalNodes[h] \in GoalRecords /\ goalNodes[h].dependencies \subseteq V
      /\ Whole(V, ParentsOf(goalNodes), SubgoalsOf(goalNodes), rootGoals) /\ Acyclic(V, GoalEdges)
      /\ dependencyGraph = {e \in V \X V : e[2] \in goalNodes[e[1]].dependencies}
      /\ \A a, b \in V : b \in goalNodes[a].dependencies \/ b \in goalNodes[a].parent => <<a, b>> \in GoalEdges
  BY GoalFacts
<1>2. /\ g \in V /\ goalNodes' = [goalNodes EXCEPT ![g].dependencies = d]
      /\ dependencyGraph' = dependencyGraph \ {<<g, pre>>} /\ rootGoals' = rootGoals
  BY DEF RemoveGoalDependency
<1>3. PICK n : n = goalNodes'
  OBVIOUS
<1>4. DOMAIN n = V /\ n[g] = [goalNodes[g] EXCEPT !.dependencies = d] /\ \A h \in V : h # g => n[h] = goalNodes[h]
  <2> HIDE DEF d
  <2> QED BY <1>2, <1>3 DEF GoalsIn
<1>5. ASSUME NEW h \in V
      PROVE  /\ n[h] \in GoalRecords /\ n[h].parent = goalNodes[h].parent /\ n[h].subgoals = goalNodes[h].subgoals
             /\ n[h].dependencies = IF h = g THEN goalNodes[h].dependencies \ {pre} ELSE goalNodes[h].dependencies
  <2>1. CASE h = g
    <3>1. goalNodes[h] \in GoalRecords /\ n[h] = [goalNodes[h] EXCEPT !.dependencies = d] /\ d \in SUBSET GoalAtoms
      BY <1>1, <1>2, <1>4, <2>1
    <3>2. d = goalNodes[h].dependencies \ {pre}
      BY <2>1
    <3> HIDE DEF d
    <3>3. n[h] \in GoalRecords /\ n[h].parent = goalNodes[h].parent /\ n[h].subgoals = goalNodes[h].subgoals /\ n[h].dependencies = d
      BY <3>1 DEF GoalRecords
    <3> QED BY <2>1, <3>2, <3>3
  <2>2. CASE h # g
    BY <1>1, <1>4, <2>2
  <2> QED BY <2>1, <2>2
<1>6. Whole(V, ParentsOf(n), SubgoalsOf(n), rootGoals')
  <2>1. ParentsOf(n) = ParentsOf(goalNodes) /\ SubgoalsOf(n) = SubgoalsOf(goalNodes)
    BY <1>4, <1>5 DEF ParentsOf, SubgoalsOf, GoalsIn
  <2> QED BY <1>1, <1>2, <2>1
<1>7. \A h \in V : n[h] \in GoalRecords /\ n[h].dependencies \subseteq V
  BY <1>1, <1>5
<1>8. dependencyGraph' = {e \in V \X V : e[2] \in n[e[1]].dependencies}
  <2>1. \A a, b \in V : b \in n[a].dependencies <=> b \in goalNodes[a].dependencies /\ ~(a = g /\ b = pre)
    BY <1>5
  <2>2. PICK D : D = dependencyGraph
    OBVIOUS
  <2>3. D = {e \in V \X V : e[2] \in goalNodes[e[1]].dependencies} /\ g \in V
    BY <1>1, <1>2, <2>2
  <2> HIDE DEF V
  <2>4. D \ {<<g, pre>>} = {e \in V \X V : e[2] \in n[e[1]].dependencies}
    BY <1>2, <2>1, <2>3, EdgesLess
  <2> QED BY <1>2, <2>2, <2>4
<1>9. \A a, b \in V : b \in n[a].dependencies \/ b \in n[a].parent => <<a, b>> \in GoalEdges
  BY <1>1, <1>5
<1> HIDE DEF V
<1> QED BY <1>1, <1>3, <1>4, <1>6, <1>7, <1>8, <1>9, GoalInvNext

LEMMA NoGoals ==
  ASSUME NEW n, n = NoKeys
  PROVE  /\ DOMAIN n = {} /\ Whole({}, ParentsOf(n), SubgoalsOf(n), <<>>) /\ Acyclic({}, {})
  BY DEF NoKeys, Whole, Lists, Unrepeated, ToSet, Acyclic

LEMMA GoalsInitial == GoalsInit => GoalInv
<1> SUFFICES ASSUME GoalsInit PROVE GoalInv
  OBVIOUS
<1>1. goalNodes = NoKeys /\ rootGoals = <<>> /\ dependencyGraph = {}
  BY DEF GoalsInit
<1>2. GoalsIn = {}
  BY <1>1, NoGoals DEF GoalsIn
<1>3. Whole(GoalsIn, ParentsOf(goalNodes), SubgoalsOf(goalNodes), rootGoals)
  BY <1>1, <1>2, NoGoals
<1>4. Acyclic(GoalsIn, GoalEdges) /\ GraphIsCurrent
  BY <1>1, <1>2 DEF Acyclic, GraphIsCurrent
<1> QED BY <1>2, <1>3, <1>4, GoalInvIs

LEMMA ShutKeeps ==
  ASSUME ShutGoals
  PROVE  GoalInv'
<1>1. PICK n : n = goalNodes'
  OBVIOUS
<1>2. n = NoKeys /\ rootGoals' = <<>> /\ dependencyGraph' = {}
  BY <1>1 DEF ShutGoals
<1>3. DOMAIN n = {} /\ Whole({}, ParentsOf(n), SubgoalsOf(n), rootGoals') /\ Acyclic({}, {})
  BY <1>2, NoGoals
<1> DEFINE W == {}
<1>4. /\ W \subseteq GoalAtoms /\ DOMAIN n = W /\ Whole(W, ParentsOf(n), SubgoalsOf(n), rootGoals') /\ Acyclic(W, {})
      /\ \A h \in W : n[h] \in GoalRecords /\ n[h].dependencies \subseteq W
      /\ dependencyGraph' = {e \in W \X W : e[2] \in n[e[1]].dependencies}
      /\ \A g, h \in W : h \in n[g].dependencies \/ h \in n[g].parent => <<g, h>> \in {}
  BY <1>2, <1>3
<1> HIDE DEF W
<1> QED BY <1>1, <1>4, GoalInvNext

LEMMA GoalsInductive == GoalInv /\ [GoalsNext]_goalVars => GoalInv'
<1> SUFFICES ASSUME GoalInv, [GoalsNext]_goalVars PROVE GoalInv'
  OBVIOUS
<1>1. ASSUME NEW g \in GoalAtoms, NEW P \in {{}} \cup {{p} : p \in GoalsIn}, AddGoal(g, P) PROVE GoalInv'
  <2>1. P = {} \/ \E p \in GoalsIn : P = {p}
    OBVIOUS
  <2> QED BY <1>1, <2>1, AddKeeps
<1>2. ASSUME NEW g \in GoalAtoms, RemoveSubtree(g) PROVE GoalInv'
  BY <1>2, RemoveSubtreeKeeps
<1>3. ASSUME NEW g \in GoalAtoms, RemoveGoal(g) PROVE GoalInv'
  BY <1>3, RemoveGoalKeeps
<1>4. ASSUME NEW p \in GoalsIn, NEW g \in GoalsIn, DetachSubgoal(p, g) PROVE GoalInv'
  BY <1>4, DetachKeeps
<1>5. CASE ShutGoals
  BY <1>5, ShutKeeps
<1>6. ASSUME NEW g \in GoalsIn, NEW pre \in GoalsIn, AddGoalDependency(g, pre) PROVE GoalInv'
  BY <1>6, AddDependencyKeeps
<1>7. ASSUME NEW g \in GoalsIn, NEW pre \in GoalsIn, RemoveGoalDependency(g, pre) PROVE GoalInv'
  BY <1>7, RemoveDependencyKeeps
<1>8. CASE UNCHANGED goalVars
  BY <1>8 DEF goalVars, GoalInv, GoalsIn, GraphIsCurrent
<1> QED BY <1>1, <1>2, <1>3, <1>4, <1>5, <1>6, <1>7, <1>8 DEF GoalsNext, TreeStep, DependencyStep

LEMMA GoalInvSuffices == GoalInv => GoalsAreOrdered
<1> SUFFICES ASSUME GoalInv PROVE GoalsAreOrdered
  OBVIOUS
<1>1. /\ \A h \in GoalsIn : /\ goalNodes[h].parent \subseteq GoalsIn
                           /\ ParentsOf(goalNodes)[h] = goalNodes[h].parent /\ SubgoalsOf(goalNodes)[h] = goalNodes[h].subgoals
      /\ Whole(GoalsIn, ParentsOf(goalNodes), SubgoalsOf(goalNodes), rootGoals)
      /\ Acyclic(GoalsIn, GoalEdges)
  BY GoalFacts
<1>2. ASSUME NEW g \in GoalsIn
      PROVE  ToSet(goalNodes[g].subgoals) = {h \in GoalsIn : goalNodes[h].parent = {g}} /\ IsInjective(goalNodes[g].subgoals)
  <2>1. Lists(goalNodes[g].subgoals, {h \in GoalsIn : ParentsOf(goalNodes)[h] = {g}})
    BY <1>1 DEF Whole
  <2>2. {h \in GoalsIn : ParentsOf(goalNodes)[h] = {g}} = {h \in GoalsIn : goalNodes[h].parent = {g}}
    BY <1>1
  <2> QED BY <2>1, <2>2 DEF Lists, Unrepeated, IsInjective
<1>3. ToSet(rootGoals) = {g \in GoalsIn : goalNodes[g].parent = {}} /\ IsInjective(rootGoals)
  <2>1. Lists(rootGoals, {h \in GoalsIn : ParentsOf(goalNodes)[h] = {}})
    BY <1>1 DEF Whole
  <2>2. {h \in GoalsIn : ParentsOf(goalNodes)[h] = {}} = {h \in GoalsIn : goalNodes[h].parent = {}}
    BY <1>1
  <2> QED BY <2>1, <2>2 DEF Lists, Unrepeated, IsInjective
<1>4. TreesAreWhole
  BY <1>1, <1>2, <1>3 DEF TreesAreWhole
<1>5. NoCycles
  BY <1>1 DEF NoCycles, Acyclic
<1> QED BY <1>4, <1>5 DEF GoalsAreOrdered, GoalInv

\* GoalHierarchy is a forest of bounded depth and breadth whose links are mutual, and the
\* prerequisites go round in no circle, whatever is added, moved and removed.
THEOREM GoalsOrdered == GoalsSpec => []GoalsAreOrdered
<1> QED BY GoalsInitial, GoalsInductive, GoalInvSuffices, PTL DEF GoalsSpec

(***************************************************************************)
(* The order of rules                                                      *)
(***************************************************************************)
RuleRecords == [name : RuleNames, priority : Int, born : Nat]

Earlier(r, s) == r.priority > s.priority \/ (r.priority = s.priority /\ r.born < s.born)
InTurnOf(s) == \A i, j \in DOMAIN s : i < j => Earlier(s[i], s[j])

RulesInv ==
  /\ rules \in Seq(RuleRecords) /\ added \in Nat /\ \A i \in DOMAIN rules : rules[i].born < added
  /\ InTurnOf(rules)

LEMMA RuleFields == \A r \in RuleRecords : r.name \in RuleNames /\ r.priority \in Int /\ r.born \in Nat
BY DEF RuleRecords

LEMMA Concatenated ==
  ASSUME NEW S, NEW s \in Seq(S), NEW t \in Seq(S)
  PROVE  /\ s \o t \in Seq(S) /\ Len(s \o t) = Len(s) + Len(t)
         /\ \A i \in 1..Len(s) + Len(t) : (s \o t)[i] = IF i <= Len(s) THEN s[i] ELSE t[i - Len(s)]
OBVIOUS

\* What insertion at a position makes of a vector
LEMMA InsertAtIs ==
  ASSUME NEW S, NEW s \in Seq(S), NEW x \in S, NEW k \in 0..Len(s)
  PROVE  /\ InsertAt(s, k + 1, x) \in Seq(S) /\ DOMAIN InsertAt(s, k + 1, x) = 1..Len(s) + 1
         /\ \A i \in 1..k : InsertAt(s, k + 1, x)[i] = s[i]
         /\ InsertAt(s, k + 1, x)[k + 1] = x
         /\ \A i \in k + 2..Len(s) + 1 : InsertAt(s, k + 1, x)[i] = s[i - 1]
<1> DEFINE t == SubSeq(s, 1, k)
           u == SubSeq(s, k + 1, Len(s))
           one == <<x>>
<1>1. t \in Seq(S) /\ Len(t) = k /\ \A i \in 1..k : t[i] = s[i]
  OBVIOUS
<1>2. u \in Seq(S) /\ Len(u) = Len(s) - k /\ \A i \in 1..Len(s) - k : u[i] = s[k + i]
  OBVIOUS
<1>3. one \in Seq(S) /\ Len(one) = 1 /\ one[1] = x
  OBVIOUS
<1>4. InsertAt(s, k + 1, x) = (t \o one) \o u
  <2>1. (k + 1) - 1 = k
    OBVIOUS
  <2> QED BY <2>1, Zenon DEF InsertAt
<1> HIDE DEF t, u, one
<1> DEFINE v == t \o one
           w == v \o u
<1>5. v \in Seq(S) /\ Len(v) = k + 1 /\ \A i \in 1..k + 1 : v[i] = IF i <= k THEN t[i] ELSE one[i - k]
  <2> HIDE DEF t, one
  <2> QED BY <1>1, <1>3, Concatenated
<1> HIDE DEF v
<1>6. v \in Seq(S) /\ Len(v) = k + 1 /\ v[k + 1] = x /\ \A i \in 1..k : v[i] = s[i]
  BY <1>1, <1>3, <1>5
<1>7. /\ w \in Seq(S) /\ DOMAIN w = 1..Len(s) + 1
      /\ \A i \in 1..k + 1 : w[i] = v[i]
      /\ \A i \in k + 2..Len(s) + 1 : w[i] = u[i - (k + 1)]
  BY <1>2, <1>6
<1> HIDE DEF w
<1>8. \A i \in k + 2..Len(s) + 1 : u[i - (k + 1)] = s[i - 1]
  BY <1>2
<1>9. InsertAt(s, k + 1, x) = w
  BY <1>4 DEF v, w
<1>10. w[k + 1] = x /\ \A i \in 1..k : w[i] = s[i]
  BY <1>6, <1>7
<1>11. \A i \in k + 2..Len(s) + 1 : w[i] = s[i - 1]
  BY <1>7, <1>8
<1> QED BY <1>7, <1>9, <1>10, <1>11

\* How many of a sorted vector's elements are of at least some rank, is where they end
LEMMA PlaceOfRule ==
  ASSUME NEW s \in Seq(RuleRecords), InTurnOf(s), NEW p \in Int,
         NEW I, I = {i \in DOMAIN s : s[i].priority >= p}
  PROVE  Cardinality(I) \in 0..Len(s) /\ I = 1..Cardinality(I)
<1> DEFINE n == Len(s)
           J == (1..n + 1) \ I
<1>1. \A i \in 1..n : s[i] \in RuleRecords /\ s[i].priority \in Int
  BY RuleFields
<1>2. \A i, j \in 1..n : i < j => s[i].priority >= s[j].priority
  <2> SUFFICES ASSUME NEW i \in 1..n, NEW j \in 1..n, i < j PROVE s[i].priority >= s[j].priority
    OBVIOUS
  <2>1. Earlier(s[i], s[j])
    BY DEF InTurnOf
  <2> QED BY <1>1, <2>1 DEF Earlier
<1>3. n + 1 \in J /\ J \subseteq Nat
  OBVIOUS
<1>4. PICK k \in J : \A i \in J : k <= i
  BY <1>3, LeastNumber
<1>5. k \in 1..n + 1 /\ 1..k - 1 \subseteq I
  BY <1>4
<1>6. I \subseteq 1..k - 1
  <2> SUFFICES ASSUME NEW i \in I, ~(i < k) PROVE FALSE
    BY <1>5
  <2>1. i # k /\ k < i /\ k \in 1..n
    BY <1>4, <1>5
  <2>2. s[k].priority >= s[i].priority
    BY <1>2, <2>1
  <2>3. k \in I
    BY <1>1, <2>1, <2>2
  <2> QED BY <2>3, <1>4
<1>7. Cardinality(1..k - 1) = k - 1
  BY <1>5, FS_Interval
<1>8. k - 1 \in 0..n /\ I = 1..k - 1
  BY <1>5, <1>6
<1> QED BY <1>7, <1>8

LEMMA AddRuleKeepsOrder ==
  ASSUME RulesInv, NEW name \in RuleNames, NEW priority \in RulePriorities, AddRule(name, priority)
  PROVE  RulesInv'
<1> DEFINE r == [name |-> name, priority |-> priority, born |-> added]
           I == {i \in DOMAIN rules : rules[i].priority >= priority}
           k == Cardinality(I)
           t == InsertAt(rules, k + 1, r)
           n == Len(rules)
<1>1. /\ r \in RuleRecords /\ r.priority = priority /\ r.born = added /\ priority \in Int
      /\ rules \in Seq(RuleRecords) /\ added \in Nat /\ InTurnOf(rules)
      /\ \A i \in DOMAIN rules : rules[i].born < added
  BY ReasoningAssumption DEF RulesInv, RuleRecords
<1>2. \A i \in 1..n : rules[i] \in RuleRecords /\ rules[i].priority \in Int /\ rules[i].born \in Nat
  BY <1>1, RuleFields
<1>3. {i \in DOMAIN rules : ~Before(r, rules[i])} = I
  BY <1>1, <1>2 DEF Before
<1>4. rules' = t /\ added' = added + 1
  BY <1>3 DEF AddRule
<1>5. k \in 0..n /\ I = 1..k
  BY <1>1, PlaceOfRule, Zenon
<1>6. \A i \in 1..n : (rules[i].priority >= priority <=> i <= k)
  BY <1>5
<1> HIDE DEF I, k, r
<1>7. /\ t \in Seq(RuleRecords) /\ DOMAIN t = 1..n + 1 /\ \A i \in 1..k : t[i] = rules[i]
      /\ t[k + 1] = r /\ \A i \in k + 2..n + 1 : t[i] = rules[i - 1]
  BY <1>1, <1>5, InsertAtIs
<1> HIDE DEF t
<1>8. ASSUME NEW i \in DOMAIN t PROVE t[i].born < added + 1
  <2>1. CASE i <= k
    <3>1. i \in 1..n /\ t[i] = rules[i]
      BY <2>1, <1>5, <1>7
    <3> QED BY <3>1, <1>1, <1>2
  <2>2. CASE i = k + 1
    BY <2>2, <1>1, <1>7
  <2>3. CASE i > k + 1
    <3>1. i - 1 \in 1..n /\ t[i] = rules[i - 1]
      BY <2>3, <1>5, <1>7
    <3> QED BY <3>1, <1>1, <1>2
  <2> QED BY <2>1, <2>2, <2>3, <1>5, <1>7
<1>9. ASSUME NEW i \in DOMAIN t, NEW j \in DOMAIN t, i < j PROVE Earlier(t[i], t[j])
  <2> DEFINE old(l) == IF l <= k THEN l ELSE l - 1
  <2>1. ASSUME i # k + 1, j # k + 1 PROVE Earlier(t[i], t[j])
    <3>1. old(i) \in 1..n /\ old(j) \in 1..n /\ old(i) < old(j)
      BY <2>1, <1>5, <1>7, <1>9
    <3>2. t[i] = rules[old(i)] /\ t[j] = rules[old(j)]
      BY <2>1, <1>5, <1>7
    <3> HIDE DEF old
    <3> QED BY <3>1, <3>2, <1>1 DEF InTurnOf
  <2>2. CASE i = k + 1
    <3>1. j - 1 \in 1..n /\ ~(j - 1 <= k) /\ t[j] = rules[j - 1]
      BY <2>2, <1>5, <1>7, <1>9
    <3>2. ~(rules[j - 1].priority >= priority)
      BY <3>1, <1>6
    <3> QED BY <2>2, <3>1, <3>2, <1>1, <1>2, <1>7 DEF Earlier
  <2>3. CASE j = k + 1
    <3>1. i \in 1..n /\ i <= k /\ t[i] = rules[i]
      BY <2>3, <1>5, <1>7, <1>9
    <3>2. rules[i].priority >= priority /\ rules[i].born < added
      BY <3>1, <1>1, <1>6
    <3> QED BY <2>3, <3>1, <3>2, <1>1, <1>2, <1>7 DEF Earlier
  <2> QED BY <2>1, <2>2, <2>3
<1>10. added + 1 \in Nat
  BY <1>1
<1> QED BY <1>4, <1>7, <1>8, <1>9, <1>10 DEF RulesInv, InTurnOf

LEMMA RemoveRuleKeepsOrder ==
  ASSUME RulesInv, NEW name \in RuleNames, RemoveRule(name)
  PROVE  RulesInv'
<1> DEFINE I == {i \in DOMAIN rules : rules[i].name # name}
           t == ElementsAt(rules, I)
<1>1. rules' = t /\ added' = added
  BY DEF RemoveRule
<1>2. /\ rules \in Seq(RuleRecords) /\ added \in Nat /\ I \subseteq DOMAIN rules
      /\ \A i \in DOMAIN rules : rules[i].born < added
      /\ \A i, j \in DOMAIN rules : i < j => Earlier(rules[i], rules[j])
  BY DEF RulesInv, InTurnOf
<1> HIDE DEF I
<1>3. t \in Seq(RuleRecords) /\ Picks(t, rules, I)
  BY <1>2, ElementsAtIs
<1> HIDE DEF t
<1>4. PICK f \in [DOMAIN t -> I] : /\ \A k \in DOMAIN t : t[k] = rules[f[k]]
                                   /\ \A j, k \in DOMAIN t : j < k => f[j] < f[k]
  BY <1>3 DEF Picks
<1>5. \A k \in DOMAIN t : f[k] \in DOMAIN rules
  BY <1>2, <1>4
<1>6. \A k \in DOMAIN t : t[k].born < added
  BY <1>2, <1>4, <1>5
<1>7. \A j, k \in DOMAIN t : j < k => Earlier(t[j], t[k])
  BY <1>2, <1>4, <1>5
<1> QED BY <1>1, <1>2, <1>3, <1>6, <1>7 DEF RulesInv, InTurnOf

LEMMA OrderAtFirst == ReasoningInit => RulesInv
<1> SUFFICES ASSUME ReasoningInit PROVE RulesInv
  OBVIOUS
<1>1. CASE rules = <<>>
  BY <1>1 DEF ReasoningInit, RulesInv, InTurnOf
<1>2. ASSUME NEW other \in OtherRules,
             rules = <<[name |-> other, priority |-> 2, born |-> 0], [name |-> Transitivity, priority |-> 1, born |-> 1]>>
      PROVE  RulesInv
  <2> DEFINE r == [name |-> other, priority |-> 2, born |-> 0]
             s == [name |-> Transitivity, priority |-> 1, born |-> 1]
  <2>1. r \in RuleRecords /\ s \in RuleRecords /\ r.born = 0 /\ s.born = 1 /\ r.priority > s.priority
    BY DEF RuleRecords, RuleNames
  <2>2. rules = <<r, s>> /\ added = Len(rules)
    BY <1>2 DEF ReasoningInit
  <2> HIDE DEF r, s
  <2> QED BY <2>1, <2>2 DEF RulesInv, InTurnOf, Earlier
<1> QED BY <1>1, <1>2 DEF ReasoningInit, DefaultRules

LEMMA OrderInductive == RulesInv /\ [ReasoningNext]_reasoningVars => RulesInv'
<1> SUFFICES ASSUME RulesInv, [ReasoningNext]_reasoningVars PROVE RulesInv'
  OBVIOUS
<1>1. ASSUME UNCHANGED <<rules, added>> PROVE RulesInv'
  BY <1>1 DEF RulesInv, InTurnOf
<1>2. CASE RuleStep
  BY <1>2, AddRuleKeepsOrder, RemoveRuleKeepsOrder DEF RuleStep
<1>3. CASE ChainStep
  <2>1. UNCHANGED <<rules, added>>
    <3>1. CASE \E limit \in PassLimits : RunForwardChaining(limit)
      BY <3>1 DEF RunForwardChaining
    <3>2. CASE TryRule
      BY <3>2 DEF TryRule
    <3>3. CASE EndPass
      BY <3>3 DEF EndPass
    <3>4. CASE \E ab \in chain.todo : InferFrom(ab)
      BY <3>4 DEF InferFrom
    <3> QED BY <1>3, <3>1, <3>2, <3>3, <3>4 DEF ChainStep
  <2> QED BY <2>1, <1>1
<1>4. CASE Notice \/ \E a, b \in Concepts : Tell(a, b)
  BY <1>4, <1>1 DEF Notice, Tell
<1>5. CASE UNCHANGED reasoningVars
  BY <1>5, <1>1 DEF reasoningVars
<1> QED BY <1>2, <1>3, <1>4, <1>5 DEF ReasoningNext

(***************************************************************************)
(* What the rules infer                                                    *)
(***************************************************************************)
ConceptLinks == Concepts \X Concepts
Calls == [limit : Nat, passes : Nat, at : Nat, walks : BOOLEAN, todo : SUBSET ConceptLinks,
          fired : BOOLEAN, clean : BOOLEAN]

\* The links t, doubled up to twice; whether s has them all; and passes, as far as they count
Paths(t, n) == IF n = 0 THEN t ELSE IF n = 1 THEN Doubled(t) ELSE Doubled(Doubled(t))
Knows(s, t, n) == Paths(t, n) \subseteq s
Capped(n) == IF n < 2 THEN n ELSE 2

\* s has what follows from two links of X, the first of which is not still to walk from
Joins(X, s, todo) == \A l \in X \ todo : \A m \in X : m[1] = l[2] => <<l[1], m[2]>> \in s
Joinable(s) == \E l, m \in s : l[2] = m[1]

\* Whether the rule over links is among the first n rules
WalkedBefore(rs, n) == \E i \in 1..n : rs[i].name = Transitivity
\* The number of rules that this pass is done with
Done(c) == IF c.walks THEN c.at - 2 ELSE c.at - 1

\* What a call relies on: a pass in which nothing is told goes one doubling further
Progress(c, s, t, n, rs) ==
  /\ Knows(s, t, Capped(n + c.passes))
  /\ WalkedBefore(rs, Done(c)) => Knows(s, t, Capped(n + c.passes + 1))
  /\ c.walks => Joins(Paths(t, Capped(n + c.passes)), s, c.todo)
  /\ ~c.fired /\ WalkedBefore(rs, c.at - 1) => ~Joinable(s)

CallOk(c, s, t, n, rs) ==
  /\ c \in Calls /\ c.at \in 1..Len(rs) + 1
  /\ c.walks <=> c.todo # {}
  /\ c.todo \subseteq s
  /\ c.walks => c.fired /\ c.at > 1
  /\ c.clean /\ WalkedBefore(rs, Len(rs)) => Progress(c, s, t, n, rs)

LinksInv == isA \subseteq ConceptLinks /\ told \subseteq isA /\ \A l \in isA : Leads(told, l[1], l[2])

InferenceInv ==
  /\ LinksInv /\ covered \in 0..2 /\ Knows(isA, told, covered)
  /\ chain = NoChain \/ CallOk(chain, isA, told, covered, rules)

(* Paths *)

LEMMA DoubledIs ==
  ASSUME NEW X, NEW x
  PROVE  x \in Doubled(X) <=> x \in X \/ \E l, m \in X : m[1] = l[2] /\ x = <<l[1], m[2]>>
BY DEF Doubled

LEMMA PathsGrow ==
  ASSUME NEW t, NEW n \in 0..2, NEW m \in 0..2, m <= n
  PROVE  Paths(t, m) \subseteq Paths(t, n)
<1>1. \A X : X \subseteq Doubled(X)
  BY DEF Doubled
<1> QED BY <1>1 DEF Paths

LEMMA KnowsLess ==
  ASSUME NEW s, NEW t, NEW n \in 0..2, NEW m \in 0..2, m <= n, Knows(s, t, n)
  PROVE  Knows(s, t, m)
BY PathsGrow DEF Knows

LEMMA KnowsMore ==
  ASSUME NEW s, NEW r, s \subseteq r, NEW t, NEW n, Knows(s, t, n)
  PROVE  Knows(r, t, n)
BY DEF Knows

LEMMA KnowsNext ==
  ASSUME NEW s, NEW t, NEW n \in 0..2, Knows(s, t, n), Joins(Paths(t, n), s, {})
  PROVE  Knows(s, t, Capped(n + 1))
<1>1. CASE n = 2
  BY <1>1 DEF Capped
<1>2. CASE n # 2
  <2>1. Capped(n + 1) = n + 1 /\ Paths(t, n + 1) = Doubled(Paths(t, n))
    BY <1>2 DEF Capped, Paths
  <2> DEFINE X == Paths(t, n)
  <2>2. X \subseteq s /\ Joins(X, s, {})
    BY DEF Knows
  <2> HIDE DEF X
  <2>3. ASSUME NEW x \in Doubled(X) PROVE x \in s
    <3>1. CASE x \in X
      BY <3>1, <2>2
    <3>2. CASE \E l, m \in X : m[1] = l[2] /\ x = <<l[1], m[2]>>
      BY <3>2, <2>2 DEF Joins
    <3> QED BY <3>1, <3>2, <2>3, DoubledIs
  <2> QED BY <2>1, <2>3 DEF X, Knows
<1> QED BY <1>1, <1>2

LEMMA NothingToJoin ==
  ASSUME NEW s, ~Joinable(s), NEW X, X \subseteq s
  PROVE  Joins(X, s, {}) /\ Doubled(X) = X
<1>1. \A l, m \in X : l[2] # m[1]
  BY DEF Joinable
<1>2. \A x : x \in Doubled(X) <=> x \in X
  BY <1>1, DoubledIs
<1> QED BY <1>1, <1>2 DEF Joins

LEMMA KnowsAll ==
  ASSUME NEW s, ~Joinable(s), NEW t, t \subseteq s
  PROVE  Knows(s, t, 2)
<1>1. Doubled(t) = t
  BY NothingToJoin
<1> QED BY <1>1 DEF Knows, Paths

LEMMA CappedIs ==
  ASSUME NEW n \in Nat
  PROVE  /\ Capped(n) \in 0..2 /\ Capped(n + 1) \in 0..2 /\ Capped(n) <= Capped(n + 1)
         /\ Capped(Capped(n) + 1) = Capped(n + 1)
BY DEF Capped

LEMMA InferenceInvSuffices == InferenceInv => InferredRightly
<1> SUFFICES ASSUME InferenceInv PROVE InferredRightly
  OBVIOUS
<1>1. (\A l \in isA : Leads(told, l[1], l[2])) /\ covered \in 0..2 /\ Knows(isA, told, covered)
  BY DEF InferenceInv, LinksInv
<1>2. covered > 0 => Knows(isA, told, 1)
  BY <1>1, KnowsLess
<1>3. covered = 2 => Knows(isA, told, 2)
  BY <1>1
<1>4. (Knows(isA, told, 1) => Doubled(told) \subseteq isA) /\ (Knows(isA, told, 2) => Doubled(Doubled(told)) \subseteq isA)
  BY DEF Knows, Paths
<1> QED BY <1>1, <1>2, <1>3, <1>4 DEF InferredRightly

(* Links that follow *)

LEMMA LeadsAlways == ASSUME NEW t, NEW l \in t PROVE Leads(t, l[1], l[2])
BY DEF Leads

LEMMA LeadsStill ==
  ASSUME NEW t, NEW r, t \subseteq r, NEW a, NEW b, Leads(t, a, b)
  PROVE  Leads(r, a, b)
BY DEF Leads

LEMMA LeadsOn ==
  ASSUME NEW t, NEW a, NEW b, NEW c, Leads(t, a, b), Leads(t, b, c)
  PROVE  Leads(t, a, c)
<1> SUFFICES ASSUME NEW S \in SUBSET Concepts, \A l \in t : l[1] \in S \cup {a} => l[2] \in S
             PROVE  c \in S
  BY DEF Leads
<1>1. b \in S
  BY DEF Leads
<1>2. \A l \in t : l[1] \in S \cup {b} => l[2] \in S
  BY <1>1
<1> QED BY <1>2 DEF Leads

LEMMA InferFromLinks ==
  ASSUME LinksInv, NEW ab \in isA, isA' = isA \cup Follows(ab), told' = told
  PROVE  LinksInv' /\ Follows(ab) \subseteq ConceptLinks
<1>1. ASSUME NEW x \in Follows(ab) PROVE x \in ConceptLinks /\ Leads(told, x[1], x[2])
  <2>1. PICK bc \in isA : bc[1] = ab[2] /\ x = <<ab[1], bc[2]>>
    BY DEF Follows
  <2>2. /\ ab[1] \in Concepts /\ bc[2] \in Concepts
        /\ Leads(told, ab[1], ab[2]) /\ Leads(told, bc[1], bc[2])
    BY DEF LinksInv, ConceptLinks
  <2>3. Leads(told, ab[1], bc[2])
    BY <2>1, <2>2, LeadsOn
  <2> QED BY <2>1, <2>2, <2>3 DEF ConceptLinks
<1> QED BY <1>1 DEF LinksInv

(* The steps *)

LEMMA RulesAre ==
  ASSUME RulesInv
  PROVE  /\ Len(rules) \in Nat /\ DOMAIN rules = 1..Len(rules)
         /\ WalksLinks <=> WalkedBefore(rules, Len(rules))
BY DEF RulesInv, WalksLinks, WalkedBefore

LEMMA NoCallIs == ASSUME NEW c \in Calls PROVE c # NoChain
<1>1. c.limit \in Nat
  BY DEF Calls
<1>2. NoChain.limit = -1
  BY DEF NoChain
<1> QED BY <1>1, <1>2

\* A call moved on: after a rule, after a link, and after a pass
Tried(c, n, f, w, td) == [c EXCEPT !.at = n, !.fired = f, !.walks = w, !.todo = td]
Walked(c, w, td) == [c EXCEPT !.todo = td, !.walks = w]
Passed(c, p) == [c EXCEPT !.passes = p, !.at = 1, !.fired = FALSE]

IsTried(d, c, n, f, w, td) ==
  /\ d \in Calls /\ d.at = n /\ d.fired = f /\ d.walks = w /\ d.todo = td
  /\ d.passes = c.passes /\ d.clean = c.clean
IsWalked(d, c, w, td) == IsTried(d, c, c.at, c.fired, w, td)
IsPassed(d, c, p) ==
  /\ d \in Calls /\ d.at = 1 /\ d.walks = c.walks /\ d.todo = c.todo /\ d.clean = c.clean
  /\ d.passes = p

LEMMA TriedIs ==
  ASSUME NEW c \in Calls, NEW n \in Nat, NEW f \in BOOLEAN, NEW w \in BOOLEAN, NEW td \in SUBSET ConceptLinks
  PROVE  IsTried(Tried(c, n, f, w, td), c, n, f, w, td)
BY DEF Calls, Tried, IsTried

LEMMA WalkedIs ==
  ASSUME NEW c \in Calls, NEW w \in BOOLEAN, NEW td \in SUBSET ConceptLinks
  PROVE  IsWalked(Walked(c, w, td), c, w, td)
BY DEF Calls, Walked, IsWalked, IsTried

LEMMA PassedIs ==
  ASSUME NEW c \in Calls, NEW p \in Nat
  PROVE  IsPassed(Passed(c, p), c, p)
BY DEF Calls, Passed, IsPassed

LEMMA TellKeepsInference ==
  ASSUME InferenceInv, RulesInv, NEW a \in Concepts, NEW b \in Concepts, Tell(a, b)
  PROVE  InferenceInv'
<1> DEFINE l == <<a, b>>
           c == [chain EXCEPT !.clean = FALSE]
<1>1. /\ told' = told \cup {l} /\ isA' = isA \cup {l} /\ covered' = 0 /\ rules' = rules
      /\ chain' = IF chain = NoChain THEN NoChain ELSE c
  BY DEF Tell
<1>2. LinksInv'
  <2>1. isA' \subseteq ConceptLinks /\ told' \subseteq isA'
    BY <1>1 DEF InferenceInv, LinksInv, ConceptLinks
  <2>2. ASSUME NEW x \in isA' PROVE Leads(told', x[1], x[2])
    <3>1. CASE x = l
      BY <3>1, <1>1, LeadsAlways
    <3>2. CASE x \in isA
      BY <3>2, <1>1, LeadsStill DEF InferenceInv, LinksInv
    <3> QED BY <1>1, <3>1, <3>2
  <2> QED BY <2>1, <2>2 DEF LinksInv
<1>3. Knows(isA', told', 0)
  BY <1>2 DEF LinksInv, Knows, Paths
<1>4. ASSUME chain # NoChain PROVE CallOk(c, isA', told', 0, rules)
  <2>1. CallOk(chain, isA, told, covered, rules)
    BY <1>4 DEF InferenceInv
  <2>2. /\ c \in Calls /\ c.at = chain.at /\ c.walks = chain.walks /\ c.todo = chain.todo
        /\ c.fired = chain.fired /\ c.clean = FALSE
    BY <2>1 DEF CallOk, Calls
  <2> HIDE DEF c
  <2> QED BY <2>1, <2>2, <1>1 DEF CallOk
<1> QED BY <1>1, <1>2, <1>3, <1>4 DEF InferenceInv

LEMMA RulesKeepInference ==
  ASSUME InferenceInv, NEW name \in RuleNames, NEW priority,
         AddRule(name, priority) \/ RemoveRule(name)
  PROVE  InferenceInv'
<1>1. chain = NoChain /\ chain' = chain /\ isA' = isA /\ told' = told /\ covered' \in {0, covered}
  BY DEF AddRule, RemoveRule
<1>2. covered' \in 0..2 /\ Knows(isA, told, covered')
  BY <1>1, KnowsLess DEF InferenceInv
<1> QED BY <1>1, <1>2 DEF InferenceInv, LinksInv

LEMMA NoticeKeepsInference ==
  ASSUME InferenceInv, UNCHANGED <<rules, isA, told, chain, covered>>
  PROVE  InferenceInv'
BY DEF InferenceInv, LinksInv

LEMMA CallKeepsInference ==
  ASSUME InferenceInv, RulesInv, NEW limit \in PassLimits, RunForwardChaining(limit)
  PROVE  InferenceInv'
<1> DEFINE c == [limit |-> limit, passes |-> 0, at |-> 1, walks |-> FALSE, todo |-> {},
                 fired |-> FALSE, clean |-> TRUE]
<1>1. chain' = c /\ UNCHANGED <<rules, isA, told, covered>>
  BY DEF RunForwardChaining
<1>2. /\ c \in Calls /\ c.at = 1 /\ c.walks = FALSE /\ c.todo = {} /\ c.passes = 0
  BY ReasoningAssumption DEF Calls
<1> HIDE DEF c
<1>3. ~WalkedBefore(rules, 0) /\ Capped(covered + 0) = covered /\ covered \in 0..2 /\ Knows(isA, told, covered)
  BY DEF WalkedBefore, InferenceInv, Capped
<1>4. Done(c) = 0 /\ c.at - 1 = 0
  BY <1>2 DEF Done
<1>5. Progress(c, isA, told, covered, rules)
  BY <1>2, <1>3, <1>4 DEF Progress
<1>6. CallOk(c, isA, told, covered, rules)
  BY <1>2, <1>5, RulesAre DEF CallOk
<1> QED BY <1>1, <1>6 DEF InferenceInv, LinksInv

LEMMA TryKeepsInference ==
  ASSUME InferenceInv, RulesInv, TryRule
  PROVE  InferenceInv'
<1> DEFINE r == rules[chain.at]
           w == r.name = Transitivity /\ Applies(r)
           c == [chain EXCEPT !.at = @ + 1, !.fired = @ \/ Applies(r), !.walks = w, !.todo = IF w THEN isA ELSE {}]
           k == Capped(covered + chain.passes)
           X == Paths(told, k)
<1>1. /\ chain # NoChain /\ ~chain.walks /\ chain.at <= Len(rules) /\ chain' = c
      /\ UNCHANGED <<rules, isA, told, covered>>
  BY DEF TryRule
<1>2. /\ CallOk(chain, isA, told, covered, rules) /\ LinksInv /\ covered \in 0..2 /\ Len(rules) \in Nat
  BY <1>1, RulesAre DEF InferenceInv
<1>3. chain \in Calls /\ chain.at \in 1..Len(rules) /\ chain.passes \in Nat
  BY <1>1, <1>2 DEF CallOk, Calls
<1>4. r.name = Transitivity => (Applies(r) <=> Joinable(isA))
  BY DEF Applies, Chainable, Joinable
<1> DEFINE f == chain.fired \/ Applies(r)
           td == IF w THEN isA ELSE {}
<1>5. f \in BOOLEAN /\ w \in BOOLEAN /\ td \in SUBSET ConceptLinks
  <2>1. f \in BOOLEAN /\ w \in BOOLEAN
    OBVIOUS
  <2>2. isA \in SUBSET ConceptLinks
    BY <1>2 DEF LinksInv
  <2> QED BY <2>1, <2>2
<1>6. /\ c \in Calls /\ c.at = chain.at + 1 /\ c.fired = (chain.fired \/ Applies(r)) /\ c.walks = w
      /\ c.todo = (IF w THEN isA ELSE {}) /\ c.passes = chain.passes /\ c.clean = chain.clean
  <2>1. c = Tried(chain, chain.at + 1, f, w, td) /\ chain.at + 1 \in Nat
    BY <1>3 DEF Tried
  <2> HIDE DEF c, f, w, td
  <2>2. /\ c \in Calls /\ c.at = chain.at + 1 /\ c.fired = f /\ c.walks = w
        /\ c.todo = td /\ c.passes = chain.passes /\ c.clean = chain.clean
    <3>1. IsTried(c, chain, chain.at + 1, f, w, td)
      BY <2>1, <1>3, <1>5, TriedIs, Zenon
    <3> QED BY <3>1 DEF IsTried
  <2> QED BY <2>2 DEF f, td
<1> HIDE DEF f, td
<1>7. w => isA # {}
  BY <1>4 DEF Joinable
<1> HIDE DEF c, w
<1>8. ASSUME c.clean, WalkedBefore(rules, Len(rules)) PROVE Progress(c, isA, told, covered, rules)
  <2>1. Progress(chain, isA, told, covered, rules)
    BY <1>2, <1>6, <1>8 DEF CallOk
  <2>2. Knows(isA, told, k) /\ k \in 0..2 /\ Capped(k + 1) = Capped(covered + chain.passes + 1)
    <3>1. covered + chain.passes \in Nat
      BY <1>2, <1>3
    <3>2. k \in 0..2 /\ Capped(k + 1) = Capped(covered + chain.passes + 1)
      BY <3>1, CappedIs, Zenon
    <3> QED BY <2>1, <3>2 DEF Progress
  <2>3. X \subseteq isA
    BY <2>2 DEF Knows
  <2> HIDE DEF k, X
  <2>4. ~Joinable(isA) => Knows(isA, told, Capped(k + 1))
    BY <2>2, <2>3, NothingToJoin, KnowsNext DEF X
  <2>5. WalkedBefore(rules, chain.at) => WalkedBefore(rules, chain.at - 1) \/ r.name = Transitivity
    BY <1>3 DEF WalkedBefore
  <2>6. Done(chain) = chain.at - 1 /\ Done(c) = (IF w THEN chain.at - 1 ELSE chain.at) /\ c.at - 1 = chain.at
    BY <1>1, <1>3, <1>6 DEF Done
  <2>7. WalkedBefore(rules, Done(c)) => Knows(isA, told, Capped(k + 1))
    <3>1. WalkedBefore(rules, chain.at - 1) => Knows(isA, told, Capped(k + 1))
      BY <2>1, <2>2, <2>6 DEF Progress
    <3>2. ~w /\ r.name = Transitivity => ~Joinable(isA)
      BY <1>4 DEF w
    <3> QED BY <3>1, <3>2, <2>4, <2>5, <2>6
  <2>8. c.walks => Joins(X, isA, c.todo)
    BY <1>6, <2>3 DEF Joins
  <2>9. ~c.fired /\ WalkedBefore(rules, c.at - 1) => ~Joinable(isA)
    BY <2>1, <2>5, <2>6, <1>4, <1>6 DEF Progress
  <2> QED BY <2>2, <2>7, <2>8, <2>9, <1>6 DEF Progress, k, X
<1>9. w => Applies(r)
  BY DEF w
<1>10. c.at \in 1..Len(rules) + 1 /\ c.at > 1
  BY <1>2, <1>3, <1>6
<1>11. (c.walks <=> c.todo # {}) /\ c.todo \subseteq isA /\ (c.walks => c.fired)
  BY <1>6, <1>7, <1>9
<1>12. CallOk(c, isA, told, covered, rules)
  BY <1>6, <1>8, <1>10, <1>11 DEF CallOk
<1> QED BY <1>1, <1>12 DEF InferenceInv, LinksInv

LEMMA InferKeepsInference ==
  ASSUME InferenceInv, RulesInv, NEW ab \in chain.todo, InferFrom(ab)
  PROVE  InferenceInv'
<1> DEFINE c == [chain EXCEPT !.todo = @ \ {ab}, !.walks = chain.todo # {ab}]
           s == isA \cup Follows(ab)
           k == Capped(covered + chain.passes)
           X == Paths(told, k)
<1>1. chain # NoChain /\ isA' = s /\ chain' = c /\ UNCHANGED <<rules, told, covered>>
  BY DEF InferFrom
<1>2. /\ CallOk(chain, isA, told, covered, rules) /\ LinksInv /\ covered \in 0..2 /\ Len(rules) \in Nat
      /\ Knows(isA, told, covered)
  BY <1>1, RulesAre DEF InferenceInv
<1>3. chain \in Calls /\ chain.passes \in Nat /\ chain.at \in 1..Len(rules) + 1 /\ chain.todo \subseteq isA /\ chain.walks
      /\ chain.fired /\ chain.at > 1
  BY <1>2 DEF CallOk, Calls
<1>4. LinksInv' /\ Follows(ab) \subseteq ConceptLinks
  BY <1>1, <1>2, <1>3, InferFromLinks
<1>5. /\ c \in Calls /\ c.at = chain.at /\ c.fired = chain.fired /\ c.walks = (chain.todo # {ab})
      /\ c.todo = chain.todo \ {ab} /\ c.passes = chain.passes /\ c.clean = chain.clean
  <2> DEFINE w == chain.todo # {ab}
             td == chain.todo \ {ab}
  <2>1. w \in BOOLEAN /\ td \in SUBSET ConceptLinks
    BY <1>3 DEF Calls
  <2>2. c = Walked(chain, w, td)
    BY DEF Walked
  <2> HIDE DEF c, w, td
  <2>3. /\ c \in Calls /\ c.at = chain.at /\ c.fired = chain.fired /\ c.walks = w
        /\ c.todo = td /\ c.passes = chain.passes /\ c.clean = chain.clean
    <3>1. IsWalked(c, chain, w, td)
      BY <2>1, <2>2, <1>3, WalkedIs, Zenon
    <3> QED BY <3>1 DEF IsWalked, IsTried
  <2> QED BY <2>3 DEF w, td
<1> HIDE DEF c
<1>6. c.walks <=> c.todo # {}
  BY <1>5
<1>7. isA \subseteq s /\ \A m \in isA : m[1] = ab[2] => <<ab[1], m[2]>> \in s
  BY DEF Follows
<1> HIDE DEF s
<1>8. ASSUME c.clean, WalkedBefore(rules, Len(rules)) PROVE Progress(c, s, told, covered, rules)
  <2>1. Progress(chain, isA, told, covered, rules)
    BY <1>2, <1>5, <1>8 DEF CallOk
  <2>2. Knows(isA, told, k) /\ k \in 0..2 /\ Capped(k + 1) = Capped(covered + chain.passes + 1)
    <3>1. covered + chain.passes \in Nat
      BY <1>2, <1>3
    <3>2. k \in 0..2 /\ Capped(k + 1) = Capped(covered + chain.passes + 1)
      BY <3>1, CappedIs, Zenon
    <3> QED BY <2>1, <3>2 DEF Progress
  <2>3. X \subseteq isA /\ Joins(X, isA, chain.todo)
    BY <2>1, <2>2, <1>3 DEF Knows, Progress
  <2> HIDE DEF k, X
  <2>4. Joins(X, s, c.todo)
    <3> SUFFICES ASSUME NEW l \in X \ c.todo, NEW m \in X, m[1] = l[2] PROVE <<l[1], m[2]>> \in s
      BY DEF Joins
    <3>1. CASE l = ab
      BY <3>1, <2>3, <1>7
    <3>2. CASE l # ab
      <4>1. l \in X \ chain.todo
        BY <3>2, <1>5
      <4> QED BY <4>1, <2>3, <1>7 DEF Joins
    <3> QED BY <3>1, <3>2
  <2>5. Knows(s, told, k)
    BY <2>2, <1>7, KnowsMore
  <2>6. ~c.walks => Knows(s, told, Capped(k + 1))
    <3> SUFFICES ASSUME ~c.walks PROVE Knows(s, told, Capped(k + 1))
      OBVIOUS
    <3>1. Joins(X, s, {})
      BY <2>4, <1>6
    <3> QED BY <3>1, <2>2, <2>5, KnowsNext DEF X
  <2>7. c.walks => Done(c) = Done(chain)
    BY <1>3, <1>5 DEF Done
  <2>8. WalkedBefore(rules, Done(c)) => Knows(s, told, Capped(k + 1))
    <3>1. WalkedBefore(rules, Done(chain)) => Knows(isA, told, Capped(k + 1))
      BY <2>1, <2>2 DEF Progress
    <3> QED BY <3>1, <2>6, <2>7, <1>7, KnowsMore
  <2> QED BY <2>2, <2>4, <2>5, <2>8, <1>3, <1>5 DEF Progress, k, X
<1>9. CallOk(c, s, told, covered, rules)
  BY <1>3, <1>5, <1>6, <1>7, <1>8 DEF CallOk
<1>10. Knows(s, told, covered)
  BY <1>2, <1>7, KnowsMore
<1> QED BY <1>1, <1>2, <1>4, <1>9, <1>10 DEF InferenceInv

LEMMA LeastOfTwo == ASSUME NEW n \in 0..2 PROVE Min({n + 1, 2}) = Capped(n + 1)
<1>1. Min({n + 1, 2}) = CHOOSE x \in {n + 1, 2} : \A y \in {n + 1, 2} : x <= y
  BY DEF Min
<1>2. Capped(n + 1) \in {n + 1, 2} /\ \A y \in {n + 1, 2} : Capped(n + 1) <= y
  BY DEF Capped
<1>3. \A x \in {n + 1, 2} : (\A y \in {n + 1, 2} : x <= y) => x = Capped(n + 1)
  BY DEF Capped
<1> QED BY <1>1, <1>2, <1>3

LEMMA EndKeepsInference ==
  ASSUME InferenceInv, RulesInv, EndPass
  PROVE  InferenceInv'
<1> DEFINE c == [chain EXCEPT !.passes = IF chain.limit = 0 THEN 0 ELSE @ + 1, !.at = 1, !.fired = FALSE]
           n == Len(rules)
           k == Capped(covered + chain.passes)
<1>1. /\ chain # NoChain /\ ~chain.walks /\ chain.at > n /\ UNCHANGED <<rules, isA, told>>
  BY DEF EndPass
<1>2. /\ CallOk(chain, isA, told, covered, rules) /\ LinksInv /\ covered \in 0..2 /\ n \in Nat
      /\ Knows(isA, told, covered) /\ (WalksLinks <=> WalkedBefore(rules, n))
  BY <1>1, RulesAre DEF InferenceInv
<1>3. chain \in Calls /\ chain.passes \in Nat /\ chain.at = n + 1 /\ chain.todo = {} /\ chain.limit \in Nat
  BY <1>1, <1>2 DEF CallOk, Calls
<1>4. Done(chain) = n /\ chain.at - 1 = n
  BY <1>1, <1>2, <1>3 DEF Done
<1>5. ASSUME chain.clean, WalkedBefore(rules, n)
      PROVE  /\ Knows(isA, told, k) /\ k \in 0..2 /\ Knows(isA, told, Capped(covered + chain.passes + 1))
             /\ ~chain.fired => ~Joinable(isA)
  <2>1. covered + chain.passes \in Nat
    BY <1>2, <1>3
  <2>2. k \in 0..2
    BY <2>1, CappedIs, Zenon
  <2>3. Progress(chain, isA, told, covered, rules)
    BY <1>2, <1>5 DEF CallOk
  <2> QED BY <2>2, <2>3, <1>4, <1>5 DEF Progress
<1>6. CASE chain' = c /\ UNCHANGED covered
  <2>1. /\ c \in Calls /\ c.at = 1 /\ c.walks = FALSE /\ c.todo = {} /\ c.clean = chain.clean
        /\ c.passes = IF chain.limit = 0 THEN 0 ELSE chain.passes + 1
    <3> DEFINE p == IF chain.limit = 0 THEN 0 ELSE chain.passes + 1
    <3>1. p \in Nat /\ c = Passed(chain, p)
      BY <1>3 DEF Passed
    <3>2. chain.walks = FALSE
      BY <1>1, <1>3 DEF Calls
    <3> HIDE DEF c, p
    <3>3. /\ c \in Calls /\ c.at = 1 /\ c.walks = chain.walks /\ c.todo = chain.todo /\ c.clean = chain.clean
          /\ c.passes = p
      <4>1. IsPassed(c, chain, p)
        BY <3>1, <1>3, PassedIs, Zenon
      <4> QED BY <4>1 DEF IsPassed
    <3> QED BY <3>2, <3>3, <1>3 DEF p
  <2> HIDE DEF c
  <2>2. ~WalkedBefore(rules, 0) /\ Done(c) = 0 /\ c.at - 1 = 0
    BY <2>1 DEF Done, WalkedBefore
  <2>3. ASSUME c.clean, WalkedBefore(rules, n) PROVE Progress(c, isA, told, covered, rules)
    <3>1. Knows(isA, told, Capped(covered + chain.passes + 1))
      BY <1>5, <2>1, <2>3
    <3>2. Knows(isA, told, Capped(covered + 0))
      BY <1>2 DEF Capped
    <3>3. covered + (chain.passes + 1) = covered + chain.passes + 1
      BY <1>2, <1>3
    <3>4. Knows(isA, told, Capped(covered + c.passes))
      BY <2>1, <3>1, <3>2, <3>3
    <3> QED BY <2>1, <2>2, <3>4 DEF Progress
  <2>4. CallOk(c, isA, told, covered, rules)
    BY <2>1, <2>3, <1>2 DEF CallOk
  <2> QED BY <2>4, <1>1, <1>2, <1>6 DEF InferenceInv, LinksInv
<1>7. CASE /\ chain' = NoChain /\ (~chain.fired \/ LimitReached(chain))
           /\ covered' = IF ~chain.clean \/ ~WalksLinks THEN covered
                         ELSE IF chain.limit = 1 THEN Min({covered + 1, 2}) ELSE 2
  <2>1. covered' \in 0..2 /\ Knows(isA, told, covered')
    <3>1. CASE ~chain.clean \/ ~WalksLinks
      BY <3>1, <1>2, <1>7
    <3>2. CASE chain.clean /\ WalksLinks /\ chain.limit = 1
      <4>1. covered' = Capped(covered + 1)
        BY <3>2, <1>2, <1>7, LeastOfTwo
      <4>2. Capped(covered + 1) \in 0..2 /\ Capped(covered + chain.passes + 1) \in 0..2
            /\ Capped(covered + 1) <= Capped(covered + chain.passes + 1)
        BY <1>2, <1>3 DEF Capped
      <4>3. Knows(isA, told, Capped(covered + chain.passes + 1))
        BY <3>2, <1>2, <1>5
      <4> QED BY <4>1, <4>2, <4>3, KnowsLess
    <3>3. CASE chain.clean /\ WalksLinks /\ chain.limit # 1
      <4>1. covered' = 2
        BY <3>3, <1>7
      <4>2. CASE ~chain.fired
        <5>1. ~Joinable(isA) /\ told \subseteq isA
          BY <4>2, <3>3, <1>2, <1>5 DEF LinksInv
        <5> QED BY <5>1, <4>1, KnowsAll
      <4>3. CASE LimitReached(chain)
        <5>1. Capped(covered + chain.passes + 1) = 2
          BY <4>3, <3>3, <1>2, <1>3 DEF LimitReached, Capped
        <5> QED BY <5>1, <4>1, <3>3, <1>2, <1>5
      <4> QED BY <4>2, <4>3, <1>7
    <3> QED BY <3>1, <3>2, <3>3
  <2> QED BY <2>1, <1>1, <1>2, <1>7 DEF InferenceInv, LinksInv
<1> QED BY <1>6, <1>7 DEF EndPass

LEMMA InferenceAtFirst == ReasoningInit => InferenceInv
BY DEF ReasoningInit, InferenceInv, LinksInv, Knows, Paths

LEMMA InferenceInductive ==
  InferenceInv /\ RulesInv /\ [ReasoningNext]_reasoningVars => InferenceInv'
<1> SUFFICES ASSUME InferenceInv, RulesInv, [ReasoningNext]_reasoningVars PROVE InferenceInv'
  OBVIOUS
<1>1. CASE RuleStep
  BY <1>1, RulesKeepInference DEF RuleStep
<1>2. CASE ChainStep
  BY <1>2, CallKeepsInference, TryKeepsInference, EndKeepsInference, InferKeepsInference DEF ChainStep
<1>3. CASE Notice
  BY <1>3, NoticeKeepsInference DEF Notice
<1>4. CASE \E a, b \in Concepts : Tell(a, b)
  BY <1>4, TellKeepsInference
<1>5. CASE UNCHANGED reasoningVars
  BY <1>5, NoticeKeepsInference DEF reasoningVars
<1> QED BY <1>1, <1>2, <1>3, <1>4, <1>5 DEF ReasoningNext

\* ReasoningEngine infers nothing that does not follow from what it was told, whatever is told
\* while it walks, and each pass with nothing told meanwhile doubles the paths it has covered;
\* its rules stay in the order of their priorities: addRule, removeRule, runCycle and
\* runForwardChaining, for any concepts, links, rules and limits.
THEOREM InferenceSound == ReasoningSpec => []InferenceIsSound
<1>1. RulesInv => RulesInOrder
  BY DEF RulesInv, InTurnOf, Earlier, RulesInOrder
<1>2. ReasoningSpec => []RulesInv
  BY OrderAtFirst, OrderInductive, PTL DEF ReasoningSpec
<1>3. ReasoningSpec => []InferenceInv
  BY <1>2, InferenceAtFirst, InferenceInductive, PTL DEF ReasoningSpec
<1>4. RulesInOrder /\ InferredRightly => InferenceIsSound
  BY DEF InferenceIsSound
<1> QED BY <1>1, <1>2, <1>3, <1>4, InferenceInvSuffices, PTL

(***************************************************************************)
(* What queries are answered                                               *)
(***************************************************************************)
\* What a name at place k stands for, and what a binding makes of pattern i
Meant(n, k) == IF k = 2 THEN Predicate(n) ELSE Concept(n)
AtomIn(patterns, b, i, k) ==
  IF patterns[i][k] \in Unknowns THEN b[patterns[i][k]] ELSE Meant(patterns[i][k], k)
TripleIn(patterns, b, i) ==
  <<AtomIn(patterns, b, i, 1), AtomIn(patterns, b, i, 2), AtomIn(patterns, b, i, 3)>>
Bindings(patterns) ==
  {b \in [VariablesOf(patterns) -> nodes] : \A i \in DOMAIN patterns : TripleIn(patterns, b, i) \in facts}

\* An answer of the rows rs, n of them
AnswersWith(patterns, limit, n, rs) ==
  /\ rs \subseteq Bindings(patterns) /\ Cardinality(rs) = n
  /\ limit = 0 \/ n < limit => rs = Bindings(patterns)
  /\ limit # 0 => n <= limit

RightAnswer(a) == Plain(a.patterns) => AnswersWith(a.patterns, a.limit, a.count, a.rows)

FactsInv == facts \in SUBSET (nodes \X nodes \X nodes) /\ IsFiniteSet(facts)

LEMMA AnsweredIs ==
  /\ QueriesAnswered <=> answer = NoAnswer \/ RightAnswer(answer)
  /\ QueriesAnswered' <=> (answer = NoAnswer \/ RightAnswer(answer))'
BY Zenon DEF QueriesAnswered, RightAnswer, AnswersWith, Bindings, TripleIn, AtomIn, Meant

\* A plain pattern is fitted by the triples that have its names where it has them
LEMMA FitsIs ==
  ASSUME NEW patterns, Plain(patterns), NEW i \in DOMAIN patterns, NEW f
  PROVE  FitsPattern(patterns[i], f) <=>
           \A k \in 1..3 : patterns[i][k] \in Unknowns \/ f[k] = Meant(patterns[i][k], k)
<1> DEFINE q == patterns[i]
<1>1. ASSUME NEW k \in 1..3
      PROVE  q[k] \in Unknowns \/ ResolveField(q[k]) = {Meant(q[k], k)}
  <2>1. <<i, k>> \in Fields(patterns) /\ Field(patterns, <<i, k>>) = q[k]
    BY DEF Fields, Field
  <2>2. q[k] \in Unknowns \/ (k # 2 /\ Concept(q[k]) \in nodes)
        \/ (k = 2 /\ Predicate(q[k]) \in nodes /\ Concept(q[k]) \notin nodes)
    <3>1. PICK x \in Fields(patterns) : x = <<i, k>>
      BY <2>1
    <3>2. x[2] = k /\ Field(patterns, x) = q[k]
      BY <3>1, <2>1
    <3> QED BY <3>2 DEF Plain
  <2> QED BY <2>2 DEF ResolveField, Meant
<1> HIDE DEF q
<1>2. ASSUME NEW k \in 1..3 PROVE Allows(q[k], f[k]) <=> q[k] \in Unknowns \/ f[k] = Meant(q[k], k)
  BY <1>1 DEF Allows
<1>3. 1 \in 1..3 /\ 2 \in 1..3 /\ 3 \in 1..3 /\ \A k \in 1..3 : k = 1 \/ k = 2 \/ k = 3
  OBVIOUS
<1>4. /\ q[1] \in Unknowns \/ ResolveField(q[1]) = {Meant(q[1], 1)}
      /\ q[2] \in Unknowns \/ ResolveField(q[2]) = {Meant(q[2], 2)}
      /\ Meant(q[2], 2) = Predicate(q[2])
  BY <1>1, <1>3 DEF Meant
<1>5. (\A k \in 1..3 : q[k] \in Unknowns \/ f[k] = Meant(q[k], k))
      <=> Allows(q[1], f[1]) /\ Allows(q[2], f[2]) /\ Allows(q[3], f[3])
  BY <1>2, <1>3
<1>6. CASE q[1] \notin Unknowns /\ q[2] \notin Unknowns
  <2>1. ResolveField(q[1]) # {} /\ ResolveField(q[2]) # {}
    BY <1>6, <1>4
  <2>2. FitsPattern(q, f) <=> {f[1]} = ResolveField(q[1]) /\ f[2] = Predicate(q[2]) /\ Allows(q[3], f[3])
    BY <2>1, <1>6 DEF FitsPattern
  <2>3. {f[1]} = ResolveField(q[1]) <=> f[1] = Meant(q[1], 1)
    BY <1>6, <1>4
  <2> QED BY <2>2, <2>3, <1>2, <1>3, <1>4, <1>5, <1>6 DEF q
<1>7. CASE ~(q[1] \notin Unknowns /\ q[2] \notin Unknowns)
  <2>1. FitsPattern(q, f) <=> Allows(q[1], f[1]) /\ Allows(q[2], f[2]) /\ Allows(q[3], f[3])
    BY <1>7 DEF FitsPattern
  <2> QED BY <2>1, <1>5 DEF q
<1> QED BY <1>6, <1>7

\* Each variable is bound by the one place that it has
LEMMA BoundAt ==
  ASSUME NEW T, NEW patterns \in Seq(T), Plain(patterns), NEW row,
         NEW i \in DOMAIN patterns, NEW k \in 1..3, patterns[i][k] \in Unknowns
  PROVE  patterns[i][k] \in VariablesOf(patterns) /\ RowOf(patterns, row)[patterns[i][k]] = row[i][k]
<1> DEFINE v == patterns[i][k]
           x == <<i, k>>
           at == {y \in Fields(patterns) : Field(patterns, y) = v}
           Ends(y) == \A z \in at : z[1] < y[1] \/ (z[1] = y[1] /\ z[2] <= y[2])
           last == CHOOSE y \in at : Ends(y)
<1>1. x \in Fields(patterns) /\ Field(patterns, x) = v /\ i \in Nat /\ k \in Nat
  BY DEF Fields, Field
<1>2. v \in VariablesOf(patterns)
  BY <1>1 DEF VariablesOf
<1>3. \A y \in at : y = x
  BY <1>1 DEF Plain
<1>4. x \in at /\ Ends(x)
  BY <1>1, <1>3
<1>5. last = x
  BY <1>3, <1>4
<1>6. RowOf(patterns, row)[v] = row[last[1]][last[2]]
  BY <1>2 DEF RowOf
<1> HIDE DEF at, Ends, last
<1>7. RowOf(patterns, row)[v] = row[i][k]
  BY <1>5, <1>6
<1> QED BY <1>2, <1>7

LEMMA VariableAt ==
  ASSUME NEW patterns, NEW v \in VariablesOf(patterns)
  PROVE  \E i \in DOMAIN patterns, k \in 1..3 : patterns[i][k] = v /\ v \in Unknowns
<1>1. PICK x \in Fields(patterns) : v = Field(patterns, x) /\ v \in Unknowns
  BY DEF VariablesOf
<1>2. PICK i \in DOMAIN patterns, k \in 1..3 : x = <<i, k>>
  BY DEF Fields
<1> QED BY <1>1, <1>2 DEF Field

LEMMA FactIs ==
  ASSUME FactsInv, NEW f \in facts
  PROVE  f = <<f[1], f[2], f[3]>> /\ \A k \in 1..3 : f[k] \in nodes
BY DEF FactsInv

\* A row of triples that fit says, pattern by pattern, what its binding says
LEMMA RowBinds ==
  ASSUME FactsInv, NEW T, NEW patterns \in Seq(T), Plain(patterns), NEW row \in MatchPatterns(patterns)
  PROVE  /\ RowOf(patterns, row) \in Bindings(patterns)
         /\ \A i \in DOMAIN patterns : row[i] = TripleIn(patterns, RowOf(patterns, row), i)
<1> DEFINE b == RowOf(patterns, row)
<1>1. row \in [DOMAIN patterns -> facts] /\ \A i \in DOMAIN patterns : FitsPattern(patterns[i], row[i])
  BY DEF MatchPatterns
<1>2. ASSUME NEW i \in DOMAIN patterns, NEW k \in 1..3 PROVE AtomIn(patterns, b, i, k) = row[i][k]
  <2>1. CASE patterns[i][k] \in Unknowns
    BY <2>1, BoundAt DEF AtomIn
  <2>2. CASE patterns[i][k] \notin Unknowns
    BY <2>2, <1>1, FitsIs DEF AtomIn
  <2> QED BY <2>1, <2>2
<1>3. ASSUME NEW i \in DOMAIN patterns PROVE row[i] \in facts /\ row[i] = TripleIn(patterns, b, i)
  <2>1. row[i] \in facts
    BY <1>1
  <2>2. row[i] = <<row[i][1], row[i][2], row[i][3]>>
    BY <2>1, FactIs
  <2>3. 1 \in 1..3 /\ 2 \in 1..3 /\ 3 \in 1..3
    OBVIOUS
  <2>4. AtomIn(patterns, b, i, 1) = row[i][1] /\ AtomIn(patterns, b, i, 2) = row[i][2] /\ AtomIn(patterns, b, i, 3) = row[i][3]
    BY <1>2, <2>3
  <2> HIDE DEF b
  <2> QED BY <2>1, <2>2, <2>4 DEF TripleIn
<1>4. ASSUME NEW v \in VariablesOf(patterns) PROVE b[v] \in nodes
  <2>1. PICK i \in DOMAIN patterns, k \in 1..3 : patterns[i][k] = v /\ v \in Unknowns
    BY VariableAt
  <2>2. b[v] = row[i][k]
    BY <2>1, BoundAt
  <2>3. row[i] \in facts
    BY <1>1
  <2> HIDE DEF b
  <2> QED BY <2>2, <2>3, FactIs
<1>5. b = [v \in VariablesOf(patterns) |-> b[v]]
  BY DEF RowOf
<1> HIDE DEF b
<1>6. b \in [VariablesOf(patterns) -> nodes]
  BY <1>4, <1>5
<1>7. b \in Bindings(patterns)
  BY <1>3, <1>6 DEF Bindings
<1> QED BY <1>3, <1>7 DEF b

\* and every binding is that of such a row
LEMMA BindingRow ==
  ASSUME FactsInv, NEW T, NEW patterns \in Seq(T), Plain(patterns), NEW b \in Bindings(patterns)
  PROVE  \E row \in MatchPatterns(patterns) : RowOf(patterns, row) = b
<1> DEFINE row == [i \in DOMAIN patterns |-> TripleIn(patterns, b, i)]
<1>1. b \in [VariablesOf(patterns) -> nodes] /\ \A i \in DOMAIN patterns : TripleIn(patterns, b, i) \in facts
  BY DEF Bindings
<1>2. row \in [DOMAIN patterns -> facts]
  BY <1>1
<1>3. ASSUME NEW i \in DOMAIN patterns, NEW k \in 1..3 PROVE row[i][k] = AtomIn(patterns, b, i, k)
  <2>1. row[i] = TripleIn(patterns, b, i) /\ (k = 1 \/ k = 2 \/ k = 3)
    OBVIOUS
  <2> HIDE DEF row
  <2> QED BY <2>1 DEF TripleIn
<1> HIDE DEF row
<1>4. ASSUME NEW i \in DOMAIN patterns PROVE FitsPattern(patterns[i], row[i])
  BY <1>3, FitsIs DEF AtomIn
<1>5. row \in MatchPatterns(patterns)
  BY <1>2, <1>4 DEF MatchPatterns
<1>6. ASSUME NEW v \in VariablesOf(patterns) PROVE RowOf(patterns, row)[v] = b[v]
  <2>1. PICK i \in DOMAIN patterns, k \in 1..3 : patterns[i][k] = v /\ v \in Unknowns
    BY VariableAt
  <2>2. RowOf(patterns, row)[v] = row[i][k]
    BY <2>1, BoundAt
  <2> QED BY <2>1, <2>2, <1>3 DEF AtomIn
<1>7. RowOf(patterns, row) = [v \in VariablesOf(patterns) |-> RowOf(patterns, row)[v]]
  BY DEF RowOf
<1>8. b = [v \in VariablesOf(patterns) |-> b[v]]
  BY <1>1
<1>9. RowOf(patterns, row) = b
  BY <1>6, <1>7, <1>8
<1> QED BY <1>5, <1>9

\* Two rows with one binding are one row
LEMMA OneRowEach ==
  ASSUME FactsInv, NEW T, NEW patterns \in Seq(T), Plain(patterns),
         NEW row \in MatchPatterns(patterns), NEW other \in MatchPatterns(patterns),
         RowOf(patterns, row) = RowOf(patterns, other)
  PROVE  row = other
<1>1. \A i \in DOMAIN patterns : row[i] = other[i]
  BY RowBinds, Zenon
<1>2. row \in [DOMAIN patterns -> facts] /\ other \in [DOMAIN patterns -> facts]
  BY DEF MatchPatterns
<1> QED BY <1>1, <1>2
(* How many there are *)

LEMMA RowsFinite ==
  ASSUME NEW S, IsFiniteSet(S), NEW n \in Nat
  PROVE  IsFiniteSet([1..n -> S])
<1> DEFINE F == [1..n -> S]
           G == SUBSET ((1..n) \X S)
           f == [row \in F |-> {<<i, row[i]>> : i \in 1..n}]
<1>1. IsFiniteSet(G)
  <2>1. IsFiniteSet(1..n)
    BY FS_Interval
  <2> QED BY <2>1, FS_Product, FS_SUBSET
<1>2. ASSUME NEW row \in F, NEW other \in F, f[row] = f[other] PROVE row = other
  <2>1. ASSUME NEW i \in 1..n PROVE row[i] = other[i]
    <3>1. <<i, row[i]>> \in {<<j, other[j]>> : j \in 1..n}
      BY <1>2
    <3> QED BY <3>1
  <2> QED BY <2>1
<1>3. ASSUME NEW row \in F PROVE f[row] \in G
  OBVIOUS
<1>4. f \in [F -> G]
  BY <1>3
<1> HIDE DEF f, F, G
<1>5. f \in Injection(F, G)
  BY <1>2, <1>4 DEF Injection, IsInjective
<1> QED BY <1>1, <1>5, FS_Injection DEF F

LEMMA SmallerOf ==
  ASSUME NEW m \in Nat, NEW n \in Nat
  PROVE  Min({m, n}) = IF m <= n THEN m ELSE n
<1> DEFINE l == IF m <= n THEN m ELSE n
<1>1. Min({m, n}) = CHOOSE x \in {m, n} : \A y \in {m, n} : x <= y
  BY DEF Min
<1>2. l \in {m, n} /\ \A y \in {m, n} : l <= y
  OBVIOUS
<1>3. \A x \in {m, n} : (\A y \in {m, n} : x <= y) => x = l
  OBVIOUS
<1> QED BY <1>1, <1>2, <1>3

LEMMA BindingsOfRows ==
  ASSUME FactsInv, NEW T, NEW patterns \in Seq(T), Plain(patterns),
         NEW taken, taken \subseteq MatchPatterns(patterns)
  PROVE  /\ IsFiniteSet(MatchPatterns(patterns))
         /\ Cardinality({RowOf(patterns, row) : row \in taken}) = Cardinality(taken)
<1> DEFINE rows == MatchPatterns(patterns)
           B == {RowOf(patterns, row) : row \in taken}
           f == [row \in taken |-> RowOf(patterns, row)]
<1>1. IsFiniteSet(rows)
  <2>1. IsFiniteSet([DOMAIN patterns -> facts])
    <3>1. DOMAIN patterns = 1..Len(patterns) /\ Len(patterns) \in Nat
      OBVIOUS
    <3> QED BY <3>1, RowsFinite DEF FactsInv
  <2>2. rows \in SUBSET [DOMAIN patterns -> facts]
    BY DEF MatchPatterns
  <2> QED BY <2>1, <2>2, FS_Subset, Zenon
<1>2. IsFiniteSet(taken)
  BY <1>1, FS_Subset
<1>3. \A row, other \in taken : f[row] = f[other] => row = other
  BY OneRowEach
<1>4. f \in [taken -> B] /\ \A b \in B : \E row \in taken : f[row] = b
  OBVIOUS
<1> HIDE DEF f, B
<1>5. f \in Bijection(taken, B)
  BY <1>3, <1>4 DEF Bijection, Injection, Surjection, IsInjective
<1>6. Cardinality(B) = Cardinality(taken)
  BY <1>2, <1>5, FS_Bijection DEF ExistsBijection
<1> QED BY <1>1, <1>6 DEF B

LEMMA AnswerIsRight ==
  ASSUME FactsInv, NEW T, NEW patterns \in Seq(T), Plain(patterns), NEW limit \in Nat,
         NEW enough, enough = IF limit = 0 THEN Cardinality(MatchPatterns(patterns))
                              ELSE Min({limit, Cardinality(MatchPatterns(patterns))}),
         NEW taken \in kSubset(enough, MatchPatterns(patterns))
  PROVE  AnswersWith(patterns, limit, enough, {RowOf(patterns, row) : row \in taken})
<1> DEFINE rows == MatchPatterns(patterns)
           n == Cardinality(rows)
           B == {RowOf(patterns, row) : row \in taken}
<1>1. taken \in SUBSET rows /\ Cardinality(taken) = enough
  BY DEF kSubset
<1>2. IsFiniteSet(rows) /\ Cardinality(B) = enough
  BY <1>1, BindingsOfRows
<1>3. n \in Nat
  BY <1>2, FS_CardinalityType
<1>4. B \subseteq Bindings(patterns)
  BY <1>1, RowBinds
<1>5. enough = n => taken = rows
  BY <1>1, <1>2, FS_Subset
<1>6. taken = rows => B = Bindings(patterns)
  <2>1. ASSUME taken = rows, NEW b \in Bindings(patterns) PROVE b \in B
    <3>1. PICK row \in rows : RowOf(patterns, row) = b
      BY BindingRow
    <3> QED BY <3>1, <2>1
  <2> QED BY <2>1, <1>4
<1> HIDE DEF rows, n, B
<1>7. enough = IF limit = 0 THEN n ELSE IF limit <= n THEN limit ELSE n
  BY <1>3, SmallerOf DEF n, rows
<1>8. (limit = 0 \/ enough < limit => enough = n) /\ (limit # 0 => enough <= limit)
  BY <1>3, <1>7
<1> QED BY <1>2, <1>4, <1>5, <1>6, <1>8 DEF AnswersWith, B

(* The invariant *)

KnowledgeInv == FactsInv /\ QueriesAnswered

LEMMA RightStaysRight ==
  ASSUME NEW CONSTANT a, UNCHANGED <<nodes, facts>>
  PROVE  (RightAnswer(a))' <=> RightAnswer(a)
BY DEF RightAnswer, AnswersWith, Bindings, VariablesOf, TripleIn, AtomIn, Plain

LEMMA QueryAnswers ==
  ASSUME KnowledgeInv, NEW CONSTANT T, NEW CONSTANT patterns \in Seq(T), NEW CONSTANT limit \in Nat,
         Query(patterns, limit)
  PROVE  KnowledgeInv'
<1> DEFINE enough == IF limit = 0 THEN Cardinality(MatchPatterns(patterns))
                     ELSE Min({limit, Cardinality(MatchPatterns(patterns))})
<1>1. PICK taken \in kSubset(enough, MatchPatterns(patterns)) :
        answer' = [patterns |-> patterns, limit |-> limit, count |-> enough,
                   rows |-> {RowOf(patterns, row) : row \in taken}]
  BY Zenon DEF Query
<1>0. enough = IF limit = 0 THEN Cardinality(MatchPatterns(patterns))
               ELSE Min({limit, Cardinality(MatchPatterns(patterns))})
  OBVIOUS
<1> HIDE DEF enough
<1>2. nodes' = nodes /\ facts' = facts
  BY DEF Query
<1>3. FactsInv'
  BY <1>2 DEF KnowledgeInv, FactsInv
<1>4. /\ answer'.patterns = patterns /\ answer'.limit = limit /\ answer'.count = enough
      /\ answer'.rows = {RowOf(patterns, row) : row \in taken}
  BY <1>1
<1>5. Plain(patterns) => AnswersWith(patterns, limit, enough, {RowOf(patterns, row) : row \in taken})
  BY <1>0, <1>1, AnswerIsRight DEF KnowledgeInv
<1>6. RightAnswer(answer')
  BY <1>4, <1>5 DEF RightAnswer
<1>7. \A a : RightAnswer(a) => (RightAnswer(a))'
  BY <1>2, RightStaysRight
<1>8. QueriesAnswered'
  BY <1>6, <1>7, AnsweredIs
<1> QED BY <1>3, <1>8 DEF KnowledgeInv

LEMMA NoAnswerIsRight == ASSUME answer' = NoAnswer PROVE QueriesAnswered'
BY DEF QueriesAnswered

LEMMA KnowledgeInductive ==
  ASSUME NEW CONSTANT T, NEW CONSTANT queries, queries \subseteq Seq(T), KnowledgeInv, [KnowledgeNext(queries)]_knowledgeVars
  PROVE  KnowledgeInv'
<1>1. ASSUME NEW s, NEW p, NEW o, LoadTriple(s, p, o) PROVE KnowledgeInv'
  <2> DEFINE f == <<Concept(s), Predicate(p), Concept(o)>>
  <2>1. /\ nodes' = nodes \cup {Concept(s), Predicate(p), Concept(o)}
        /\ facts' = facts \cup {f} /\ answer' = NoAnswer
    BY <1>1 DEF LoadTriple
  <2>2. f \in nodes' \X nodes' \X nodes'
    BY <2>1
  <2>3. facts' \in SUBSET (nodes' \X nodes' \X nodes')
    BY <2>1, <2>2 DEF KnowledgeInv, FactsInv
  <2>4. IsFiniteSet(facts')
    BY <2>1, FS_AddElement DEF KnowledgeInv, FactsInv
  <2> QED BY <2>1, <2>3, <2>4, NoAnswerIsRight DEF KnowledgeInv, FactsInv
<1>2. ASSUME NEW a, AddKnowledgeNode(a) PROVE KnowledgeInv'
  BY <1>2, NoAnswerIsRight DEF AddKnowledgeNode, KnowledgeInv, FactsInv
<1>3. ASSUME NEW f \in facts, RemoveFact(f) PROVE KnowledgeInv'
  <2>1. nodes' = nodes /\ facts' = facts \ {f} /\ answer' = NoAnswer
    BY <1>3 DEF RemoveFact
  <2> QED BY <2>1, FS_RemoveElement, NoAnswerIsRight DEF KnowledgeInv, FactsInv
<1>4. ASSUME ClearKnowledge PROVE KnowledgeInv'
  BY <1>4, FS_EmptySet, NoAnswerIsRight DEF ClearKnowledge, KnowledgeInv, FactsInv
<1>5. ASSUME UNCHANGED <<nodes, facts, answer>> PROVE KnowledgeInv'
  <2>1. \A a : (RightAnswer(a))' <=> RightAnswer(a)
    BY <1>5, RightStaysRight
  <2>2. QueriesAnswered'
    BY <1>5, <2>1, AnsweredIs DEF KnowledgeInv
  <2> QED BY <1>5, <2>2 DEF KnowledgeInv, FactsInv
<1>6. ASSUME NEW q \in queries, NEW limit \in RowLimits, Query(q, limit) PROVE KnowledgeInv'
  <2>1. q \in Seq(T) /\ limit \in Nat
    BY KnowledgeAssumption
  <2> QED BY <2>1, <1>6, QueryAnswers
<1>7. CASE UNCHANGED knowledgeVars
  BY <1>7, <1>5 DEF knowledgeVars
<1> QED BY <1>1, <1>2, <1>3, <1>4, <1>5, <1>6, <1>7 DEF KnowledgeNext, SetOpened
\* Whatever is told and forgotten, a plain query is answered by what makes its patterns
\* triples: the rows of triples that fit them are one for one the bindings that are right.
THEOREM QueriesStayAnswered ==
  ASSUME NEW CONSTANT T, NEW CONSTANT queries, queries \subseteq Seq(T)
  PROVE  KnowledgeInit /\ [][KnowledgeNext(queries)]_knowledgeVars => []QueriesAnswered
<1>1. KnowledgeInit => KnowledgeInv
  BY FS_EmptySet DEF KnowledgeInit, KnowledgeInv, FactsInv, QueriesAnswered
<1>2. KnowledgeInv /\ [KnowledgeNext(queries)]_knowledgeVars => KnowledgeInv'
  BY KnowledgeInductive
<1>3. KnowledgeInv => QueriesAnswered
  BY DEF KnowledgeInv
<1> QED BY <1>1, <1>2, <1>3, PTL

(***************************************************************************)
(* Plans: what a sequence of actions leads to                              *)
(***************************************************************************)
\* The actions a are applicable one after the other, from w to v
Run(a, w, t) == t[0] = w /\ \A i \in 1..Len(a) : Applicable(a[i], t[i - 1]) /\ t[i] = Apply(a[i], t[i - 1])
Led(a, w, v) == \E t : Run(a, w, t) /\ t[Len(a)] = v

(* Folds.  A fold over a sequence is what its last step gives.  Visit, InTurn and Outcome *)
(* are folds of these steps.                                                              *)

Turned(finds, limit, acc, t) ==
  IF ~acc.ok THEN acc
  ELSE LET r == finds[t][acc.world]
       IN IF r.ok /\ Len(acc.actions \o r.actions) <= limit
          THEN Success(acc.actions \o r.actions, r.world) ELSE Failure(r.world)
Ran(u, o) == IF u.stuck \/ ~Applicable(o, u.world) THEN [u EXCEPT !.stuck = TRUE]
             ELSE [u EXCEPT !.world = Apply(o, @)]
OneStep(c, acc, x) ==
  IF c.does = "visit" THEN Visit(acc, c.cur, x, c.aims)
  ELSE IF c.does = "turn" THEN Turned(c.finds, c.limit, acc, x)
  ELSE Ran(acc, x)

LEMMA HighestIs ==
  ASSUME NEW k \in Nat, NEW s, s \subseteq 1..(k + 1), s # {}
  PROVE  /\ k + 1 \in s => Max(s) = k + 1
         /\ Max(s) \in s
<1>1. Max(s) = CHOOSE x \in s : \A y \in s : x >= y
  BY DEF Max
<1>2. k + 1 \in s => Max(s) = k + 1
  <2>1. ASSUME k + 1 \in s PROVE (\A y \in s : k + 1 >= y) /\ \A x \in s : (\A y \in s : x >= y) => x = k + 1
    BY <2>1
  <2> QED BY <1>1, <2>1
<1>3. Max(s) \in s
  <2>1. s \subseteq Nat /\ (\E y \in s : y >= 1)
    <3>1. \A y \in s : y \in Nat /\ y >= 1
      OBVIOUS
    <3>2. \E y : y \in s
      OBVIOUS
    <3> QED BY <3>1, <3>2
  <2>2. \E x \in s : \A y \in s : x >= y
    <3> DEFINE S == {m \in Nat : \A y \in s : m >= y}
    <3>1. k + 1 \in S
      OBVIOUS
    <3>2. PICK m \in S : \A l \in S : m <= l
      BY <3>1, LeastNumber
    <3>3. m \in s
      <4>1. ASSUME m \notin s PROVE FALSE
        <5>1. m # 0
          BY <4>1, <2>1
        <5>2. \A y \in s : m - 1 >= y
          BY <4>1, <2>1, <3>2
        <5>3. m - 1 \in S
          BY <5>1, <5>2
        <5> QED BY <5>3, <3>2
      <4> QED BY <4>1
    <3> QED BY <3>2, <3>3
  <2> QED BY <1>1, <2>2
<1> QED BY <1>2, <1>3

Folded(c, base, s, k, f) ==
  f = [I \in SUBSET (1..k) |-> IF I = {} THEN base ELSE OneStep(c, f[I \ {Max(I)}], s[Max(I)])]

LEMMA FoldGoesOn ==
  ASSUME NEW c, NEW base, NEW s, NEW k \in Nat, NEW f, Folded(c, base, s, k, f)
  PROVE  \E g : Folded(c, base, s, k + 1, g)
<1> DEFINE D == SUBSET (1..(k + 1))
           g == [I \in D |-> IF k + 1 \in I THEN OneStep(c, f[I \ {k + 1}], s[k + 1]) ELSE f[I]]
<1>0. \A I : I \in SUBSET (1..k) <=> I \in D /\ k + 1 \notin I
  OBVIOUS
<1>1. \A I \in SUBSET (1..k) : f[I] = IF I = {} THEN base ELSE OneStep(c, f[I \ {Max(I)}], s[Max(I)])
  BY Zenon DEF Folded
<1>2. \A I \in D : g[I] = IF k + 1 \in I THEN OneStep(c, f[I \ {k + 1}], s[k + 1]) ELSE f[I]
  OBVIOUS
<1>3. g = [I \in D |-> g[I]]
  OBVIOUS
<1> HIDE DEF g
<1>4. ASSUME NEW I \in D
      PROVE  g[I] = IF I = {} THEN base ELSE OneStep(c, g[I \ {Max(I)}], s[Max(I)])
  <2>1. CASE k + 1 \in I
    <3>1. Max(I) = k + 1 /\ I # {}
      BY <2>1, HighestIs
    <3>2. I \ {k + 1} \in D /\ k + 1 \notin I \ {k + 1}
      OBVIOUS
    <3>3. g[I \ {k + 1}] = f[I \ {k + 1}]
      BY <1>2, <3>2
    <3> QED BY <1>2, <2>1, <3>1, <3>3
  <2>2. CASE k + 1 \notin I
    <3>1. I \in SUBSET (1..k) /\ g[I] = f[I]
      BY <1>0, <1>2, <2>2
    <3>2. CASE I # {}
      <4>1. I \ {Max(I)} \in D /\ k + 1 \notin I \ {Max(I)}
        BY <2>2
      <4>2. g[I \ {Max(I)}] = f[I \ {Max(I)}]
        BY <1>2, <4>1
      <4> QED BY <1>1, <3>1, <3>2, <4>2
    <3> QED BY <1>1, <3>1, <3>2
  <2> QED BY <2>1, <2>2
<1>5. g = [I \in D |-> IF I = {} THEN base ELSE OneStep(c, g[I \ {Max(I)}], s[Max(I)])]
  BY <1>3, <1>4
<1> QED BY <1>5 DEF Folded

LEMMA FoldExists == \A c, base, s : \A k \in Nat : \E f : Folded(c, base, s, k, f)
<1> SUFFICES ASSUME NEW c, NEW base, NEW s PROVE \A k \in Nat : \E f : Folded(c, base, s, k, f)
  OBVIOUS
<1> DEFINE S == {k \in Nat : ~\E f : Folded(c, base, s, k, f)}
<1>1. ASSUME S # {} PROVE FALSE
  <2>1. PICK m \in S : \A l \in S : m <= l
    BY <1>1, LeastNumber
  <2>2. m # 0
    <3> DEFINE f == [I \in SUBSET (1..0) |-> base]
    <3>1. \A I \in SUBSET (1..0) : I = {}
      OBVIOUS
    <3>2. Folded(c, base, s, 0, f)
      BY <3>1 DEF Folded
    <3> QED BY <2>1, <3>2
  <2>3. m - 1 \in Nat /\ m - 1 \notin S
    BY <2>1, <2>2
  <2>4. \E f : Folded(c, base, s, (m - 1) + 1, f)
    BY <2>3, FoldGoesOn
  <2> QED BY <2>1, <2>4
<1> QED BY <1>1

\* What each step of a fold gives, after how many
LEMMA FoldSteps ==
  ASSUME NEW c, NEW base, NEW T, NEW s \in Seq(T), NEW f, Folded(c, base, s, Len(s), f)
  PROVE  /\ f[1..0] = base
         /\ \A i \in 1..Len(s) : f[1..i] = OneStep(c, f[1..(i - 1)], s[i])
<1>1. \A I \in SUBSET (1..Len(s)) : f[I] = IF I = {} THEN base ELSE OneStep(c, f[I \ {Max(I)}], s[Max(I)])
  BY Zenon DEF Folded
<1>0. Len(s) \in Nat
  OBVIOUS
<1>2. f[1..0] = base
  <2>1. 1..0 = {} /\ 1..0 \in SUBSET (1..Len(s))
    OBVIOUS
  <2> QED BY <1>1, <2>1, Zenon
<1>3. ASSUME NEW i \in 1..Len(s) PROVE f[1..i] = OneStep(c, f[1..(i - 1)], s[i])
  <2>1. i \in Nat /\ i >= 1 /\ i - 1 \in Nat /\ i = (i - 1) + 1 /\ i <= Len(s)
    BY <1>0
  <2>2. 1..i \in SUBSET (1..Len(s)) /\ i \in 1..i /\ (1..i) \ {i} = 1..(i - 1)
    BY <1>0, <2>1
  <2>3. Max(1..i) = i
    <3>1. 1..((i - 1) + 1) = 1..i /\ 1..i # {}
      BY <2>1, <2>2
    <3> QED BY <2>1, <2>2, <3>1, HighestIs
  <2>4. f[1..i] = OneStep(c, f[(1..i) \ {Max(1..i)}], s[Max(1..i)])
    BY <1>1, <2>2, Zenon
  <2> QED BY <2>2, <2>3, <2>4
<1> QED BY <1>2, <1>3
(* The three folds *)

Visited(cur, aims, base, s) == FoldLeft(LAMBDA acc, o : Visit(acc, cur, o, aims), base, s)
TurnedAll(finds, limit, base, s) ==
  FoldLeft(LAMBDA acc, t :
             IF ~acc.ok THEN acc
             ELSE LET r == finds[t][acc.world]
                  IN IF r.ok /\ Len(acc.actions \o r.actions) <= limit
                     THEN Success(acc.actions \o r.actions, r.world) ELSE Failure(r.world),
           base, s)
RanAll(base, s) ==
  FoldLeft(LAMBDA u, o : IF u.stuck \/ ~Applicable(o, u.world) THEN [u EXCEPT !.stuck = TRUE]
                         ELSE [u EXCEPT !.world = Apply(o, @)],
           base, s)

\* Visits from one world
VisitedSteps(cur, aims, base, s, h) ==
  /\ h[0] = base /\ \A i \in 1..Len(s) : h[i] = Visit(h[i - 1], cur, s[i], aims)
  /\ Visited(cur, aims, base, s) = h[Len(s)]

LEMMA VisitedIsFold ==
  ASSUME NEW cur, NEW aims, NEW base, NEW T, NEW s \in Seq(T)
  PROVE  \E h : VisitedSteps(cur, aims, base, s, h)
<1> DEFINE n == Len(s)
           c == [does |-> "visit", cur |-> cur, aims |-> aims]
           F(f) == f = [I \in SUBSET DOMAIN s |-> IF I = {} THEN base ELSE Visit(f[I \ {Max(I)}], cur, s[Max(I)], aims)]
           f == CHOOSE g : F(g)
           h == [i \in 0..n |-> f[1..i]]
<1>1. DOMAIN s = 1..n /\ n \in Nat
  OBVIOUS
<1>2. ASSUME NEW g PROVE Folded(c, base, s, n, g) <=> F(g)
  BY <1>1 DEF Folded, OneStep
<1>3. Folded(c, base, s, n, f)
  BY <1>1, <1>2, FoldExists
<1>4. Visited(cur, aims, base, s) = f[DOMAIN s]
  BY DEF Visited, FoldLeft, MapThenFoldSet
<1> HIDE DEF f, c
<1>5. f[1..0] = base /\ \A i \in 1..n : f[1..i] = OneStep(c, f[1..(i - 1)], s[i])
  BY <1>3, FoldSteps
<1>6. \A i \in 1..n : f[1..i] = Visit(f[1..(i - 1)], cur, s[i], aims)
  BY <1>5 DEF OneStep, c
<1>7. \A i \in 0..n : h[i] = f[1..i]
  OBVIOUS
<1>8. 0 \in 0..n /\ n \in 0..n /\ \A i \in 1..n : i \in 0..n /\ i - 1 \in 0..n
  BY <1>1
<1> HIDE DEF h
<1>9. h[0] = base /\ h[n] = f[DOMAIN s] /\ \A i \in 1..n : h[i] = Visit(h[i - 1], cur, s[i], aims)
  BY <1>1, <1>5, <1>6, <1>7, <1>8
<1> QED BY <1>4, <1>9 DEF VisitedSteps

\* Tasks in turn
TurnedAllSteps(finds, limit, base, s, h) ==
  /\ h[0] = base /\ \A i \in 1..Len(s) : h[i] = Turned(finds, limit, h[i - 1], s[i])
  /\ TurnedAll(finds, limit, base, s) = h[Len(s)]

LEMMA TurnedAllIs ==
  ASSUME NEW finds, NEW limit, NEW base, NEW T, NEW s \in Seq(T)
  PROVE  \E h : TurnedAllSteps(finds, limit, base, s, h)
<1> DEFINE n == Len(s)
           c == [does |-> "turn", finds |-> finds, limit |-> limit]
           F(f) == f = [I \in SUBSET DOMAIN s |-> IF I = {} THEN base ELSE Turned(finds, limit, f[I \ {Max(I)}], s[Max(I)])]
           f == CHOOSE g : F(g)
           h == [i \in 0..n |-> f[1..i]]
<1>1. DOMAIN s = 1..n /\ n \in Nat
  OBVIOUS
<1>2. ASSUME NEW g PROVE Folded(c, base, s, n, g) <=> F(g)
  BY <1>1 DEF Folded, OneStep
<1>3. Folded(c, base, s, n, f)
  BY <1>1, <1>2, FoldExists
<1>4. TurnedAll(finds, limit, base, s) = f[DOMAIN s]
  BY DEF TurnedAll, Turned, FoldLeft, MapThenFoldSet
<1> HIDE DEF f, c
<1>5. f[1..0] = base /\ \A i \in 1..n : f[1..i] = OneStep(c, f[1..(i - 1)], s[i])
  BY <1>3, FoldSteps
<1>6. \A i \in 1..n : f[1..i] = Turned(finds, limit, f[1..(i - 1)], s[i])
  BY <1>5 DEF OneStep, c
<1>7. \A i \in 0..n : h[i] = f[1..i]
  OBVIOUS
<1>8. 0 \in 0..n /\ n \in 0..n /\ \A i \in 1..n : i \in 0..n /\ i - 1 \in 0..n
  BY <1>1
<1> HIDE DEF h
<1>9. h[0] = base /\ h[n] = f[DOMAIN s] /\ \A i \in 1..n : h[i] = Turned(finds, limit, h[i - 1], s[i])
  BY <1>1, <1>5, <1>6, <1>7, <1>8
<1> QED BY <1>4, <1>9 DEF TurnedAllSteps

\* Actions one after the other
RanAllSteps(base, s, h) ==
  /\ h[0] = base /\ \A i \in 1..Len(s) : h[i] = Ran(h[i - 1], s[i])
  /\ RanAll(base, s) = h[Len(s)]

LEMMA RanAllIs ==
  ASSUME NEW base, NEW T, NEW s \in Seq(T)
  PROVE  \E h : RanAllSteps(base, s, h)
<1> DEFINE n == Len(s)
           c == [does |-> "run"]
           F(f) == f = [I \in SUBSET DOMAIN s |-> IF I = {} THEN base ELSE Ran(f[I \ {Max(I)}], s[Max(I)])]
           f == CHOOSE g : F(g)
           h == [i \in 0..n |-> f[1..i]]
<1>1. DOMAIN s = 1..n /\ n \in Nat
  OBVIOUS
<1>2. ASSUME NEW g PROVE Folded(c, base, s, n, g) <=> F(g)
  BY <1>1 DEF Folded, OneStep
<1>3. Folded(c, base, s, n, f)
  BY <1>1, <1>2, FoldExists
<1>4. RanAll(base, s) = f[DOMAIN s]
  BY DEF RanAll, Ran, FoldLeft, MapThenFoldSet
<1> HIDE DEF f, c
<1>5. f[1..0] = base /\ \A i \in 1..n : f[1..i] = OneStep(c, f[1..(i - 1)], s[i])
  BY <1>3, FoldSteps
<1>6. \A i \in 1..n : f[1..i] = Ran(f[1..(i - 1)], s[i])
  BY <1>5 DEF OneStep, c
<1>7. \A i \in 0..n : h[i] = f[1..i]
  OBVIOUS
<1>8. 0 \in 0..n /\ n \in 0..n /\ \A i \in 1..n : i \in 0..n /\ i - 1 \in 0..n
  BY <1>1
<1> HIDE DEF h
<1>9. h[0] = base /\ h[n] = f[DOMAIN s] /\ \A i \in 1..n : h[i] = Ran(h[i - 1], s[i])
  BY <1>1, <1>5, <1>6, <1>7, <1>8
<1> QED BY <1>4, <1>9 DEF RanAllSteps

(* Sequences of actions *)

Runs(a) == a \in Seq(Nat)

LEMMA RunsAre ==
  ASSUME NEW a, Runs(a)
  PROVE  Len(a) \in Nat /\ a \in [1..Len(a) -> Nat] /\ a \in Seq(Nat)
BY DEF Runs

LEMMA LedNowhere == ASSUME NEW w PROVE Led(<<>>, w, w) /\ \A v : Led(<<>>, w, v) => v = w
<1>1. Run(<<>>, w, [i \in 0..0 |-> w])
  BY DEF Run
<1> QED BY <1>1 DEF Led, Run

\* One more action
LEMMA LedOneMore ==
  ASSUME NEW a, Runs(a), NEW o \in Nat, NEW w, NEW v, Led(a, w, v), Applicable(o, v)
  PROVE  Runs(Append(a, o)) /\ Led(Append(a, o), w, Apply(o, v))
<1> DEFINE n == Len(a)
           b == Append(a, o)
<1>1. PICK t : Run(a, w, t) /\ t[n] = v
  BY DEF Led
<1>2. n \in Nat /\ Len(b) = n + 1 /\ b[n + 1] = o /\ (\A i \in 1..n : b[i] = a[i]) /\ Runs(b)
  BY DEF Runs
<1> DEFINE u == [i \in 0..(n + 1) |-> IF i = n + 1 THEN Apply(o, v) ELSE t[i]]
<1>3. u[n + 1] = Apply(o, v) /\ \A i \in 0..n : u[i] = t[i]
  BY <1>2
<1> HIDE DEF u, b, n
<1>4. u[0] = w
  BY <1>1, <1>2, <1>3 DEF Run
<1>5. ASSUME NEW i \in 1..(n + 1) PROVE Applicable(b[i], u[i - 1]) /\ u[i] = Apply(b[i], u[i - 1])
  <2>1. CASE i = n + 1
    <3>1. i - 1 = n /\ n \in 0..n
      BY <2>1, <1>2
    <3>2. u[i - 1] = v
      BY <3>1, <1>1, <1>3
    <3> QED BY <2>1, <3>2, <1>2, <1>3
  <2>2. CASE i # n + 1
    <3>1. i \in 1..n /\ i \in 0..n /\ i - 1 \in 0..n
      BY <2>2, <1>2
    <3>2. Applicable(a[i], t[i - 1]) /\ t[i] = Apply(a[i], t[i - 1])
      BY <3>1, <1>1 DEF Run, n
    <3> QED BY <3>1, <3>2, <1>2, <1>3
  <2> QED BY <2>1, <2>2
<1>6. Run(b, w, u)
  BY <1>2, <1>4, <1>5 DEF Run
<1> QED BY <1>2, <1>3, <1>6 DEF Led, b

\* The last action was one more
LEMMA LedButOne ==
  ASSUME NEW a, Runs(a), a # <<>>, NEW w, NEW x, Led(a, w, x)
  PROVE  \E b, v : /\ Runs(b) /\ Len(a) = Len(b) + 1 /\ Led(b, w, v) /\ (\A i \in 1..Len(b) : b[i] = a[i])
                   /\ Applicable(a[Len(a)], v) /\ x = Apply(a[Len(a)], v)
<1> DEFINE m == Len(a) - 1
           b == [i \in 1..m |-> a[i]]
<1>1. PICK t : Run(a, w, t) /\ t[Len(a)] = x
  BY DEF Led
<1>2. m \in Nat /\ Len(a) = m + 1 /\ Len(b) = m /\ Runs(b) /\ \A i \in 1..m : b[i] = a[i]
  <2>1. Len(a) \in Nat /\ Len(a) # 0 /\ a \in [1..Len(a) -> Nat]
    BY DEF Runs
  <2>2. m \in Nat /\ Len(a) = m + 1
    BY <2>1
  <2>3. b \in [1..m -> Nat]
    BY <2>1, <2>2
  <2>4. b \in Seq(Nat)
    BY <2>2, <2>3
  <2>5. Len(b) = m
    BY <2>2
  <2> QED BY <2>2, <2>4, <2>5 DEF Runs
<1> HIDE DEF b, m
<1>3. Run(b, w, t)
  BY <1>1, <1>2 DEF Run
<1>4. Applicable(a[m + 1], t[m]) /\ x = Apply(a[m + 1], t[m])
  <2>1. m + 1 \in 1..Len(a) /\ (m + 1) - 1 = m
    BY <1>2
  <2> QED BY <2>1, <1>1, <1>2 DEF Run
<1>5. Led(b, w, t[m])
  BY <1>2, <1>3 DEF Led
<1> QED BY <1>2, <1>4, <1>5

\* One action before the others
LEMMA LedFirst ==
  ASSUME NEW o \in Nat, NEW a, Runs(a), NEW w, NEW x
  PROVE  /\ Runs(<<o>> \o a)
         /\ Led(<<o>> \o a, w, x) <=> Applicable(o, w) /\ Led(a, Apply(o, w), x)
<1> DEFINE n == Len(a)
           b == <<o>> \o a
<1>1. n \in Nat /\ Len(b) = n + 1 /\ b[1] = o /\ (\A i \in 1..n : b[i + 1] = a[i]) /\ Runs(b)
  <2>1. a \in Seq(Nat) /\ n \in Nat /\ <<o>> \in Seq(Nat) /\ Len(<<o>>) = 1
    BY DEF Runs
  <2>2. b \in Seq(Nat) /\ Len(b) = 1 + n
    BY <2>1
  <2>3. b[1] = o
    BY <2>1
  <2>4. ASSUME NEW i \in 1..n PROVE b[i + 1] = a[i]
    <3>1. i + 1 \in 1..(1 + n) /\ i + 1 > 1 /\ (i + 1) - 1 = i
      BY <2>1
    <3> QED BY <2>1, <3>1
  <2> QED BY <2>1, <2>2, <2>3, <2>4 DEF Runs
<1> HIDE DEF b, n
<1>2. ASSUME Led(b, w, x) PROVE Applicable(o, w) /\ Led(a, Apply(o, w), x)
  <2>1. PICK t : Run(b, w, t) /\ t[n + 1] = x
    BY <1>1, <1>2 DEF Led
  <2> DEFINE u == [i \in 0..n |-> t[i + 1]]
  <2>2. \A i \in 0..n : u[i] = t[i + 1]
    OBVIOUS
  <2> HIDE DEF u
  <2>3. 1 \in 1..(n + 1) /\ 1 - 1 = 0 /\ 0 \in 0..n /\ n \in 0..n /\ 0 + 1 = 1
    BY <1>1
  <2>4. Applicable(o, w) /\ t[1] = Apply(o, w) /\ u[0] = Apply(o, w) /\ u[n] = x
    BY <2>1, <2>2, <2>3, <1>1 DEF Run
  <2>5. ASSUME NEW i \in 1..n PROVE Applicable(a[i], u[i - 1]) /\ u[i] = Apply(a[i], u[i - 1])
    <3>1. i + 1 \in 1..(n + 1) /\ (i + 1) - 1 = i /\ i \in 0..n /\ i - 1 \in 0..n /\ (i - 1) + 1 = i
      BY <1>1
    <3>2. Applicable(b[i + 1], t[i]) /\ t[i + 1] = Apply(b[i + 1], t[i])
      BY <3>1, <2>1, <1>1 DEF Run
    <3>3. u[i - 1] = t[i] /\ u[i] = t[i + 1]
      BY <3>1, <2>2
    <3> QED BY <3>2, <3>3, <1>1
  <2>6. Run(a, Apply(o, w), u)
    BY <2>4, <2>5 DEF Run, n
  <2> QED BY <2>4, <2>6 DEF Led, n
<1>3. ASSUME Applicable(o, w), Led(a, Apply(o, w), x) PROVE Led(b, w, x)
  <2>1. PICK t : Run(a, Apply(o, w), t) /\ t[n] = x
    BY <1>3 DEF Led, n
  <2> DEFINE u == [i \in 0..(n + 1) |-> IF i = 0 THEN w ELSE t[i - 1]]
  <2>2. u[0] = w /\ \A i \in 1..(n + 1) : u[i] = t[i - 1]
    BY <1>1
  <2> HIDE DEF u
  <2>3. u[n + 1] = x /\ u[1] = Apply(o, w)
    <3>1. n + 1 \in 1..(n + 1) /\ (n + 1) - 1 = n /\ 1 \in 1..(n + 1) /\ 1 - 1 = 0
      BY <1>1
    <3> QED BY <3>1, <2>1, <2>2 DEF Run
  <2>4. ASSUME NEW i \in 1..(n + 1) PROVE Applicable(b[i], u[i - 1]) /\ u[i] = Apply(b[i], u[i - 1])
    <3>1. CASE i = 1
      BY <3>1, <2>2, <2>3, <1>1, <1>3
    <3>2. CASE i # 1
      <4>1. i - 1 \in 1..n /\ i - 1 \in 1..(n + 1) /\ (i - 1) + 1 = i /\ (i - 1) - 1 = i - 2
        BY <3>2, <1>1
      <4>2. u[i] = t[i - 1] /\ u[i - 1] = t[(i - 1) - 1] /\ b[i] = a[i - 1]
        BY <4>1, <2>2, <1>1
      <4>3. Applicable(a[i - 1], t[(i - 1) - 1]) /\ t[i - 1] = Apply(a[i - 1], t[(i - 1) - 1])
        BY <4>1, <2>1 DEF Run, n
      <4> QED BY <4>2, <4>3
    <3> QED BY <3>1, <3>2
  <2>5. Run(b, w, u)
    BY <1>1, <2>2, <2>4 DEF Run
  <2> QED BY <1>1, <2>3, <2>5 DEF Led
<1> QED BY <1>1, <1>2, <1>3 DEF b

\* Where a sequence leads is one world
LEMMA RunsAgree ==
  ASSUME NEW a, Runs(a), NEW w, NEW t, NEW u, Run(a, w, t), Run(a, w, u)
  PROVE  \A i \in 0..Len(a) : t[i] = u[i]
<1> DEFINE n == Len(a)
           S == {i \in Nat : i \in 0..n /\ t[i] # u[i]}
<1>0. n \in Nat
  BY DEF Runs
<1>1. ASSUME S # {} PROVE FALSE
  <2>1. PICK m \in S : \A l \in S : m <= l
    BY <1>1, LeastNumber
  <2>2. m # 0
    BY <2>1 DEF Run
  <2>3. m \in 1..n /\ m - 1 \in 0..n /\ m - 1 \in Nat
    BY <2>1, <2>2, <1>0
  <2>4. t[m - 1] = u[m - 1]
    BY <2>1, <2>3
  <2> QED BY <2>1, <2>3, <2>4 DEF Run
<1> QED BY <1>0, <1>1

LEMMA LedOnce ==
  ASSUME NEW a, Runs(a), NEW w, NEW v, NEW x, Led(a, w, v), Led(a, w, x)
  PROVE  v = x
<1>1. PICK t : Run(a, w, t) /\ t[Len(a)] = v
  BY DEF Led
<1>2. PICK u : Run(a, w, u) /\ u[Len(a)] = x
  BY DEF Led
<1>3. Len(a) \in 0..Len(a)
  BY DEF Runs
<1> QED BY <1>1, <1>2, <1>3, RunsAgree

\* Outcome runs the actions
LEMMA OutcomeIs ==
  ASSUME NEW a, Runs(a), NEW w
  PROVE  /\ ~Outcome(a, w).stuck <=> \E v : Led(a, w, v)
         /\ \A v : Led(a, w, v) => Outcome(a, w).world = v
<1> DEFINE n == Len(a)
           start == [world |-> w, stuck |-> FALSE]
<1>0. n \in Nat /\ a \in Seq(Nat)
  BY DEF Runs
<1>1. PICK h : RanAllSteps(start, a, h)
  BY <1>0, RanAllIs
<1>2. Outcome(a, w) = h[n] /\ h[0] = start /\ \A i \in 1..n : h[i] = Ran(h[i - 1], a[i])
  <2>1. Outcome(a, w) = RanAll(start, a)
    BY DEF Outcome, RanAll
  <2> QED BY <1>1, <2>1 DEF RanAllSteps
<1> DEFINE Ok(u) == u = [world |-> u.world, stuck |-> u.stuck] /\ u.stuck \in BOOLEAN
<1>3. \A i \in 0..n : Ok(h[i])
  <2> DEFINE S == {i \in Nat : i \in 0..n /\ ~Ok(h[i])}
  <2>1. ASSUME S # {} PROVE FALSE
    <3>1. PICK m \in S : \A l \in S : m <= l
      BY <2>1, LeastNumber
    <3>2. m # 0
      <4>1. Ok(h[0])
        BY <1>2
      <4> HIDE DEF Ok
      <4> QED BY <3>1, <4>1
    <3>3. m \in 1..n /\ m - 1 \in 0..n /\ m - 1 \in Nat
      BY <3>1, <3>2, <1>0
    <3>4. Ok(h[m - 1])
      BY <3>1, <3>3
    <3>5. h[m] = Ran(h[m - 1], a[m])
      BY <1>2, <3>3
    <3>6. Ok(h[m])
      BY <3>4, <3>5 DEF Ran
    <3> QED BY <3>1, <3>6
  <2> QED BY <1>0, <2>1
<1> DEFINE t == [i \in 0..n |-> h[i].world]
<1>4. \A i \in 0..n : t[i] = h[i].world
  OBVIOUS
<1> HIDE DEF t
<1>5. ASSUME ~h[n].stuck PROVE Run(a, w, t) /\ t[n] = h[n].world
  <2>1. \A i \in 0..n : ~h[i].stuck
    <3> DEFINE S == {i \in Nat : i \in 0..n /\ h[n - i].stuck}
    <3>1. ASSUME S # {} PROVE FALSE
      <4>1. PICK m \in S : \A l \in S : m <= l
        BY <3>1, LeastNumber
      <4>2. m # 0
        BY <4>1, <1>0, <1>5
      <4>3. m - 1 \in Nat /\ m - 1 \in 0..n /\ n - m \in 0..n /\ n - (m - 1) \in 1..n
            /\ (n - (m - 1)) - 1 = n - m
        BY <4>1, <4>2, <1>0
      <4>4. ~h[n - (m - 1)].stuck
        BY <4>1, <4>3
      <4>5. h[n - (m - 1)] = Ran(h[n - m], a[n - (m - 1)])
        BY <1>2, <4>3
      <4>6. Ok(h[n - m]) /\ h[n - m].stuck
        BY <1>3, <4>1, <4>3
      <4> QED BY <4>4, <4>5, <4>6 DEF Ran
    <3>2. ASSUME NEW i \in 0..n PROVE ~h[i].stuck
      <4>1. n - i \in 0..n /\ n - i \in Nat /\ n - (n - i) = i
        BY <1>0
      <4> QED BY <3>1, <4>1
    <3> QED BY <3>2
  <2>2. ASSUME NEW i \in 1..n PROVE Applicable(a[i], t[i - 1]) /\ t[i] = Apply(a[i], t[i - 1])
    <3>1. i \in 0..n /\ i - 1 \in 0..n
      BY <1>0
    <3>2. h[i] = Ran(h[i - 1], a[i]) /\ ~h[i].stuck /\ ~h[i - 1].stuck /\ Ok(h[i - 1])
      BY <1>2, <1>3, <2>1, <3>1
    <3>3. Applicable(a[i], h[i - 1].world) /\ h[i].world = Apply(a[i], h[i - 1].world)
      BY <3>2 DEF Ran
    <3> QED BY <3>1, <3>3, <1>4
  <2>3. 0 \in 0..n /\ n \in 0..n
    BY <1>0
  <2> QED BY <1>2, <1>4, <2>2, <2>3 DEF Run
<1>6. ASSUME NEW v, Led(a, w, v) PROVE ~h[n].stuck /\ h[n].world = v
  <2>1. PICK u : Run(a, w, u) /\ u[n] = v
    BY <1>6 DEF Led
  <2> DEFINE S == {i \in Nat : i \in 0..n /\ ~(~h[i].stuck /\ h[i].world = u[i])}
  <2>2. ASSUME S # {} PROVE FALSE
    <3>1. PICK m \in S : \A l \in S : m <= l
      BY <2>2, LeastNumber
    <3>2. m # 0
      BY <3>1, <1>2, <2>1 DEF Run
    <3>3. m \in 1..n /\ m - 1 \in 0..n /\ m - 1 \in Nat
      BY <3>1, <3>2, <1>0
    <3>4. ~h[m - 1].stuck /\ h[m - 1].world = u[m - 1] /\ Ok(h[m - 1])
      BY <3>1, <3>3, <1>3
    <3>5. h[m] = Ran(h[m - 1], a[m]) /\ Applicable(a[m], u[m - 1]) /\ u[m] = Apply(a[m], u[m - 1])
      BY <1>2, <2>1, <3>3 DEF Run
    <3>6. ~h[m].stuck /\ h[m].world = u[m]
      BY <3>4, <3>5 DEF Ran
    <3> QED BY <3>1, <3>6
  <2>3. n \in 0..n
    BY <1>0
  <2> QED BY <2>1, <2>2, <2>3, <1>0
<1>7. ~h[n].stuck => Led(a, w, h[n].world)
  BY <1>5 DEF Led
<1> QED BY <1>2, <1>6, <1>7

LEMMA AchievesIs ==
  ASSUME NEW a, Runs(a), NEW w, NEW aims
  PROVE  Achieves(a, w, aims) <=> \E v : Led(a, w, v) /\ aims \subseteq v
BY OutcomeIs DEF Achieves

(***************************************************************************)
(* Plans that are searched for                                             *)
(***************************************************************************)
OperatorForms == [pre : SUBSET Nat, add : SUBSET Nat, del : SUBSET Nat]
DomainKnown ==
  /\ DOMAIN operators \subseteq Nat /\ IsFiniteSet(DOMAIN operators)
  /\ \A o \in DOMAIN operators : operators[o] \in OperatorForms

Worlds == SUBSET Nat
Nodes == [world : Worlds, actions : Seq(Nat)]
SearchStates == [found : Seq(Nat), queue : Seq(Nodes), visited : SUBSET Worlds]

\* A sequence of operators, and the shortest ones to the aims
Path(a) == Runs(a) /\ \A i \in 1..Len(a) : a[i] \in DOMAIN operators
Shortest(a, w, aims) ==
  /\ Path(a) /\ \E v : Led(a, w, v) /\ aims \subseteq v
  /\ \A b, v : Path(b) /\ Led(b, w, v) /\ aims \subseteq v => Len(a) <= Len(b)

\* All that can be done in v has been visited
Closed(v, visited) == \A o \in DOMAIN operators : Applicable(o, v) => Apply(o, v) \in visited

\* A queued node is one of the shortest ways to its world
WayTo(q, w, visited) ==
  /\ Path(q.actions) /\ Led(q.actions, w, q.world) /\ q.world \in visited
  /\ \A a : Path(a) /\ Led(a, w, q.world) => Len(q.actions) <= Len(a)
\* The queue is by length, of at most two lengths
ByLength(queue, low) ==
  /\ \A i, j \in 1..Len(queue) : i <= j => Len(queue[i].actions) <= Len(queue[j].actions)
  /\ \A i \in 1..Len(queue) : low <= Len(queue[i].actions) /\ Len(queue[i].actions) <= low + 1
Waiting(v, queue) == \E i \in 1..Len(queue) : queue[i].world = v

\* Worlds that were visited are expanded, open or queued, and none has the aims
Frontier(queue, visited, aims, w, low, open) ==
  /\ w \in visited /\ \A v \in visited : ~(aims \subseteq v)
  /\ ByLength(queue, low) /\ \A i \in 1..Len(queue) : WayTo(queue[i], w, visited)
  /\ \A v \in visited : Closed(v, visited) \/ v \in open \/ Waiting(v, queue)

\* Whatever that many actions lead to has been visited
Covered(n, w, visited) == \A a, v : Path(a) /\ Len(a) <= n /\ Led(a, w, v) => v \in visited

LEMMA NodeFields ==
  ASSUME NEW q \in Nodes
  PROVE  q.world \in Worlds /\ q.actions \in Seq(Nat) /\ Len(q.actions) \in Nat /\ Runs(q.actions)
BY DEF Nodes, Runs

LEMMA AppliedIs ==
  ASSUME DomainKnown, NEW o \in DOMAIN operators, NEW w \in Worlds
  PROVE  Apply(o, w) \in Worlds /\ o \in Nat
<1>1. operators[o].add \in SUBSET Nat
  BY DEF DomainKnown, OperatorForms
<1> QED BY <1>1 DEF Apply, Worlds, DomainKnown

LEMMA PathOneMore ==
  ASSUME DomainKnown, NEW a, Path(a), NEW o \in DOMAIN operators
  PROVE  Path(Append(a, o)) /\ Len(Append(a, o)) = Len(a) + 1
<1>1. a \in Seq(Nat) /\ o \in Nat
  BY DEF Path, Runs, DomainKnown
<1>2. Append(a, o) \in Seq(Nat) /\ Len(Append(a, o)) = Len(a) + 1 /\ Len(a) \in Nat
  BY <1>1
<1>3. ASSUME NEW i \in 1..Len(a) + 1 PROVE Append(a, o)[i] \in DOMAIN operators
  <2>1. CASE i = Len(a) + 1
    BY <1>1, <2>1
  <2>2. CASE i # Len(a) + 1
    <3>1. i \in 1..Len(a) /\ Append(a, o)[i] = a[i]
      BY <1>1, <1>2, <2>2
    <3> QED BY <3>1 DEF Path
  <2> QED BY <2>1, <2>2
<1> QED BY <1>2, <1>3 DEF Path, Runs

\* As far as the shortest way that is queued, everything has been visited
LEMMA FrontCovers ==
  ASSUME NEW queue \in Seq(Nodes), NEW visited, NEW aims, NEW w, NEW low \in Nat, NEW n \in Nat,
         Frontier(queue, visited, aims, w, low, {}),
         \A i \in 1..Len(queue) : n <= Len(queue[i].actions)
  PROVE  Covered(n, w, visited)
<1> DEFINE S == {k \in Nat : \E a, v : Path(a) /\ Len(a) = k /\ Led(a, w, v) /\ k <= n /\ v \notin visited}
<1>1. ASSUME S # {} PROVE FALSE
  <2>1. PICK m \in S : \A l \in S : m <= l
    BY <1>1, LeastNumber
  <2>2. PICK a, v : Path(a) /\ Len(a) = m /\ Led(a, w, v) /\ m <= n /\ v \notin visited
    BY <2>1
  <2>3. a # <<>>
    <3>1. CASE a = <<>>
      <4>1. v = w
        BY <3>1, <2>2, LedNowhere
      <4> QED BY <4>1, <2>2 DEF Frontier
    <3> QED BY <3>1
  <2>4. Runs(a)
    BY <2>2 DEF Path
  <2>5. PICK b, x : /\ Runs(b) /\ Len(a) = Len(b) + 1 /\ Led(b, w, x) /\ (\A i \in 1..Len(b) : b[i] = a[i])
                    /\ Applicable(a[Len(a)], x) /\ v = Apply(a[Len(a)], x)
    BY <2>2, <2>3, <2>4, LedButOne
  <2>6. Len(b) \in Nat /\ m \in Nat /\ m = Len(b) + 1
    BY <2>1, <2>2, <2>5, RunsAre
  <2>7. Path(b) /\ a[Len(a)] \in DOMAIN operators
    <3>1. Len(a) \in 1..Len(a) /\ \A i \in 1..Len(b) : i \in 1..Len(a)
      BY <2>2, <2>6
    <3> QED BY <2>2, <2>5, <3>1 DEF Path
  <2>8. x \in visited
    <3>1. Len(b) \notin S
      BY <2>1, <2>6
    <3> QED BY <2>2, <2>5, <2>6, <2>7, <3>1
  <2>9. CASE Closed(x, visited)
    BY <2>2, <2>5, <2>7, <2>9 DEF Closed
  <2>10. CASE Waiting(x, queue)
    <3>1. PICK i \in 1..Len(queue) : queue[i].world = x
      BY <2>10 DEF Waiting
    <3>2. Len(queue[i].actions) <= Len(b)
      BY <2>5, <2>7, <3>1 DEF Frontier, WayTo
    <3>3. n <= Len(queue[i].actions) /\ Len(queue[i].actions) \in Nat
      BY <3>1, NodeFields
    <3> QED BY <2>2, <2>6, <3>2, <3>3
  <2> QED BY <2>8, <2>9, <2>10 DEF Frontier
<1>2. ASSUME NEW a, NEW v, Path(a), Len(a) <= n, Led(a, w, v) PROVE v \in visited
  <2>1. Len(a) \in Nat
    BY <1>2, RunsAre DEF Path
  <2> QED BY <1>1, <1>2, <2>1
<1> QED BY <1>2 DEF Covered

(* One world is expanded *)

\* While cur, a world low actions away, is expanded by the operators tried
Visiting(acc, cur, aims, w, low, tried) ==
  /\ acc \in SearchStates /\ acc.found = <<>>
  /\ Frontier(acc.queue, acc.visited, aims, w, low, {cur.world}) /\ Covered(low, w, acc.visited)
  /\ \A o \in tried : Applicable(o, cur.world) => Apply(o, cur.world) \in acc.visited
Arrived(acc, aims, w) == acc \in SearchStates /\ acc.found # <<>> /\ Shortest(acc.found, w, aims)

LEMMA NothingVisited ==
  ASSUME NEW acc, NEW cur, NEW o, NEW aims,
         ~Applicable(o, cur.world) \/ Apply(o, cur.world) \in acc.visited \/ acc.found # <<>>
  PROVE  Visit(acc, cur, o, aims) = acc
BY DEF Visit

LEMMA QueueGrows ==
  ASSUME NEW queue \in Seq(Nodes), NEW q \in Nodes
  PROVE  /\ Append(queue, q) \in Seq(Nodes) /\ Len(Append(queue, q)) = Len(queue) + 1 /\ Len(queue) \in Nat
         /\ Append(queue, q)[Len(queue) + 1] = q
         /\ \A i \in 1..Len(queue) : Append(queue, q)[i] = queue[i]
OBVIOUS

LEMMA ByLengthGrows ==
  ASSUME NEW queue \in Seq(Nodes), NEW q \in Nodes, NEW low \in Nat, ByLength(queue, low),
         Len(q.actions) = low + 1
  PROVE  ByLength(Append(queue, q), low)
<1> DEFINE r == Append(queue, q)
           n == Len(queue)
<1>1. Len(r) = n + 1 /\ n \in Nat /\ r[n + 1] = q /\ \A i \in 1..n : r[i] = queue[i]
  BY QueueGrows
<1> HIDE DEF r
<1>2. ASSUME NEW i \in 1..n
      PROVE  low <= Len(queue[i].actions) /\ Len(queue[i].actions) <= low + 1
  BY DEF ByLength
<1>3. ASSUME NEW i \in 1..(n + 1)
      PROVE  low <= Len(r[i].actions) /\ Len(r[i].actions) <= low + 1
  <2>1. CASE i = n + 1
    BY <1>1, <2>1
  <2>2. CASE i # n + 1
    <3>1. i \in 1..n
      BY <1>1, <2>2
    <3> QED BY <1>1, <1>2, <3>1
  <2> QED BY <2>1, <2>2
<1>4. ASSUME NEW i \in 1..(n + 1), NEW j \in 1..(n + 1), i <= j
      PROVE  Len(r[i].actions) <= Len(r[j].actions)
  <2>1. CASE j = n + 1
    <3>1. r[j].actions = q.actions
      BY <1>1, <2>1
    <3> QED BY <3>1, <1>3
  <2>2. CASE j # n + 1
    <3>1. i \in 1..n /\ j \in 1..n
      BY <1>1, <1>4, <2>2
    <3>2. r[i] = queue[i] /\ r[j] = queue[j]
      BY <1>1, <3>1
    <3> QED BY <1>4, <3>1, <3>2 DEF ByLength
  <2> QED BY <2>1, <2>2
<1>5. ByLength(r, low)
  BY <1>1, <1>3, <1>4 DEF ByLength
<1> QED BY <1>5 DEF r

LEMMA FrontGrows ==
  ASSUME NEW queue \in Seq(Nodes), NEW visited, NEW aims, NEW w, NEW low \in Nat, NEW open,
         Frontier(queue, visited, aims, w, low, open), Covered(low, w, visited),
         NEW q \in Nodes, Path(q.actions), Led(q.actions, w, q.world), Len(q.actions) = low + 1,
         q.world \notin visited, ~(aims \subseteq q.world)
  PROVE  Frontier(Append(queue, q), visited \cup {q.world}, aims, w, low, open)
<1> DEFINE r == Append(queue, q)
           n == Len(queue)
           reached == visited \cup {q.world}
<1>1. Len(r) = n + 1 /\ n \in Nat /\ r[n + 1] = q /\ \A i \in 1..n : r[i] = queue[i]
  BY QueueGrows
<1>2. ByLength(r, low)
  BY ByLengthGrows DEF Frontier
<1> HIDE DEF r
<1>3. WayTo(q, w, reached)
  <2>1. ASSUME NEW a, Path(a), Led(a, w, q.world) PROVE low + 1 <= Len(a)
    <3>1. Len(a) \in Nat
      BY <2>1, RunsAre DEF Path
    <3>2. ~(Len(a) <= low)
      BY <2>1 DEF Covered
    <3> QED BY <3>1, <3>2
  <2> QED BY <2>1 DEF WayTo
<1>4. ASSUME NEW i \in 1..(n + 1) PROVE WayTo(r[i], w, reached)
  <2>1. CASE i = n + 1
    BY <1>1, <1>3, <2>1
  <2>2. CASE i # n + 1
    <3>1. i \in 1..n
      BY <1>1, <2>2
    <3>2. WayTo(queue[i], w, visited)
      BY <3>1 DEF Frontier
    <3>3. WayTo(queue[i], w, reached)
      BY <3>2 DEF WayTo
    <3> QED BY <1>1, <3>1, <3>3
  <2> QED BY <2>1, <2>2
<1>5. ASSUME NEW v \in reached PROVE Closed(v, reached) \/ v \in open \/ Waiting(v, r)
  <2>1. CASE v = q.world
    <3>1. n + 1 \in 1..Len(r) /\ r[n + 1].world = v
      BY <1>1, <2>1
    <3> QED BY <3>1 DEF Waiting
  <2>2. CASE v # q.world
    <3>1. Closed(v, visited) \/ v \in open \/ Waiting(v, queue)
      BY <2>2 DEF Frontier
    <3>2. Closed(v, visited) => Closed(v, reached)
      BY DEF Closed
    <3>3. Waiting(v, queue) => Waiting(v, r)
      <4>1. \A i \in 1..n : i \in 1..Len(r)
        BY <1>1
      <4> QED BY <1>1, <4>1 DEF Waiting
    <3> QED BY <3>1, <3>2, <3>3
  <2> QED BY <2>1, <2>2
<1>6. w \in reached /\ \A v \in reached : ~(aims \subseteq v)
  BY DEF Frontier
<1>7. Frontier(r, reached, aims, w, low, open)
  BY <1>1, <1>2, <1>4, <1>5, <1>6 DEF Frontier
<1> QED BY <1>7 DEF r

LEMMA VisitGoesOn ==
  ASSUME DomainKnown, NEW acc, NEW cur \in Nodes, NEW aims, NEW w, NEW tried, NEW o \in DOMAIN operators,
         Path(cur.actions), Led(cur.actions, w, cur.world),
         Visiting(acc, cur, aims, w, Len(cur.actions), tried)
  PROVE  \/ Visiting(Visit(acc, cur, o, aims), cur, aims, w, Len(cur.actions), tried \cup {o})
         \/ Arrived(Visit(acc, cur, o, aims), aims, w)
<1> DEFINE low == Len(cur.actions)
           x == Apply(o, cur.world)
           next == Visit(acc, cur, o, aims)
<1>1. CASE ~Applicable(o, cur.world) \/ x \in acc.visited
  <2>1. next = acc
    BY <1>1, NothingVisited
  <2> QED BY <1>1, <2>1 DEF Visiting
<1>2. CASE Applicable(o, cur.world) /\ x \notin acc.visited
  <2> DEFINE a == Append(cur.actions, o)
             q == [world |-> x, actions |-> a]
  <2>1. /\ low \in Nat /\ cur.world \in Worlds /\ x \in Worlds /\ o \in Nat
        /\ Path(a) /\ Len(a) = low + 1 /\ a \in Seq(Nat)
    <3>1. Path(a) /\ Len(a) = low + 1
      BY PathOneMore
    <3> QED BY <3>1, NodeFields, AppliedIs DEF Path, Runs
  <2>2. Led(a, w, x)
    BY <1>2, <2>1, LedOneMore, NodeFields
  <2>3. acc \in SearchStates /\ acc.found = <<>> /\ acc.queue \in Seq(Nodes) /\ acc.visited \in SUBSET Worlds
    BY DEF Visiting, SearchStates
  <2>4. next = [found |-> IF aims \subseteq x THEN a ELSE <<>>,
                queue |-> Append(acc.queue, q), visited |-> acc.visited \cup {x}]
    BY <1>2, <2>3 DEF Visit
  <2>5. q \in Nodes /\ q.world = x /\ q.actions = a
    BY <2>1 DEF Nodes
  <2>6. Append(acc.queue, q) \in Seq(Nodes)
    BY <2>3, <2>5, QueueGrows
  <2>7. Frontier(acc.queue, acc.visited, aims, w, low, {cur.world}) /\ Covered(low, w, acc.visited)
    BY DEF Visiting
  <2> HIDE DEF next, q, x, a, low
  <2>8. next \in SearchStates
    <3>1. (IF aims \subseteq x THEN a ELSE <<>>) \in Seq(Nat)
      BY <2>1
    <3> QED BY <2>1, <2>3, <2>4, <2>6, <3>1 DEF SearchStates
  <2>9. CASE aims \subseteq x
    <3>1. next.found = a /\ a # <<>>
      BY <2>1, <2>4, <2>9
    <3>2. ASSUME NEW b, NEW v, Path(b), Led(b, w, v), aims \subseteq v PROVE Len(a) <= Len(b)
      <4>1. Len(b) \in Nat
        BY <3>2, RunsAre DEF Path
      <4>2. ~(Len(b) <= low)
        BY <2>7, <3>2 DEF Covered, Frontier
      <4> QED BY <2>1, <4>1, <4>2
    <3>3. Shortest(a, w, aims)
      BY <2>1, <2>2, <2>9, <3>2 DEF Shortest
    <3>4. Arrived(next, aims, w)
      BY <2>8, <3>1, <3>3 DEF Arrived
    <3> QED BY <3>4 DEF next
  <2>10. CASE ~(aims \subseteq x)
    <3>1. next.found = <<>> /\ next.queue = Append(acc.queue, q) /\ next.visited = acc.visited \cup {x}
      BY <2>4, <2>10
    <3>2. Frontier(next.queue, next.visited, aims, w, low, {cur.world})
      <4>1. Path(q.actions) /\ Led(q.actions, w, q.world) /\ Len(q.actions) = low + 1
            /\ q.world \notin acc.visited /\ ~(aims \subseteq q.world)
        BY <2>1, <2>2, <2>5, <2>10, <1>2 DEF x
      <4>2. Frontier(Append(acc.queue, q), acc.visited \cup {q.world}, aims, w, low, {cur.world})
        BY <2>1, <2>3, <2>5, <2>7, <4>1, FrontGrows
      <4> QED BY <2>5, <3>1, <4>2
    <3>3. Covered(low, w, next.visited)
      BY <2>7, <3>1 DEF Covered
    <3>4. \A p \in tried \cup {o} : Applicable(p, cur.world) => Apply(p, cur.world) \in next.visited
      BY <3>1 DEF Visiting, x
    <3>5. Visiting(next, cur, aims, w, low, tried \cup {o})
      BY <2>8, <3>1, <3>2, <3>3, <3>4 DEF Visiting
    <3> QED BY <3>5 DEF next, low
  <2> QED BY <2>9, <2>10
<1> QED BY <1>1, <1>2

LEMMA OperatorsListed ==
  ASSUME DomainKnown
  PROVE  /\ Ascending(DOMAIN operators) \in Seq(DOMAIN operators)
         /\ \A k \in 1..Len(Ascending(DOMAIN operators)) : Ascending(DOMAIN operators)[k] \in DOMAIN operators
         /\ \A o \in DOMAIN operators : \E k \in 1..Len(Ascending(DOMAIN operators)) :
              Ascending(DOMAIN operators)[k] = o
<1> DEFINE D == DOMAIN operators
           s == Ascending(D)
<1>1. D \subseteq Nat /\ IsFiniteSet(D)
  BY DEF DomainKnown
<1> HIDE DEF D
<1>2. /\ Cardinality(D) \in Nat /\ s \in [1..Cardinality(D) -> D]
      /\ \A o \in D : \E k \in 1..Cardinality(D) : s[k] = o
  BY <1>1, AscendingFinite
<1> HIDE DEF s
<1>3. s \in Seq(D) /\ Len(s) = Cardinality(D)
  BY <1>2
<1> QED BY <1>2, <1>3 DEF s, D

\* All operators have been tried, or one arrived
LEMMA VisitedIs ==
  ASSUME DomainKnown, NEW acc, NEW cur \in Nodes, NEW aims, NEW w,
         Path(cur.actions), Led(cur.actions, w, cur.world),
         Visiting(acc, cur, aims, w, Len(cur.actions), {})
  PROVE  LET end == Visited(cur, aims, acc, Ascending(DOMAIN operators))
         IN  Arrived(end, aims, w) \/ Visiting(end, cur, aims, w, Len(cur.actions), DOMAIN operators)
<1> DEFINE s == Ascending(DOMAIN operators)
           n == Len(s)
           low == Len(cur.actions)
<1>1. /\ s \in Seq(DOMAIN operators) /\ n \in Nat /\ \A k \in 1..n : s[k] \in DOMAIN operators
      /\ \A o \in DOMAIN operators : \E k \in 1..n : s[k] = o
  <2>1. \A t : t \in Seq(DOMAIN operators) => Len(t) \in Nat
    OBVIOUS
  <2> HIDE DEF s
  <2>2. /\ s \in Seq(DOMAIN operators) /\ \A k \in 1..Len(s) : s[k] \in DOMAIN operators
        /\ \A o \in DOMAIN operators : \E k \in 1..Len(s) : s[k] = o
    BY OperatorsListed, Zenon DEF s
  <2> QED BY <2>1, <2>2
<1>2. PICK h : VisitedSteps(cur, aims, acc, s, h)
  BY <1>1, VisitedIsFold
<1>3. h[0] = acc /\ (\A i \in 1..n : h[i] = Visit(h[i - 1], cur, s[i], aims)) /\ Visited(cur, aims, acc, s) = h[n]
  BY <1>2 DEF VisitedSteps
<1> HIDE DEF s, n
<1> DEFINE TriedOnes(i) == {s[k] : k \in 1..i}
           Good(i) == Arrived(h[i], aims, w) \/ Visiting(h[i], cur, aims, w, low, TriedOnes(i))
           S == {i \in Nat : i \in 0..n /\ ~Good(i)}
<1>4. TriedOnes(0) = {} /\ TriedOnes(n) = DOMAIN operators
  <2>1. TriedOnes(0) = {}
    OBVIOUS
  <2>2. \A o : o \in TriedOnes(n) <=> o \in DOMAIN operators
    BY <1>1
  <2> HIDE DEF TriedOnes
  <2> QED BY <2>1, <2>2
<1>5. ASSUME NEW m \in 1..n PROVE TriedOnes(m) = TriedOnes(m - 1) \cup {s[m]}
  <2>1. 1..m = (1..(m - 1)) \cup {m}
    BY <1>1
  <2> QED BY <2>1
<1> HIDE DEF TriedOnes
<1>6. Good(0)
  BY <1>3, <1>4
<1>7. ASSUME NEW m \in 1..n, Good(m - 1) PROVE Good(m)
  <2>1. h[m] = Visit(h[m - 1], cur, s[m], aims) /\ s[m] \in DOMAIN operators
    BY <1>1, <1>3
  <2>2. CASE Arrived(h[m - 1], aims, w)
    <3>1. h[m - 1].found # <<>>
      BY <2>2 DEF Arrived
    <3>2. h[m] = h[m - 1]
      BY <2>1, <3>1, NothingVisited
    <3> QED BY <2>2, <3>2
  <2>3. CASE Visiting(h[m - 1], cur, aims, w, low, TriedOnes(m - 1))
    <3>1. \/ Visiting(Visit(h[m - 1], cur, s[m], aims), cur, aims, w, low, TriedOnes(m - 1) \cup {s[m]})
          \/ Arrived(Visit(h[m - 1], cur, s[m], aims), aims, w)
      BY <2>1, <2>3, VisitGoesOn
    <3> QED BY <2>1, <3>1, <1>5
  <2> QED BY <1>7, <2>2, <2>3
<1> HIDE DEF Good
<1>8. ASSUME S # {} PROVE FALSE
  <2>1. PICK m \in S : \A l \in S : m <= l
    BY <1>8, LeastNumber
  <2>2. m # 0
    BY <2>1, <1>6
  <2>3. m \in 1..n /\ m - 1 \in 0..n /\ m - 1 \in Nat /\ m \in Nat
    BY <2>1, <2>2, <1>1
  <2>4. Good(m - 1)
    <3>1. m - 1 \notin S
      BY <2>1, <2>3
    <3> QED BY <2>3, <3>1
  <2> QED BY <2>1, <2>3, <2>4, <1>7
<1>9. Good(n)
  BY <1>1, <1>8
<1>10. Arrived(h[n], aims, w) \/ Visiting(h[n], cur, aims, w, low, DOMAIN operators)
  BY <1>4, <1>9 DEF Good
<1> QED BY <1>3, <1>10 DEF s

(* The search *)

\* All that is queued is longer than a plan may be
Spent(s) == s \in SearchStates /\ s.found = <<>> /\ \A i \in 1..Len(s.queue) : Len(s.queue[i].actions) > MaxPlanActions
Searching(s, aims, w) ==
  s \in SearchStates /\ s.found = <<>> /\ \E low \in Nat : Frontier(s.queue, s.visited, aims, w, low, {})
SearchInv(s, aims, w) == Arrived(s, aims, w) \/ Spent(s) \/ Searching(s, aims, w)

LEMMA TailIs ==
  ASSUME NEW queue \in Seq(Nodes), queue # <<>>
  PROVE  /\ Tail(queue) \in Seq(Nodes) /\ Len(queue) \in Nat /\ Len(Tail(queue)) = Len(queue) - 1 /\ Len(queue) >= 1
         /\ Head(queue) = queue[1] /\ queue[1] \in Nodes
         /\ \A i \in 1..(Len(queue) - 1) : Tail(queue)[i] = queue[i + 1] /\ i + 1 \in 1..Len(queue)
OBVIOUS

\* The first world is taken from the queue
LEMMA FrontierOpens ==
  ASSUME NEW queue \in Seq(Nodes), queue # <<>>, NEW visited, NEW aims, NEW w, NEW low \in Nat,
         Frontier(queue, visited, aims, w, low, {})
  PROVE  /\ WayTo(Head(queue), w, visited)
         /\ Covered(Len(Head(queue).actions), w, visited)
         /\ Frontier(Tail(queue), visited, aims, w, Len(Head(queue).actions), {Head(queue).world})
<1> DEFINE n == Len(queue)
           r == Tail(queue)
           l == Len(queue[1].actions)
<1>1. /\ r \in Seq(Nodes) /\ n \in Nat /\ Len(r) = n - 1 /\ n >= 1 /\ Head(queue) = queue[1]
      /\ queue[1] \in Nodes /\ \A i \in 1..(n - 1) : r[i] = queue[i + 1] /\ i + 1 \in 1..n
  BY TailIs
<1>2. 1 \in 1..n /\ l \in Nat
  BY <1>1, NodeFields
<1>3. ASSUME NEW i \in 1..n
      PROVE  /\ Len(queue[i].actions) \in Nat /\ l <= Len(queue[i].actions) /\ Len(queue[i].actions) <= l + 1
             /\ WayTo(queue[i], w, visited)
  <2>1. queue[i] \in Nodes /\ 1 <= i
    BY <1>1
  <2>2. Len(queue[i].actions) \in Nat
    BY <2>1, NodeFields
  <2>3. low <= l /\ l <= Len(queue[i].actions) /\ Len(queue[i].actions) <= low + 1
    BY <1>2, <2>1 DEF Frontier, ByLength
  <2> QED BY <1>2, <2>2, <2>3 DEF Frontier
<1>4. Covered(l, w, visited)
  BY <1>2, <1>3, FrontCovers
<1> HIDE DEF r
<1>5. ByLength(r, l)
  <2>1. ASSUME NEW i \in 1..(n - 1), NEW j \in 1..(n - 1), i <= j
        PROVE  Len(r[i].actions) <= Len(r[j].actions)
    <3>1. i + 1 \in 1..n /\ j + 1 \in 1..n /\ i + 1 <= j + 1
      BY <1>1, <2>1
    <3>2. Len(queue[i + 1].actions) <= Len(queue[j + 1].actions)
      BY <3>1 DEF Frontier, ByLength
    <3> QED BY <1>1, <3>2
  <2>2. ASSUME NEW i \in 1..(n - 1) PROVE l <= Len(r[i].actions) /\ Len(r[i].actions) <= l + 1
    BY <1>1, <1>3
  <2> QED BY <1>1, <2>1, <2>2 DEF ByLength
<1>6. \A i \in 1..Len(r) : WayTo(r[i], w, visited)
  BY <1>1, <1>3
<1>7. ASSUME NEW v \in visited PROVE Closed(v, visited) \/ v \in {queue[1].world} \/ Waiting(v, r)
  <2>1. ASSUME Waiting(v, queue), v # queue[1].world PROVE Waiting(v, r)
    <3>1. PICK i \in 1..n : queue[i].world = v
      BY <2>1 DEF Waiting
    <3>2. i # 1
      BY <2>1, <3>1
    <3>3. i - 1 \in 1..(n - 1) /\ (i - 1) + 1 = i
      BY <1>1, <3>2
    <3>4. r[i - 1] = queue[i]
      BY <1>1, <3>3
    <3> QED BY <1>1, <3>1, <3>3, <3>4 DEF Waiting
  <2> QED BY <2>1 DEF Frontier
<1>8. Frontier(r, visited, aims, w, l, {queue[1].world})
  BY <1>5, <1>6, <1>7 DEF Frontier
<1> QED BY <1>1, <1>2, <1>3, <1>4, <1>8 DEF r

LEMMA ExpandIs ==
  ASSUME NEW s, NEW aims
  PROVE  Expand(s, aims) =
           IF s.found # <<>> \/ s.queue = <<>> THEN s
           ELSE IF Len(Head(s.queue).actions) > MaxPlanActions THEN [s EXCEPT !.queue = Tail(@)]
           ELSE Visited(Head(s.queue), aims, [s EXCEPT !.queue = Tail(@)], Ascending(DOMAIN operators))
BY DEF Expand, Visited

LEMMA ExpandGoesOn ==
  ASSUME DomainKnown, MaxPlanActions \in Nat, NEW s, NEW aims, NEW w, SearchInv(s, aims, w)
  PROVE  SearchInv(Expand(s, aims), aims, w)
<1>1. s \in SearchStates /\ s.queue \in Seq(Nodes) /\ s.visited \in SUBSET Worlds /\ s.found \in Seq(Nat)
      /\ s = [found |-> s.found, queue |-> s.queue, visited |-> s.visited]
  BY DEF SearchInv, Arrived, Spent, Searching, SearchStates
<1>2. CASE s.found # <<>> \/ s.queue = <<>>
  BY <1>2, ExpandIs
<1> DEFINE cur == Head(s.queue)
           popped == [s EXCEPT !.queue = Tail(s.queue)]
<1>3. CASE s.found = <<>> /\ s.queue # <<>> /\ Len(cur.actions) > MaxPlanActions
  <2>1. Expand(s, aims) = popped
    BY <1>3, ExpandIs
  <2>2. /\ Tail(s.queue) \in Seq(Nodes) /\ Len(s.queue) \in Nat /\ Len(Tail(s.queue)) = Len(s.queue) - 1 /\ Len(s.queue) >= 1
        /\ cur = s.queue[1] /\ cur \in Nodes
        /\ \A i \in 1..(Len(s.queue) - 1) : Tail(s.queue)[i] = s.queue[i + 1] /\ i + 1 \in 1..Len(s.queue)
    BY <1>1, <1>3, TailIs
  <2>3. popped \in SearchStates /\ popped.found = <<>> /\ popped.queue = Tail(s.queue)
    BY <1>1, <1>3, <2>2 DEF SearchStates
  <2>4. ASSUME NEW i \in 1..Len(s.queue) PROVE Len(s.queue[i].actions) > MaxPlanActions
    <3>1. CASE Spent(s)
      BY <3>1 DEF Spent
    <3>2. CASE Searching(s, aims, w)
      <4>1. PICK low \in Nat : Frontier(s.queue, s.visited, aims, w, low, {})
        BY <3>2 DEF Searching
      <4>2. 1 \in 1..Len(s.queue) /\ 1 <= i
        BY <2>2
      <4>3. Len(s.queue[1].actions) <= Len(s.queue[i].actions)
        BY <4>1, <4>2 DEF Frontier, ByLength
      <4>4. Len(s.queue[1].actions) \in Nat /\ Len(s.queue[i].actions) \in Nat
        <5>1. s.queue[1] \in Nodes /\ s.queue[i] \in Nodes
          BY <1>1, <4>2
        <5> QED BY <5>1, NodeFields
      <4> QED BY <1>3, <2>2, <4>3, <4>4
    <3> QED BY <1>3, <3>1, <3>2 DEF SearchInv, Arrived
  <2>5. Spent(popped)
    BY <2>2, <2>3, <2>4 DEF Spent
  <2> QED BY <2>1, <2>5 DEF SearchInv
<1>4. CASE s.found = <<>> /\ s.queue # <<>> /\ ~(Len(cur.actions) > MaxPlanActions)
  <2> DEFINE end == Visited(cur, aims, popped, Ascending(DOMAIN operators))
             l == Len(cur.actions)
  <2>1. Expand(s, aims) = end
    BY <1>4, ExpandIs
  <2>2. Tail(s.queue) \in Seq(Nodes) /\ Len(s.queue) \in Nat /\ Len(s.queue) >= 1 /\ cur = s.queue[1] /\ cur \in Nodes
    BY <1>1, <1>4, TailIs
  <2>3. l \in Nat
    BY <2>2, NodeFields
  <2>4. ~Spent(s)
    <3>1. 1 \in 1..Len(s.queue)
      BY <2>2
    <3> QED BY <1>4, <2>2, <3>1 DEF Spent
  <2>5. PICK low \in Nat : Frontier(s.queue, s.visited, aims, w, low, {})
    BY <1>4, <2>4 DEF SearchInv, Arrived, Searching
  <2>6. /\ WayTo(cur, w, s.visited) /\ Covered(l, w, s.visited)
        /\ Frontier(Tail(s.queue), s.visited, aims, w, l, {cur.world})
    BY <1>1, <1>4, <2>5, FrontierOpens
  <2>7. /\ popped \in SearchStates /\ popped.found = <<>> /\ popped.queue = Tail(s.queue)
        /\ popped.visited = s.visited
    BY <1>1, <1>4, <2>2 DEF SearchStates
  <2> HIDE DEF cur, popped
  <2>8. Visiting(popped, cur, aims, w, l, {})
    BY <2>6, <2>7 DEF Visiting
  <2>9. Arrived(end, aims, w) \/ Visiting(end, cur, aims, w, l, DOMAIN operators)
    BY <2>2, <2>6, <2>8, VisitedIs DEF WayTo
  <2> HIDE DEF end, l
  <2>10. ASSUME Visiting(end, cur, aims, w, l, DOMAIN operators) PROVE Searching(end, aims, w)
    <3>1. Closed(cur.world, end.visited)
      BY <2>10 DEF Visiting, Closed
    <3>2. Frontier(end.queue, end.visited, aims, w, l, {cur.world})
      BY <2>10 DEF Visiting
    <3>3. Frontier(end.queue, end.visited, aims, w, l, {})
      BY <3>1, <3>2 DEF Frontier
    <3> QED BY <2>3, <2>10, <3>3 DEF Searching, Visiting
  <2> QED BY <2>1, <2>9, <2>10 DEF SearchInv
<1> QED BY <1>2, <1>3, <1>4

Start(w) == [found |-> <<>>, queue |-> <<[world |-> w, actions |-> <<>>]>>, visited |-> {w}]
Expanding(k, f, start, aims) == f = [n \in 0..k |-> IF n = 0 THEN start ELSE Expand(f[n - 1], aims)]
After(w, aims) == CHOOSE f : Expanding(MaxExpansions, f, Start(w), aims)

LEMMA ExpandingExists == \A start, aims : \A k \in Nat : \E f : Expanding(k, f, start, aims)
<1> SUFFICES ASSUME NEW start, NEW aims PROVE \A k \in Nat : \E f : Expanding(k, f, start, aims)
  OBVIOUS
<1> DEFINE S == {k \in Nat : ~\E f : Expanding(k, f, start, aims)}
<1>1. ASSUME S # {} PROVE FALSE
  <2>1. PICK m \in S : \A l \in S : m <= l
    BY <1>1, LeastNumber
  <2>2. m # 0
    <3> DEFINE f == [n \in 0..0 |-> start]
    <3>1. Expanding(0, f, start, aims)
      BY DEF Expanding
    <3> QED BY <2>1, <3>1
  <2>3. m - 1 \in Nat /\ m - 1 \notin S
    BY <2>1, <2>2
  <2>4. PICK f : Expanding(m - 1, f, start, aims)
    BY <2>3
  <2> DEFINE g == [n \in 0..m |-> IF n = m THEN Expand(f[m - 1], aims) ELSE f[n]]
  <2>5. \A n \in 0..m : g[n] = IF n = m THEN Expand(f[m - 1], aims) ELSE f[n]
    OBVIOUS
  <2>6. \A n \in 0..(m - 1) : f[n] = IF n = 0 THEN start ELSE Expand(f[n - 1], aims)
    BY <2>4, Zenon DEF Expanding
  <2>7. g = [n \in 0..m |-> g[n]]
    OBVIOUS
  <2> HIDE DEF g
  <2>8. ASSUME NEW n \in 0..m PROVE g[n] = IF n = 0 THEN start ELSE Expand(g[n - 1], aims)
    <3>1. CASE n = m
      <4>1. n # 0 /\ m - 1 \in 0..m /\ m - 1 # m /\ m \in 0..m
        BY <2>1, <2>2, <3>1
      <4> QED BY <2>5, <3>1, <4>1
    <3>2. CASE n # m
      <4>1. n \in 0..(m - 1) /\ (n # 0 => n - 1 \in 0..m /\ n - 1 # m)
        BY <2>1, <3>2
      <4> QED BY <2>5, <2>6, <3>2, <4>1
    <3> QED BY <3>1, <3>2
  <2>9. g = [n \in 0..m |-> IF n = 0 THEN start ELSE Expand(g[n - 1], aims)]
    BY <2>7, <2>8
  <2>10. Expanding(m, g, start, aims)
    BY <2>9 DEF Expanding
  <2> QED BY <2>1, <2>10
<1> QED BY <1>1

\* What is searched for
SearchIsAfter(aims, w, end) ==
  Search(aims, w) = IF aims \subseteq w THEN Success(<<>>, w)
                    ELSE IF end.found # <<>> THEN Success(end.found, w) ELSE Failure(w)

LEMMA SearchEnds ==
  ASSUME MaxExpansions \in Nat, NEW aims, NEW w
  PROVE  \E f : /\ f[0] = Start(w) /\ (\A n \in 1..MaxExpansions : f[n] = Expand(f[n - 1], aims))
                /\ SearchIsAfter(aims, w, f[MaxExpansions])
<1> DEFINE f == After(w, aims)
<1>1. Expanding(MaxExpansions, f, Start(w), aims)
  BY ExpandingExists DEF After
<1>2. SearchIsAfter(aims, w, f[MaxExpansions])
  BY DEF SearchIsAfter, Search, After, Expanding, Start
<1> HIDE DEF f
<1>3. \A n \in 0..MaxExpansions : f[n] = IF n = 0 THEN Start(w) ELSE Expand(f[n - 1], aims)
  BY <1>1, Zenon DEF Expanding
<1>4. f[0] = Start(w) /\ \A n \in 1..MaxExpansions : f[n] = Expand(f[n - 1], aims)
  BY <1>3
<1> QED BY <1>2, <1>4

LEMMA SearchStarts ==
  ASSUME NEW w \in Worlds, NEW aims, ~(aims \subseteq w)
  PROVE  Searching(Start(w), aims, w)
<1> DEFINE q == [world |-> w, actions |-> <<>>]
           queue == <<q>>
<1>1. q \in Nodes /\ queue \in Seq(Nodes) /\ Len(queue) = 1 /\ queue[1] = q /\ Len(q.actions) = 0
      /\ <<>> \in Seq(Nat)
  BY DEF Nodes
<1>2. Start(w) \in SearchStates /\ Start(w).found = <<>> /\ Start(w).queue = queue /\ Start(w).visited = {w}
  BY <1>1 DEF Start, SearchStates
<1>3. Path(<<>>) /\ Led(<<>>, w, w)
  BY <1>1, LedNowhere DEF Path, Runs
<1>4. ASSUME NEW a, Path(a) PROVE Len(a) \in Nat
  BY <1>4 DEF Path, Runs
<1> HIDE DEF queue
<1>5. WayTo(q, w, {w})
  BY <1>1, <1>3, <1>4 DEF WayTo
<1>6. ByLength(queue, 0)
  BY <1>1 DEF ByLength
<1>7. Waiting(w, queue)
  BY <1>1 DEF Waiting
<1>8. Frontier(queue, {w}, aims, w, 0, {})
  BY <1>1, <1>5, <1>6, <1>7 DEF Frontier
<1> QED BY <1>2, <1>8 DEF Searching

Results == [ok : BOOLEAN, actions : Seq(Nat), world : Worlds]

\* A search finds the shortest actions to the aims, or nothing
LEMMA SearchIs ==
  ASSUME PlanningAssumption, DomainKnown, NEW w \in Worlds, NEW aims
  PROVE  /\ Search(aims, w) \in Results /\ Search(aims, w).world = w
         /\ Search(aims, w).ok => Shortest(Search(aims, w).actions, w, aims)
<1> DEFINE n == MaxExpansions
<1>1. n \in Nat /\ MaxPlanActions \in Nat
  BY DEF PlanningAssumption
<1>2. CASE aims \subseteq w
  <2>1. Search(aims, w) = Success(<<>>, w)
    BY <1>2, <1>1, SearchEnds DEF SearchIsAfter
  <2>2. Path(<<>>) /\ Led(<<>>, w, w)
    BY LedNowhere DEF Path, Runs
  <2>3. ASSUME NEW a, Path(a) PROVE Len(a) \in Nat
    BY <2>3 DEF Path, Runs
  <2>4. Shortest(<<>>, w, aims)
    BY <1>2, <2>2, <2>3 DEF Shortest
  <2> QED BY <2>1, <2>4 DEF Success, Results
<1>3. CASE ~(aims \subseteq w)
  <2>1. PICK f : /\ f[0] = Start(w) /\ (\A i \in 1..n : f[i] = Expand(f[i - 1], aims))
                 /\ SearchIsAfter(aims, w, f[n])
    BY <1>1, SearchEnds
  <2> DEFINE Good(i) == SearchInv(f[i], aims, w)
             S == {i \in Nat : i \in 0..n /\ ~Good(i)}
  <2>2. Good(0)
    BY <1>3, <2>1, SearchStarts DEF SearchInv
  <2>3. ASSUME NEW i \in 1..n, Good(i - 1) PROVE Good(i)
    BY <1>1, <2>1, <2>3, ExpandGoesOn
  <2> HIDE DEF Good
  <2>4. ASSUME S # {} PROVE FALSE
    <3>1. PICK m \in S : \A l \in S : m <= l
      BY <2>4, LeastNumber
    <3>2. m # 0
      BY <3>1, <2>2
    <3>3. m \in 1..n /\ m - 1 \in 0..n /\ m - 1 \in Nat /\ m \in Nat
      BY <3>1, <3>2, <1>1
    <3>4. Good(m - 1)
      BY <3>1, <3>3
    <3> QED BY <3>1, <3>3, <3>4, <2>3
  <2>5. Good(n)
    BY <1>1, <2>4
  <2>6. SearchInv(f[n], aims, w)
    BY <2>5 DEF Good
  <2>7. CASE f[n].found # <<>>
    <3>1. Arrived(f[n], aims, w)
      BY <2>6, <2>7 DEF SearchInv, Spent, Searching
    <3>2. Shortest(f[n].found, w, aims) /\ f[n].found \in Seq(Nat)
      BY <3>1 DEF Arrived, SearchStates
    <3>3. Search(aims, w) = Success(f[n].found, w)
      BY <1>3, <2>1, <2>7 DEF SearchIsAfter
    <3> QED BY <3>2, <3>3 DEF Success, Results
  <2>8. CASE f[n].found = <<>>
    <3>1. Search(aims, w) = Failure(w)
      BY <1>3, <2>1, <2>8 DEF SearchIsAfter
    <3> QED BY <3>1 DEF Failure, Results
  <2> QED BY <2>7, <2>8
<1> QED BY <1>2, <1>3

(* Tasks in turn *)

TaskMethods == [pre : SUBSET Nat, subtasks : Seq(Nat)]
MethodsKnown == \A t \in DOMAIN methods : methods[t] \in Seq(TaskMethods)

\* Ways of a task of operators alone
ByOperators(t) == \A m \in ToSet(methods[t]) : ToSet(m.subtasks) \subseteq DOMAIN operators

\* What is found for the task t in the world u
Found(r, t, u) ==
  /\ r \in Results
  /\ r.ok => Path(r.actions)
  /\ r.ok /\ t \in DOMAIN operators => r.actions = <<t>> /\ Applicable(t, u) /\ r.world = Apply(t, u)
  /\ r.ok /\ t \notin DOMAIN operators \cup DOMAIN methods => \E v : Led(r.actions, u, v) /\ t \in v
  /\ r.ok /\ t \in DOMAIN methods \ DOMAIN operators /\ ByOperators(t) => \E v : Led(r.actions, u, v)
LevelOk(f) == \A t \in Nat, u \in Worlds : Found(f[t][u], t, u)

\* What is found for tasks from w on
Turning(r, s, i, w) ==
  /\ r \in Results
  /\ r.ok => Path(r.actions)
  /\ r.ok /\ (\A k \in 1..i : s[k] \in DOMAIN operators) => Led(r.actions, w, r.world)

LEMMA ResultFields ==
  ASSUME NEW r \in Results
  PROVE  r.ok \in BOOLEAN /\ r.actions \in Seq(Nat) /\ r.world \in Worlds /\ Runs(r.actions)
BY DEF Results, Runs

LEMMA PathThen ==
  ASSUME NEW a, NEW b, Path(a), Path(b)
  PROVE  Path(a \o b)
<1>1. a \in Seq(Nat) /\ b \in Seq(Nat) /\ Len(a) \in Nat /\ Len(b) \in Nat
  BY DEF Path, Runs
<1>2. a \o b \in Seq(Nat) /\ Len(a \o b) = Len(a) + Len(b)
  BY <1>1
<1>3. ASSUME NEW i \in 1..Len(a \o b) PROVE (a \o b)[i] \in DOMAIN operators
  <2>1. CASE i <= Len(a)
    <3>1. i \in 1..Len(a) /\ (a \o b)[i] = a[i]
      BY <1>1, <1>2, <2>1
    <3> QED BY <3>1 DEF Path
  <2>2. CASE i > Len(a)
    <3>1. i - Len(a) \in 1..Len(b) /\ (a \o b)[i] = b[i - Len(a)]
      BY <1>1, <1>2, <2>2
    <3> QED BY <3>1 DEF Path
  <2> QED BY <1>1, <1>2, <2>1, <2>2
<1> QED BY <1>2, <1>3 DEF Path, Runs

LEMMA TurnGoesOn ==
  ASSUME DomainKnown, NEW finds, LevelOk(finds), NEW limit, NEW s \in Seq(Nat), NEW w \in Worlds,
         NEW i \in 1..Len(s), NEW acc, Turning(acc, s, i - 1, w)
  PROVE  Turning(Turned(finds, limit, acc, s[i]), s, i, w)
<1> DEFINE t == s[i]
           r == finds[t][acc.world]
           end == Turned(finds, limit, acc, t)
<1>0. t \in Nat /\ i \in Nat /\ (\A k \in 1..(i - 1) : k \in 1..i) /\ i \in 1..i
  OBVIOUS
<1>1. acc \in Results /\ acc.ok \in BOOLEAN /\ acc.actions \in Seq(Nat) /\ acc.world \in Worlds /\ Runs(acc.actions)
  BY ResultFields DEF Turning
<1>2. CASE ~acc.ok
  <2>1. end = acc
    BY <1>2 DEF Turned
  <2> QED BY <1>1, <1>2, <2>1 DEF Turning
<1>3. Found(r, t, acc.world)
  BY <1>0, <1>1 DEF LevelOk
<1>4. r \in Results /\ r.ok \in BOOLEAN /\ r.actions \in Seq(Nat) /\ r.world \in Worlds
  BY <1>3, ResultFields DEF Found
<1>5. CASE acc.ok /\ r.ok /\ Len(acc.actions \o r.actions) <= limit
  <2>1. end = Success(acc.actions \o r.actions, r.world)
    BY <1>5 DEF Turned
  <2>2. end = [ok |-> TRUE, actions |-> acc.actions \o r.actions, world |-> r.world]
    BY <2>1 DEF Success
  <2>3. acc.actions \o r.actions \in Seq(Nat)
    BY <1>1, <1>4
  <2> HIDE DEF end, r, t
  <2>4. end \in Results /\ end.ok /\ end.actions = acc.actions \o r.actions /\ end.world = r.world
    BY <1>4, <2>2, <2>3 DEF Results
  <2>5. Path(end.actions)
    BY <1>3, <1>5, <2>4, PathThen DEF Turning, Found
  <2>6. ASSUME \A k \in 1..i : s[k] \in DOMAIN operators PROVE Led(end.actions, w, end.world)
    <3>1. t \in DOMAIN operators /\ Led(acc.actions, w, acc.world)
      BY <1>0, <1>5, <2>6 DEF Turning, t
    <3>2. r.actions = <<t>> /\ Applicable(t, acc.world) /\ r.world = Apply(t, acc.world)
      BY <1>3, <1>5, <3>1 DEF Found
    <3>3. acc.actions \o <<t>> = Append(acc.actions, t)
      BY <1>0, <1>1
    <3>4. Led(Append(acc.actions, t), w, Apply(t, acc.world))
      BY <1>0, <1>1, <3>1, <3>2, LedOneMore
    <3> QED BY <2>4, <3>2, <3>3, <3>4
  <2> QED BY <2>4, <2>5, <2>6 DEF Turning, end, t
<1>6. CASE acc.ok /\ ~(r.ok /\ Len(acc.actions \o r.actions) <= limit)
  <2>1. end = Failure(r.world)
    BY <1>6 DEF Turned
  <2>2. end \in Results /\ ~end.ok
    BY <1>4, <2>1 DEF Failure, Results
  <2> QED BY <2>2 DEF Turning
<1> QED BY <1>1, <1>2, <1>5, <1>6

LEMMA TurnsInTurn ==
  ASSUME NEW finds, NEW tasks, NEW w, NEW limit
  PROVE  InTurn(finds, tasks, w, limit) = TurnedAll(finds, limit, Success(<<>>, w), tasks)
BY DEF InTurn, TurnedAll

LEMMA TurnsIs ==
  ASSUME DomainKnown, NEW finds, LevelOk(finds), NEW limit, NEW s \in Seq(Nat), NEW w \in Worlds
  PROVE  Turning(InTurn(finds, s, w, limit), s, Len(s), w)
<1> DEFINE n == Len(s)
<1>1. n \in Nat
  OBVIOUS
<1>2. PICK h : TurnedAllSteps(finds, limit, Success(<<>>, w), s, h)
  BY TurnedAllIs
<1>3. /\ h[0] = Success(<<>>, w) /\ \A i \in 1..n : h[i] = Turned(finds, limit, h[i - 1], s[i])
      /\ InTurn(finds, s, w, limit) = h[n]
  BY <1>2, TurnsInTurn DEF TurnedAllSteps
<1> DEFINE Good(i) == Turning(h[i], s, i, w)
           S == {i \in Nat : i \in 0..n /\ ~Good(i)}
<1>4. Good(0)
  <2>1. Path(<<>>) /\ Led(<<>>, w, w)
    BY LedNowhere DEF Path, Runs
  <2> QED BY <1>3, <2>1 DEF Turning, Success, Results
<1>5. ASSUME NEW i \in 1..n, Good(i - 1) PROVE Good(i)
  BY <1>3, <1>5, TurnGoesOn
<1> HIDE DEF Good
<1>6. ASSUME S # {} PROVE FALSE
  <2>1. PICK m \in S : \A l \in S : m <= l
    BY <1>6, LeastNumber
  <2>2. m # 0
    BY <2>1, <1>4
  <2>3. m \in 1..n /\ m - 1 \in 0..n /\ m - 1 \in Nat /\ m \in Nat
    BY <2>1, <2>2, <1>1
  <2>4. Good(m - 1)
    BY <2>1, <2>3
  <2> QED BY <2>1, <2>3, <2>4, <1>5
<1>7. Good(n)
  BY <1>1, <1>6
<1> QED BY <1>3, <1>7 DEF Good

LEMMA TurnsOne ==
  ASSUME NEW finds, NEW limit, NEW s \in Seq(Nat), Len(s) = 1, NEW w, InTurn(finds, s, w, limit).ok,
         finds[s[1]][w] \in Results
  PROVE  finds[s[1]][w].ok /\ InTurn(finds, s, w, limit).actions = finds[s[1]][w].actions
<1> DEFINE r == finds[s[1]][w]
           start == Success(<<>>, w)
<1>1. PICK h : TurnedAllSteps(finds, limit, start, s, h)
  BY TurnedAllIs
<1>2. InTurn(finds, s, w, limit) = h[1] /\ h[0] = start /\ h[1] = Turned(finds, limit, h[1 - 1], s[1])
  BY <1>1, TurnsInTurn DEF TurnedAllSteps
<1>3. InTurn(finds, s, w, limit) = Turned(finds, limit, start, s[1])
  BY <1>2
<1>4. r.actions \in Seq(Nat)
  BY ResultFields
<1>5. <<>> \o r.actions = r.actions
  BY <1>4
<1> QED BY <1>3, <1>5 DEF Turned, Success, Failure

(* Levels *)

Tries(below, w, m) == IF m.pre \subseteq w THEN InTurn(below, m.subtasks, w, MaxPlanActions) ELSE Failure(w)
Leading(below, task, w) == {i \in 1..Len(methods[task]) : Tries(below, w, methods[task][i]).ok}
Decision(below, task, w) ==
  IF task \in DOMAIN operators
  THEN IF Applicable(task, w) THEN Success(<<task>>, Apply(task, w)) ELSE Failure(w)
  ELSE IF task \notin DOMAIN methods THEN Search({task}, w)
  ELSE IF (IF Leading(below, task, w) # {} THEN Min(Leading(below, task, w)) ELSE 0) = 0 THEN Failure(w)
  ELSE Success(Tries(below, w, methods[task][IF Leading(below, task, w) # {} THEN Min(Leading(below, task, w)) ELSE 0]).actions, w)

LEMMA DecomposeIs ==
  ASSUME NEW below
  PROVE  Decompose(below) = [task \in Nat |-> [w \in SUBSET Nat |-> Decision(below, task, w)]]
BY DEF Decompose, Decision, Tries, Leading, SelectInSeq

LEMMA LeastIs ==
  ASSUME NEW n \in Nat, NEW I, I \subseteq 1..n, I # {}
  PROVE  Min(I) \in I
<1>1. I \subseteq Nat
  OBVIOUS
<1>2. PICK m \in I : \A l \in I : m <= l
  BY <1>1, LeastNumber
<1> QED BY <1>2 DEF Min

LEMMA MethodFields ==
  ASSUME MethodsKnown, NEW t \in DOMAIN methods
  PROVE  /\ Len(methods[t]) \in Nat
         /\ \A i \in 1..Len(methods[t]) : methods[t][i].subtasks \in Seq(Nat) /\ methods[t][i] \in ToSet(methods[t])
<1>1. methods[t] \in Seq(TaskMethods)
  BY DEF MethodsKnown
<1> DEFINE s == methods[t]
<1>2. s \in Seq(TaskMethods)
  BY <1>1
<1> HIDE DEF s
<1>3. Len(s) \in Nat /\ DOMAIN s = 1..Len(s) /\ \A i \in 1..Len(s) : s[i] \in TaskMethods
  BY <1>2
<1>4. \A i \in 1..Len(s) : s[i].subtasks \in Seq(Nat)
  BY <1>3 DEF TaskMethods
<1>5. \A i \in 1..Len(s) : s[i] \in ToSet(s)
  BY <1>3 DEF ToSet
<1> QED BY <1>3, <1>4, <1>5 DEF s

LEMMA DecisionFound ==
  ASSUME PlanningAssumption, DomainKnown, MethodsKnown, NEW below, LevelOk(below), NEW t \in Nat, NEW u \in Worlds
  PROVE  Found(Decision(below, t, u), t, u)
<1> DEFINE r == Decision(below, t, u)
<1>1. CASE t \in DOMAIN operators
  <2>1. CASE Applicable(t, u)
    <3>1. r = Success(<<t>>, Apply(t, u))
      BY <1>1, <2>1 DEF Decision
    <3>2. Apply(t, u) \in Worlds /\ <<t>> \in Seq(Nat)
      BY <1>1, AppliedIs
    <3>3. Path(<<t>>)
      BY <1>1, <3>2 DEF Path, Runs
    <3> QED BY <1>1, <2>1, <3>1, <3>2, <3>3 DEF Found, Success, Results
  <2>2. CASE ~Applicable(t, u)
    <3>1. r = Failure(u)
      BY <1>1, <2>2 DEF Decision
    <3> QED BY <3>1 DEF Found, Failure, Results
  <2> QED BY <2>1, <2>2
<1>2. CASE t \notin DOMAIN operators /\ t \notin DOMAIN methods
  <2>1. r = Search({t}, u)
    BY <1>2 DEF Decision
  <2>2. r \in Results /\ (r.ok => Shortest(r.actions, u, {t}))
    BY <2>1, SearchIs
  <2> HIDE DEF r
  <2>3. r.ok => Path(r.actions) /\ \E v : Led(r.actions, u, v) /\ t \in v
    BY <2>2 DEF Shortest
  <2> QED BY <1>2, <2>2, <2>3 DEF Found, r
<1>3. CASE t \notin DOMAIN operators /\ t \in DOMAIN methods
  <2> DEFINE I == Leading(below, t, u)
             m == methods[t][Min(I)]
  <2>1. CASE I = {}
    <3>1. r = Failure(u)
      BY <1>3, <2>1 DEF Decision
    <3> QED BY <3>1 DEF Found, Failure, Results
  <2>2. CASE I # {}
    <3>1. Len(methods[t]) \in Nat /\ \A i \in 1..Len(methods[t]) : methods[t][i].subtasks \in Seq(Nat) /\ methods[t][i] \in ToSet(methods[t])
      BY <1>3, MethodFields
    <3>2. I \subseteq 1..Len(methods[t])
      BY DEF Leading
    <3>3. Min(I) \in I
      BY <2>2, <3>1, <3>2, LeastIs
    <3>4. Min(I) # 0 /\ Min(I) \in 1..Len(methods[t])
      BY <3>1, <3>2, <3>3
    <3>5. Tries(below, u, m).ok
      BY <3>3 DEF Leading
    <3>6. m.subtasks \in Seq(Nat) /\ m \in ToSet(methods[t])
      BY <3>1, <3>4
    <3>7. r = Success(Tries(below, u, m).actions, u)
      BY <1>3, <2>2, <3>4 DEF Decision
    <3> HIDE DEF m, I
    <3> DEFINE x == InTurn(below, m.subtasks, u, MaxPlanActions)
    <3>8. Tries(below, u, m) = x
      BY <3>5 DEF Tries, Failure
    <3>9. Turning(x, m.subtasks, Len(m.subtasks), u)
      BY <3>6, TurnsIs
    <3> HIDE DEF x
    <3>10. x \in Results /\ x.ok /\ x.actions \in Seq(Nat) /\ Path(x.actions)
      BY <3>5, <3>8, <3>9, ResultFields DEF Turning
    <3>11. r = [ok |-> TRUE, actions |-> x.actions, world |-> u]
      BY <3>7, <3>8 DEF Success
    <3> HIDE DEF r
    <3>12. r \in Results /\ r.actions = x.actions
      BY <3>10, <3>11 DEF Results
    <3>13. ASSUME ByOperators(t) PROVE \E v : Led(r.actions, u, v)
      <4>1. ToSet(m.subtasks) \subseteq DOMAIN operators
        BY <3>6, <3>13 DEF ByOperators
      <4>2. \A k \in 1..Len(m.subtasks) : m.subtasks[k] \in DOMAIN operators
        <5>1. ASSUME NEW s \in Seq(Nat), ToSet(s) \subseteq DOMAIN operators
              PROVE  \A k \in 1..Len(s) : s[k] \in DOMAIN operators
          BY <5>1 DEF ToSet
        <5> QED BY <3>6, <4>1, <5>1
      <4> QED BY <3>9, <3>10, <3>12, <4>2 DEF Turning
    <3> QED BY <1>3, <3>10, <3>12, <3>13 DEF Found, r
  <2> QED BY <2>1, <2>2
<1> QED BY <1>1, <1>2, <1>3

LEMMA LevelAbove ==
  ASSUME PlanningAssumption, DomainKnown, MethodsKnown, NEW below, LevelOk(below)
  PROVE  LevelOk(Decompose(below))
<1> DEFINE f == Decompose(below)
<1>1. \A t \in Nat, u \in Worlds : f[t][u] = Decision(below, t, u)
  BY DecomposeIs DEF Worlds
<1> HIDE DEF f
<1>2. \A t \in Nat, u \in Worlds : Found(f[t][u], t, u)
  BY <1>1, DecisionFound
<1> QED BY <1>2 DEF LevelOk, f

LowestLevel == [task \in Nat |-> [w \in SUBSET Nat |-> Failure(w)]]
LevelsAre(k, f) == f = [d \in 0..k |-> IF d = 0 THEN LowestLevel ELSE Decompose(f[d - 1])]

LEMMA LowestOk == LevelOk(LowestLevel)
<1> DEFINE f == LowestLevel
<1>1. \A t \in Nat, u \in Worlds : f[t][u] = Failure(u)
  BY DEF LowestLevel, Worlds
<1> HIDE DEF f
<1>2. \A t \in Nat, u \in Worlds : Found(f[t][u], t, u)
  <2>1. ASSUME NEW r, NEW t, NEW u \in Worlds, r = Failure(u) PROVE Found(r, t, u)
    BY <2>1 DEF Found, Failure, Results
  <2> QED BY <1>1, <2>1
<1> QED BY <1>2 DEF LevelOk, f

LEMMA LevelsExist == \A k \in Nat : \E f : LevelsAre(k, f)
<1> DEFINE S == {k \in Nat : ~\E f : LevelsAre(k, f)}
<1>1. ASSUME S # {} PROVE FALSE
  <2>1. PICK m \in S : \A l \in S : m <= l
    BY <1>1, LeastNumber
  <2>2. m # 0
    <3> DEFINE f == [n \in 0..0 |-> LowestLevel]
    <3>1. LevelsAre(0, f)
      BY DEF LevelsAre
    <3> QED BY <2>1, <3>1
  <2>3. m - 1 \in Nat /\ m - 1 \notin S
    BY <2>1, <2>2
  <2>4. PICK f : LevelsAre(m - 1, f)
    BY <2>3
  <2> DEFINE g == [n \in 0..m |-> IF n = m THEN Decompose(f[m - 1]) ELSE f[n]]
  <2>5. \A n \in 0..m : g[n] = IF n = m THEN Decompose(f[m - 1]) ELSE f[n]
    OBVIOUS
  <2>6. \A n \in 0..(m - 1) : f[n] = IF n = 0 THEN LowestLevel ELSE Decompose(f[n - 1])
    BY <2>4, Zenon DEF LevelsAre
  <2>7. g = [n \in 0..m |-> g[n]]
    OBVIOUS
  <2> HIDE DEF g
  <2>8. ASSUME NEW n \in 0..m PROVE g[n] = IF n = 0 THEN LowestLevel ELSE Decompose(g[n - 1])
    <3>1. CASE n = m
      <4>1. n # 0 /\ m - 1 \in 0..m /\ m - 1 # m /\ m \in 0..m
        BY <2>1, <2>2, <3>1
      <4> QED BY <2>5, <3>1, <4>1
    <3>2. CASE n # m
      <4>1. n \in 0..(m - 1) /\ (n # 0 => n - 1 \in 0..m /\ n - 1 # m)
        BY <2>1, <3>2
      <4> QED BY <2>5, <2>6, <3>2, <4>1
    <3> QED BY <3>1, <3>2
  <2>9. g = [n \in 0..m |-> IF n = 0 THEN LowestLevel ELSE Decompose(g[n - 1])]
    BY <2>7, <2>8
  <2>10. LevelsAre(m, g)
    BY <2>9 DEF LevelsAre
  <2> QED BY <2>1, <2>10
<1> QED BY <1>1

\* Whatever the depth, what is found can be executed
LEMMA DecomposedOk ==
  ASSUME PlanningAssumption, DomainKnown, MethodsKnown
  PROVE  LevelOk(Decomposed[MaxPlanDepth + 1])
<1> DEFINE k == MaxPlanDepth + 1
<1>1. k \in Nat
  BY DEF PlanningAssumption
<1>2. Decomposed = CHOOSE f : LevelsAre(k, f)
  BY DEF Decomposed, LevelsAre, LowestLevel
<1>3. LevelsAre(k, Decomposed)
  BY <1>1, <1>2, LevelsExist
<1>4. \A n \in 0..k : Decomposed[n] = IF n = 0 THEN LowestLevel ELSE Decompose(Decomposed[n - 1])
  <2>1. ASSUME NEW f, LevelsAre(k, f) PROVE \A n \in 0..k : f[n] = IF n = 0 THEN LowestLevel ELSE Decompose(f[n - 1])
    BY <2>1, Zenon DEF LevelsAre
  <2> QED BY <1>3, <2>1
<1> HIDE DEF k
<1> DEFINE Good(n) == LevelOk(Decomposed[n])
           S == {n \in Nat : n \in 0..k /\ ~Good(n)}
<1>5. Good(0)
  BY <1>1, <1>4, LowestOk
<1>6. ASSUME NEW n \in 1..k, Good(n - 1) PROVE Good(n)
  <2>1. Decomposed[n] = Decompose(Decomposed[n - 1])
    BY <1>1, <1>4
  <2> QED BY <1>6, <2>1, LevelAbove
<1> HIDE DEF Good
<1>7. ASSUME S # {} PROVE FALSE
  <2>1. PICK m \in S : \A l \in S : m <= l
    BY <1>7, LeastNumber
  <2>2. m # 0
    BY <2>1, <1>5
  <2>3. m \in 1..k /\ m - 1 \in 0..k /\ m - 1 \in Nat /\ m \in Nat
    BY <2>1, <2>2, <1>1
  <2>4. Good(m - 1)
    BY <2>1, <2>3
  <2> QED BY <2>1, <2>3, <2>4, <1>6
<1>8. Good(k)
  BY <1>1, <1>7
<1> QED BY <1>8 DEF Good, k

(* Plans *)

Rest(p) == SubSeq(p.actions, p.next + 1, Len(p.actions))
PlanOk(p) ==
  /\ p = [actions |-> p.actions, next |-> p.next, status |-> p.status, aims |-> p.aims, strategy |-> p.strategy]
  /\ p.actions \in Seq(Nat) /\ p.next \in Nat

\* What is left of the plan p leads from w to what it was made for, and a plan that was
\* searched for is as short as any
Promise(p, w) ==
  /\ Path(Rest(p)) /\ \E v : Led(Rest(p), w, v) /\ p.aims \subseteq v
  /\ p.strategy = "STRIPS" => Shortest(Rest(p), w, p.aims)

Promised == \A g \in DOMAIN plans \ disturbed : Promise(plans[g], fluents)
\* Whatever a plan does, the operators can
Feasible == \A g \in DOMAIN plans : Path(plans[g].actions)
PlanInv ==
  /\ DomainKnown /\ MethodsKnown /\ fluents \in Worlds
  /\ DOMAIN plans \subseteq PlanGoals /\ \A g \in DOMAIN plans : PlanOk(plans[g])
  /\ Feasible /\ Promised

LEMMA PathOf ==
  ASSUME NEW a, Path(a), NEW n \in 0..Len(a)
  PROVE  [i \in 1..n |-> a[i]] \in [1..n -> DOMAIN operators]
<1>1. Len(a) \in Nat
  BY DEF Path, Runs
<1>2. \A i \in 1..n : i \in 1..Len(a)
  BY <1>1
<1> QED BY <1>2 DEF Path

LEMMA OfOperators ==
  ASSUME DomainKnown, NEW n \in Nat, NEW a \in [1..n -> DOMAIN operators]
  PROVE  Path(a) /\ Len(a) = n
<1>1. a \in [1..n -> Nat]
  BY DEF DomainKnown
<1>2. a \in Seq(Nat) /\ Len(a) = n
  BY <1>1
<1>3. \A i \in 1..n : a[i] \in DOMAIN operators
  OBVIOUS
<1> QED BY <1>2, <1>3 DEF Path, Runs

\* What is promised is what the plans are checked for
LEMMA PromiseMeans ==
  ASSUME DomainKnown, NEW p, NEW w, Promise(p, w)
  PROVE  /\ Achieves(Rest(p), w, p.aims)
         /\ p.strategy = "STRIPS" =>
              \A n \in 0..Len(Rest(p)) - 1 : \A other \in [1..n -> DOMAIN operators] : ~Achieves(other, w, p.aims)
<1> DEFINE a == Rest(p)
<1>1. Path(a) /\ Runs(a) /\ Len(a) \in Nat
  BY DEF Promise, Path, Runs
<1>2. Achieves(a, w, p.aims)
  BY <1>1, AchievesIs DEF Promise
<1>3. ASSUME p.strategy = "STRIPS", NEW n \in 0..Len(a) - 1, NEW other \in [1..n -> DOMAIN operators],
             Achieves(other, w, p.aims)
      PROVE  FALSE
  <2> HIDE DEF a
  <2>1. n \in Nat /\ n < Len(a)
    BY <1>1
  <2>2. Path(other) /\ Len(other) = n /\ Runs(other)
    BY <2>1, OfOperators DEF Path
  <2>3. PICK v : Led(other, w, v) /\ p.aims \subseteq v
    BY <1>3, <2>2, AchievesIs
  <2>4. Shortest(a, w, p.aims)
    BY <1>3 DEF Promise, a
  <2>5. Len(a) <= Len(other)
    BY <2>2, <2>3, <2>4 DEF Shortest
  <2> QED BY <1>1, <2>1, <2>2, <2>5
<1> QED BY <1>2, <1>3

LEMMA PlansAreRight == ASSUME PlanInv PROVE PlansReachTheirGoals
<1>1. ASSUME NEW g \in DOMAIN plans \ disturbed
      PROVE  /\ Achieves(Rest(plans[g]), fluents, plans[g].aims)
             /\ plans[g].strategy = "STRIPS" =>
                  \A n \in 0..Len(Rest(plans[g])) - 1 : \A other \in [1..n -> DOMAIN operators] :
                    ~Achieves(other, fluents, plans[g].aims)
  BY PromiseMeans DEF PlanInv, Promised
<1> QED BY <1>1 DEF PlansReachTheirGoals, Rest

\* While the operators are the same, what leads anywhere still does
LEMMA LedStays ==
  ASSUME UNCHANGED operators, NEW CONSTANT a, NEW CONSTANT w, NEW CONSTANT v
  PROVE  (Led(a, w, v))' <=> Led(a, w, v)
BY DEF Led, Run, Applicable, Apply

LEMMA ShortestStays ==
  ASSUME UNCHANGED operators, NEW CONSTANT a, NEW CONSTANT w, NEW CONSTANT aims
  PROVE  /\ (Path(a))' <=> Path(a)
         /\ (Shortest(a, w, aims))' <=> Shortest(a, w, aims)
<1>1. ASSUME NEW CONSTANT b PROVE (Path(b))' <=> Path(b)
  BY DEF Path, Runs
<1>2. \A b, v : (Led(b, w, v))' <=> Led(b, w, v)
  BY LedStays
<1> QED BY <1>1, <1>2 DEF Shortest

LEMMA PromiseStays ==
  ASSUME UNCHANGED operators, NEW CONSTANT p, NEW CONSTANT w
  PROVE  (Promise(p, w))' <=> Promise(p, w)
<1> DEFINE a == Rest(p)
<1>1. ((Path(a))' <=> Path(a)) /\ ((Shortest(a, w, p.aims))' <=> Shortest(a, w, p.aims))
  BY ShortestStays
<1>2. \A v : (Led(a, w, v))' <=> Led(a, w, v)
  BY LedStays
<1> QED BY <1>1, <1>2 DEF Promise

LEMMA PromisedIs ==
  /\ Promised <=> \A g, p, w : g \in DOMAIN plans \ disturbed /\ p = plans[g] /\ w = fluents => Promise(p, w)
  /\ Promised' <=> \A g, p, w : g \in DOMAIN plans' \ disturbed' /\ p = plans'[g] /\ w = fluents' => (Promise(p, w))'
BY DEF Promised

LEMMA PromisesKept ==
  ASSUME UNCHANGED operators, \A g \in DOMAIN plans' \ disturbed' : Promise(plans'[g], fluents')
  PROVE  Promised'
<1>1. \A p, w : (Promise(p, w))' <=> Promise(p, w)
  BY PromiseStays
<1>2. \A g, p, w : g \in DOMAIN plans' \ disturbed' /\ p = plans'[g] /\ w = fluents' => Promise(p, w)
  OBVIOUS
<1> QED BY <1>1, <1>2, PromisedIs

LEMMA DomainStays == ASSUME UNCHANGED operators, DomainKnown PROVE DomainKnown'
BY DEF DomainKnown

LEMMA PlansStay ==
  ASSUME PlanInv, UNCHANGED <<operators, methods>>, fluents' \in Worlds,
         DOMAIN plans' \subseteq PlanGoals, \A g \in DOMAIN plans' : PlanOk(plans'[g]),
         \A g \in DOMAIN plans' : Path(plans'[g].actions),
         \A g \in DOMAIN plans' \ disturbed' : Promise(plans'[g], fluents')
  PROVE  PlanInv'
<1>1. DomainKnown' /\ MethodsKnown'
  BY DomainStays DEF PlanInv, MethodsKnown
<1>2. Promised'
  BY PromisesKept
<1>3. (\A g \in DOMAIN plans : PlanOk(plans[g]))'
  BY DEF PlanOk
<1>4. Feasible'
  BY DEF Feasible, Path, Runs
<1> QED BY <1>1, <1>2, <1>3, <1>4 DEF PlanInv

(* What is left of a plan *)

LEMMA RestIs ==
  ASSUME NEW p, PlanOk(p)
  PROVE  /\ Rest(p) \in Seq(Nat)
         /\ p.next = 0 => Rest(p) = p.actions
         /\ p.next < Len(p.actions) => /\ p.actions[p.next + 1] \in Nat
                                       /\ SubSeq(p.actions, p.next + 2, Len(p.actions)) \in Seq(Nat)
                                       /\ Rest(p) = <<p.actions[p.next + 1]>> \o SubSeq(p.actions, p.next + 2, Len(p.actions))
<1> DEFINE a == p.actions
           n == Len(a)
           k == p.next
<1>1. a \in Seq(Nat) /\ n \in Nat /\ k \in Nat
  BY DEF PlanOk
<1> HIDE DEF a, k
<1>2. SubSeq(a, k + 1, n) \in Seq(Nat)
  BY <1>1
<1>3. ASSUME k = 0 PROVE SubSeq(a, k + 1, n) = a
  BY <1>1, <1>3
<1>4. ASSUME k < n
      PROVE  /\ a[k + 1] \in Nat /\ SubSeq(a, k + 2, n) \in Seq(Nat)
             /\ SubSeq(a, k + 1, n) = <<a[k + 1]>> \o SubSeq(a, k + 2, n)
  <2>1. a[k + 1] \in Nat /\ SubSeq(a, k + 2, n) \in Seq(Nat)
    <3>1. k + 1 \in 1..n
      BY <1>1, <1>4
    <3>2. a[k + 1] \in Nat
      BY <1>1, <3>1
    <3>3. k + 2 \in 1..(n + 1)
      BY <1>1, <1>4
    <3>4. \A j \in (k + 2)..n : a[j] \in Nat
      BY <1>1, <1>4
    <3>5. SubSeq(a, k + 2, n) \in Seq(Nat)
      BY <3>3, <3>4, <1>1, SubSeqProperties
    <3> QED BY <3>2, <3>5
  <2> DEFINE u == SubSeq(a, k + 1, n)
             t == SubSeq(a, k + 2, n)
             v == <<a[k + 1]>> \o t
  <2>2. u \in Seq(Nat) /\ Len(u) = n - k /\ \A i \in 1..(n - k) : u[i] = a[k + i]
    BY <1>1, <1>4
  <2>3. Len(t) = n - k - 1 /\ \A i \in 1..(n - k - 1) : t[i] = a[k + 1 + i]
    BY <1>1, <1>4
  <2> HIDE DEF t
  <2>4. t \in Seq(Nat) /\ <<a[k + 1]>> \in Seq(Nat) /\ Len(<<a[k + 1]>>) = 1
    BY <2>1 DEF t
  <2>5. v \in Seq(Nat) /\ Len(v) = n - k
    BY <1>1, <1>4, <2>3, <2>4
  <2>6. ASSUME NEW i \in 1..(n - k) PROVE v[i] = a[k + i]
    <3>1. CASE i = 1
      BY <1>1, <2>4, <3>1
    <3>2. CASE i # 1
      <4>1. i > 1 /\ i - 1 \in 1..(n - k - 1) /\ k + 1 + (i - 1) = k + i /\ i \in 1..(1 + Len(t))
        BY <1>1, <2>3, <3>2
      <4>2. v[i] = t[i - 1]
        BY <2>4, <4>1
      <4> QED BY <2>3, <4>1, <4>2
    <3> QED BY <3>1, <3>2
  <2> HIDE DEF u, v
  <2>7. u = v
    BY <1>1, <1>4, <2>2, <2>5, <2>6, SeqEqual
  <2> QED BY <2>1, <2>7 DEF u, v, t
<1> QED BY <1>2, <1>3, <1>4 DEF Rest, a, k

(* Making plans *)

LEMMA OfTasks ==
  ASSUME NEW s \in Seq(Nat), NEW S
  PROVE  /\ ToSet(s) \subseteq S <=> \A k \in 1..Len(s) : s[k] \in S
         /\ Len(s) = 1 => s[1] \in Nat /\ ToSet(s) = {s[1]}
<1>1. Len(s) \in Nat /\ DOMAIN s = 1..Len(s)
  OBVIOUS
<1>2. ToSet(s) = {s[k] : k \in 1..Len(s)}
  BY <1>1 DEF ToSet
<1>3. ToSet(s) \subseteq S <=> \A k \in 1..Len(s) : s[k] \in S
  BY <1>2
<1>4. ASSUME Len(s) = 1 PROVE s[1] \in Nat /\ ToSet(s) = {s[1]}
  <2>1. 1..Len(s) = {1}
    BY <1>4
  <2> QED BY <1>1, <1>2, <2>1
<1> QED BY <1>3, <1>4

\* What a strategy finds can be executed; it leads to the aims if it was made in order;
\* and without methods it is the shortest
LEMMA GenerateIs ==
  ASSUME PlanningAssumption, DomainKnown, MethodsKnown, fluents \in Worlds, NEW strategy, NEW tasks \in Seq(Nat)
  PROVE  /\ Generate(strategy, tasks) \in Results
         /\ Generate(strategy, tasks).ok => Path(Generate(strategy, tasks).actions)
         /\ Generate(strategy, tasks).ok /\ MadeInOrder(strategy, tasks) =>
              \E v : Led(Generate(strategy, tasks).actions, fluents, v) /\ Aims(strategy, tasks) \subseteq v
         /\ Generate(strategy, tasks).ok /\ ~UsesMethods(strategy, tasks) =>
              Shortest(Generate(strategy, tasks).actions, fluents, ToSet(tasks))
<1> DEFINE r == Generate(strategy, tasks)
           finds == Decomposed[MaxPlanDepth + 1]
           limit == Len(tasks) * (MaxPlanActions + 1)
           x == InTurn(finds, tasks, fluents, limit)
<1>1. CASE ~UsesMethods(strategy, tasks)
  <2>1. r = Search(ToSet(tasks), fluents)
    BY <1>1 DEF Generate
  <2>2. r \in Results /\ (r.ok => Shortest(r.actions, fluents, ToSet(tasks)))
    BY <2>1, SearchIs
  <2>3. Aims(strategy, tasks) = ToSet(tasks)
    BY <1>1 DEF Aims
  <2> HIDE DEF r
  <2>4. r.ok => Path(r.actions) /\ \E v : Led(r.actions, fluents, v) /\ Aims(strategy, tasks) \subseteq v
    BY <2>2, <2>3 DEF Shortest
  <2> QED BY <2>2, <2>4 DEF r
<1>2. CASE UsesMethods(strategy, tasks)
  <2>1. r = x
    BY <1>2 DEF Generate
  <2>2. LevelOk(finds)
    BY DecomposedOk
  <2> HIDE DEF finds, limit
  <2>3. Turning(x, tasks, Len(tasks), fluents)
    BY <2>2, TurnsIs
  <2>4. Aims(strategy, tasks) = ToSet(tasks) \ (DOMAIN operators \cup DOMAIN methods)
    BY <1>2 DEF Aims
  <2>5. ASSUME x.ok, MadeInOrder(strategy, tasks)
        PROVE  \E v : Led(x.actions, fluents, v) /\ Aims(strategy, tasks) \subseteq v
    <3>1. CASE ToSet(tasks) \subseteq DOMAIN operators
      <4>1. Aims(strategy, tasks) = {}
        BY <2>4, <3>1
      <4>2. \A k \in 1..Len(tasks) : tasks[k] \in DOMAIN operators
        BY <3>1, OfTasks
      <4>3. Led(x.actions, fluents, x.world)
        BY <2>3, <2>5, <4>2 DEF Turning
      <4> QED BY <4>1, <4>3
    <3>2. CASE /\ ~(ToSet(tasks) \subseteq DOMAIN operators) /\ Len(tasks) = 1
               /\ tasks[1] \in DOMAIN methods =>
                    \A m \in ToSet(methods[tasks[1]]) : ToSet(m.subtasks) \subseteq DOMAIN operators
      <4> DEFINE t == tasks[1]
                 y == finds[t][fluents]
      <4>1. t \in Nat /\ ToSet(tasks) = {t}
        BY <3>2, OfTasks
      <4>2. t \notin DOMAIN operators
        BY <3>2, <4>1
      <4>3. Found(y, t, fluents)
        BY <2>2, <4>1 DEF LevelOk
      <4>4. y \in Results
        BY <4>3 DEF Found
      <4>5. y.ok /\ x.actions = y.actions
        BY <2>5, <3>2, <4>4, TurnsOne
      <4> HIDE DEF x, y
      <4>6. CASE t \in DOMAIN methods
        <5>1. ByOperators(t)
          BY <3>2, <4>6 DEF ByOperators
        <5>2. \E v : Led(y.actions, fluents, v)
          BY <4>2, <4>3, <4>5, <4>6, <5>1 DEF Found
        <5>3. Aims(strategy, tasks) = {}
          BY <2>4, <4>1, <4>6
        <5> QED BY <4>5, <5>2, <5>3
      <4>7. CASE t \notin DOMAIN methods
        <5>1. \E v : Led(y.actions, fluents, v) /\ t \in v
          BY <4>2, <4>3, <4>5, <4>7 DEF Found
        <5>2. Aims(strategy, tasks) \subseteq {t}
          BY <2>4, <4>1
        <5> QED BY <4>5, <5>1, <5>2
      <4> QED BY <4>6, <4>7
    <3> QED BY <1>2, <2>5, <3>1, <3>2 DEF MadeInOrder
  <2> HIDE DEF x
  <2> QED BY <1>2, <2>1, <2>3, <2>5 DEF Turning
<1> QED BY <1>1, <1>2

\* What was generated is kept
LEMMA KeepIsRight ==
  ASSUME PlanningAssumption, PlanInv, UNCHANGED <<operators, methods, fluents>>, NEW g \in PlanGoals,
         NEW strategy, NEW tasks \in Seq(Nat), Generate(strategy, tasks).ok,
         Keep(g, strategy, tasks, Generate(strategy, tasks).actions)
  PROVE  PlanInv'
<1> DEFINE r == Generate(strategy, tasks)
           p == NewPlan(strategy, tasks, r.actions)
<1>0. DomainKnown /\ MethodsKnown /\ fluents \in Worlds
  BY DEF PlanInv
<1>1. /\ r \in Results /\ r.ok /\ Path(r.actions)
      /\ MadeInOrder(strategy, tasks) => \E v : Led(r.actions, fluents, v) /\ Aims(strategy, tasks) \subseteq v
      /\ ~UsesMethods(strategy, tasks) => Shortest(r.actions, fluents, ToSet(tasks))
  BY <1>0, GenerateIs
<1>2. r.actions \in Seq(Nat)
  BY <1>1, ResultFields
<1>3. /\ plans' = With(plans, g, p)
      /\ disturbed' = IF MadeInOrder(strategy, tasks) THEN disturbed \ {g} ELSE disturbed \cup {g}
  BY DEF Keep
<1> HIDE DEF r
<1>4. /\ PlanOk(p) /\ p.actions = r.actions /\ p.next = 0 /\ p.aims = Aims(strategy, tasks)
      /\ p.strategy = IF strategy = "HYBRID" /\ ~UsesMethods(strategy, tasks) THEN "STRIPS" ELSE strategy
  BY <1>2 DEF NewPlan, PlanOk
<1>5. p.strategy = "STRIPS" => ~UsesMethods(strategy, tasks) /\ p.aims = ToSet(tasks)
  BY <1>4 DEF UsesMethods, Aims
<1> HIDE DEF p
<1>6. Rest(p) = r.actions
  BY <1>4, RestIs
<1>7. MadeInOrder(strategy, tasks) => Promise(p, fluents)
  BY <1>1, <1>4, <1>5, <1>6 DEF Promise
<1>8. DOMAIN plans' = DOMAIN plans \cup {g} /\ plans'[g] = p /\ \A h \in DOMAIN plans \ {g} : plans'[h] = plans[h]
  BY <1>3 DEF With
<1>9. ASSUME NEW h \in DOMAIN plans' PROVE PlanOk(plans'[h])
  BY <1>4, <1>8 DEF PlanInv
<1>10. ASSUME NEW h \in DOMAIN plans' \ disturbed' PROVE Promise(plans'[h], fluents')
  <2>1. CASE h = g
    <3>1. MadeInOrder(strategy, tasks)
      BY <1>3, <2>1
    <3> QED BY <1>7, <1>8, <2>1, <3>1
  <2>2. CASE h # g
    <3>1. h \in DOMAIN plans \ disturbed /\ plans'[h] = plans[h]
      BY <1>3, <1>8, <2>2
    <3> QED BY <3>1 DEF PlanInv, Promised
  <2> QED BY <2>1, <2>2
<1>11. DOMAIN plans' \subseteq PlanGoals
  BY <1>8 DEF PlanInv
<1>12. ASSUME NEW h \in DOMAIN plans' PROVE Path(plans'[h].actions)
  BY <1>1, <1>4, <1>8 DEF PlanInv, Feasible
<1> QED BY <1>0, <1>9, <1>10, <1>11, <1>12, PlansStay

\* Plans of which only what is left counts, and what is left is the same
LEMMA RestStays ==
  ASSUME PlanInv, UNCHANGED <<operators, methods, fluents>>, disturbed \subseteq disturbed',
         DOMAIN plans' = DOMAIN plans,
         \A h \in DOMAIN plans : PlanOk(plans'[h]) /\ plans'[h].actions = plans[h].actions,
         \A h \in DOMAIN plans \ disturbed' :
           /\ plans'[h].next = plans[h].next
           /\ plans'[h].aims = plans[h].aims /\ plans'[h].strategy = plans[h].strategy
  PROVE  PlanInv'
<1>1. ASSUME NEW h \in DOMAIN plans' \ disturbed' PROVE Promise(plans'[h], fluents')
  <2>1. Promise(plans[h], fluents)
    BY DEF PlanInv, Promised
  <2>2. Rest(plans'[h]) = Rest(plans[h])
    BY DEF Rest
  <2> QED BY <2>1, <2>2 DEF Promise
<1>2. DOMAIN plans' \subseteq PlanGoals /\ fluents' \in Worlds
  BY DEF PlanInv
<1>3. \A h \in DOMAIN plans' : PlanOk(plans'[h]) /\ Path(plans'[h].actions)
  BY DEF PlanInv, Feasible
<1> QED BY <1>1, <1>2, <1>3, PlansStay

LEMMA StatusIs ==
  ASSUME NEW p, PlanOk(p), NEW status, NEW q, q = [p EXCEPT !.status = status]
  PROVE  PlanOk(q) /\ q.actions = p.actions /\ q.next = p.next /\ q.aims = p.aims /\ q.strategy = p.strategy
BY DEF PlanOk

LEMMA StatusSet ==
  ASSUME PlanInv, UNCHANGED <<operators, methods, fluents>>, disturbed \subseteq disturbed', NEW g \in DOMAIN plans,
         NEW status, plans' = [plans EXCEPT ![g] = [plans[g] EXCEPT !.status = status]]
  PROVE  PlanInv'
<1>1. \A h \in DOMAIN plans : PlanOk(plans[h])
  BY DEF PlanInv
<1>2. DOMAIN plans' = DOMAIN plans /\ plans'[g] = [plans[g] EXCEPT !.status = status]
      /\ \A h \in DOMAIN plans \ {g} : plans'[h] = plans[h]
  OBVIOUS
<1>3. ASSUME NEW h \in DOMAIN plans
      PROVE  /\ PlanOk(plans'[h])
             /\ plans'[h].actions = plans[h].actions /\ plans'[h].next = plans[h].next
             /\ plans'[h].aims = plans[h].aims /\ plans'[h].strategy = plans[h].strategy
  <2>1. CASE h = g
    <3> DEFINE q == plans'[g]
    <3>1. PlanOk(plans[g]) /\ q = [plans[g] EXCEPT !.status = status]
      BY <1>1, <1>2
    <3> HIDE DEF q
    <3>2. /\ PlanOk(q) /\ q.actions = plans[g].actions /\ q.next = plans[g].next
          /\ q.aims = plans[g].aims /\ q.strategy = plans[g].strategy
      BY <3>1, StatusIs
    <3> QED BY <2>1, <3>2 DEF q
  <2>2. CASE h # g
    BY <1>1, <1>2, <2>2
  <2> QED BY <2>1, <2>2
<1> QED BY <1>2, <1>3, RestStays

LEMMA CreateIsRight ==
  ASSUME PlanningAssumption, PlanInv, NEW g \in PlanGoals, NEW strategy, NEW tasks \in Seq(Nat),
         CreatePlan(g, strategy, tasks)
  PROVE  PlanInv'
<1> DEFINE r == Generate(strategy, tasks)
<1>1. /\ IF r.ok THEN Keep(g, strategy, tasks, r.actions) ELSE UNCHANGED <<plans, disturbed>>
      /\ UNCHANGED <<operators, methods, fluents>>
  BY DEF CreatePlan, WorldAfter
<1>2. CASE r.ok
  BY <1>1, <1>2, KeepIsRight
<1>3. CASE ~r.ok
  <2>1. UNCHANGED planningVars
    BY <1>1, <1>3 DEF planningVars
  <2>2. \A h \in DOMAIN plans : PlanOk(plans'[h]) /\ plans'[h].actions = plans[h].actions
    BY <2>1 DEF PlanInv, planningVars
  <2> QED BY <2>1, <2>2, RestStays DEF planningVars
<1> QED BY <1>2, <1>3

LEMMA AdaptIsRight ==
  ASSUME PlanningAssumption, PlanInv, NEW g \in PlanGoals, NEW tasks \in Seq(Nat), AdaptPlan(g, tasks)
  PROVE  PlanInv'
<1> DEFINE strategy == plans[g].strategy
           r == Generate(strategy, tasks)
<1>1. /\ g \in DOMAIN plans
      /\ IF r.ok THEN Keep(g, strategy, tasks, r.actions)
         ELSE plans' = [plans EXCEPT ![g] = [plans[g] EXCEPT !.status = "FAILED"]] /\ UNCHANGED disturbed
      /\ UNCHANGED <<operators, methods, fluents>>
  BY DEF AdaptPlan, WorldAfter
<1>2. CASE r.ok
  BY <1>1, <1>2, KeepIsRight
<1>3. CASE ~r.ok
  BY <1>1, <1>3, StatusSet
<1> QED BY <1>2, <1>3

LEMMA CancelIsRight == ASSUME PlanInv, NEW g, CancelPlan(g) PROVE PlanInv'
<1>1. /\ g \in DOMAIN plans /\ plans' = [plans EXCEPT ![g] = [plans[g] EXCEPT !.status = "CANCELLED"]]
      /\ UNCHANGED <<operators, methods, fluents, disturbed>>
  BY DEF CancelPlan
<1> QED BY <1>1, StatusSet

LEMMA ShutdownIsRight == ASSUME PlanInv, ShutdownPlanning PROVE PlanInv'
<1>1. /\ DOMAIN plans' = DOMAIN plans /\ UNCHANGED <<operators, methods, fluents, disturbed>>
      /\ \A h \in DOMAIN plans : plans'[h] = [plans[h] EXCEPT !.status = IF @ = "EXECUTING" THEN "CANCELLED" ELSE @]
  BY DEF ShutdownPlanning
<1>2. ASSUME NEW h \in DOMAIN plans
      PROVE  /\ PlanOk(plans'[h])
             /\ plans'[h].actions = plans[h].actions /\ plans'[h].next = plans[h].next
             /\ plans'[h].aims = plans[h].aims /\ plans'[h].strategy = plans[h].strategy
  <2> DEFINE q == plans'[h]
             status == IF plans[h].status = "EXECUTING" THEN "CANCELLED" ELSE plans[h].status
  <2>1. PlanOk(plans[h]) /\ q = [plans[h] EXCEPT !.status = status]
    BY <1>1 DEF PlanInv
  <2> HIDE DEF q, status
  <2>2. /\ PlanOk(q) /\ q.actions = plans[h].actions /\ q.next = plans[h].next
        /\ q.aims = plans[h].aims /\ q.strategy = plans[h].strategy
    BY <2>1, StatusIs
  <2> QED BY <2>2 DEF q
<1> QED BY <1>1, <1>2, RestStays

(* Execution *)

LEMMA NextIs ==
  ASSUME NEW p, PlanOk(p), NEW next \in Nat, NEW q, q = [p EXCEPT !.next = next]
  PROVE  /\ PlanOk(q) /\ q.actions = p.actions /\ q.next = next /\ q.aims = p.aims
         /\ q.strategy = p.strategy /\ q.status = p.status
BY DEF PlanOk

LEMMA StartIsRight == ASSUME PlanInv, NEW g, StartExecution(g) PROVE PlanInv'
<1> DEFINE p == plans[g]
           q == [p EXCEPT !.status = "EXECUTING", !.next = 0]
<1>1. /\ g \in DOMAIN plans /\ UNCHANGED <<operators, methods, fluents>>
      /\ disturbed' = IF p.next = 0 THEN disturbed ELSE disturbed \cup {g}
      /\ plans' = [plans EXCEPT ![g] = q]
  BY DEF StartExecution
<1>2. PlanOk(p)
  BY <1>1 DEF PlanInv
<1>3. PlanOk(q) /\ q.actions = p.actions /\ q.next = 0 /\ q.aims = p.aims /\ q.strategy = p.strategy
  <2> DEFINE m == [p EXCEPT !.status = "EXECUTING"]
  <2>1. q = [m EXCEPT !.next = 0]
    OBVIOUS
  <2>2. PlanOk(m) /\ m.actions = p.actions /\ m.aims = p.aims /\ m.strategy = p.strategy
    BY <1>2, StatusIs
  <2> HIDE DEF m, q
  <2> QED BY <2>1, <2>2, NextIs
<1> HIDE DEF q
<1>4. DOMAIN plans' = DOMAIN plans /\ plans'[g] = q /\ \A h \in DOMAIN plans \ {g} : plans'[h] = plans[h]
  BY <1>1
<1>5. \A h \in DOMAIN plans : PlanOk(plans'[h]) /\ plans'[h].actions = plans[h].actions
  BY <1>3, <1>4 DEF PlanInv
<1>6. ASSUME NEW h \in DOMAIN plans \ disturbed'
      PROVE  /\ plans'[h].actions = plans[h].actions /\ plans'[h].next = plans[h].next
             /\ plans'[h].aims = plans[h].aims /\ plans'[h].strategy = plans[h].strategy
  <2>1. CASE h = g
    <3>1. p.next = 0
      BY <1>1, <2>1
    <3> QED BY <1>3, <1>4, <2>1, <3>1
  <2>2. CASE h # g
    BY <1>4, <2>2
  <2> QED BY <2>1, <2>2
<1>7. disturbed \subseteq disturbed'
  BY <1>1
<1> QED BY <1>1, <1>4, <1>5, <1>6, <1>7, RestStays

\* The first of what is left leads from where what is left leads, one action nearer
LEMMA PromiseAdvances ==
  ASSUME DomainKnown, NEW p, PlanOk(p), p.next < Len(p.actions), NEW w, Promise(p, w),
         NEW q, PlanOk(q), q.actions = p.actions, q.next = p.next + 1, q.aims = p.aims, q.strategy = p.strategy
  PROVE  Applicable(p.actions[p.next + 1], w) /\ Promise(q, Apply(p.actions[p.next + 1], w))
<1> DEFINE o == p.actions[p.next + 1]
           b == Rest(q)
           x == Apply(o, w)
<1>1. o \in Nat /\ b \in Seq(Nat) /\ Rest(p) = <<o>> \o b /\ Rest(p) \in Seq(Nat)
  <2>1. b = SubSeq(p.actions, p.next + 2, Len(p.actions))
    <3>1. p.next \in Nat /\ (p.next + 1) + 1 = p.next + 2
      BY DEF PlanOk
    <3> QED BY <3>1 DEF Rest
  <2>2. p.actions[p.next + 1] \in Nat /\ SubSeq(p.actions, p.next + 2, Len(p.actions)) \in Seq(Nat)
    BY RestIs
  <2>3. Rest(p) = <<p.actions[p.next + 1]>> \o SubSeq(p.actions, p.next + 2, Len(p.actions)) /\ Rest(p) \in Seq(Nat)
    BY RestIs
  <2> HIDE DEF b
  <2> QED BY <2>1, <2>2, <2>3
<1> HIDE DEF o, b, x
<1>2. Path(<<o>> \o b) /\ \E v : Led(<<o>> \o b, w, v) /\ p.aims \subseteq v
  BY <1>1 DEF Promise
<1>3. PICK v : Led(<<o>> \o b, w, v) /\ p.aims \subseteq v
  BY <1>2
<1>4. Runs(b)
  BY <1>1 DEF Runs
<1>5. Applicable(o, w) /\ Led(b, x, v)
  BY <1>1, <1>3, <1>4, LedFirst DEF x
<1>6. Len(b) \in Nat /\ Len(<<o>> \o b) = Len(b) + 1 /\ o \in DOMAIN operators /\ Path(b)
  <2>1. Len(b) \in Nat /\ Len(<<o>> \o b) = Len(b) + 1
    BY <1>1
  <2>2. (<<o>> \o b)[1] = o /\ \A i \in 1..Len(b) : (<<o>> \o b)[i + 1] = b[i] /\ i + 1 \in 1..(Len(b) + 1)
    BY <1>1
  <2>3. \A i \in 1..(Len(b) + 1) : (<<o>> \o b)[i] \in DOMAIN operators
    BY <1>2, <2>1 DEF Path
  <2>4. 1 \in 1..(Len(b) + 1)
    BY <2>1
  <2> QED BY <1>4, <2>1, <2>2, <2>3, <2>4 DEF Path
<1>7. ASSUME q.strategy = "STRIPS" PROVE Shortest(b, x, p.aims)
  <2>1. Shortest(<<o>> \o b, w, p.aims)
    BY <1>1, <1>7 DEF Promise
  <2>2. ASSUME NEW a, NEW u, Path(a), Led(a, x, u), p.aims \subseteq u PROVE Len(b) <= Len(a)
    <3>1. Runs(a) /\ Len(a) \in Nat /\ a \in Seq(Nat)
      BY <2>2 DEF Path, Runs
    <3>2. Led(<<o>> \o a, w, u) /\ Runs(<<o>> \o a)
      BY <1>1, <1>5, <2>2, <3>1, LedFirst DEF x
    <3>3. Path(<<o>>)
      BY <1>1, <1>6 DEF Path, Runs
    <3>4. Path(<<o>> \o a) /\ Len(<<o>> \o a) = Len(a) + 1
      BY <1>1, <2>2, <3>1, <3>3, PathThen
    <3>5. Len(<<o>> \o b) <= Len(<<o>> \o a)
      BY <2>1, <2>2, <3>2, <3>4 DEF Shortest
    <3> QED BY <1>6, <3>1, <3>4, <3>5
  <2> QED BY <1>3, <1>5, <1>6, <2>2 DEF Shortest
<1>8. Promise(q, x)
  BY <1>3, <1>5, <1>6, <1>7 DEF Promise, b
<1> QED BY <1>5, <1>8 DEF o, x

\* One action of the plan of g is done, and the plan is one further
LEMMA PerformIsRight ==
  ASSUME PlanningAssumption, PlanInv, NEW g \in DOMAIN plans, plans[g].next < Len(plans[g].actions),
         Perform(g, plans[g].next + 1), UNCHANGED <<operators, methods>>, DOMAIN plans' = DOMAIN plans,
         \A h \in DOMAIN plans \ {g} : plans'[h] = plans[h],
         PlanOk(plans'[g]), plans'[g].actions = plans[g].actions, plans'[g].next = plans[g].next + 1,
         plans'[g].aims = plans[g].aims, plans'[g].strategy = plans[g].strategy
  PROVE  PlanInv'
<1> DEFINE p == plans[g]
           q == plans'[g]
           o == p.actions[p.next + 1]
<1>1. fluents' = (IF Applicable(o, fluents) THEN Apply(o, fluents) ELSE fluents)
  BY DEF Perform, Move
<1>2. disturbed' = IF fluents' = fluents THEN disturbed ELSE disturbed \cup (DOMAIN plans \ {g})
  BY DEF Perform, Move
<1>3. DomainKnown /\ fluents \in Worlds /\ \A h \in DOMAIN plans : PlanOk(plans[h])
  BY DEF PlanInv
<1> HIDE DEF p, q, o
<1>4. g \notin disturbed => Applicable(o, fluents) /\ Promise(q, Apply(o, fluents))
  <2>1. ASSUME g \notin disturbed PROVE Promise(p, fluents)
    BY <2>1 DEF PlanInv, Promised, p
  <2>2. PlanOk(p) /\ p.next < Len(p.actions) /\ PlanOk(q) /\ q.actions = p.actions /\ q.next = p.next + 1
        /\ q.aims = p.aims /\ q.strategy = p.strategy
    BY <1>3 DEF p, q
  <2> QED BY <1>3, <2>1, <2>2, PromiseAdvances DEF o
<1>5. fluents' \in Worlds
  <2>1. o \in DOMAIN operators
    <3>1. Path(p.actions) /\ Len(p.actions) \in Nat /\ p.next \in Nat /\ p.next < Len(p.actions)
      BY <1>3 DEF PlanInv, Feasible, PlanOk, p
    <3>2. p.next + 1 \in 1..Len(p.actions)
      BY <3>1
    <3> QED BY <3>1, <3>2 DEF Path, o
  <2>2. CASE ~Applicable(o, fluents)
    BY <1>1, <1>3, <2>2
  <2>3. CASE Applicable(o, fluents)
    BY <1>1, <1>3, <2>1, <2>3, AppliedIs
  <2> QED BY <2>2, <2>3
<1>6. ASSUME NEW h \in DOMAIN plans' \ disturbed' PROVE Promise(plans'[h], fluents')
  <2>1. CASE h = g
    <3>1. g \notin disturbed
      BY <1>2, <2>1
    <3> QED BY <1>1, <1>4, <2>1, <3>1 DEF q
  <2>2. CASE h # g
    <3>1. fluents' = fluents /\ h \in DOMAIN plans \ disturbed
      BY <1>2, <2>2
    <3>2. Promise(plans[h], fluents)
      BY <3>1 DEF PlanInv, Promised
    <3> QED BY <2>2, <3>1, <3>2
  <2> QED BY <2>1, <2>2
<1>7. DOMAIN plans' \subseteq PlanGoals /\ \A h \in DOMAIN plans' : PlanOk(plans'[h])
  BY <1>3 DEF PlanInv, q
<1>8. \A h \in DOMAIN plans' : Path(plans'[h].actions)
  BY DEF PlanInv, Feasible
<1> QED BY <1>5, <1>6, <1>7, <1>8, PlansStay

LEMMA StepIsRight ==
  ASSUME PlanningAssumption, PlanInv, NEW g, StepExecution(g)
  PROVE  PlanInv'
<1> DEFINE p == plans[g]
           n == p.next + 1
           status == IF n >= Len(p.actions) THEN "COMPLETED" ELSE p.status
           m == [p EXCEPT !.next = n]
           q == [m EXCEPT !.status = status]
<1>1. g \in DOMAIN plans /\ UNCHANGED <<operators, methods>>
  BY DEF StepExecution
<1>2. PlanOk(p)
  BY <1>1 DEF PlanInv
<1>3. Len(p.actions) \in Nat /\ p.next \in Nat /\ n \in Nat
  BY <1>2 DEF PlanOk
<1>4. CASE n <= Len(p.actions)
  <2>1. Perform(g, n) /\ plans' = [plans EXCEPT ![g].next = n, ![g].status = IF n >= Len(plans[g].actions) THEN "COMPLETED" ELSE @]
    BY <1>4 DEF StepExecution
  <2>2. PlanOk(m) /\ m.actions = p.actions /\ m.next = n /\ m.aims = p.aims /\ m.strategy = p.strategy /\ m.status = p.status
    BY <1>2, <1>3, NextIs
  <2>3. DOMAIN plans' = DOMAIN plans /\ plans'[g] = q /\ \A h \in DOMAIN plans \ {g} : plans'[h] = plans[h]
    BY <1>1, <2>1
  <2> HIDE DEF m, status
  <2>4. PlanOk(q) /\ q.actions = m.actions /\ q.next = m.next /\ q.aims = m.aims /\ q.strategy = m.strategy
    BY <2>2, StatusIs
  <2> HIDE DEF q
  <2>5. p.next < Len(p.actions)
    BY <1>3, <1>4
  <2> QED BY <1>1, <2>1, <2>2, <2>3, <2>4, <2>5, PerformIsRight
<1>5. CASE ~(n <= Len(p.actions))
  <2>1. plans' = [plans EXCEPT ![g].status = "COMPLETED"] /\ UNCHANGED <<fluents, disturbed>>
    BY <1>5 DEF StepExecution
  <2> QED BY <1>1, <2>1, StatusSet
<1> QED BY <1>4, <1>5

LEMMA MarkIsRight ==
  ASSUME PlanningAssumption, PlanInv, NEW g, NEW o, MarkActionCompleted(g, o)
  PROVE  PlanInv'
<1> DEFINE p == plans[g]
           n == p.next + 1
           status == IF n = Len(p.actions) THEN "COMPLETED" ELSE p.status
           m == [p EXCEPT !.next = n]
           q == [m EXCEPT !.status = status]
<1>1. /\ g \in DOMAIN plans /\ n \in DOMAIN p.actions /\ Perform(g, n) /\ UNCHANGED <<operators, methods>>
      /\ plans' = [plans EXCEPT ![g].next = plans[g].next + 1,
           ![g].status = IF plans[g].next + 1 = Len(plans[g].actions) THEN "COMPLETED" ELSE @]
  BY DEF MarkActionCompleted
<1>2. PlanOk(p)
  BY <1>1 DEF PlanInv
<1>3. Len(p.actions) \in Nat /\ p.next \in Nat /\ n \in Nat /\ p.next < Len(p.actions)
  <2>1. Len(p.actions) \in Nat /\ p.next \in Nat /\ DOMAIN p.actions = 1..Len(p.actions)
    BY <1>2 DEF PlanOk
  <2>2. n \in 1..Len(p.actions)
    BY <1>1, <2>1, Zenon
  <2> QED BY <2>1, <2>2
<1>4. PlanOk(m) /\ m.actions = p.actions /\ m.next = n /\ m.aims = p.aims /\ m.strategy = p.strategy /\ m.status = p.status
  BY <1>2, <1>3, NextIs
<1>5. DOMAIN plans' = DOMAIN plans /\ plans'[g] = q /\ \A h \in DOMAIN plans \ {g} : plans'[h] = plans[h]
  BY <1>1
<1> HIDE DEF m, status
<1>6. PlanOk(q) /\ q.actions = m.actions /\ q.next = m.next /\ q.aims = m.aims /\ q.strategy = m.strategy
  BY <1>4, StatusIs
<1> HIDE DEF q
<1> QED BY <1>1, <1>3, <1>4, <1>5, <1>6, PerformIsRight

(* The domain *)

LEMMA FluentIsRight ==
  ASSUME PlanningAssumption, PlanInv, NEW f \in Nat, NEW value, SetFluent(f, value)
  PROVE  PlanInv'
<1>1. /\ fluents' = (IF value THEN fluents \cup {f} ELSE fluents \ {f})
      /\ disturbed' = IF fluents' = fluents THEN disturbed ELSE disturbed \cup (DOMAIN plans \ {0})
      /\ UNCHANGED <<operators, methods, plans>>
  BY DEF SetFluent, Move
<1>2. fluents' \in Worlds /\ 0 \notin DOMAIN plans
  BY <1>1, PlanningAssumption DEF PlanInv, Worlds
<1>3. ASSUME NEW h \in DOMAIN plans' \ disturbed' PROVE Promise(plans'[h], fluents')
  <2>1. fluents' = fluents /\ h \in DOMAIN plans \ disturbed /\ plans'[h] = plans[h]
    BY <1>1, <1>2
  <2> QED BY <2>1 DEF PlanInv, Promised
<1>4. DOMAIN plans' \subseteq PlanGoals /\ \A h \in DOMAIN plans' : PlanOk(plans'[h]) /\ Path(plans'[h].actions)
  BY <1>1 DEF PlanInv, Feasible
<1> QED BY <1>1, <1>2, <1>3, <1>4, PlansStay

LEMMA OperatorIsRight ==
  ASSUME PlanInv, NEW o \in Nat, NEW form \in OperatorForms, RegisterOperator(o, form)
  PROVE  PlanInv'
<1>1. operators' = With(operators, o, form) /\ disturbed' = DOMAIN plans /\ UNCHANGED <<methods, fluents, plans>>
  BY DEF RegisterOperator
<1>2. DOMAIN operators' = DOMAIN operators \cup {o} /\ operators'[o] = form
      /\ \A x \in DOMAIN operators \ {o} : operators'[x] = operators[x]
  BY <1>1 DEF With
<1>3. IsFiniteSet(DOMAIN operators')
  BY <1>2, FS_AddElement DEF PlanInv, DomainKnown
<1>4. DomainKnown'
  BY <1>2, <1>3 DEF PlanInv, DomainKnown
<1>5. Promised'
  BY <1>1 DEF Promised
<1>6. Feasible'
  BY <1>1, <1>2 DEF PlanInv, Feasible, Path, Runs
<1>7. (\A g \in DOMAIN plans : PlanOk(plans[g]))'
  BY <1>1 DEF PlanInv, PlanOk
<1> QED BY <1>1, <1>4, <1>5, <1>6, <1>7 DEF PlanInv, MethodsKnown

LEMMA MethodIsRight ==
  ASSUME PlanInv, NEW t, NEW m \in TaskMethods, RegisterMethod(t, m)
  PROVE  PlanInv'
<1> DEFINE now == IF t \in DOMAIN methods THEN Append(methods[t], m) ELSE <<m>>
<1>1. methods' = With(methods, t, now) /\ UNCHANGED <<operators, fluents, plans, disturbed>>
  BY DEF RegisterMethod
<1>2. now \in Seq(TaskMethods)
  <2>1. t \in DOMAIN methods => methods[t] \in Seq(TaskMethods)
    BY DEF PlanInv, MethodsKnown
  <2> QED BY <2>1
<1> HIDE DEF now
<1>3. DOMAIN methods' = DOMAIN methods \cup {t} /\ methods'[t] = now
      /\ \A x \in DOMAIN methods \ {t} : methods'[x] = methods[x]
  BY <1>1 DEF With
<1>4. MethodsKnown'
  BY <1>2, <1>3 DEF PlanInv, MethodsKnown
<1>5. ASSUME NEW h \in DOMAIN plans' \ disturbed' PROVE Promise(plans'[h], fluents')
  BY <1>1 DEF PlanInv, Promised
<1>6. Promised' /\ DomainKnown'
  BY <1>1, <1>5, PromisesKept, DomainStays DEF PlanInv
<1>7. Feasible' /\ (\A g \in DOMAIN plans : PlanOk(plans[g]))'
  BY <1>1 DEF PlanInv, PlanOk, Feasible, Path, Runs
<1> QED BY <1>1, <1>4, <1>6, <1>7 DEF PlanInv

\* The tasks a hierarchy may offer, and what may come up
PlansOf(tasksOf) == \A g \in PlanGoals : tasksOf[g] \subseteq Seq(Nat)
DomainOf(news, forms, ways) ==
  /\ news \subseteq Nat
  /\ DOMAIN forms \subseteq Nat /\ \A o \in DOMAIN forms : forms[o] \in OperatorForms
  /\ \A t \in DOMAIN ways : ways[t] \in TaskMethods

LEMMA PlanInductive ==
  ASSUME NEW CONSTANT tasksOf, NEW CONSTANT news, NEW CONSTANT forms, NEW CONSTANT ways,
         PlansOf(tasksOf), DomainOf(news, forms, ways), PlanInv,
         [PlanningStep(tasksOf) \/ DomainStep(news, forms, ways)]_planningVars
  PROVE  PlanInv'
<1>1. CASE PlanningStep(tasksOf)
  <2>1. PICK g \in PlanGoals :
          \/ \E tasks \in tasksOf[g] : AdaptPlan(g, tasks) \/ \E strategy \in PlanStrategies : CreatePlan(g, strategy, tasks)
          \/ CancelPlan(g) \/ StartExecution(g) \/ StepExecution(g)
          \/ \E o \in DOMAIN operators : MarkActionCompleted(g, o)
    BY <1>1, Zenon DEF PlanningStep
  <2>2. tasksOf[g] \subseteq Seq(Nat)
    BY DEF PlansOf
  <2>3. ASSUME NEW tasks \in tasksOf[g], AdaptPlan(g, tasks) PROVE PlanInv'
    BY <2>2, <2>3, AdaptIsRight, PlanningAssumption
  <2>4. ASSUME NEW tasks \in tasksOf[g], NEW strategy \in PlanStrategies, CreatePlan(g, strategy, tasks) PROVE PlanInv'
    BY <2>2, <2>4, CreateIsRight, PlanningAssumption
  <2>5. CASE CancelPlan(g)
    BY <2>5, CancelIsRight
  <2>6. CASE StartExecution(g)
    BY <2>6, StartIsRight
  <2>7. CASE StepExecution(g)
    BY <2>7, StepIsRight, PlanningAssumption
  <2>8. ASSUME NEW o \in DOMAIN operators, MarkActionCompleted(g, o) PROVE PlanInv'
    BY <2>8, MarkIsRight, PlanningAssumption
  <2> QED BY <2>1, <2>3, <2>4, <2>5, <2>6, <2>7, <2>8
<1>2. CASE DomainStep(news, forms, ways)
  <2>1. \/ \E f \in news, value \in BOOLEAN : SetFluent(f, value)
        \/ \E o \in DOMAIN forms : RegisterOperator(o, forms[o])
        \/ \E t \in DOMAIN ways : RegisterMethod(t, ways[t])
        \/ ShutdownPlanning
    BY <1>2, Zenon DEF DomainStep
  <2>2. ASSUME NEW f \in news, NEW value \in BOOLEAN, SetFluent(f, value) PROVE PlanInv'
    <3>1. f \in Nat
      BY DEF DomainOf
    <3> QED BY <2>2, <3>1, FluentIsRight, PlanningAssumption
  <2>3. ASSUME NEW o \in DOMAIN forms, RegisterOperator(o, forms[o]) PROVE PlanInv'
    <3>1. o \in Nat /\ forms[o] \in OperatorForms
      BY DEF DomainOf
    <3> QED BY <2>3, <3>1, OperatorIsRight
  <2>4. ASSUME NEW t \in DOMAIN ways, RegisterMethod(t, ways[t]) PROVE PlanInv'
    <3>1. ways[t] \in TaskMethods
      BY DEF DomainOf
    <3> QED BY <2>4, <3>1, MethodIsRight
  <2> QED BY <2>1, <2>2, <2>3, <2>4, ShutdownIsRight
<1>3. CASE UNCHANGED planningVars
  <2>1. UNCHANGED <<operators, methods, fluents, plans, disturbed>>
    BY <1>3 DEF planningVars
  <2>2. \A h \in DOMAIN plans : PlanOk(plans'[h]) /\ plans'[h] = plans[h]
    BY <2>1 DEF PlanInv
  <2> QED BY <2>1, <2>2, RestStays
<1> QED BY <1>1, <1>2, <1>3

\* Whatever plans are made, adapted, executed, marked and cancelled, and whatever operators
\* and methods are registered and fluents set meanwhile: what is left of a plan that nothing
\* else has disturbed can be executed and leads to what it was made for, and what was
\* searched for is as short as any sequence of operators that leads there.
THEOREM PlansStayRight ==
  ASSUME NEW CONSTANT library, NEW CONSTANT known, NEW CONSTANT tasksOf,
         NEW CONSTANT news, NEW CONSTANT forms, NEW CONSTANT ways,
         IsFiniteSet(DOMAIN library), DOMAIN library \subseteq Nat,
         \A o \in DOMAIN library : library[o] \in OperatorForms,
         \A t \in DOMAIN known : known[t] \in Seq(TaskMethods),
         PlansOf(tasksOf), DomainOf(news, forms, ways)
  PROVE  PlanningInit(library, known) /\ [][PlanningStep(tasksOf) \/ DomainStep(news, forms, ways)]_planningVars
           => []PlansReachTheirGoals
<1>1. ASSUME PlanningInit(library, known) PROVE PlanInv
  <2>1. /\ operators = library /\ methods = known /\ fluents = {} /\ DOMAIN plans = {}
    BY <1>1 DEF PlanningInit, NoKeys
  <2>2. DomainKnown /\ MethodsKnown /\ fluents \in Worlds
    BY <2>1 DEF DomainKnown, MethodsKnown, Worlds
  <2> QED BY <2>1, <2>2 DEF PlanInv, Feasible, Promised
<1>2. ASSUME PlanInv, [PlanningStep(tasksOf) \/ DomainStep(news, forms, ways)]_planningVars PROVE PlanInv'
  BY <1>2, PlanInductive
<1>3. PlanInv => PlansReachTheirGoals
  BY PlansAreRight
<1> QED BY <1>1, <1>2, <1>3, PTL

(***************************************************************************)
(* The mind as a whole                                                     *)
(***************************************************************************)
\* Whatever the agent is told to remember or to want, in whatever order: items, contexts,
\* episodes and experiences are found wherever they are filed and nothing else is, and the
\* goals stay a forest of the allowed shape.
THEOREM MindStaysOrdered == MindSpec => []MindIsOrdered
<1>1. MindInit => WorkingInit /\ ContextInit /\ EpisodeInit /\ ExperienceInit /\ GoalsInit
  BY DEF MindInit
<1>2. [MindNext]_mindVars => [WorkingNext]_workingVars /\ [ContextNext]_contextVars
                             /\ [EpisodeNext]_episodeVars /\ [ExperienceNext]_experienceVars /\ [GoalsNext]_goalVars
  BY DEF MindNext, mindVars
<1>3. MindSpec => (WorkingInit /\ [][WorkingNext]_workingVars) /\ ContextSpec /\ EpisodeSpec /\ ExperienceSpec /\ GoalsSpec
  BY <1>1, <1>2, PTL DEF MindSpec, ContextSpec, EpisodeSpec, ExperienceSpec, GoalsSpec
<1>4. BufferIsIndexed /\ ContextsAgree /\ EpisodesAgree /\ ExperiencesAgree /\ GoalsAreOrdered => MindIsOrdered
  BY DEF MindIsOrdered
<1> QED BY <1>3, <1>4, BufferIndexed, ContextsIndexed, EpisodesIndexed, ExperiencesIndexed, GoalsOrdered, PTL

\* Whatever the agent is told, whatever rules it has in whatever order they are added, and
\* however chaining calls and queries come: what it infers follows from what it was told, its
\* rules fire by priority, and plain queries are answered by all that is right and only that.
THEOREM KnowledgeStaysSound ==
  ASSUME NEW CONSTANT T, NEW CONSTANT queries, queries \subseteq Seq(T)
  PROVE  AnsweringSpec(queries) => []KnowledgeIsSound
<1>1. AnsweringInit => ReasoningInit /\ KnowledgeInit
  BY DEF AnsweringInit
<1>2. [AnsweringNext(queries)]_answeringVars
        => [ReasoningNext]_reasoningVars /\ [KnowledgeNext(queries)]_knowledgeVars
  BY DEF AnsweringNext, answeringVars
<1>3. AnsweringSpec(queries) => ReasoningSpec /\ (KnowledgeInit /\ [][KnowledgeNext(queries)]_knowledgeVars)
  BY <1>1, <1>2, PTL DEF AnsweringSpec, ReasoningSpec
<1>4. KnowledgeInit /\ [][KnowledgeNext(queries)]_knowledgeVars => []QueriesAnswered
  BY QueriesStayAnswered
<1>5. InferenceIsSound /\ QueriesAnswered => KnowledgeIsSound
  BY DEF KnowledgeIsSound
<1> QED BY <1>3, <1>4, <1>5, InferenceSound, PTL
=============================================================================
