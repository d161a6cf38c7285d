---------------------------- MODULE StdContainers ----------------------------
(***************************************************************************)
(* std::map as a function whose domain is the set of keys present, and     *)
(* what std::vector's erase and std::stable_sort leave.                    *)
(***************************************************************************)
EXTENDS Naturals, FiniteSets

\* m[k] = v, whether or not k was present
With(m, k, v) == [x \in DOMAIN m \cup {k} |-> IF x = k THEN v ELSE m[x]]

\* m.erase of every key in K
Without(m, K) == [x \in DOMAIN m \ K |-> m[x]]

NoKeys == [x \in {} |-> x]

\* The positions in I, lowest first, and the elements of a vector there
Ascending(I) ==
  CHOOSE f \in [1..Cardinality(I) -> I] : \A i, j \in DOMAIN f : i < j => f[i] < f[j]
ElementsAt(s, I) == LET f == Ascending(I) IN [i \in DOMAIN f |-> s[f[i]]]

\* How often e is in a vector
Copies(e, s) == Cardinality({i \in DOMAIN s : s[i] = e})

\* Without the elements in E, and without the first of each element in E
Dropping(s, E) == ElementsAt(s, {i \in DOMAIN s : s[i] \notin E})
DroppingFirst(s, E) == ElementsAt(s, {i \in DOMAIN s : s[i] \in E => \E j \in 1..i - 1 : s[j] = s[i]})

\* The order of a stable sort: lower keys first, equal ones as they are
PlaceOf(s, key, i) ==
  Cardinality({j \in DOMAIN s : key[s[j]] < key[s[i]] \/ (key[s[j]] = key[s[i]] /\ j <= i)})
StableSort(s, key) == [k \in DOMAIN s |-> s[CHOOSE i \in DOMAIN s : PlaceOf(s, key, i) = k]]
=============================================================================
