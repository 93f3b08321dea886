--------------------------- MODULE DocStoreProofs ---------------------------
(* The writer keeps what it acknowledged, in trees that can be served and a  *)
(* feed that lists them, for any documents, revisions, batches and failures; *)
(* and replicas that exchange revisions come to hold the same.               *)
EXTENDS DocStoreProps, Replicas, FiniteSetTheorems, WellFoundedInduction, TLAPS

-----------------------------------------------------------------------------
(* Numbers and finite sets                                                  *)

\* Every set of naturals has a least.
LEMMA MinExists ==
    ASSUME NEW S \in SUBSET Nat, S # {}
    PROVE  \E x \in S : \A y \in S : x <= y
<1>1. PICK x \in S : \A y \in S : ~(<<y, x>> \in OpToRel(<, Nat))
  BY WFMin, NatLessThanWellFounded
<1>2. \A y \in S : ~(y < x)
  BY <1>1 DEF OpToRel
<1>3. QED
  BY <1>2

\* So what follows for a number from all those below holds of every number.
LEMMA Inductive ==
    ASSUME NEW n \in Nat, NEW S,
           \A i \in 0..n : (\A j \in 0..n : j < i => j \in S) => i \in S
    PROVE  \A i \in 0..n : i \in S
<1> DEFINE T == {i \in 0..n : i \notin S}
<1> SUFFICES ASSUME T # {} PROVE FALSE
  OBVIOUS
<1>1. PICK i \in T : \A j \in T : i <= j
  <2>1. T \in SUBSET Nat
    OBVIOUS
  <2> HIDE DEF T
  <2>2. QED
    BY <2>1, MinExists
<1>2. \A j \in 0..n : j < i => j \in S
  BY <1>1
<1>3. QED
  BY <1>1, <1>2

\* On a finite set that is not empty a measure has a greatest value.
LEMMA GreatestExists ==
    ASSUME NEW S, IsFiniteSet(S), S # {}, NEW f \in [S -> Nat]
    PROVE  \E x \in S : \A y \in S : f[y] <= f[x]
<1>1. PICK Q \in Seq(S) : \A s \in S : \E i \in 1..Len(Q) : Q[i] = s
  BY DEF IsFiniteSet
<1> DEFINE n == Len(Q)
           Up(i, x) == \A j \in 1..i : f[Q[j]] <= f[x]
           Topped == {i \in 0..n : i = 0 \/ \E x \in S : Up(i, x)}
<1>2. n \in Nat /\ \A i \in 1..n : Q[i] \in S /\ f[Q[i]] \in Nat
  <2>1. Q \in Seq(S)
    BY <1>1
  <2>2. Len(Q) \in Nat /\ \A i \in 1..Len(Q) : Q[i] \in S
    BY <2>1
  <2>3. QED
    BY <2>2
<1>3. \A x \in S : f[x] \in Nat
  OBVIOUS
<1>4. ASSUME NEW i \in 0..n, \A j \in 0..n : j < i => j \in Topped
      PROVE  i \in Topped
  <2>1. CASE i = 0
    BY <2>1
  <2>2. CASE i = 1
    <3>1. Q[1] \in S /\ f[Q[1]] \in Nat
      BY <1>2, <2>2
    <3>2. Up(i, Q[1])
      BY <2>2, <3>1
    <3>3. QED
      BY <3>1, <3>2
  <2>3. CASE i > 1
    <3>1. i - 1 \in 0..n /\ i - 1 < i /\ i - 1 # 0 /\ i \in 1..n /\ n \in Nat
      BY <1>2, <2>3
    <3>2. PICK x \in S : Up(i - 1, x)
      BY <1>4, <3>1
    <3>3. Q[i] \in S /\ f[Q[i]] \in Nat /\ f[x] \in Nat
      BY <1>2, <1>3, <3>1
    <3>4. \A j \in 1..i : j = i \/ j \in 1..(i - 1)
      BY <3>1
    <3>5. CASE f[Q[i]] <= f[x]
      <4>1. Up(i, x)
        BY <3>2, <3>4, <3>5
      <4>2. QED
        BY <4>1
    <3>6. CASE f[x] < f[Q[i]]
      <4>1. \A j \in 1..(i - 1) : f[Q[j]] \in Nat /\ f[Q[j]] <= f[x]
        BY <1>2, <3>1, <3>2
      <4>2. \A j \in 1..(i - 1) : f[Q[j]] <= f[Q[i]]
        BY <3>3, <3>6, <4>1
      <4>3. Up(i, Q[i])
        BY <3>3, <3>4, <4>2
      <4>4. QED
        BY <3>3, <4>3
    <3>7. QED
      BY <3>3, <3>5, <3>6
  <2>4. QED
    BY <1>2, <2>1, <2>2, <2>3
<1>5. n \in Topped
  <2> HIDE DEF Topped
  <2>1. n \in Nat /\ n \in 0..n
    BY <1>2
  <2>2. \A i \in 0..n : (\A j \in 0..n : j < i => j \in Topped) => i \in Topped
    BY <1>4
  <2> HIDE DEF n
  <2>3. QED
    BY <2>1, <2>2, Inductive
<1>6. n # 0
  BY <1>1, <1>2
<1>7. PICK x \in S : Up(n, x)
  BY <1>5, <1>6
<1>8. QED
  BY <1>1, <1>7

-----------------------------------------------------------------------------
(* Histories                                                                *)

\* A history starts with its revision.
LEMMA HistoryIs ==
    ASSUME NEW r \in Revs
    PROVE  /\ History[r] \in Seq(Revs) /\ Pos(r) \in Nat /\ Pos(r) >= 1
           /\ History[r][1] = r /\ \A i \in 1..Pos(r) : History[r][i] \in Revs
<1>1. History[r] \in Seq(Revs) /\ Len(History[r]) >= 1 /\ History[r][1] = r
  BY HistoryAssumption
<1>2. QED
  BY <1>1 DEF Pos

\* The history of a parent is the rest of that of its child.
LEMMA ParentIs ==
    ASSUME NEW r \in Revs, Pos(r) > 1
    PROVE  /\ History[r][2] \in Revs /\ Pos(History[r][2]) = Pos(r) - 1
           /\ \A j \in 1..(Pos(r) - 1) : History[History[r][2]][j] = History[r][j + 1]
<1>1. /\ History[r] \in Seq(Revs) /\ Len(History[r]) > 1
      /\ History[History[r][2]] = Tail(History[r])
  BY HistoryAssumption DEF Pos
<1>2. QED
  BY <1>1 DEF Pos

\* The history of an ancestor is the rest of that of its descendant.
LEMMA AncestorIs ==
    ASSUME NEW r \in Revs, NEW i \in 1..Pos(r)
    PROVE  /\ History[r][i] \in Revs /\ Pos(History[r][i]) = Pos(r) - i + 1
           /\ \A j \in 1..(Pos(r) - i + 1) : History[History[r][i]][j] = History[r][i + j - 1]
<1> DEFINE n == Pos(r)
           Rest(k) == /\ Pos(History[r][k]) = n - k + 1
                      /\ \A j \in 1..(n - k + 1) : History[History[r][k]][j] = History[r][k + j - 1]
           Resting == {k \in 0..n : k = 0 \/ Rest(k)}
<1>1. n \in Nat /\ \A k \in 1..n : History[r][k] \in Revs
  BY HistoryIs
<1>2. ASSUME NEW k \in 0..n, \A j \in 0..n : j < k => j \in Resting
      PROVE  k \in Resting
  <2>1. CASE k = 0
    BY <2>1
  <2>2. CASE k = 1
    <3>1. History[r][1] = r
      BY HistoryIs
    <3>2. Rest(1)
      BY <1>1, <3>1
    <3>3. QED
      BY <2>2, <3>2
  <2>3. CASE k > 1
    <3> DEFINE b == History[r][k - 1]
    <3>1. k - 1 \in 0..n /\ k - 1 # 0 /\ k - 1 < k /\ k - 1 \in 1..n /\ k \in Nat
      BY <1>1, <2>3
    <3>2. Rest(k - 1)
      BY <1>2, <3>1
    <3>3. b \in Revs /\ Pos(b) = n - k + 2 /\ Pos(b) > 1
      BY <1>1, <3>1, <3>2
    <3>4. \A j \in 1..(n - k + 2) : History[b][j] = History[r][k + j - 2]
      <4> TAKE j \in 1..(n - k + 2)
      <4>1. n - (k - 1) + 1 = n - k + 2 /\ (k - 1) + j - 1 = k + j - 2
        BY <1>1, <3>1
      <4>2. QED
        BY <3>2, <4>1
    <3>5. 2 \in 1..(n - k + 2) /\ k + 2 - 2 = k
      BY <1>1, <3>1
    <3>6. History[b][2] = History[r][k]
      BY <3>4, <3>5
    <3> HIDE DEF b
    <3>7. /\ Pos(History[r][k]) = n - k + 1
          /\ \A j \in 1..(n - k + 1) : History[History[r][k]][j] = History[b][j + 1]
      <4>1. Pos(b) - 1 = n - k + 1
        BY <1>1, <3>1, <3>3
      <4>2. QED
        BY <3>3, <3>6, <4>1, ParentIs
    <3>8. \A j \in 1..(n - k + 1) : History[b][j + 1] = History[r][k + j - 1]
      <4> TAKE j \in 1..(n - k + 1)
      <4>1. j + 1 \in 1..(n - k + 2) /\ k + (j + 1) - 2 = k + j - 1
        BY <1>1, <3>1
      <4>2. QED
        BY <3>4, <4>1
    <3>9. Rest(k)
      BY <3>7, <3>8
    <3>10. QED
      BY <3>9
  <2>4. QED
    BY <1>1, <2>1, <2>2, <2>3
<1>3. i \in Resting
  <2> HIDE DEF Resting
  <2>1. n \in Nat /\ i \in 0..n
    BY <1>1
  <2>2. \A k \in 0..n : (\A j \in 0..n : j < k => j \in Resting) => k \in Resting
    BY <1>2
  <2> HIDE DEF n
  <2>3. QED
    BY <2>1, <2>2, Inductive
<1>4. i # 0
  BY <1>1
<1>5. QED
  BY <1>1, <1>3, <1>4

\* A revision is an ancestor of itself, and an ancestor's ancestor is one.
LEMMA AncestryIsOrder ==
    ASSUME NEW r \in Revs
    PROVE  /\ r \in Path(r, Pos(r)) /\ Path(r, Pos(r)) \subseteq Revs
           /\ \A a \in Path(r, Pos(r)) : Path(a, Pos(a)) \subseteq Path(r, Pos(r))
           /\ \A a \in Path(r, Pos(r)) : Pos(a) <= Pos(r)
<1>1. Pos(r) \in Nat /\ Pos(r) >= 1 /\ History[r][1] = r
  BY HistoryIs
<1>2. r \in Path(r, Pos(r)) /\ Path(r, Pos(r)) \subseteq Revs
  BY <1>1, HistoryIs DEF Path
<1>3. ASSUME NEW a \in Path(r, Pos(r))
      PROVE  Pos(a) <= Pos(r) /\ Path(a, Pos(a)) \subseteq Path(r, Pos(r))
  <2>1. PICK i \in 1..Pos(r) : a = History[r][i]
    BY DEF Path
  <2>2. /\ Pos(a) = Pos(r) - i + 1
        /\ \A j \in 1..(Pos(r) - i + 1) : History[a][j] = History[r][i + j - 1]
    BY <2>1, AncestorIs
  <2>3. \A j \in 1..(Pos(r) - i + 1) : i + j - 1 \in 1..Pos(r)
    BY <1>1, <2>1
  <2>4. QED
    BY <1>1, <2>1, <2>2, <2>3 DEF Path
<1>4. QED
  BY <1>2, <1>3

-----------------------------------------------------------------------------
(* Paths in a tree                                                          *)

\* A linked revision has its parent in the tree.
Rooted(t) ==
    /\ IsTree(t)
    /\ \A r \in DOMAIN t : t[r].linked => Pos(r) > 1 /\ History[r][2] \in DOMAIN t

\* The path of n names that r has in the tree.
IsPathLen(t, r, n) ==
    /\ n \in 1..Pos(r)
    /\ ~t[History[r][n]].linked
    /\ \A i \in 1..(n - 1) : t[History[r][i]].linked
    /\ \A i \in 1..n : History[r][i] \in DOMAIN t

\* A path ends at a root, and all of it is in the tree.
LEMMA PathLenIs ==
    ASSUME NEW t, Rooted(t), NEW r \in DOMAIN t
    PROVE  /\ IsPathLen(t, r, PathLen(t, r))
           /\ \A k : IsPathLen(t, r, k) => PathLen(t, r) = k
<1> DEFINE In(i) == History[r][i] \in DOMAIN t
           Ends == {i \in 1..Pos(r) : ~In(i) \/ ~t[History[r][i]].linked}
<1>1. /\ r \in Revs /\ Pos(r) \in Nat /\ Pos(r) >= 1 /\ History[r][1] = r
      /\ \A i \in 1..Pos(r) : History[r][i] \in Revs
  BY HistoryIs DEF Rooted, IsTree
<1>2. Pos(r) \in Ends
  <2>1. Pos(History[r][Pos(r)]) = 1
    <3>1. Pos(r) \in 1..Pos(r)
      BY <1>1
    <3>2. Pos(History[r][Pos(r)]) = Pos(r) - Pos(r) + 1
      BY <1>1, <3>1, AncestorIs
    <3>3. QED
      BY <1>1, <3>2
  <2>2. In(Pos(r)) => ~t[History[r][Pos(r)]].linked
    BY <2>1 DEF Rooted
  <2>3. QED
    BY <1>1, <2>2
<1>3. PICK m \in Ends : \A i \in Ends : m <= i
  <2>1. Ends \in SUBSET Nat /\ Ends # {}
    BY <1>2
  <2> HIDE DEF Ends
  <2>2. QED
    BY <2>1, MinExists
<1>4. m \in 1..Pos(r) /\ m \in Nat /\ m >= 1
  BY <1>1
<1>5. \A i \in 1..(m - 1) : In(i) /\ t[History[r][i]].linked
  <2> TAKE i \in 1..(m - 1)
  <2>1. i \in 1..Pos(r) /\ ~(m <= i)
    BY <1>1, <1>4
  <2>2. i \notin Ends
    BY <1>3, <2>1
  <2>3. QED
    BY <2>1, <2>2
<1>6. In(m)
  <2>1. CASE m = 1
    BY <1>1, <2>1
  <2>2. CASE m # 1
    <3> DEFINE a == History[r][m - 1]
    <3>1. m - 1 \in 1..(m - 1) /\ m - 1 \in 1..Pos(r)
      BY <1>1, <1>4, <2>2
    <3>2. a \in DOMAIN t /\ t[a].linked /\ a \in Revs
      BY <1>1, <1>5, <3>1
    <3>3. History[a][2] \in DOMAIN t
      BY <3>2 DEF Rooted
    <3>4. History[a][2] = History[r][m]
      <4>1. \A j \in 1..(Pos(r) - (m - 1) + 1) : History[a][j] = History[r][(m - 1) + j - 1]
        BY <1>1, <3>1, AncestorIs
      <4>2. 2 \in 1..(Pos(r) - (m - 1) + 1) /\ (m - 1) + 2 - 1 = m
        BY <1>1, <1>4
      <4>3. QED
        BY <4>1, <4>2
    <3>5. QED
      BY <3>3, <3>4
  <2>3. QED
    BY <2>1, <2>2
<1>7. ~t[History[r][m]].linked
  BY <1>3, <1>6
<1>8. \A i \in 1..m : In(i)
  <2> TAKE i \in 1..m
  <2>1. i = m \/ i \in 1..(m - 1)
    BY <1>4
  <2>2. QED
    BY <1>5, <1>6, <2>1
<1>9. IsPathLen(t, r, m)
  BY <1>4, <1>5, <1>7, <1>8 DEF IsPathLen
<1>10. ASSUME NEW k \in 1..Pos(r), ~t[History[r][k]].linked,
             \A i \in 1..(k - 1) : t[History[r][i]].linked
      PROVE  k = m
  <2>1. ~(k < m)
    <3>1. k < m => k \in 1..(m - 1)
      BY <1>4
    <3>2. QED
      BY <1>5, <1>10, <3>1
  <2>2. ~(m < k)
    <3>1. m < k => m \in 1..(k - 1)
      BY <1>1, <1>4
    <3>2. QED
      BY <1>7, <1>10, <3>1
  <2>3. QED
    BY <1>1, <1>4, <2>1, <2>2
<1>11. PathLen(t, r) = m
  <2> DEFINE Is(n) == ~t[History[r][n]].linked /\ \A i \in 1..(n - 1) : t[History[r][i]].linked
  <2>1. m \in 1..Pos(r) /\ Is(m)
    BY <1>4, <1>5, <1>7
  <2>2. \A k \in 1..Pos(r) : Is(k) => k = m
    BY <1>10
  <2>3. PathLen(t, r) = CHOOSE n \in 1..Pos(r) : Is(n)
    BY DEF PathLen
  <2> HIDE DEF Is
  <2>4. QED
    BY <2>1, <2>2, <2>3
<1>12. QED
  BY <1>9, <1>10, <1>11 DEF IsPathLen

\* The root of a tree has a path of its own name.
LEMMA RootIs ==
    ASSUME NEW t, Rooted(t), NEW r \in DOMAIN t
    PROVE  /\ RootOf(t, r) \in DOMAIN t /\ ~t[RootOf(t, r)].linked
           /\ RootOf(t, r) \in Path(r, PathLen(t, r))
           /\ Path(r, PathLen(t, r)) \subseteq DOMAIN t
<1>1. IsPathLen(t, r, PathLen(t, r))
  BY PathLenIs
<1>2. r \in Revs /\ Pos(r) \in Nat
  BY HistoryIs DEF Rooted, IsTree
<1>3. PathLen(t, r) \in 1..PathLen(t, r)
  BY <1>1, <1>2 DEF IsPathLen
<1>4. QED
  BY <1>1, <1>3 DEF IsPathLen, RootOf, Path

\* Every revision on the path of r has the root of r.
LEMMA SameRoot ==
    ASSUME NEW t, Rooted(t), NEW r \in DOMAIN t, NEW i \in 1..PathLen(t, r)
    PROVE  /\ History[r][i] \in DOMAIN t
           /\ PathLen(t, History[r][i]) = PathLen(t, r) - i + 1
           /\ RootOf(t, History[r][i]) = RootOf(t, r)
<1> DEFINE a == History[r][i]
           n == PathLen(t, r)
           k == n - i + 1
<1>1. IsPathLen(t, r, n)
  BY PathLenIs
<1>2. r \in Revs /\ Pos(r) \in Nat
  BY HistoryIs DEF Rooted, IsTree
<1>3. n \in 1..Pos(r) /\ n \in Nat /\ i \in Nat /\ i >= 1 /\ i <= n /\ i \in 1..Pos(r)
  BY <1>1, <1>2 DEF IsPathLen
<1>4. a \in DOMAIN t
  BY <1>1 DEF IsPathLen
<1>5. /\ Pos(a) = Pos(r) - i + 1
      /\ \A j \in 1..(Pos(r) - i + 1) : History[a][j] = History[r][i + j - 1]
  BY <1>2, <1>3, AncestorIs
<1> HIDE DEF a, n
<1>6. k \in 1..Pos(a) /\ i + k - 1 = n
  BY <1>2, <1>3, <1>5
<1>7. \A j \in 1..k : History[a][j] = History[r][i + j - 1] /\ i + j - 1 \in 1..n
  BY <1>2, <1>3, <1>5
<1>8. \A j \in 1..(k - 1) : j \in 1..k /\ i + j - 1 \in 1..(n - 1)
  BY <1>3
<1>9. History[a][k] = History[r][n]
  <2>1. k \in 1..k
    BY <1>6
  <2> HIDE DEF k
  <2>2. QED
    BY <1>6, <1>7, <2>1
<1> HIDE DEF k
<1>10. IsPathLen(t, a, k)
  <2>1. \A j \in 1..(k - 1) : t[History[a][j]].linked
    BY <1>1, <1>7, <1>8 DEF IsPathLen
  <2>2. \A j \in 1..k : History[a][j] \in DOMAIN t
    BY <1>1, <1>7 DEF IsPathLen
  <2>3. ~t[History[a][k]].linked
    BY <1>1, <1>9 DEF IsPathLen
  <2>4. QED
    BY <1>6, <2>1, <2>2, <2>3 DEF IsPathLen
<1>11. PathLen(t, a) = k
  BY <1>4, <1>10, PathLenIs
<1>12. QED
  BY <1>4, <1>9, <1>11 DEF RootOf, a, n, k

\* A child has the root of its parent.
LEMMA ChildHasRoot ==
    ASSUME NEW t, Rooted(t), NEW c \in DOMAIN t, t[c].linked
    PROVE  History[c][2] \in DOMAIN t /\ RootOf(t, History[c][2]) = RootOf(t, c)
<1>1. IsPathLen(t, c, PathLen(t, c))
  BY PathLenIs
<1>2. c \in Revs /\ Pos(c) \in Nat /\ History[c][1] = c
  BY HistoryIs DEF Rooted, IsTree
<1>3. PathLen(t, c) # 1
  BY <1>1, <1>2 DEF IsPathLen
<1>4. 2 \in 1..PathLen(t, c)
  BY <1>1, <1>2, <1>3 DEF IsPathLen
<1>5. QED
  BY <1>4, SameRoot

\* Every revision of a finite tree is on the path of a leaf.
LEMMA LeafAbove ==
    ASSUME NEW t, IsTree(t), IsFiniteSet(DOMAIN t), NEW x \in DOMAIN t
    PROVE  \E m \in Leaves(t) : x \in Path(m, Pos(m))
<1> DEFINE Up == {y \in DOMAIN t : x \in Path(y, Pos(y))}
           f == [y \in Up |-> Pos(y)]
<1>1. \A y \in DOMAIN t : y \in Revs /\ Pos(y) \in Nat
  BY HistoryIs DEF IsTree
<1>2. x \in Up
  BY <1>1, AncestryIsOrder
<1>3. IsFiniteSet(Up)
  BY FS_Subset
<1>4. f \in [Up -> Nat]
  BY <1>1
<1>5. PICK m \in Up : \A y \in Up : f[y] <= f[m]
  <2> HIDE DEF Up, f
  <2>1. QED
    BY <1>2, <1>3, <1>4, GreatestExists
<1>6. m \in DOMAIN t /\ x \in Path(m, Pos(m)) /\ \A y \in Up : Pos(y) <= Pos(m)
  BY <1>5
<1>7. ASSUME NEW c \in DOMAIN t, ChildOf(t, c, m)
      PROVE  FALSE
  <2>1. c \in Revs /\ Pos(c) > 1 /\ History[c][2] = m /\ Pos(c) \in Nat
    BY <1>1, <1>7 DEF ChildOf
  <2>2. Pos(m) = Pos(c) - 1
    BY <2>1, ParentIs
  <2>3. m \in Path(c, Pos(c))
    BY <2>1 DEF Path
  <2>4. x \in Path(c, Pos(c))
    BY <1>6, <2>1, <2>3, AncestryIsOrder
  <2>5. Pos(c) <= Pos(m)
    BY <1>6, <2>4
  <2>6. QED
    BY <2>1, <2>2, <2>5
<1>8. QED
  BY <1>6, <1>7 DEF Leaves

-----------------------------------------------------------------------------
(* Merging a path                                                           *)

LEMMA SoundIsRooted ==
    ASSUME NEW t, SoundTree(t)
    PROVE  Rooted(t) /\ IsTree(t) /\ IsFiniteSet(DOMAIN t)
           /\ (\A x \in DOMAIN t : x \in Revs /\ t[x] \in Node)
           /\ \A l \in Leaves(t) : l \in DOMAIN t /\ Stored(t, l)
BY DEF SoundTree, WellFormed, Rooted, IsTree, Leaves

\* A tree is a function from revisions to nodes.
LEMMA TreeIs ==
    ASSUME NEW t, t = [x \in DOMAIN t |-> t[x]], DOMAIN t \subseteq Revs,
           \A x \in DOMAIN t : t[x] \in Node
    PROVE  IsTree(t)
<1> DEFINE S == DOMAIN t
<1>1. [x \in S |-> t[x]] \in [S -> Node]
  OBVIOUS
<1>2. QED
  BY <1>1 DEF IsTree

\* An insert path names its revision and ancestors of it.
LEMMA PathIs ==
    ASSUME NEW r \in Revs, NEW n \in 1..Pos(r)
    PROVE  /\ r \in Path(r, n) /\ Path(r, n) \subseteq Revs /\ IsFiniteSet(Path(r, n))
           /\ Path(r, n) \subseteq Path(r, Pos(r)) /\ History[r][n] \in Path(r, n)
           /\ \A x \in Path(r, n) \ {History[r][n]} : Pos(x) > 1 /\ History[x][2] \in Path(r, n)
           /\ \A x \in Path(r, n) \ {r} :
                \E c \in Path(r, n) \ {History[r][n]} : Pos(c) > 1 /\ History[c][2] = x
<1>1. /\ Pos(r) \in Nat /\ n \in Nat /\ n >= 1 /\ n <= Pos(r) /\ History[r][1] = r
      /\ \A i \in 1..n : i \in 1..Pos(r) /\ i \in Nat /\ i >= 1 /\ History[r][i] \in Revs
  BY HistoryIs
<1>2. r \in Path(r, n) /\ History[r][n] \in Path(r, n) /\ Path(r, n) \subseteq Revs
      /\ Path(r, n) \subseteq Path(r, Pos(r))
  BY <1>1 DEF Path
<1>3. IsFiniteSet(Path(r, n))
  <2> DEFINE Q == [i \in 1..n |-> History[r][i]]
  <2>1. Q \in Seq(Path(r, n)) /\ Len(Q) = n
    BY <1>1 DEF Path
  <2>2. \A s \in Path(r, n) : \E i \in 1..n : Q[i] = s
    BY DEF Path
  <2> HIDE DEF Q
  <2>3. QED
    BY <2>1, <2>2 DEF IsFiniteSet
<1>4. ASSUME NEW i \in 1..(n - 1)
      PROVE  Pos(History[r][i]) > 1 /\ History[History[r][i]][2] = History[r][i + 1]
  <2>1. i \in 1..Pos(r) /\ i \in Nat
    BY <1>1
  <2>2. /\ Pos(History[r][i]) = Pos(r) - i + 1
        /\ \A j \in 1..(Pos(r) - i + 1) : History[History[r][i]][j] = History[r][i + j - 1]
    BY <2>1, AncestorIs
  <2>3. 2 \in 1..(Pos(r) - i + 1) /\ i + 2 - 1 = i + 1 /\ Pos(r) - i + 1 > 1
    BY <1>1, <2>1
  <2>4. QED
    BY <2>2, <2>3
<1>5. \A i \in 1..(n - 1) : i + 1 \in 1..n
  BY <1>1
<1>6. ASSUME NEW x \in Path(r, n) \ {History[r][n]}
      PROVE  Pos(x) > 1 /\ History[x][2] \in Path(r, n)
  <2>1. PICK i \in 1..n : x = History[r][i]
    BY DEF Path
  <2>2. i \in 1..(n - 1)
    BY <1>1, <1>6, <2>1
  <2>3. QED
    BY <1>4, <1>5, <2>1, <2>2 DEF Path
<1>7. ASSUME NEW x \in Path(r, n) \ {r}
      PROVE  \E c \in Path(r, n) \ {History[r][n]} : Pos(c) > 1 /\ History[c][2] = x
  <2>1. PICK i \in 1..n : x = History[r][i]
    BY DEF Path
  <2>2. i - 1 \in 1..(n - 1) /\ (i - 1) + 1 = i /\ i - 1 \in 1..n
    BY <1>1, <1>7, <2>1
  <2> DEFINE c == History[r][i - 1]
  <2>3. Pos(c) > 1 /\ History[c][2] = x /\ c \in Path(r, n)
    BY <1>4, <2>1, <2>2 DEF Path
  <2>4. c # History[r][n]
    <3>1. /\ Pos(History[r][i - 1]) = Pos(r) - (i - 1) + 1
          /\ Pos(History[r][n]) = Pos(r) - n + 1
      BY <1>1, <2>2, AncestorIs
    <3>2. QED
      BY <1>1, <2>2, <3>1
  <2>5. QED
    BY <2>3, <2>4
<1>8. QED
  BY <1>2, <1>3, <1>6, <1>7

\* The tree that takes the path is a whole one.
LEMMA TargetIs ==
    ASSUME NEW t, Rooted(t), NEW r, NEW n
    PROVE  /\ Target(t, r, n) \subseteq DOMAIN t
           /\ \A c \in DOMAIN t : t[c].linked =>
                (c \in Target(t, r, n) <=> History[c][2] \in Target(t, r, n))
<1>1. CASE Target(t, r, n) = {}
  BY <1>1
<1>2. CASE Target(t, r, n) # {}
  <2>1. PICK root : Target(t, r, n) = Members(t, root)
    BY <1>2 DEF Target
  <2>2. QED
    BY <2>1, ChildHasRoot DEF Members
<1>3. QED
  BY <1>1, <1>2

\* What the path is merged into.
LEMMA MergedTreeIs ==
    ASSUME NEW t, SoundTree(t), NEW r \in Revs, NEW n \in 1..Pos(r)
    PROVE  LET m == MergedTree(t, r, n)
           IN  /\ SoundTree(m) /\ DOMAIN m = Target(t, r, n) \union Path(r, n)
               /\ SeqsOf(m) \subseteq SeqsOf(t) \union {Pending}
               /\ Leaves(m) \subseteq {r} \union ((Leaves(t) \intersect Target(t, r, n)) \ Path(r, n))
               /\ r \in Target(t, r, n) /\ r \in Leaves(m) => r \in Leaves(t)
<1> DEFINE m == MergedTree(t, r, n)
           T == Target(t, r, n)
           P == Path(r, n)
           s == History[r][n]
<1>1. /\ Rooted(t) /\ IsFiniteSet(DOMAIN t)
      /\ \A x \in DOMAIN t : x \in Revs /\ t[x] \in Node
      /\ \A l \in Leaves(t) : l \in DOMAIN t /\ Stored(t, l)
  BY SoundIsRooted
<1>2. /\ T \subseteq DOMAIN t
      /\ \A c \in DOMAIN t : t[c].linked => (c \in T <=> History[c][2] \in T)
  BY <1>1, TargetIs
<1>3. /\ r \in P /\ P \subseteq Revs /\ IsFiniteSet(P) /\ s \in P
      /\ \A x \in P \ {s} : Pos(x) > 1 /\ History[x][2] \in P
      /\ \A x \in P \ {r} : \E c \in P \ {s} : Pos(c) > 1 /\ History[c][2] = x
  BY PathIs
<1>4. /\ DOMAIN m = T \union P
      /\ m = [x \in T \union P |-> m[x]]
      /\ \A x \in T \union P :
           m[x] = [linked |-> x \in P \ {s} \/ (x \in T /\ t[x].linked),
                   seq |-> IF x \in T /\ Stored(t, x) THEN t[x].seq
                           ELSE IF x = r THEN Pending ELSE Missing]
  BY DEF MergedTree
<1> HIDE DEF m, T, P, s
<1>5. ASSUME NEW x \in T \union P
      PROVE  /\ m[x] \in Node
             /\ m[x].linked <=> (x \in P \ {s} \/ (x \in T /\ t[x].linked))
             /\ m[x].seq = IF x \in T /\ Stored(t, x) THEN t[x].seq
                           ELSE IF x = r THEN Pending ELSE Missing
  <2>1. x \in T => t[x].linked \in BOOLEAN /\ t[x].seq \in Seqs
    BY <1>1, <1>2 DEF Node
  <2>2. Pending \in Seqs /\ Missing \in Seqs
    BY DEF Seqs, Missing
  <2> DEFINE L == x \in P \ {s} \/ (x \in T /\ t[x].linked)
             S == IF x \in T /\ Stored(t, x) THEN t[x].seq
                  ELSE IF x = r THEN Pending ELSE Missing
  <2>3. L \in BOOLEAN /\ S \in Seqs
    BY <2>1, <2>2
  <2>4. m[x] = [linked |-> L, seq |-> S]
    BY <1>4
  <2> HIDE DEF L, S
  <2>5. m[x] \in Node /\ m[x].linked = L /\ m[x].seq = S
    BY <2>3, <2>4 DEF Node
  <2>6. QED
    BY <2>5 DEF L, S
<1>6. IsTree(m)
  <2>1. DOMAIN m \subseteq Revs
    BY <1>1, <1>2, <1>3, <1>4
  <2>2. QED
    BY <1>4, <1>5, <2>1, TreeIs
<1>7. IsFiniteSet(DOMAIN m)
  <2>1. IsFiniteSet(T)
    BY <1>1, <1>2, FS_Subset
  <2>2. IsFiniteSet(P)
    BY <1>3
  <2>3. IsFiniteSet(T \union P)
    BY <2>1, <2>2, FS_Union
  <2>4. QED
    BY <1>4, <2>3
<1>8. ASSUME NEW x \in DOMAIN m, m[x].linked
      PROVE  Pos(x) > 1 /\ History[x][2] \in DOMAIN m
  <2>1. CASE x \in P \ {s}
    BY <1>3, <1>4, <2>1
  <2>2. CASE x \in T /\ t[x].linked
    BY <1>1, <1>2, <1>4, <2>2 DEF Rooted
  <2>3. QED
    BY <1>4, <1>5, <1>8, <2>1, <2>2
<1>9. ASSUME NEW x \in Leaves(m)
      PROVE  /\ x = r \/ (x \in Leaves(t) /\ x \in T /\ x \notin P)
             /\ x \in T => x \in Leaves(t)
             /\ Stored(m, x)
  <2>1. x \in DOMAIN m /\ \A c \in DOMAIN m : ~ChildOf(m, c, x)
    BY <1>9 DEF Leaves
  <2>2. x \in P => x = r
    <3> SUFFICES ASSUME x \in P, x # r PROVE FALSE
      OBVIOUS
    <3>1. PICK c \in P \ {s} : Pos(c) > 1 /\ History[c][2] = x
      BY <1>3
    <3>2. c \in DOMAIN m /\ m[c].linked
      BY <1>4, <1>5
    <3>3. QED
      BY <2>1, <3>1, <3>2 DEF ChildOf
  <2>3. x \in T => x \in Leaves(t)
    <3> SUFFICES ASSUME x \in T PROVE \A c \in DOMAIN t : ~ChildOf(t, c, x)
      BY <1>2 DEF Leaves
    <3> SUFFICES ASSUME NEW c \in DOMAIN t, ChildOf(t, c, x) PROVE FALSE
      OBVIOUS
    <3>1. t[c].linked /\ Pos(c) > 1 /\ History[c][2] = x
      BY DEF ChildOf
    <3>2. c \in T
      BY <1>2, <3>1
    <3>3. c \in DOMAIN m /\ m[c].linked
      BY <1>4, <1>5, <3>1, <3>2
    <3>4. QED
      BY <2>1, <3>1, <3>3 DEF ChildOf
  <2>4. x = r \/ (x \in Leaves(t) /\ x \in T /\ x \notin P)
    BY <1>4, <2>1, <2>2, <2>3
  <2>5. Stored(m, x)
    <3>1. x \in T /\ Stored(t, x) => Stored(m, x)
      BY <1>5 DEF Stored
    <3>2. x = r /\ ~(x \in T /\ Stored(t, x)) => m[x].seq = Pending
      BY <1>3, <1>5
    <3>3. Pending # Missing
      BY PendingAssumption DEF Missing
    <3>4. QED
      BY <1>1, <2>4, <3>1, <3>2, <3>3 DEF Stored
  <2>6. QED
    BY <2>3, <2>4, <2>5
<1>10. WellFormed(m)
  BY <1>8, <1>9 DEF WellFormed
<1>11. SeqsOf(m) \subseteq SeqsOf(t) \union {Pending}
  <2> SUFFICES ASSUME NEW x \in DOMAIN m, m[x].seq # Missing, m[x].seq # Pending
               PROVE  m[x].seq \in SeqsOf(t)
    BY DEF SeqsOf
  <2>1. x \in T /\ m[x].seq = t[x].seq
    BY <1>4, <1>5
  <2>2. QED
    BY <1>2, <2>1 DEF SeqsOf
<1>12. QED
  BY <1>4, <1>6, <1>7, <1>9, <1>10, <1>11 DEF SoundTree, m, T, P

\* What it is merged past.
LEMMA LeftAloneIs ==
    ASSUME NEW t, SoundTree(t), NEW T \in SUBSET DOMAIN t,
           \A c \in DOMAIN t : t[c].linked => (c \in T <=> History[c][2] \in T)
    PROVE  LET u == [x \in DOMAIN t \ T |-> t[x]]
           IN  /\ SoundTree(u) /\ SeqsOf(u) \subseteq SeqsOf(t)
               /\ Leaves(u) = Leaves(t) \ T
<1> DEFINE u == [x \in DOMAIN t \ T |-> t[x]]
<1>1. /\ Rooted(t) /\ IsFiniteSet(DOMAIN t)
      /\ \A x \in DOMAIN t : x \in Revs /\ t[x] \in Node
      /\ \A l \in Leaves(t) : l \in DOMAIN t /\ Stored(t, l)
  BY SoundIsRooted
<1>2. DOMAIN u = DOMAIN t \ T /\ (\A x \in DOMAIN u : u[x] = t[x]) /\ u = [x \in DOMAIN u |-> u[x]]
  OBVIOUS
<1> HIDE DEF u
<1>3. IsTree(u)
  BY <1>1, <1>2, TreeIs
<1>4. IsFiniteSet(DOMAIN u)
  BY <1>1, <1>2, FS_Subset
<1>5. \A x \in DOMAIN u : u[x].linked => Pos(x) > 1 /\ History[x][2] \in DOMAIN u
  BY <1>1, <1>2 DEF Rooted
<1>6. Leaves(u) = Leaves(t) \ T
  <2>1. ASSUME NEW x \in DOMAIN u
        PROVE  (\E c \in DOMAIN u : ChildOf(u, c, x)) <=> (\E c \in DOMAIN t : ChildOf(t, c, x))
    <3>1. ASSUME NEW c \in DOMAIN t, ChildOf(t, c, x)
          PROVE  c \in DOMAIN u /\ ChildOf(u, c, x)
      BY <1>2, <2>1, <3>1 DEF ChildOf
    <3>2. \A c \in DOMAIN u : c \in DOMAIN t /\ (ChildOf(u, c, x) <=> ChildOf(t, c, x))
      BY <1>2 DEF ChildOf
    <3>3. QED
      BY <3>1, <3>2
  <2>2. QED
    BY <1>2, <2>1 DEF Leaves
<1>7. \A l \in Leaves(u) : Stored(u, l)
  <2>1. \A l \in Leaves(u) : l \in DOMAIN u /\ Stored(t, l)
    BY <1>1, <1>6 DEF Leaves
  <2>2. QED
    BY <1>2, <2>1 DEF Stored
<1>8. SeqsOf(u) \subseteq SeqsOf(t)
  BY <1>2 DEF SeqsOf
<1>9. QED
  BY <1>3, <1>4, <1>5, <1>6, <1>7, <1>8 DEF SoundTree, WellFormed, u

-----------------------------------------------------------------------------
(* Stemming                                                                 *)

\* The path of one name less stops below the last.
LEMMA PathBelow ==
    ASSUME NEW r \in Revs, NEW n \in 1..Pos(r)
    PROVE  Path(r, n - 1) = Path(r, n) \ {History[r][n]}
<1>1. Pos(r) \in Nat /\ n \in Nat /\ n >= 1
  BY HistoryIs
<1>2. \A i \in 1..n : i = n \/ i \in 1..(n - 1)
  BY <1>1
<1>3. \A i \in 1..(n - 1) : i \in 1..n /\ i \in 1..Pos(r) /\ i \in Nat /\ i # n
  BY <1>1
<1>4. \A i \in 1..(n - 1) : History[r][i] # History[r][n]
  <2> TAKE i \in 1..(n - 1)
  <2>1. /\ Pos(History[r][i]) = Pos(r) - i + 1
        /\ Pos(History[r][n]) = Pos(r) - n + 1
    BY <1>3, AncestorIs
  <2>2. QED
    BY <1>1, <1>3, <2>1
<1>5. QED
  BY <1>2, <1>3, <1>4 DEF Path

\* What stem keeps of a leaf's path is a part of it that the tree holds.
LEMMA KeptIs ==
    ASSUME NEW t, SoundTree(t), NEW l \in Leaves(t)
    PROVE  /\ l \in Revs /\ KeptLen(t, l) \in 1..Pos(l)
           /\ Path(l, KeptLen(t, l)) \subseteq DOMAIN t
           /\ Path(l, KeptLen(t, l)) \subseteq Kept(t)
           /\ l \in Kept(t)
           /\ Path(l, KeptLen(t, l) - 1) \subseteq KeptBelow(t)
<1> DEFINE k == KeptLen(t, l)
           p == PathLen(t, l)
<1>1. Rooted(t) /\ l \in DOMAIN t /\ l \in Revs
  BY SoundIsRooted
<1>2. Pos(l) \in Nat /\ Pos(l) >= 1 /\ History[l][1] = l
  BY <1>1, HistoryIs
<1>3. p \in 1..Pos(l) /\ \A i \in 1..p : History[l][i] \in DOMAIN t
  BY <1>1, PathLenIs DEF IsPathLen
<1>4. k = IF p <= RevsLimit THEN p ELSE RevsLimit
  BY DEF KeptLen
<1>5. RevsLimit \in Nat /\ RevsLimit >= 1
  BY LimitAssumption
<1> HIDE DEF k, p
<1>6. k \in 1..Pos(l) /\ \A i \in 1..k : i \in 1..p
  BY <1>2, <1>3, <1>4, <1>5
<1>7. Path(l, k) \subseteq DOMAIN t
  BY <1>3, <1>6 DEF Path
<1>8. l \in Path(l, k)
  BY <1>2, <1>6 DEF Path
<1>9. Path(l, k) \subseteq Kept(t) /\ Path(l, k - 1) \subseteq KeptBelow(t)
  BY DEF Kept, KeptBelow, k
<1>10. QED
  BY <1>1, <1>6, <1>7, <1>8, <1>9 DEF k

\* All that stem keeps of a tree, and what it keeps linked.
LEMMA KeptOf ==
    ASSUME NEW t, SoundTree(t)
    PROVE  /\ Kept(t) \subseteq DOMAIN t /\ Leaves(t) \subseteq Kept(t)
           /\ \A x \in KeptBelow(t) : Pos(x) > 1 /\ History[x][2] \in Kept(t)
           /\ \A x \in Kept(t) \ Leaves(t) :
                \E c \in KeptBelow(t) : c \in Kept(t) /\ History[c][2] = x
<1>1. Kept(t) \subseteq DOMAIN t /\ Leaves(t) \subseteq Kept(t)
  BY KeptIs DEF Kept
<1>2. ASSUME NEW x \in KeptBelow(t)
      PROVE  Pos(x) > 1 /\ History[x][2] \in Kept(t)
  <2>1. PICK l \in Leaves(t) : x \in Path(l, KeptLen(t, l) - 1)
    BY DEF KeptBelow
  <2>2. l \in Revs /\ KeptLen(t, l) \in 1..Pos(l) /\ Path(l, KeptLen(t, l)) \subseteq Kept(t)
    BY KeptIs
  <2>3. x \in Path(l, KeptLen(t, l)) \ {History[l][KeptLen(t, l)]}
    BY <2>1, <2>2, PathBelow
  <2>4. QED
    BY <2>2, <2>3, PathIs
<1>3. ASSUME NEW x \in Kept(t) \ Leaves(t)
      PROVE  \E c \in KeptBelow(t) : c \in Kept(t) /\ History[c][2] = x
  <2>1. PICK l \in Leaves(t) : x \in Path(l, KeptLen(t, l))
    BY DEF Kept
  <2>2. /\ l \in Revs /\ KeptLen(t, l) \in 1..Pos(l) /\ Path(l, KeptLen(t, l)) \subseteq Kept(t)
        /\ Path(l, KeptLen(t, l) - 1) \subseteq KeptBelow(t)
    BY KeptIs
  <2>3. x # l
    BY <1>3
  <2>4. PICK c \in Path(l, KeptLen(t, l)) \ {History[l][KeptLen(t, l)]} : History[c][2] = x
    BY <2>1, <2>2, <2>3, PathIs
  <2>5. c \in KeptBelow(t) /\ c \in Kept(t)
    BY <2>2, <2>4, PathBelow
  <2>6. QED
    BY <2>4, <2>5
<1>4. QED
  BY <1>1, <1>2, <1>3

\* The forest of two trees, stemmed, is a tree whose leaves are leaves of theirs
\* and which covers them all.
LEMMA StemIs ==
    ASSUME NEW a, SoundTree(a), NEW b, SoundTree(b)
    PROVE  LET m == Stem({a, b})
           IN  /\ SoundTree(m) /\ SeqsOf(m) \subseteq SeqsOf(a) \union SeqsOf(b)
               /\ Leaves(m) \subseteq Leaves(a) \union Leaves(b)
               /\ \A x \in Leaves(a) \union Leaves(b) : Covers(m, x)
<1> DEFINE F == {a, b}
           m == Stem(F)
           Has(x, t) == x \in Kept(t) /\ Stored(t, x)
           S(x) == IF \E t \in F : Has(x, t) THEN (CHOOSE t \in F : Has(x, t))[x].seq ELSE Missing
           L(x) == \E t \in F : x \in KeptBelow(t)
           D == Kept(a) \union Kept(b)
<1>1. \A t \in F : /\ IsFiniteSet(DOMAIN t)
                   /\ (\A x \in DOMAIN t : x \in Revs /\ t[x] \in Node)
                   /\ (\A l \in Leaves(t) : Stored(t, l))
  BY SoundIsRooted
<1>2. \A t \in F : /\ Kept(t) \subseteq DOMAIN t /\ Leaves(t) \subseteq Kept(t)
                   /\ \A x \in KeptBelow(t) : Pos(x) > 1 /\ History[x][2] \in Kept(t)
                   /\ \A x \in Kept(t) \ Leaves(t) :
                        \E c \in KeptBelow(t) : c \in Kept(t) /\ History[c][2] = x
  BY KeptOf
<1>3. UNION {Kept(t) : t \in F} = D
  OBVIOUS
<1>4. m = [x \in D |-> [linked |-> L(x), seq |-> S(x)]]
  BY <1>3 DEF Stem
<1>5. \A x \in D : S(x) = Missing \/ \E t \in F : Has(x, t) /\ S(x) = t[x].seq
  OBVIOUS
<1>6. \A x \in D : (\E t \in F : Has(x, t)) => S(x) # Missing
  BY DEF Stored
<1>7. \A x \in D : \A t \in F : Has(x, t) => x \in DOMAIN t /\ t[x].seq \in Seqs /\ t[x].seq # Missing
  BY <1>1, <1>2 DEF Stored, Node
<1> HIDE DEF S, m
<1>8. \A x \in D : S(x) \in Seqs
  <2>1. Missing \in Seqs
    BY DEF Missing, Seqs
  <2>2. QED
    BY <1>5, <1>7, <2>1
<1>9. DOMAIN m = D /\ m = [x \in D |-> m[x]]
  BY <1>4
<1>10. ASSUME NEW x \in D
       PROVE  m[x] \in Node /\ (m[x].linked <=> L(x)) /\ m[x].seq = S(x)
  <2>1. L(x) \in BOOLEAN
    OBVIOUS
  <2>2. m[x] = [linked |-> L(x), seq |-> S(x)]
    BY <1>4
  <2> HIDE DEF L
  <2>3. QED
    BY <1>8, <2>1, <2>2 DEF Node
<1>11. IsFiniteSet(D) /\ D \subseteq Revs
  <2>1. IsFiniteSet(Kept(a)) /\ IsFiniteSet(Kept(b))
    BY <1>1, <1>2, FS_Subset
  <2>2. IsFiniteSet(D)
    BY <2>1, FS_Union
  <2>3. QED
    BY <1>1, <1>2, <2>2
<1>12. IsTree(m)
  BY <1>9, <1>10, <1>11, TreeIs
<1>13. ASSUME NEW x \in D, m[x].linked
       PROVE  Pos(x) > 1 /\ History[x][2] \in D
  BY <1>2, <1>10, <1>13
<1>14. ASSUME NEW x \in Leaves(m)
       PROVE  (x \in Leaves(a) \/ x \in Leaves(b)) /\ Stored(m, x)
  <2>1. x \in D /\ \A c \in D : ~ChildOf(m, c, x)
    BY <1>9, <1>14 DEF Leaves
  <2>2. PICK t \in F : x \in Kept(t)
    BY <2>1
  <2>3. x \in Leaves(t)
    <3> SUFFICES ASSUME x \notin Leaves(t) PROVE FALSE
      OBVIOUS
    <3>1. PICK c \in KeptBelow(t) : c \in Kept(t) /\ History[c][2] = x
      BY <1>2, <2>2
    <3>2. c \in D /\ m[c].linked /\ Pos(c) > 1
      BY <1>2, <1>10, <3>1
    <3>3. QED
      BY <2>1, <3>1, <3>2 DEF ChildOf
  <2>4. Has(x, t)
    BY <1>1, <2>2, <2>3
  <2>5. m[x].seq # Missing
    BY <1>6, <1>10, <2>1, <2>4
  <2>6. QED
    BY <2>3, <2>5 DEF Stored
<1>15. SoundTree(m)
  BY <1>9, <1>11, <1>12, <1>13, <1>14 DEF SoundTree, WellFormed
<1>16. SeqsOf(m) \subseteq SeqsOf(a) \union SeqsOf(b)
  <2>0. SeqsOf(m) = {m[x].seq : x \in D} \ {Missing}
    BY <1>9 DEF SeqsOf
  <2> SUFFICES ASSUME NEW x \in D, m[x].seq # Missing
               PROVE  m[x].seq \in SeqsOf(a) \union SeqsOf(b)
    <3> HIDE DEF D
    <3>1. QED
      BY <2>0
  <2>1. PICK t \in F : Has(x, t) /\ S(x) = t[x].seq
    BY <1>5, <1>10
  <2>2. S(x) \in SeqsOf(t)
    BY <1>7, <2>1 DEF SeqsOf
  <2>3. QED
    BY <1>10, <2>2
<1>17. ASSUME NEW x \in Leaves(a) \union Leaves(b)
       PROVE  Covers(m, x)
  <2>1. x \in DOMAIN m
    BY <1>2, <1>9
  <2>2. QED
    BY <1>9, <1>11, <1>12, <2>1, LeafAbove DEF Covers
<1>18. QED
  BY <1>14, <1>15, <1>16, <1>17 DEF m

\* What a leaf covers, what covers the leaf covers.
LEMMA CoversAll ==
    ASSUME NEW t, IsTree(t), NEW u, IsTree(u), NEW x,
           Covers(t, x), \A l \in Leaves(t) : Covers(u, l)
    PROVE  Covers(u, x)
<1>1. PICK l \in Leaves(t) : x \in Path(l, Pos(l))
  BY DEF Covers
<1>2. PICK m \in Leaves(u) : l \in Path(m, Pos(m))
  BY DEF Covers
<1>3. m \in Revs
  BY DEF Leaves, IsTree
<1>4. x \in Path(m, Pos(m))
  BY <1>1, <1>2, <1>3, AncestryIsOrder
<1>5. QED
  BY <1>2, <1>4 DEF Covers

\* A tree keeps what it has through a merge: the result is sound, adds no body but
\* the new one, no leaf but the new one, and covers every leaf it had.
LEMMA MergeIs ==
    ASSUME NEW t, SoundTree(t), NEW r \in Revs, NEW n \in 1..Pos(r)
    PROVE  /\ SoundTree(Merge(t, r, n))
           /\ SeqsOf(Merge(t, r, n)) \subseteq SeqsOf(t) \union {Pending}
           /\ \A l \in Leaves(t) : Covers(Merge(t, r, n), l)
           /\ Leaves(Merge(t, r, n)) \subseteq
                {r} \union (Leaves(t) \ (Target(t, r, n) \intersect Path(r, n)))
           /\ r \in Target(t, r, n) => Leaves(Merge(t, r, n)) \subseteq Leaves(t)
<1> DEFINE T == Target(t, r, n)
           P == Path(r, n)
           a == MergedTree(t, r, n)
           b == [x \in DOMAIN t \ T |-> t[x]]
           m == Merge(t, r, n)
<1>1. Rooted(t) /\ IsTree(t) /\ IsFiniteSet(DOMAIN t) /\ Leaves(t) \subseteq DOMAIN t
  BY SoundIsRooted
<1>2. /\ T \in SUBSET DOMAIN t
      /\ \A c \in DOMAIN t : t[c].linked => (c \in T <=> History[c][2] \in T)
  BY <1>1, TargetIs
<1>3. /\ SoundTree(a) /\ DOMAIN a = T \union P
      /\ SeqsOf(a) \subseteq SeqsOf(t) \union {Pending}
      /\ Leaves(a) \subseteq {r} \union ((Leaves(t) \intersect T) \ P)
      /\ r \in T /\ r \in Leaves(a) => r \in Leaves(t)
  BY MergedTreeIs
<1>4. SoundTree(b) /\ SeqsOf(b) \subseteq SeqsOf(t) /\ Leaves(b) = Leaves(t) \ T
  <2> HIDE DEF T
  <2>1. QED
    BY <1>2, LeftAloneIs
<1>5. m = Stem({a, b})
  BY DEF Merge, MergePath
<1> HIDE DEF a, b, m, T, P
<1>6. /\ SoundTree(m) /\ SeqsOf(m) \subseteq SeqsOf(a) \union SeqsOf(b)
      /\ Leaves(m) \subseteq Leaves(a) \union Leaves(b)
      /\ \A x \in Leaves(a) \union Leaves(b) : Covers(m, x)
  BY <1>3, <1>4, <1>5, StemIs
<1>7. ASSUME NEW l \in Leaves(t)
      PROVE  Covers(m, l)
  <2>1. CASE l \in T
    <3>1. IsTree(a) /\ IsFiniteSet(DOMAIN a) /\ l \in DOMAIN a /\ IsTree(m)
      BY <1>3, <1>6, <2>1, SoundIsRooted
    <3>2. Covers(a, l)
      BY <3>1, LeafAbove DEF Covers
    <3>3. QED
      BY <1>6, <3>1, <3>2, CoversAll
  <2>2. CASE l \notin T
    BY <1>4, <1>6, <2>2
  <2>3. QED
    BY <2>1, <2>2
<1>8. Leaves(m) \subseteq {r} \union (Leaves(t) \ (T \intersect P))
  BY <1>3, <1>4, <1>6
<1>9. r \in T => Leaves(m) \subseteq Leaves(t)
  BY <1>3, <1>4, <1>6
<1>10. SeqsOf(m) \subseteq SeqsOf(t) \union {Pending}
  BY <1>3, <1>4, <1>6
<1>11. QED
  BY <1>6, <1>7, <1>8, <1>9, <1>10 DEF m, T, P

-----------------------------------------------------------------------------
(* Numbering, removing and copying                                          *)

\* A tree whose seqs alone change keeps its leaves, and is sound while each of
\* them stores a body.
LEMMA ReseqIs ==
    ASSUME NEW t, SoundTree(t), NEW u, u = [x \in DOMAIN t |-> u[x]],
           \A x \in DOMAIN t : u[x] \in Node /\ u[x].linked = t[x].linked,
           \A x \in Leaves(t) : u[x].seq # Missing
    PROVE  SoundTree(u) /\ Leaves(u) = Leaves(t) /\ DOMAIN u = DOMAIN t
<1>1. /\ Rooted(t) /\ IsFiniteSet(DOMAIN t)
      /\ \A x \in DOMAIN t : x \in Revs /\ t[x] \in Node
  BY SoundIsRooted
<1>2. DOMAIN u = DOMAIN t
  OBVIOUS
<1>3. IsTree(u)
  BY <1>1, <1>2, TreeIs
<1>4. \A c, x \in DOMAIN t : ChildOf(u, c, x) <=> ChildOf(t, c, x)
  BY DEF ChildOf
<1>5. Leaves(u) = Leaves(t)
  BY <1>2, <1>4 DEF Leaves
<1>6. WellFormed(u)
  BY <1>1, <1>2, <1>5 DEF WellFormed, Stored, Rooted
<1>7. QED
  BY <1>1, <1>2, <1>3, <1>5, <1>6 DEF SoundTree

\* A node with another seq.
LEMMA NodeIs ==
    ASSUME NEW v \in Node, NEW s \in Seqs
    PROVE  /\ [v EXCEPT !.seq = s] \in Node
           /\ [v EXCEPT !.seq = s].linked = v.linked /\ [v EXCEPT !.seq = s].seq = s
BY DEF Node

LEMMA SeqsAre ==
    /\ Missing \in Seqs /\ Pending \in Seqs /\ Pending # Missing
    /\ \A n \in Nat : n \in Seqs /\ n # Pending
    /\ \A n \in Nat : Missing \notin 1..n /\ Pending \notin 1..n
BY PendingAssumption DEF Seqs, Missing

\* Numbering a tree replaces the placeholder.
LEMMA AssignIs ==
    ASSUME NEW t, SoundTree(t), NEW s \in Nat, s > 0
    PROVE  /\ SoundTree(AssignPending(t, s)) /\ Leaves(AssignPending(t, s)) = Leaves(t)
           /\ SeqsOf(AssignPending(t, s)) \subseteq (SeqsOf(t) \ {Pending}) \union {s}
<1> DEFINE u == AssignPending(t, s)
<1>1. \A x \in DOMAIN t : t[x] \in Node /\ (x \in Leaves(t) => t[x].seq # Missing)
  BY SoundIsRooted DEF Stored
<1>2. u = [x \in DOMAIN t |-> IF t[x].seq = Pending THEN [t[x] EXCEPT !.seq = s] ELSE t[x]]
  BY DEF AssignPending
<1>3. s \in Seqs /\ s # Pending /\ s # Missing
  BY SeqsAre DEF Missing
<1> HIDE DEF u
<1>4. DOMAIN u = DOMAIN t /\ u = [x \in DOMAIN t |-> u[x]]
  BY <1>2
<1>5. ASSUME NEW x \in DOMAIN t
      PROVE  /\ u[x] \in Node /\ u[x].linked = t[x].linked
             /\ u[x].seq = IF t[x].seq = Pending THEN s ELSE t[x].seq
  <2>1. u[x] = IF t[x].seq = Pending THEN [t[x] EXCEPT !.seq = s] ELSE t[x]
    BY <1>2
  <2>2. t[x] \in Node
    BY <1>1
  <2>3. QED
    BY <1>3, <2>1, <2>2, NodeIs
<1>6. \A x \in Leaves(t) : x \in DOMAIN t
  BY DEF Leaves
<1>7. \A x \in Leaves(t) : u[x].seq # Missing
  BY <1>1, <1>3, <1>5, <1>6
<1>8. SoundTree(u) /\ Leaves(u) = Leaves(t)
  BY <1>4, <1>5, <1>7, ReseqIs
<1>9. SeqsOf(u) \subseteq (SeqsOf(t) \ {Pending}) \union {s}
  BY <1>3, <1>4, <1>5 DEF SeqsOf
<1>10. QED
  BY <1>8, <1>9 DEF u

\* Numbering one leaf.
LEMMA SetLeafIs ==
    ASSUME NEW t, SoundTree(t), NEW r, NEW s \in Nat, s > 0
    PROVE  /\ SoundTree(SetLeafSeq(t, r, s)) /\ Leaves(SetLeafSeq(t, r, s)) = Leaves(t)
           /\ SeqsOf(SetLeafSeq(t, r, s)) \subseteq SeqsOf(t) \union {s}
<1> DEFINE u == SetLeafSeq(t, r, s)
           Set(x) == x = r /\ Stored(t, x)
<1>1. \A x \in DOMAIN t : t[x] \in Node /\ (x \in Leaves(t) => t[x].seq # Missing)
  BY SoundIsRooted DEF Stored
<1>2. u = [x \in DOMAIN t |-> IF Set(x) THEN [t[x] EXCEPT !.seq = s] ELSE t[x]]
  BY DEF SetLeafSeq
<1>3. s \in Seqs /\ s # Missing
  BY SeqsAre DEF Missing
<1> HIDE DEF u, Set
<1>4. DOMAIN u = DOMAIN t /\ u = [x \in DOMAIN t |-> u[x]]
  BY <1>2
<1>5. ASSUME NEW x \in DOMAIN t
      PROVE  /\ u[x] \in Node /\ u[x].linked = t[x].linked
             /\ u[x].seq = IF Set(x) THEN s ELSE t[x].seq
  <2>1. u[x] = IF Set(x) THEN [t[x] EXCEPT !.seq = s] ELSE t[x]
    BY <1>2
  <2>2. t[x] \in Node
    BY <1>1
  <2>3. QED
    BY <1>3, <2>1, <2>2, NodeIs
<1>6. \A x \in Leaves(t) : x \in DOMAIN t
  BY DEF Leaves
<1>7. \A x \in Leaves(t) : u[x].seq # Missing
  BY <1>1, <1>3, <1>5, <1>6
<1>8. SoundTree(u) /\ Leaves(u) = Leaves(t)
  BY <1>4, <1>5, <1>7, ReseqIs
<1>9. SeqsOf(u) \subseteq SeqsOf(t) \union {s}
  BY <1>3, <1>4, <1>5 DEF SeqsOf
<1>10. QED
  BY <1>8, <1>9 DEF u

\* Removing leaves leaves the others.
LEMMA RemoveIs ==
    ASSUME NEW t, SoundTree(t), NEW R
    PROVE  /\ SoundTree(RemoveLeaves(t, R)) /\ Leaves(RemoveLeaves(t, R)) = Leaves(t) \ R
           /\ SeqsOf(RemoveLeaves(t, R)) \subseteq SeqsOf(t)
<1> DEFINE keep == UNION {Path(l, PathLen(t, l)) : l \in Leaves(t) \ R}
           u == RemoveLeaves(t, R)
<1>1. /\ Rooted(t) /\ IsFiniteSet(DOMAIN t)
      /\ \A x \in DOMAIN t : x \in Revs /\ t[x] \in Node
      /\ \A l \in Leaves(t) : l \in DOMAIN t /\ Stored(t, l)
  BY SoundIsRooted
<1>2. ASSUME NEW l \in Leaves(t)
      PROVE  /\ l \in Revs /\ PathLen(t, l) \in 1..Pos(l) /\ Path(l, PathLen(t, l)) \subseteq DOMAIN t
             /\ ~t[History[l][PathLen(t, l)]].linked
  <2>1. l \in DOMAIN t /\ IsPathLen(t, l, PathLen(t, l))
    BY <1>1, PathLenIs
  <2>2. QED
    BY <1>1, <2>1, RootIs DEF IsPathLen
<1>3. u = [x \in keep |-> t[x]]
  BY DEF RemoveLeaves
<1>4. keep \subseteq DOMAIN t
  BY <1>2
<1>5. Leaves(t) \ R \subseteq keep
  BY <1>2, PathIs
<1>6. ASSUME NEW x \in keep
      PROVE  /\ t[x].linked => Pos(x) > 1 /\ History[x][2] \in keep
             /\ x \notin Leaves(t) \ R => \E c \in keep : ChildOf(t, c, x)
  <2>1. PICK l \in Leaves(t) \ R : x \in Path(l, PathLen(t, l))
    OBVIOUS
  <2> DEFINE n == PathLen(t, l)
  <2>2. l \in Revs /\ n \in 1..Pos(l) /\ ~t[History[l][n]].linked /\ IsPathLen(t, l, n)
    BY <1>1, <1>2, <2>1, PathLenIs
  <2>3. \A c \in Path(l, n) \ {History[l][n]} : t[c].linked
    <3>1. \A c \in Path(l, n - 1) : t[c].linked
      BY <2>2 DEF IsPathLen, Path
    <3>2. QED
      BY <2>2, <3>1, PathBelow
  <2>4. Path(l, n) \subseteq keep
    BY <2>1
  <2> HIDE DEF n, keep
  <2>5. t[x].linked => Pos(x) > 1 /\ History[x][2] \in keep
    BY <2>1, <2>2, <2>4, PathIs DEF n
  <2>6. ASSUME x \notin Leaves(t) \ R
        PROVE  \E c \in keep : ChildOf(t, c, x)
    <3>1. x # l
      BY <2>1, <2>6
    <3>2. PICK c \in Path(l, n) \ {History[l][n]} : Pos(c) > 1 /\ History[c][2] = x
      BY <2>1, <2>2, <3>1, PathIs DEF n
    <3>3. QED
      BY <2>3, <2>4, <3>2 DEF ChildOf
  <2>7. QED
    BY <2>5, <2>6
<1>7. DOMAIN u = keep /\ (\A x \in keep : u[x] = t[x]) /\ u = [x \in keep |-> u[x]]
  BY <1>3
<1> HIDE DEF u, keep
<1>8. IsTree(u)
  BY <1>1, <1>4, <1>7, TreeIs
<1>9. IsFiniteSet(DOMAIN u)
  BY <1>1, <1>4, <1>7, FS_Subset
<1>10. Leaves(u) = Leaves(t) \ R
  <2>1. \A c, x \in keep : ChildOf(u, c, x) <=> ChildOf(t, c, x)
    BY <1>7 DEF ChildOf
  <2>2. \A x \in Leaves(u) : x \in Leaves(t) \ R
    BY <1>6, <1>7, <2>1 DEF Leaves
  <2>3. \A x \in Leaves(t) \ R : x \in Leaves(u)
    BY <1>4, <1>5, <1>7, <2>1 DEF Leaves
  <2>4. QED
    BY <2>2, <2>3
<1>11. WellFormed(u)
  <2>1. \A x \in DOMAIN u : u[x].linked => Pos(x) > 1 /\ History[x][2] \in DOMAIN u
    BY <1>6, <1>7
  <2>2. \A l \in Leaves(u) : Stored(u, l)
    BY <1>1, <1>5, <1>7, <1>10 DEF Stored
  <2>3. QED
    BY <2>1, <2>2 DEF WellFormed
<1>12. SeqsOf(u) \subseteq SeqsOf(t)
  BY <1>4, <1>7 DEF SeqsOf
<1>13. QED
  BY <1>8, <1>9, <1>10, <1>11, <1>12 DEF SoundTree, u

\* A document is listed under a seq one of its leaves is stored under.
LEMMA DocSeqIs ==
    ASSUME NEW t, SoundTree(t), Exists(t), NEW n \in Nat, SeqsOf(t) \subseteq 1..n
    PROVE  /\ Leaves(t) # {} /\ DocSeq(t) \in SeqsOf(t) /\ DocSeq(t) \in 1..n
           /\ DocSeq(t) \in Nat /\ DocSeq(t) > 0
<1> DEFINE Q == {t[l].seq : l \in Leaves(t)}
           f == [l \in Leaves(t) |-> t[l].seq]
<1>1. /\ IsTree(t) /\ IsFiniteSet(DOMAIN t)
      /\ \A l \in Leaves(t) : l \in DOMAIN t /\ t[l].seq # Missing
  BY SoundIsRooted DEF Stored
<1>2. \A l \in Leaves(t) : t[l].seq \in SeqsOf(t) /\ t[l].seq \in 1..n
  BY <1>1 DEF SeqsOf
<1>3. Leaves(t) # {}
  BY <1>1, LeafAbove DEF Exists
<1>4. IsFiniteSet(Leaves(t))
  <2>1. Leaves(t) \subseteq DOMAIN t
    BY <1>1
  <2>2. QED
    BY <1>1, <2>1, FS_Subset
<1>5. PICK l \in Leaves(t) : \A k \in Leaves(t) : f[k] <= f[l]
  <2>1. f \in [Leaves(t) -> Nat]
    BY <1>2
  <2> HIDE DEF f
  <2>2. QED
    BY <1>3, <1>4, <2>1, GreatestExists
<1>6. t[l].seq \in Q /\ \A s \in Q : s <= t[l].seq
  BY <1>5
<1>7. Q # {} /\ DocSeq(t) = CHOOSE s \in Q : \A s2 \in Q : s2 <= s
  BY <1>6 DEF DocSeq
<1>8. DocSeq(t) \in Q
  <2> HIDE DEF Q
  <2>1. QED
    BY <1>6, <1>7
<1>9. QED
  BY <1>2, <1>3, <1>8

\* A copied tree has its leaves, and the seq it is listed under.
LEMMA CompactIs ==
    ASSUME NEW t, SoundTree(t)
    PROVE  /\ SoundTree(CompactTree(t)) /\ Leaves(CompactTree(t)) = Leaves(t)
           /\ DOMAIN CompactTree(t) = DOMAIN t
           /\ SeqsOf(CompactTree(t)) \subseteq SeqsOf(t)
           /\ DocSeq(CompactTree(t)) = DocSeq(t)
<1> DEFINE u == CompactTree(t)
<1>1. \A x \in DOMAIN t : t[x] \in Node /\ (x \in Leaves(t) => t[x].seq # Missing)
  BY SoundIsRooted DEF Stored
<1>2. u = [x \in DOMAIN t |-> IF x \in Leaves(t) THEN t[x] ELSE [t[x] EXCEPT !.seq = Missing]]
  BY DEF CompactTree
<1> HIDE DEF u
<1>3. DOMAIN u = DOMAIN t /\ u = [x \in DOMAIN t |-> u[x]]
  BY <1>2
<1>4. ASSUME NEW x \in DOMAIN t
      PROVE  /\ u[x] \in Node /\ u[x].linked = t[x].linked
             /\ u[x].seq = IF x \in Leaves(t) THEN t[x].seq ELSE Missing
  <2>1. u[x] = IF x \in Leaves(t) THEN t[x] ELSE [t[x] EXCEPT !.seq = Missing]
    BY <1>2
  <2>2. t[x] \in Node
    BY <1>1
  <2>3. QED
    BY <2>1, <2>2, NodeIs, SeqsAre
<1>5. \A x \in Leaves(t) : x \in DOMAIN t
  BY DEF Leaves
<1>6. \A x \in Leaves(t) : u[x].seq = t[x].seq /\ u[x].seq # Missing
  BY <1>1, <1>4, <1>5
<1>7. SoundTree(u) /\ Leaves(u) = Leaves(t)
  BY <1>3, <1>4, <1>6, ReseqIs
<1>8. SeqsOf(u) \subseteq SeqsOf(t)
  BY <1>3, <1>4 DEF SeqsOf
<1>9. {u[l].seq : l \in Leaves(u)} = {t[l].seq : l \in Leaves(t)}
  BY <1>6, <1>7
<1>10. DocSeq(u) = DocSeq(t)
  <2> DEFINE TopSeq(Q) == IF Q = {} THEN 0 ELSE CHOOSE s \in Q : \A s2 \in Q : s2 <= s
  <2>1. /\ DocSeq(u) = TopSeq({u[l].seq : l \in Leaves(u)})
        /\ DocSeq(t) = TopSeq({t[l].seq : l \in Leaves(t)})
    BY DEF DocSeq
  <2> HIDE DEF TopSeq
  <2>2. QED
    BY <1>9, <2>1
<1>11. QED
  BY <1>3, <1>7, <1>8, <1>10 DEF u

-----------------------------------------------------------------------------
(* An interactive edit                                                      *)

\* A document that exists has a winning revision among its leaves.
LEMMA WinnerIs ==
    ASSUME NEW t, SoundTree(t), Exists(t)
    PROVE  Winner(t) \in Leaves(t) /\ \A q \in Leaves(t) \ {Winner(t)} : Beats(t, Winner(t), q)
<1> DEFINE K == Leaves(t)
           Live == {l \in K : ~IsDeleted(t, l)}
           Field == IF Live = {} THEN K ELSE Live
           f == [l \in Field |-> Pos(l)]
           Top == {l \in Field : \A k \in Field : Pos(k) <= Pos(l)}
           g == [l \in Top |-> l]
<1>1. IsTree(t) /\ IsFiniteSet(DOMAIN t) /\ K \subseteq DOMAIN t /\ DOMAIN t \subseteq Revs
  BY SoundIsRooted DEF IsTree
<1>2. \A l \in K : l \in Revs /\ l \in Nat /\ Pos(l) \in Nat
  BY <1>1, HistoryIs, RevsAssumption
<1>3. K # {}
  BY <1>1, LeafAbove DEF Exists
<1>4. Field # {} /\ Field \subseteq K
  BY <1>3
<1>5. IsFiniteSet(Field)
  BY <1>1, <1>4, FS_Subset
<1>6. PICK m \in Field : \A k \in Field : f[k] <= f[m]
  <2>1. f \in [Field -> Nat]
    BY <1>2, <1>4
  <2> HIDE DEF f, Field
  <2>2. QED
    BY <1>4, <1>5, <2>1, GreatestExists
<1>7. m \in Top
  BY <1>6
<1>8. IsFiniteSet(Top) /\ Top \subseteq Field
  BY <1>5, FS_Subset
<1>9. PICK w \in Top : \A k \in Top : g[k] <= g[w]
  <2>1. g \in [Top -> Nat]
    BY <1>2, <1>4
  <2>2. Top # {}
    BY <1>7
  <2> HIDE DEF g, Top
  <2>3. QED
    BY <1>8, <2>1, <2>2, GreatestExists
<1>10. ASSUME NEW q \in K \ {w}
       PROVE  Beats(t, w, q)
  <2>1. w \in Field /\ w \in K /\ w \in Nat /\ q \in Nat /\ Pos(w) \in Nat /\ Pos(q) \in Nat
    BY <1>2, <1>4, <1>8
  <2>2. CASE q \in Field
    <3>1. IsDeleted(t, w) = IsDeleted(t, q)
      BY <2>1, <2>2 DEF IsDeleted
    <3>2. Pos(q) <= Pos(w)
      BY <1>9, <2>2
    <3>3. Pos(q) = Pos(w) => q \in Top /\ q <= w
      BY <1>9, <2>2
    <3>4. QED
      BY <1>10, <2>1, <3>1, <3>2, <3>3 DEF Beats
  <2>3. CASE q \notin Field
    <3>1. IsDeleted(t, q) /\ ~IsDeleted(t, w)
      BY <2>1, <2>3
    <3>2. QED
      BY <3>1 DEF Beats
  <2>4. QED
    BY <2>2, <2>3
<1>11. w \in K
  BY <1>4, <1>8
<1>12. QED
  BY <1>10, <1>11 DEF Winner

\* An edit on a leaf takes its place, unless the tree had the revision already.
LEMMA EditIs ==
    ASSUME NEW t, SoundTree(t), NEW parent \in Leaves(t), NEW r \in Revs,
           Pos(r) > 1, History[r][2] = parent, NEW n, n = PathLen(t, parent) + 1
    PROVE  /\ n \in 1..Pos(r)
           /\ \/ Leaves(Merge(t, r, n)) \subseteq Leaves(t)
              \/ Leaves(Merge(t, r, n)) \subseteq {r} \union (Leaves(t) \ {parent})
<1> DEFINE start == History[r][n]
           roots == Connecting(t, r, n)
<1>1. Rooted(t) /\ parent \in DOMAIN t /\ DOMAIN t \subseteq Revs
  BY SoundIsRooted DEF Rooted, IsTree
<1>2. /\ Pos(parent) = Pos(r) - 1 /\ Pos(r) \in Nat /\ History[r][1] = r
      /\ \A j \in 1..(Pos(r) - 1) : History[parent][j] = History[r][j + 1]
  BY HistoryIs, ParentIs
<1>3. /\ IsPathLen(t, parent, n - 1) /\ n - 1 \in 1..(Pos(r) - 1) /\ n \in 1..Pos(r)
      /\ n \in Nat /\ n > 1
  <2>1. IsPathLen(t, parent, PathLen(t, parent))
    BY <1>1, PathLenIs
  <2>2. PathLen(t, parent) \in 1..(Pos(r) - 1)
    BY <1>2, <2>1 DEF IsPathLen
  <2>3. PathLen(t, parent) = n - 1
    BY <2>2
  <2>4. QED
    BY <1>2, <2>1, <2>2, <2>3
<1>4. start = History[parent][n - 1]
  BY <1>2, <1>3
<1>5. start \in DOMAIN t /\ ~t[start].linked
  <2>1. n - 1 \in 1..(n - 1)
    BY <1>3
  <2>2. QED
    BY <1>3, <1>4, <2>1 DEF IsPathLen
<1>6. \A i \in 2..(n - 1) : History[r][i] \in DOMAIN t /\ t[History[r][i]].linked
  <2> TAKE i \in 2..(n - 1)
  <2>1. i - 1 \in 1..(n - 2) /\ i - 1 \in 1..(n - 1) /\ i - 1 \in 1..(Pos(r) - 1) /\ (i - 1) + 1 = i
    BY <1>2, <1>3
  <2>2. History[r][i] = History[parent][i - 1]
    BY <1>2, <2>1
  <2>3. i - 1 \in 1..((n - 1) - 1)
    BY <1>3, <2>1
  <2>4. QED
    BY <1>3, <2>1, <2>2, <2>3 DEF IsPathLen
<1>7. \A x \in Path(r, n) \ {start} : x # r => x \in DOMAIN t /\ t[x].linked
  <2> TAKE x \in Path(r, n) \ {start}
  <2>1. PICK i \in 1..n : x = History[r][i]
    BY DEF Path
  <2>2. x # r => i \in 2..(n - 1)
    BY <1>2, <1>3, <2>1
  <2>3. QED
    BY <1>6, <2>1, <2>2
<1>8. r \in Path(r, n) /\ parent \in Path(r, n) /\ r # start /\ r # parent
  <2>1. parent \in Path(r, n)
    <3>1. 2 \in 1..n
      BY <1>3
    <3>2. QED
      BY <3>1 DEF Path
  <2>2. r # start
    <3>1. Pos(start) = Pos(r) - n + 1
      BY <1>3, AncestorIs
    <3>2. QED
      BY <1>2, <1>3, <3>1
  <2>3. r # parent
    BY <1>2
  <2>4. QED
    BY <1>3, <2>1, <2>2, <2>3, PathIs
<1>9. RootOf(t, parent) = start
  <2>1. PathLen(t, parent) = n - 1
    BY <1>1, <1>3, PathLenIs
  <2>2. QED
    BY <1>4, <2>1 DEF RootOf
<1>10. RootOf(t, start) = start
  <2>1. IsPathLen(t, start, 1)
    <3>1. start \in Revs
      BY <1>1, <1>5
    <3>2. 1 \in 1..Pos(start) /\ History[start][1] = start
      BY <3>1, HistoryIs
    <3>3. \A i \in 1..1 : i = 1
      OBVIOUS
    <3> HIDE DEF start
    <3>4. QED
      BY <1>5, <3>2, <3>3 DEF IsPathLen
  <2>2. PathLen(t, start) = 1
    BY <1>1, <1>5, <2>1, PathLenIs
  <2>3. History[start][1] = start
    BY <1>1, <1>5, HistoryIs
  <2>4. QED
    BY <2>2, <2>3 DEF RootOf
<1>11. roots = {root \in {x \in DOMAIN t : ~t[x].linked} :
                   root \in Path(r, n) \ {start} \/ root = start}
  BY <1>5, <1>10 DEF Connecting, Members
<1>12. SoundTree(t) /\ n \in 1..Pos(r)
  BY <1>3
<1>13. CASE r \in DOMAIN t
  <2>1. ~t[r].linked
    BY <1>13 DEF Leaves, ChildOf
  <2>2. roots = {r, start}
    BY <1>5, <1>7, <1>8, <1>11, <1>13, <2>1
  <2>3. Pos(start) < Pos(r) /\ Pos(start) \in Nat
    <3>1. Pos(start) = Pos(r) - n + 1
      BY <1>3, AncestorIs
    <3>2. QED
      BY <1>2, <1>3, <3>1
  <2>4. (CHOOSE x \in roots : \A y \in roots : Pos(y) <= Pos(x)) = r
    <3> HIDE DEF roots, start
    <3>1. QED
      BY <1>2, <2>2, <2>3
  <2>5. Target(t, r, n) = Members(t, r)
    BY <2>2, <2>4 DEF Target
  <2>6. RootOf(t, r) = r
    <3>1. IsPathLen(t, r, 1)
      <4>1. 1 \in 1..Pos(r)
        BY <1>2
      <4>2. \A i \in 1..1 : i = 1
        OBVIOUS
      <4>3. QED
        BY <1>2, <1>13, <2>1, <4>1, <4>2 DEF IsPathLen
    <3>2. PathLen(t, r) = 1
      BY <1>1, <1>13, <3>1, PathLenIs
    <3>3. QED
      BY <1>2, <3>2 DEF RootOf
  <2>7. r \in Target(t, r, n)
    BY <1>13, <2>5, <2>6 DEF Members
  <2>8. QED
    BY <1>12, <2>7, MergeIs
<1>14. CASE r \notin DOMAIN t
  <2>1. roots = {start}
    BY <1>5, <1>7, <1>11, <1>14
  <2>2. start \in Revs /\ Pos(start) \in Nat
    BY <1>1, <1>5, HistoryIs
  <2>3. (CHOOSE x \in roots : \A y \in roots : Pos(y) <= Pos(x)) = start
    <3> HIDE DEF roots, start
    <3>1. QED
      BY <2>1, <2>2
  <2>4. Target(t, r, n) = Members(t, start)
    BY <2>1, <2>3 DEF Target
  <2>5. parent \in Target(t, r, n) \intersect Path(r, n)
    BY <1>1, <1>8, <1>9, <2>4 DEF Members
  <2>6. QED
    BY <1>12, <2>5, MergeIs
<1>15. QED
  BY <1>3, <1>13, <1>14

-----------------------------------------------------------------------------
(* Images                                                                   *)

LEMMA ImageParts ==
    ASSUME NEW h, IsImage(h)
    PROVE  /\ h.seq \in Nat /\ h.native \in BOOLEAN
           /\ \A d \in Docs : IsTree(h.ids[d])
           /\ \A s \in DOMAIN h.rows : s \in Nat /\ h.rows[s].doc \in Docs
BY DEF IsImage

\* What a part of an image may be.
IsIds(i) == i = [d \in Docs |-> i[d]] /\ \A d \in Docs : IsTree(i[d])

IsRows(r) ==
    /\ r = [q \in DOMAIN r |-> r[q]]
    /\ \A q \in DOMAIN r : /\ q \in Nat /\ r[q] = [doc |-> r[q].doc, tree |-> r[q].tree]
                           /\ r[q].doc \in Docs /\ IsTree(r[q].tree)

LEMMA ImageIsMade ==
    ASSUME NEW h, IsImage(h)
    PROVE  /\ h = [ids |-> h.ids, rows |-> h.rows, seq |-> h.seq, local |-> h.local,
                   security |-> h.security, native |-> h.native]
           /\ IsIds(h.ids) /\ IsRows(h.rows) /\ h.seq \in Nat
           /\ h.local \in [LocalIds -> Nat] /\ h.security \in Securities /\ h.native \in BOOLEAN
BY DEF IsImage, IsIds, IsRows

\* An image is made of its parts.
LEMMA MadeIsImage ==
    ASSUME NEW i, NEW r, NEW s \in Nat, NEW l, NEW c \in Securities, NEW n \in BOOLEAN,
           IsIds(i), IsRows(r), l \in [LocalIds -> Nat]
    PROVE  IsImage([ids |-> i, rows |-> r, seq |-> s, local |-> l, security |-> c, native |-> n])
<1> DEFINE h == [ids |-> i, rows |-> r, seq |-> s, local |-> l, security |-> c, native |-> n]
<1>1. /\ h.ids = i /\ h.rows = r /\ h.seq = s /\ h.local = l /\ h.security = c /\ h.native = n
      /\ h = [ids |-> i, rows |-> r, seq |-> s, local |-> l, security |-> c, native |-> n]
  OBVIOUS
<1> HIDE DEF h
<1>2. h = [ids |-> h.ids, rows |-> h.rows, seq |-> h.seq, local |-> h.local,
           security |-> h.security, native |-> h.native]
  BY <1>1
<1>3. h.ids = [d \in Docs |-> h.ids[d]] /\ \A d \in Docs : IsTree(h.ids[d])
  BY <1>1 DEF IsIds
<1>4. /\ h.rows = [q \in DOMAIN h.rows |-> h.rows[q]]
      /\ \A q \in DOMAIN h.rows :
           /\ q \in Nat /\ h.rows[q] = [doc |-> h.rows[q].doc, tree |-> h.rows[q].tree]
           /\ h.rows[q].doc \in Docs /\ IsTree(h.rows[q].tree)
  BY <1>1 DEF IsRows
<1>5. h.seq \in Nat /\ h.local \in [LocalIds -> Nat] /\ h.security \in Securities
      /\ h.native \in BOOLEAN
  BY <1>1
<1>6. IsImage(h)
  BY <1>2, <1>3, <1>4, <1>5 DEF IsImage
<1>7. QED
  BY <1>6 DEF h

\* g is the image of these parts.
Made(g, i, r, s, n) ==
    IsImage(g) /\ g.ids = i /\ g.rows = r /\ g.seq = s /\ g.native = n

LEMMA WithSeq ==
    ASSUME NEW h, IsImage(h), NEW s \in Nat
    PROVE  Made([h EXCEPT !.seq = s], h.ids, h.rows, s, h.native)
<1> DEFINE g == [ids |-> h.ids, rows |-> h.rows, seq |-> s, local |-> h.local,
                 security |-> h.security, native |-> h.native]
<1>1. [h EXCEPT !.seq = s] = g
  BY ImageIsMade
<1>2. IsImage(g)
  BY ImageIsMade, MadeIsImage
<1>3. QED
  BY <1>1, <1>2 DEF Made

LEMMA WithIds ==
    ASSUME NEW h, IsImage(h), NEW i, IsIds(i)
    PROVE  Made([h EXCEPT !.ids = i], i, h.rows, h.seq, h.native)
<1> DEFINE g == [ids |-> i, rows |-> h.rows, seq |-> h.seq, local |-> h.local,
                 security |-> h.security, native |-> h.native]
<1>1. [h EXCEPT !.ids = i] = g
  BY ImageIsMade
<1>2. IsImage(g)
  BY ImageIsMade, MadeIsImage
<1>3. QED
  BY <1>1, <1>2 DEF Made

LEMMA WithRows ==
    ASSUME NEW h, IsImage(h), NEW r, IsRows(r)
    PROVE  Made([h EXCEPT !.rows = r], h.ids, r, h.seq, h.native)
<1> DEFINE g == [ids |-> h.ids, rows |-> r, seq |-> h.seq, local |-> h.local,
                 security |-> h.security, native |-> h.native]
<1>1. [h EXCEPT !.rows = r] = g
  BY ImageIsMade
<1>2. IsImage(g)
  BY ImageIsMade, MadeIsImage
<1>3. QED
  BY <1>1, <1>2 DEF Made

LEMMA WithLocal ==
    ASSUME NEW h, IsImage(h), NEW k \in LocalIds, NEW v \in Nat
    PROVE  Made([h EXCEPT !.local[k] = v], h.ids, h.rows, h.seq, h.native)
<1> DEFINE l == [h.local EXCEPT ![k] = v]
           g == [ids |-> h.ids, rows |-> h.rows, seq |-> h.seq, local |-> l,
                 security |-> h.security, native |-> h.native]
<1>1. [h EXCEPT !.local[k] = v] = g
  <2>1. [h EXCEPT !.local[k] = v] = [h EXCEPT !.local = l]
    OBVIOUS
  <2> HIDE DEF l
  <2>2. QED
    BY <2>1, ImageIsMade
<1>2. l \in [LocalIds -> Nat]
  <2>1. h.local \in [LocalIds -> Nat]
    BY ImageIsMade
  <2>2. QED
    BY <2>1
<1> HIDE DEF l
<1>3. IsImage(g)
  BY <1>2, ImageIsMade, MadeIsImage
<1>4. QED
  BY <1>1, <1>3 DEF Made

LEMMA WithSecurity ==
    ASSUME NEW h, IsImage(h), NEW c \in Securities
    PROVE  Made([h EXCEPT !.security = c], h.ids, h.rows, h.seq, h.native)
<1> DEFINE g == [ids |-> h.ids, rows |-> h.rows, seq |-> h.seq, local |-> h.local,
                 security |-> c, native |-> h.native]
<1>1. [h EXCEPT !.security = c] = g
  BY ImageIsMade
<1>2. IsImage(g)
  BY ImageIsMade, MadeIsImage
<1>3. QED
  BY <1>1, <1>2 DEF Made

LEMMA WithNative ==
    ASSUME NEW h, IsImage(h), NEW b \in BOOLEAN
    PROVE  Made([h EXCEPT !.native = b], h.ids, h.rows, h.seq, b)
<1> DEFINE g == [ids |-> h.ids, rows |-> h.rows, seq |-> h.seq, local |-> h.local,
                 security |-> h.security, native |-> b]
<1>1. [h EXCEPT !.native = b] = g
  BY ImageIsMade
<1>2. IsImage(g)
  BY ImageIsMade, MadeIsImage
<1>3. QED
  BY <1>1, <1>2 DEF Made

\* A document of a sound image that exists is listed under a seq of its own.
LEMMA ListedIs ==
    ASSUME NEW h, IsImage(h), ImageIsSound(h), NEW d \in Docs, Exists(h.ids[d])
    PROVE  /\ DocSeq(h.ids[d]) \in SeqsOf(h.ids[d]) /\ DocSeq(h.ids[d]) \in 1..h.seq
           /\ \A e \in Docs : Exists(h.ids[e]) /\ DocSeq(h.ids[e]) = DocSeq(h.ids[d]) => e = d
<1>1. h.seq \in Nat
  BY ImageParts
<1>2. \A e \in Docs : Exists(h.ids[e]) =>
        DocSeq(h.ids[e]) \in SeqsOf(h.ids[e]) /\ DocSeq(h.ids[e]) \in 1..h.seq
  BY <1>1, DocSeqIs DEF ImageIsSound
<1>3. QED
  BY <1>2 DEF ImageIsSound

\* The copy of a sound image is sound, and lists its documents.
LEMMA CompactedIs ==
    ASSUME NEW h, IsImage(h), ImageIsSound(h)
    PROVE  /\ IsImage(Compacted(h)) /\ ImageIsSound(Compacted(h)) /\ Mirrors(Compacted(h))
           /\ Compacted(h).seq = h.seq /\ Compacted(h).native = h.native
           /\ \A d \in Docs : Leaves(Compacted(h).ids[d]) = Leaves(h.ids[d])
<1> DEFINE docs == {d \in Docs : Exists(h.ids[d])}
           ids == [d \in Docs |-> CompactTree(h.ids[d])]
           seqs == {DocSeq(h.ids[d]) : d \in docs}
           row(s) == LET d == CHOOSE d \in docs : DocSeq(h.ids[d]) = s
                     IN  [doc |-> d, tree |-> ids[d]]
           rows == [s \in seqs |-> row(s)]
           g == [ids |-> ids, rows |-> rows, seq |-> h.seq, local |-> h.local,
                 security |-> h.security, native |-> h.native]
<1>1. Compacted(h) = g
  <2>1. Compacted(h) = [h EXCEPT !.ids = ids, !.rows = rows]
    BY DEF Compacted
  <2> HIDE DEF ids, rows
  <2>2. QED
    BY <2>1, ImageIsMade
<1>2. \A d \in Docs : /\ SoundTree(ids[d]) /\ DOMAIN ids[d] = DOMAIN h.ids[d]
                      /\ SeqsOf(ids[d]) \subseteq SeqsOf(h.ids[d])
                      /\ DocSeq(ids[d]) = DocSeq(h.ids[d])
                      /\ Leaves(ids[d]) = Leaves(h.ids[d])
  BY CompactIs DEF ImageIsSound
<1>3. IsIds(ids)
  BY <1>2, SoundIsRooted DEF IsIds
<1>4. ASSUME NEW d \in docs
      PROVE  /\ DocSeq(h.ids[d]) \in seqs /\ DocSeq(h.ids[d]) \in 1..h.seq
             /\ row(DocSeq(h.ids[d])) = [doc |-> d, tree |-> ids[d]]
  <2> DEFINE e == CHOOSE e \in docs : DocSeq(h.ids[e]) = DocSeq(h.ids[d])
  <2>1. e \in docs /\ DocSeq(h.ids[e]) = DocSeq(h.ids[d])
    OBVIOUS
  <2>2. e = d
    BY <2>1, ListedIs
  <2>3. row(DocSeq(h.ids[d])) = [doc |-> e, tree |-> ids[e]]
    OBVIOUS
  <2>4. QED
    BY <2>2, <2>3, ListedIs
<1> HIDE DEF ids, row
<1>5. \A d \in docs : rows[DocSeq(h.ids[d])] = [doc |-> d, tree |-> ids[d]]
  BY <1>4
<1>6. DOMAIN rows = seqs /\ rows = [s \in seqs |-> rows[s]]
  OBVIOUS
<1>7. \A s \in seqs : s \in 1..h.seq /\ \E d \in docs : s = DocSeq(h.ids[d]) /\ rows[s] = [doc |-> d, tree |-> ids[d]]
  BY <1>4, <1>5
<1> HIDE DEF rows
<1>8. IsRows(rows)
  <2>1. ASSUME NEW s \in seqs
        PROVE  /\ s \in Nat /\ rows[s] = [doc |-> rows[s].doc, tree |-> rows[s].tree]
               /\ rows[s].doc \in Docs /\ IsTree(rows[s].tree)
    <3>1. PICK d \in docs : rows[s] = [doc |-> d, tree |-> ids[d]]
      BY <1>7
    <3>2. s \in Nat
      BY <1>7
    <3>3. IsTree(ids[d])
      BY <1>3 DEF IsIds
    <3>4. rows[s].doc = d /\ rows[s].tree = ids[d]
      BY <3>1
    <3>5. QED
      BY <3>1, <3>2, <3>3, <3>4
  <2>2. QED
    BY <1>6, <2>1 DEF IsRows
<1>9. IsImage(g)
  BY <1>3, <1>8, ImageIsMade, MadeIsImage
<1>10. g.ids = ids /\ g.rows = rows /\ g.seq = h.seq /\ g.native = h.native
  OBVIOUS
<1> HIDE DEF g
<1>11. ImageIsSound(g)
  <2>1. \A d \in Docs : SeqsOf(h.ids[d]) \subseteq 1..h.seq
    BY DEF ImageIsSound
  <2>2. \A d, e \in Docs : d # e => SeqsOf(h.ids[d]) \intersect SeqsOf(h.ids[e]) = {}
    BY DEF ImageIsSound
  <2>3. \A d, e \in Docs : d # e => SeqsOf(ids[d]) \intersect SeqsOf(ids[e]) = {}
    BY <1>2, <2>2
  <2>4. \A s \in DOMAIN rows : s <= h.seq
    BY <1>6, <1>7
  <2>5. QED
    BY <1>2, <1>10, <2>1, <2>3, <2>4 DEF ImageIsSound
<1>12. Mirrors(g)
  <2>1. \A d \in Docs : Exists(ids[d]) <=> d \in docs
    BY <1>2 DEF Exists
  <2>2. \A d \in docs : DocSeq(ids[d]) \in DOMAIN rows /\ rows[DocSeq(ids[d])] = [doc |-> d, tree |-> ids[d]]
    BY <1>2, <1>4, <1>5, <1>6
  <2>3. ASSUME NEW s \in DOMAIN rows
        PROVE  Exists(ids[rows[s].doc]) /\ DocSeq(ids[rows[s].doc]) = s
    <3>1. PICK d \in docs : s = DocSeq(h.ids[d]) /\ rows[s] = [doc |-> d, tree |-> ids[d]]
      BY <1>6, <1>7
    <3>2. rows[s].doc = d
      BY <3>1
    <3>3. QED
      BY <1>2, <2>1, <3>1, <3>2
  <2> HIDE DEF docs, seqs
  <2>4. QED
    BY <1>10, <2>1, <2>2, <2>3 DEF Mirrors
<1>13. \A d \in Docs : Leaves(g.ids[d]) = Leaves(h.ids[d])
  BY <1>2, <1>10
<1>14. QED
  BY <1>1, <1>9, <1>10, <1>11, <1>12, <1>13

-----------------------------------------------------------------------------
(* Nothing is lost                                                          *)

LEMMA OutlivesItself ==
    ASSUME NEW d, NEW t, IsTree(t)
    PROVE  Outlived(d, t, t)
<1>1. \A l \in Leaves(t) : l \in Revs
  BY DEF Leaves, IsTree
<1>2. QED
  BY <1>1, AncestryIsOrder DEF Outlived, Covers

LEMMA OutlivedIsOrder ==
    ASSUME PurgedIsWhole, NEW d, NEW t, NEW u, IsTree(u), NEW v, IsTree(v),
           Outlived(d, t, u), Outlived(d, u, v)
    PROVE  Outlived(d, t, v)
<1> SUFFICES ASSUME NEW l \in Leaves(t), <<d, l>> \notin purged PROVE Covers(v, l)
  BY DEF Outlived
<1>1. PICK m \in Leaves(u) : l \in Path(m, Pos(m))
  BY DEF Outlived, Covers
<1>2. <<d, m>> \notin purged
  <2>1. SUFFICES ASSUME <<d, m>> \in purged PROVE FALSE
    OBVIOUS
  <2>2. {d} \X Path(m, Pos(m)) \subseteq purged
    BY <2>1 DEF PurgedIsWhole
  <2>3. QED
    BY <1>1, <2>2
<1>3. PICK k \in Leaves(v) : m \in Path(k, Pos(k))
  BY <1>2 DEF Outlived, Covers
<1>4. k \in Revs
  BY DEF Leaves, IsTree
<1>5. l \in Path(k, Pos(k))
  BY <1>1, <1>3, <1>4, AncestryIsOrder
<1>6. QED
  BY <1>3, <1>5 DEF Covers

LEMMA SucceedsItself ==
    ASSUME NEW h, IsImage(h)
    PROVE  Succeeds(h, h)
BY ImageParts, OutlivesItself DEF Succeeds

LEMMA SucceedsIsOrder ==
    ASSUME PurgedIsWhole, NEW g, IsImage(g), NEW h, IsImage(h), NEW k, IsImage(k),
           Succeeds(g, h), Succeeds(h, k)
    PROVE  Succeeds(g, k)
<1>1. g.seq \in Nat /\ h.seq \in Nat /\ k.seq \in Nat /\ g.seq <= h.seq /\ h.seq <= k.seq
  BY ImageParts DEF Succeeds
<1>2. g.seq <= k.seq
  BY <1>1
<1>3. g.native => k.native
  BY DEF Succeeds
<1>4. ASSUME NEW d \in Docs
      PROVE  Outlived(d, g.ids[d], k.ids[d])
  <2>1. Outlived(d, g.ids[d], h.ids[d]) /\ Outlived(d, h.ids[d], k.ids[d])
    BY DEF Succeeds
  <2>2. IsTree(h.ids[d]) /\ IsTree(k.ids[d])
    BY ImageParts
  <2>3. QED
    BY <2>1, <2>2, OutlivedIsOrder
<1>5. QED
  BY <1>2, <1>3, <1>4 DEF Succeeds

\* What is done to the header and the seq loses no revision.
LEMMA SucceedsLike ==
    ASSUME NEW g, NEW h, Succeeds(g, h), NEW k, k.ids = h.ids,
           g.seq <= k.seq, h.native => k.native
    PROVE  Succeeds(g, k)
BY DEF Succeeds

-----------------------------------------------------------------------------
(* What steps have in common                                                *)

\* Nothing that a header reaches has changed.
LEMMA ImagesAsTheyWere ==
    ASSUME IInv, UNCHANGED <<work, written, disk, acked, purged>>
    PROVE  /\ \A h \in Images' : ImageIsSound(h)
           /\ ImagesSucceed' /\ PurgedIsWhole'
BY DEF IInv, Images, ImagesSucceed, Succeeds, Outlived, PurgedIsWhole

LEMMA FeedAsItWas ==
    ASSUME IInv, UNCHANGED <<work, written, disk, acked>>, torn => torn',
           pc # "seqTree", pc' # "seqTree"
    PROVE  FeedIsKept'
BY DEF IInv, FeedIsKept

\* A call that has ended has nothing in hand.
LEMMA CallOver ==
    ASSUME batch' = NoBatch, touched' = {}, plan' = NoPlan, ImageIsSound(work')
    PROVE  CallIsSound' /\ SeqsAreUsedOnce'
<1>1. DOMAIN batch' = {} /\ DOMAIN plan' = {}
  BY DEF NoBatch, NoPlan
<1>2. CallIsSound'
  BY <1>1 DEF CallIsSound
<1>3. \A d \in Docs : Used(d)' = SeqsOf(work'.ids[d])
  BY <1>1 DEF Used
<1>4. SeqsAreUsedOnce'
  BY <1>3 DEF SeqsAreUsedOnce, ImageIsSound
<1>5. QED
  BY <1>2, <1>4

\* No document has more seqs than before.
LEMMA UsedAsBefore ==
    ASSUME SeqsAreUsedOnce, work.seq \in Nat, work.seq' = work.seq,
           \A d \in Docs : Used(d)' \subseteq Used(d)
    PROVE  SeqsAreUsedOnce'
BY DEF SeqsAreUsedOnce

\* One document has the next seq.
LEMMA UsedNext ==
    ASSUME SeqsAreUsedOnce, work.seq \in Nat, work.seq' = work.seq + 1, NEW e \in Docs,
           \A d \in Docs \ {e} : Used(d)' \subseteq Used(d),
           Used(e)' \subseteq Used(e) \union {work.seq + 1}
    PROVE  SeqsAreUsedOnce'
<1> DEFINE n == work.seq
<1>1. \A d \in Docs : Used(d) \subseteq 1..n
  BY DEF SeqsAreUsedOnce
<1>2. \A d, f \in Docs : d # f => Used(d) \intersect Used(f) = {}
  BY DEF SeqsAreUsedOnce
<1>3. n \in Nat /\ n + 1 \notin 1..n /\ 1..n \subseteq 1..(n + 1) /\ n + 1 \in 1..(n + 1)
  OBVIOUS
<1> HIDE DEF n
<1>4. \A d \in Docs : Used(d)' \subseteq 1..(n + 1)
  BY <1>1, <1>3 DEF n
<1>5. \A d, f \in Docs : d # f => Used(d)' \intersect Used(f)' = {}
  <2> TAKE d, f \in Docs
  <2>1. n + 1 \notin Used(d) /\ n + 1 \notin Used(f)
    BY <1>1, <1>3
  <2>2. QED
    BY <1>2, <2>1 DEF n
<1>6. QED
  BY <1>4, <1>5 DEF SeqsAreUsedOnce, n

\* The parts of the type invariant that an image is.
LEMMA TypesAre ==
    ASSUME IInv
    PROVE  /\ \A h \in Images : IsImage(h) /\ ImageIsSound(h)
           /\ IsImage(work) /\ IsImage(written) /\ IsImage(disk) /\ IsImage(acked)
           /\ ImageIsSound(work) /\ ImageIsSound(written) /\ work.seq \in Nat
           /\ \A d \in Docs : SoundTree(work.ids[d])
<1>1. IsImage(work) /\ IsImage(written) /\ IsImage(disk) /\ IsImage(acked)
  BY DEF IInv, TypeOK
<1>2. \A h \in Images : ImageIsSound(h)
  BY DEF IInv
<1>3. work.seq \in Nat
  BY <1>1, ImageParts
<1>4. QED
  BY <1>1, <1>2, <1>3 DEF Images, ImageIsSound

-----------------------------------------------------------------------------
(* The calls that read and number                                           *)

\* An update merged into its document's tree, in a batch or by itself.
LEMMA MergeIntoKeeps ==
    ASSUME IInv, NEW d \in Docs, NEW r \in Revs, NEW n \in 1..Pos(r),
           pc \in {"ready", "merging"}, pc' \in {"merging", "numbering"},
           MergeInto(d, r, n), UNCHANGED <<work, written, disk, sound, plan, ghosts>>
    PROVE  IInv'
<1> DEFINE t == TreeInBatch(d)
           m == Merge(t, r, n)
<1>1. /\ plan = NoPlan /\ DOMAIN plan = {} /\ (pc = "ready" => DOMAIN batch = {})
      /\ touched \subseteq DOMAIN batch /\ DOMAIN batch \subseteq Docs /\ order \in Seq(Docs)
      /\ TypeOK /\ CallIsSound /\ SeqsAreUsedOnce
  BY DEF IInv, TypeOK, CallIsSound, NoPlan, NoBatch
<1>2. SoundTree(t) /\ Outlived(d, work.ids[d], t) /\ SeqsOf(t) \subseteq Used(d) \union {Pending}
  <2>1. CASE d \in DOMAIN batch
    <3>1. pc = "merging" /\ t = batch[d]
      BY <1>1, <2>1 DEF TreeInBatch
    <3>2. QED
      BY <1>1, <2>1, <3>1 DEF CallIsSound, Used
  <2>2. CASE d \notin DOMAIN batch
    <3>1. t = work.ids[d]
      BY <2>2 DEF TreeInBatch
    <3>2. SoundTree(t)
      BY <3>1, TypesAre
    <3>3. QED
      BY <3>1, <3>2, SoundIsRooted, OutlivesItself DEF Used
  <2>3. QED
    BY <2>1, <2>2
<1>3. SoundTree(m) /\ SeqsOf(m) \subseteq SeqsOf(t) \union {Pending} /\ Outlived(d, t, m)
  BY <1>2, MergeIs DEF Outlived
<1>4. /\ DOMAIN batch' = DOMAIN batch \union {d} /\ batch'[d] = m
      /\ \A x \in DOMAIN batch \ {d} : batch'[x] = batch[x]
      /\ batch' = [x \in DOMAIN batch' |-> batch'[x]]
  BY DEF MergeInto
<1>5. order' \in Seq(Docs) /\ touched' \subseteq DOMAIN batch' /\ synced' = FALSE
  BY <1>1, <1>4 DEF MergeInto
<1>6. Outlived(d, work.ids[d], m)
  <2>1. PurgedIsWhole /\ IsTree(t) /\ IsTree(m)
    BY <1>2, <1>3, SoundIsRooted DEF IInv
  <2>2. QED
    BY <1>2, <1>3, <2>1, OutlivedIsOrder
<1> HIDE DEF t, m
<1>7. TypeOK'
  <2>1. \A x \in DOMAIN batch' : IsTree(batch'[x])
    BY <1>1, <1>3, <1>4, SoundIsRooted DEF TypeOK
  <2>2. DOMAIN batch' \subseteq Docs
    BY <1>1, <1>4
  <2>3. touched' \subseteq Docs
    BY <1>5, <2>2
  <2>4. QED
    BY <1>1, <1>4, <1>5, <2>1, <2>2, <2>3 DEF TypeOK, ghosts
<1>8. \A h \in Images' : ImageIsSound(h)
  BY ImagesAsTheyWere DEF ghosts
<1>9. ImagesSucceed' /\ PurgedIsWhole'
  BY ImagesAsTheyWere DEF ghosts
<1>10. HeadersReachDisk'
  BY DEF HeadersReachDisk, IInv
<1>11. CallIsSound'
  <2>1. \A x \in DOMAIN batch' : SoundTree(batch'[x])
    BY <1>1, <1>3, <1>4 DEF CallIsSound
  <2>2. \A x \in DOMAIN batch' : Outlived(x, work.ids[x], batch'[x])
    BY <1>1, <1>4, <1>6 DEF CallIsSound
  <2>3. \A x \in DOMAIN batch' : \A l \in Leaves(work'.ids[x]) :
          <<x, l>> \in purged' \/ Covers(batch'[x], l)
    BY <2>2 DEF Outlived, ghosts
  <2>4. DOMAIN plan' = {} /\ plan' = NoPlan
    BY <1>1
  <2>5. QED
    BY <1>5, <2>1, <2>3, <2>4 DEF CallIsSound, Outlived
<1>12. SeqsAreUsedOnce'
  <2>1. ASSUME NEW x \in Docs
        PROVE  Used(x)' \subseteq Used(x)
    <3>1. CASE x = d
      <4>1. SeqsOf(batch'[x]) \ {Pending} \subseteq Used(x)
        BY <1>2, <1>3, <1>4, <3>1
      <4>2. QED
        BY <1>1, <4>1 DEF Used
    <3>2. CASE x # d
      BY <1>1, <1>4, <3>2 DEF Used
    <3>3. QED
      BY <3>1, <3>2
  <2>2. QED
    BY <1>1, <2>1, TypesAre, UsedAsBefore
<1>13. FeedIsKept'
  BY FeedAsItWas DEF ghosts
<1>14. QED
  BY <1>7, <1>8, <1>9, <1>10, <1>11, <1>12, <1>13 DEF IInv

LEMMA RejectBatchKeeps ==
    ASSUME IInv, RejectBatch
    PROVE  IInv'
<1>1. /\ UNCHANGED <<work, written, disk, synced, sound, plan, acked, purged, torn>>
      /\ pc = "merging" /\ pc' = "ready" /\ batch' = NoBatch /\ order' = <<>> /\ touched' = {}
  BY DEF RejectBatch, file, ghosts
<1>2. plan' = NoPlan
  BY <1>1 DEF IInv, CallIsSound
<1>3. TypeOK'
  <2>1. DOMAIN batch' = {} /\ batch' = [x \in DOMAIN batch' |-> batch'[x]] /\ order' \in Seq(Docs)
    BY <1>1 DEF NoBatch
  <2>2. QED
    BY <1>1, <2>1 DEF IInv, TypeOK
<1>4. (\A h \in Images' : ImageIsSound(h)) /\ ImagesSucceed' /\ PurgedIsWhole'
  BY <1>1, ImagesAsTheyWere
<1>5. CallIsSound' /\ SeqsAreUsedOnce'
  BY <1>1, <1>2, CallOver, TypesAre
<1>6. FeedIsKept'
  BY <1>1, FeedAsItWas
<1>7. HeadersReachDisk'
  BY <1>1 DEF HeadersReachDisk, IInv
<1>8. QED
  BY <1>3, <1>4, <1>5, <1>6, <1>7 DEF IInv

\* The end of a phase: only where the call stands changes.
LEMMA PhaseKeeps ==
    ASSUME IInv, BatchRead \/ BatchNumbered \/ PurgeRead \/ CommitFails
    PROVE  IInv'
<1>1. /\ UNCHANGED <<work, written, disk, synced, sound, batch, order, touched, plan,
                     acked, purged, torn>>
      /\ \/ pc = "merging" /\ pc' = "numbering"
         \/ pc = "numbering" /\ pc' = "idTree"
         \/ pc = "purging" /\ pc' = "idTree"
         \/ pc \in {"header", "sync"} /\ pc' = "ready"
  BY DEF BatchRead, BatchNumbered, PurgeRead, CommitFails, file, call, ghosts
<1>2. TypeOK'
  BY <1>1 DEF IInv, TypeOK
<1>3. (\A h \in Images' : ImageIsSound(h)) /\ ImagesSucceed' /\ PurgedIsWhole'
  BY <1>1, ImagesAsTheyWere
<1>4. CallIsSound'
  <2>1. pc = "merging" => DOMAIN plan = {}
    BY DEF IInv, CallIsSound, NoPlan
  <2>2. CallIsSound
    BY DEF IInv
  <2>3. QED
    BY <1>1, <2>1, <2>2 DEF CallIsSound, Outlived, OldSeq
<1>5. SeqsAreUsedOnce'
  BY <1>1 DEF IInv, SeqsAreUsedOnce, Used
<1>6. FeedIsKept'
  BY <1>1, FeedAsItWas
<1>7. HeadersReachDisk'
  BY <1>1 DEF HeadersReachDisk, IInv
<1>8. QED
  BY <1>2, <1>3, <1>4, <1>5, <1>6, <1>7 DEF IInv

\* The update seq handed out, and nothing else of the image.
LEMMA NextSeqIs ==
    ASSUME IInv, work' = [work EXCEPT !.seq = @ + 1]
    PROVE  /\ IsImage(work') /\ ImageIsSound(work') /\ work'.seq = work.seq + 1
           /\ work'.ids = work.ids /\ work'.rows = work.rows /\ work'.native = work.native
           /\ Mirrors(work) => Mirrors(work')
           /\ Succeeds(written, work) => Succeeds(written, work')
<1>1. Made(work', work.ids, work.rows, work.seq + 1, work.native)
  <2>1. work' = [work EXCEPT !.seq = work.seq + 1]
    OBVIOUS
  <2>2. IsImage(work) /\ work.seq + 1 \in Nat
    BY TypesAre
  <2>3. QED
    BY <2>1, <2>2, WithSeq
<1>2. /\ IsImage(work') /\ work'.ids = work.ids /\ work'.rows = work.rows
      /\ work'.seq = work.seq + 1 /\ work'.native = work.native
  BY <1>1 DEF Made
<1>3. work.seq \in Nat /\ written.seq \in Nat
  BY TypesAre, ImageParts
<1>4. 1..work.seq \subseteq 1..(work.seq + 1)
  BY <1>3
<1>5. ImageIsSound(work')
  <2>1. \A s \in DOMAIN work.rows : s \in Nat /\ s <= work.seq
    BY TypesAre, ImageParts DEF ImageIsSound
  <2>2. \A s \in DOMAIN work.rows : s <= work.seq + 1
    BY <1>3, <2>1
  <2>3. ImageIsSound(work)
    BY TypesAre
  <2>4. \A d \in Docs : SoundTree(work.ids[d]) /\ SeqsOf(work.ids[d]) \subseteq 1..(work.seq + 1)
    BY <1>4, <2>3 DEF ImageIsSound
  <2>5. \A d, e \in Docs : d # e => SeqsOf(work.ids[d]) \intersect SeqsOf(work.ids[e]) = {}
    BY <2>3 DEF ImageIsSound
  <2>6. QED
    BY <1>2, <2>2, <2>4, <2>5 DEF ImageIsSound
<1>6. Mirrors(work) => Mirrors(work')
  BY <1>2 DEF Mirrors
<1>7. Succeeds(written, work) => Succeeds(written, work')
  <2>1. written.seq <= work.seq => written.seq <= work.seq + 1
    BY <1>3
  <2>2. QED
    BY <1>2, <2>1, SucceedsLike DEF Succeeds
<1>8. QED
  BY <1>2, <1>5, <1>6, <1>7

\* A document's new tree planned, with the seq handed out for it if it has one.
LEMMA PlannedKeeps ==
    ASSUME IInv, NEW d \in Docs, NEW u, SoundTree(u), plan' = Planned(d, u),
           UNCHANGED <<written, disk, acked, synced, sound, batch, touched, torn>>,
           order' \in Seq(Docs),
           pc \in {"ready", "numbering", "purging"}, pc' \in {"numbering", "purging"},
           pc' = "numbering" => pc = "numbering",
           purged \subseteq purged', purged' \subseteq Docs \X Revs, PurgedIsWhole',
           \A l \in Leaves(work.ids[d]) : <<d, l>> \in purged' \/ Covers(u, l),
           \/ work' = work /\ SeqsOf(u) \subseteq Used(d)
           \/ work' = [work EXCEPT !.seq = @ + 1] /\ SeqsOf(u) \subseteq Used(d) \union {work.seq + 1}
    PROVE  IInv'
<1>1. /\ TypeOK /\ CallIsSound /\ SeqsAreUsedOnce /\ ImagesSucceed /\ FeedIsKept
      /\ HeadersReachDisk /\ DOMAIN plan \subseteq Docs /\ (pc = "ready" => DOMAIN plan = {})
      /\ \A x \in DOMAIN plan : plan[x] = [tree |-> plan[x].tree, old |-> plan[x].old]
      /\ \A x \in DOMAIN plan : plan[x].old = OldSeq(x)
      /\ \A x \in DOMAIN plan : SoundTree(plan[x].tree) /\ SeqsOf(plan[x].tree) \subseteq 1..work.seq
      /\ \A x \in DOMAIN plan : Outlived(x, work.ids[x], plan[x].tree)
  BY DEF IInv, TypeOK, CallIsSound, NoPlan
<1>2. /\ DOMAIN plan' = DOMAIN plan \union {d} /\ plan' = [x \in DOMAIN plan' |-> plan'[x]]
      /\ plan'[d] = [tree |-> u, old |-> OldSeq(d)]
      /\ \A x \in DOMAIN plan \ {d} : plan'[x] = plan[x]
  BY DEF Planned
<1>3. plan'[d].tree = u /\ plan'[d].old = OldSeq(d)
  BY <1>2
<1>4. /\ IsImage(work') /\ ImageIsSound(work') /\ work'.ids = work.ids
      /\ (Mirrors(work) => Mirrors(work')) /\ Succeeds(written, work')
      /\ 1..work.seq \subseteq 1..work'.seq /\ work.seq \in Nat
      /\ SeqsOf(u) \subseteq 1..work'.seq
  <2>1. Succeeds(written, work) /\ work.seq \in Nat /\ IsImage(work) /\ ImageIsSound(work)
    BY <1>1, TypesAre DEF ImagesSucceed
  <2>2. Used(d) \subseteq 1..work.seq
    BY <1>1 DEF SeqsAreUsedOnce
  <2>3. CASE work' = work /\ SeqsOf(u) \subseteq Used(d)
    BY <2>1, <2>2, <2>3
  <2>4. CASE /\ work' = [work EXCEPT !.seq = @ + 1]
             /\ SeqsOf(u) \subseteq Used(d) \union {work.seq + 1}
    <3>1. /\ IsImage(work') /\ ImageIsSound(work') /\ work'.seq = work.seq + 1
          /\ work'.ids = work.ids /\ (Mirrors(work) => Mirrors(work')) /\ Succeeds(written, work')
      BY <2>1, <2>4, NextSeqIs
    <3>2. 1..work.seq \subseteq 1..(work.seq + 1) /\ work.seq + 1 \in 1..(work.seq + 1)
      BY <2>1
    <3>3. QED
      BY <2>1, <2>2, <2>4, <3>1, <3>2
  <2>5. QED
    BY <2>3, <2>4
<1>5. TypeOK'
  <2>1. \A x \in DOMAIN plan' :
          plan'[x] = [tree |-> plan'[x].tree, old |-> plan'[x].old] /\ IsTree(plan'[x].tree)
    <3> TAKE x \in DOMAIN plan'
    <3>1. CASE x = d
      BY <1>2, <1>3, <3>1, SoundIsRooted
    <3>2. CASE x # d
      BY <1>1, <1>2, <3>2, SoundIsRooted
    <3>3. QED
      BY <3>1, <3>2
  <2>2. DOMAIN plan' \subseteq Docs
    BY <1>1, <1>2
  <2>3. QED
    BY <1>1, <1>2, <1>4, <2>1, <2>2 DEF TypeOK
<1>6. \A h \in Images' : ImageIsSound(h)
  BY <1>4, TypesAre DEF Images
<1>7. ImagesSucceed'
  <2>1. Succeeds(acked, disk) /\ Succeeds(disk, written) /\ Succeeds(written, work')
    BY <1>1, <1>4 DEF ImagesSucceed
  <2>2. QED
    BY <2>1 DEF ImagesSucceed, Succeeds, Outlived
<1>8. HeadersReachDisk'
  BY <1>1 DEF HeadersReachDisk
<1>9. CallIsSound'
  <2>1. \A x \in DOMAIN plan' : SoundTree(plan'[x].tree) /\ SeqsOf(plan'[x].tree) \subseteq 1..work'.seq
    BY <1>1, <1>2, <1>3, <1>4
  <2>2. \A x \in DOMAIN plan' : plan'[x].old = OldSeq(x)'
    BY <1>1, <1>2, <1>3, <1>4 DEF OldSeq
  <2>3. \A x \in DOMAIN plan' : \A l \in Leaves(work'.ids[x]) :
          <<x, l>> \in purged' \/ Covers(plan'[x].tree, l)
    <3> TAKE x \in DOMAIN plan'
    <3>1. CASE x = d
      BY <1>3, <1>4, <3>1
    <3>2. CASE x # d
      BY <1>1, <1>2, <1>4, <3>2 DEF Outlived
    <3>3. QED
      BY <3>1, <3>2
  <2>4. pc' = "numbering" => \A x \in DOMAIN batch' : \A l \in Leaves(work'.ids[x]) :
          <<x, l>> \in purged' \/ Covers(batch'[x], l)
    BY <1>1, <1>4 DEF CallIsSound, Outlived
  <2>5. QED
    BY <1>1, <2>1, <2>2, <2>3, <2>4 DEF CallIsSound, Outlived
<1>10. SeqsAreUsedOnce'
  <2>1. \A x \in Docs \ {d} : Used(x)' \subseteq Used(x)
    BY <1>2, <1>4 DEF Used
  <2>2. {OldSeq(d)} \ {NoOldSeq} \subseteq SeqsOf(work.ids[d])
    <3>1. CASE Exists(work.ids[d])
      <4>1. DocSeq(work.ids[d]) \in SeqsOf(work.ids[d])
        BY <3>1, TypesAre, ListedIs
      <4>2. QED
        BY <3>1, <4>1 DEF OldSeq
    <3>2. CASE ~Exists(work.ids[d])
      BY <3>2 DEF OldSeq
    <3>3. QED
      BY <3>1, <3>2
  <2>3. Used(d)' \subseteq Used(d) \union SeqsOf(u)
    BY <1>2, <1>3, <1>4, <2>2 DEF Used
  <2>4. CASE work' = work /\ SeqsOf(u) \subseteq Used(d)
    <3>1. \A x \in Docs : Used(x)' \subseteq Used(x)
      BY <2>1, <2>3, <2>4
    <3>2. QED
      BY <1>1, <1>4, <2>4, <3>1, UsedAsBefore
  <2>5. CASE /\ work' = [work EXCEPT !.seq = @ + 1]
             /\ SeqsOf(u) \subseteq Used(d) \union {work.seq + 1}
    <3>1. work'.seq = work.seq + 1
      BY <2>5, NextSeqIs
    <3>2. Used(d)' \subseteq Used(d) \union {work.seq + 1}
      BY <2>3, <2>5
    <3>3. QED
      BY <1>1, <1>4, <2>1, <3>1, <3>2, UsedNext
  <2>6. QED
    BY <2>4, <2>5
<1>11. FeedIsKept'
  BY <1>1, <1>4 DEF FeedIsKept
<1>12. QED
  BY <1>5, <1>6, <1>7, <1>8, <1>9, <1>10, <1>11 DEF IInv

LEMMA NumberDocKeeps ==
    ASSUME IInv, NumberDoc
    PROVE  IInv'
<1> DEFINE d == Head(order)
           u == AssignPending(batch[d], work.seq + 1)
<1>1. /\ pc = "numbering" /\ pc' = "numbering" /\ order # <<>> /\ order' = Tail(order)
      /\ UNCHANGED <<written, disk, synced, sound, batch, touched, acked, purged, torn>>
      /\ IF d \in touched THEN work' = [work EXCEPT !.seq = @ + 1] /\ plan' = Planned(d, u)
         ELSE work' = work /\ plan' = plan
  BY DEF NumberDoc, file, ghosts
<1>2. d \in Docs /\ order' \in Seq(Docs)
  <2>1. order \in Seq(Docs)
    BY DEF IInv, TypeOK
  <2>2. QED
    BY <1>1, <2>1
<1>3. purged \subseteq purged' /\ purged' \subseteq Docs \X Revs /\ PurgedIsWhole'
  BY <1>1 DEF IInv, TypeOK, PurgedIsWhole
<1>4. CASE d \in touched
  <2> DEFINE t == batch[d]
  <2>1. d \in DOMAIN batch /\ SoundTree(t) /\ Outlived(d, work.ids[d], t)
    BY <1>1, <1>4 DEF IInv, CallIsSound
  <2>2. work.seq \in Nat /\ work.seq + 1 \in Nat /\ work.seq + 1 > 0
    BY TypesAre
  <2>3. /\ SoundTree(u) /\ Leaves(u) = Leaves(t)
        /\ SeqsOf(u) \subseteq (SeqsOf(t) \ {Pending}) \union {work.seq + 1}
    BY <2>1, <2>2, AssignIs
  <2>4. SeqsOf(t) \ {Pending} \subseteq Used(d)
    BY <2>1 DEF Used
  <2>5. \A l \in Leaves(work.ids[d]) : <<d, l>> \in purged' \/ Covers(u, l)
    BY <1>1, <2>1, <2>3 DEF Outlived, Covers
  <2> HIDE DEF d, u, t
  <2>6. QED
    BY <1>1, <1>2, <1>3, <1>4, <2>3, <2>4, <2>5, PlannedKeeps
<1>5. CASE d \notin touched
  <2>1. TypeOK'
    BY <1>1, <1>2, <1>5 DEF IInv, TypeOK
  <2>2. (\A h \in Images' : ImageIsSound(h)) /\ ImagesSucceed'
    BY <1>1, <1>5, ImagesAsTheyWere
  <2>3. CallIsSound' /\ SeqsAreUsedOnce'
    BY <1>1, <1>5 DEF IInv, CallIsSound, SeqsAreUsedOnce, Used, Outlived, OldSeq
  <2>4. FeedIsKept'
    BY <1>1, <1>5, FeedAsItWas
  <2>5. HeadersReachDisk'
    BY <1>1, <1>5 DEF HeadersReachDisk, IInv
  <2>6. QED
    BY <1>3, <2>1, <2>2, <2>3, <2>4, <2>5 DEF IInv
<1>6. QED
  BY <1>4, <1>5

LEMMA EmptyIs == SoundTree(EmptyTree) /\ SeqsOf(EmptyTree) = {} /\ ~Exists(EmptyTree)
<1>1. DOMAIN EmptyTree = {} /\ EmptyTree = [x \in DOMAIN EmptyTree |-> EmptyTree[x]]
  BY DEF EmptyTree
<1>2. IsTree(EmptyTree)
  BY <1>1, TreeIs
<1>3. Leaves(EmptyTree) = {}
  BY <1>1 DEF Leaves
<1>4. QED
  BY <1>1, <1>2, <1>3, FS_EmptySet DEF SoundTree, WellFormed, SeqsOf, Exists

\* A purge removes leaves, and remembers all of the histories that end there.
LEMMA PurgeDocKeeps ==
    ASSUME IInv, NEW d \in Docs, NEW R, PurgeDoc(d, R)
    PROVE  IInv'
<1> DEFINE t == work.ids[d]
           gone == Leaves(t) \intersect R
           kept == RemoveLeaves(t, R)
           w == SetLeafSeq(kept, Winner(kept), work.seq + 1)
<1>1. /\ pc \in {"ready", "purging"} /\ pc' = "purging"
      /\ UNCHANGED <<written, disk, synced, sound, batch, order, touched, acked, torn>>
      /\ purged' = purged \union UNION {{d} \X Path(l, Pos(l)) : l \in gone}
      /\ IF Exists(kept) THEN work' = [work EXCEPT !.seq = @ + 1] /\ plan' = Planned(d, w)
         ELSE work' = work /\ plan' = Planned(d, EmptyTree)
  BY DEF PurgeDoc, file
<1>2. SoundTree(t) /\ work.seq \in Nat /\ work.seq + 1 \in Nat /\ work.seq + 1 > 0
  BY TypesAre
<1>3. SoundTree(kept) /\ Leaves(kept) = Leaves(t) \ R /\ SeqsOf(kept) \subseteq SeqsOf(t)
  BY <1>2, RemoveIs
<1>4. \A l \in Leaves(t) : l \in Revs
  BY <1>2, SoundIsRooted DEF Leaves
<1>5. \A l \in gone : /\ {d} \X Path(l, Pos(l)) \subseteq purged' /\ <<d, l>> \in purged'
                      /\ {d} \X Path(l, Pos(l)) \subseteq Docs \X Revs
  BY <1>1, <1>4, AncestryIsOrder
<1>6. purged \subseteq purged' /\ purged' \subseteq Docs \X Revs
  <2>1. purged \subseteq Docs \X Revs
    BY DEF IInv, TypeOK
  <2> HIDE DEF gone
  <2>2. QED
    BY <1>1, <1>5, <2>1
<1>7. PurgedIsWhole'
  <2> SUFFICES ASSUME NEW p \in purged' PROVE {p[1]} \X Path(p[2], Pos(p[2])) \subseteq purged'
    BY DEF PurgedIsWhole
  <2>1. CASE p \in purged
    BY <1>6, <2>1 DEF IInv, PurgedIsWhole
  <2>2. CASE p \notin purged
    <3>1. PICK l \in gone : p \in {d} \X Path(l, Pos(l))
      BY <1>1, <2>2
    <3>2. p[1] = d /\ p[2] \in Path(l, Pos(l))
      BY <3>1
    <3>3. Path(p[2], Pos(p[2])) \subseteq Path(l, Pos(l))
      BY <1>4, <3>2, AncestryIsOrder
    <3>4. QED
      BY <1>5, <3>2, <3>3
  <2>3. QED
    BY <2>1, <2>2
<1>8. order' \in Seq(Docs)
  BY <1>1 DEF IInv, TypeOK
<1>9. SeqsOf(t) \subseteq Used(d)
  BY DEF Used
<1>10. CASE Exists(kept)
  <2>1. /\ SoundTree(w) /\ Leaves(w) = Leaves(kept)
        /\ SeqsOf(w) \subseteq SeqsOf(kept) \union {work.seq + 1}
    BY <1>2, <1>3, SetLeafIs
  <2>2. \A l \in Leaves(t) : <<d, l>> \in purged' \/ Covers(w, l)
    BY <1>3, <1>4, <1>5, <2>1, AncestryIsOrder DEF Covers
  <2>3. SeqsOf(w) \subseteq Used(d) \union {work.seq + 1}
    BY <1>3, <1>9, <2>1
  <2>4. work' = [work EXCEPT !.seq = @ + 1] /\ plan' = Planned(d, w)
    BY <1>1, <1>10
  <2> HIDE DEF w, gone, kept
  <2>5. QED
    BY <1>1, <1>6, <1>7, <1>8, <2>1, <2>2, <2>3, <2>4, PlannedKeeps
<1>11. CASE ~Exists(kept)
  <2>1. Leaves(kept) = {}
    BY <1>11 DEF Exists, Leaves
  <2>2. \A l \in Leaves(t) : <<d, l>> \in purged' \/ Covers(EmptyTree, l)
    BY <1>3, <1>5, <2>1
  <2>3. SeqsOf(EmptyTree) \subseteq Used(d) /\ SoundTree(EmptyTree)
    BY EmptyIs
  <2>4. work' = work /\ plan' = Planned(d, EmptyTree)
    BY <1>1, <1>11
  <2> HIDE DEF w, gone, kept
  <2>5. QED
    BY <1>1, <1>6, <1>7, <1>8, <2>2, <2>3, <2>4, PlannedKeeps
<1>12. QED
  BY <1>10, <1>11

-----------------------------------------------------------------------------
(* The two btrees                                                           *)

LEMMA WriteIdTreeKeeps ==
    ASSUME IInv, WriteIdTree
    PROVE  IInv'
<1> DEFINE i == [d \in Docs |-> IF d \in DOMAIN plan THEN plan[d].tree ELSE work.ids[d]]
<1>1. /\ pc = "idTree" /\ pc' = "seqTree" /\ synced' = FALSE
      /\ UNCHANGED <<written, disk, sound, batch, order, touched, plan, acked, purged, torn>>
      /\ work' = [work EXCEPT !.ids = i]
  BY DEF WriteIdTree, call, ghosts
<1>2. /\ TypeOK /\ CallIsSound /\ SeqsAreUsedOnce /\ ImagesSucceed /\ FeedIsKept /\ PurgedIsWhole
      /\ DOMAIN plan \subseteq Docs
      /\ \A d \in DOMAIN plan : SoundTree(plan[d].tree) /\ SeqsOf(plan[d].tree) \subseteq 1..work.seq
      /\ \A d \in DOMAIN plan : plan[d].old = OldSeq(d) /\ Outlived(d, work.ids[d], plan[d].tree)
  BY <1>1 DEF IInv, TypeOK, CallIsSound
<1>3. /\ i = [d \in Docs |-> i[d]]
      /\ \A d \in Docs : /\ d \in DOMAIN plan => i[d] = plan[d].tree
                         /\ d \notin DOMAIN plan => i[d] = work.ids[d]
  OBVIOUS
<1> HIDE DEF i
<1>4. \A d \in Docs : SoundTree(i[d]) /\ SeqsOf(i[d]) \subseteq 1..work.seq /\ SeqsOf(i[d]) \subseteq Used(d)
  <2> TAKE d \in Docs
  <2>1. CASE d \in DOMAIN plan
    BY <1>2, <1>3, <2>1 DEF Used
  <2>2. CASE d \notin DOMAIN plan
    BY <1>3, <2>2, TypesAre DEF Used, ImageIsSound
  <2>3. QED
    BY <2>1, <2>2
<1>5. IsIds(i)
  BY <1>3, <1>4, SoundIsRooted DEF IsIds
<1>6. /\ IsImage(work') /\ work'.ids = i /\ work'.rows = work.rows /\ work'.seq = work.seq
      /\ work'.native = work.native
  <2>1. Made(work', i, work.rows, work.seq, work.native)
    BY <1>1, <1>5, TypesAre, WithIds
  <2>2. QED
    BY <2>1 DEF Made
<1>7. ImageIsSound(work')
  <2>1. \A d, e \in Docs : d # e => SeqsOf(i[d]) \intersect SeqsOf(i[e]) = {}
    BY <1>2, <1>4 DEF SeqsAreUsedOnce
  <2>2. \A s \in DOMAIN work.rows : s <= work.seq
    BY TypesAre DEF ImageIsSound
  <2>3. QED
    BY <1>4, <1>6, <2>1, <2>2 DEF ImageIsSound
<1>8. TypeOK'
  BY <1>1, <1>2, <1>6 DEF TypeOK
<1>9. \A h \in Images' : ImageIsSound(h)
  BY <1>1, <1>7, TypesAre DEF Images
<1>10. ImagesSucceed'
  <2>1. Succeeds(work, work')
    <3>1. ASSUME NEW d \in Docs
          PROVE  Outlived(d, work.ids[d], i[d])
      <4>1. CASE d \in DOMAIN plan
        BY <1>2, <1>3, <4>1
      <4>2. CASE d \notin DOMAIN plan
        BY <1>3, <4>2, TypesAre, SoundIsRooted, OutlivesItself
      <4>3. QED
        BY <4>1, <4>2
    <3>2. work.seq <= work.seq
      BY TypesAre
    <3>3. QED
      BY <1>6, <3>1, <3>2 DEF Succeeds
  <2>2. Succeeds(written, work')
    BY <1>2, <1>6, <2>1, TypesAre, SucceedsIsOrder DEF ImagesSucceed
  <2>3. QED
    BY <1>1, <1>2, <2>2 DEF ImagesSucceed, Succeeds, Outlived
<1>11. HeadersReachDisk'
  BY <1>1 DEF HeadersReachDisk, IInv
<1>12. PurgedIsWhole'
  BY <1>1, <1>2 DEF PurgedIsWhole
<1>13. CallIsSound'
  <2>1. \A d \in DOMAIN plan : i[d] = plan[d].tree
    BY <1>2, <1>3
  <2>2. QED
    BY <1>1, <1>2, <1>6, <2>1 DEF CallIsSound
<1>14. SeqsAreUsedOnce'
  <2>1. \A d \in Docs : Used(d)' \subseteq Used(d)
    <3> TAKE d \in Docs
    <3>1. SeqsOf(work'.ids[d]) \subseteq Used(d)
      BY <1>4, <1>6
    <3>2. QED
      BY <1>1, <3>1 DEF Used
  <2>2. QED
    BY <1>2, <1>6, <2>1, TypesAre, UsedAsBefore
<1>15. FeedIsKept'
  <2> SUFFICES ASSUME ~torn PROVE Mirrors(written) /\ Mirrors(disk) /\ MirrorsAround'
    BY <1>1 DEF FeedIsKept
  <2>1. Mirrors(written) /\ Mirrors(disk) /\ Mirrors(work)
    BY <1>1, <1>2 DEF FeedIsKept
  <2>2. \A d \in Docs \ DOMAIN plan : Exists(i[d]) =>
          /\ DocSeq(i[d]) \in DOMAIN work.rows
          /\ work.rows[DocSeq(i[d])] = [doc |-> d, tree |-> i[d]]
    BY <1>3, <2>1 DEF Mirrors
  <2>3. ASSUME NEW s \in DOMAIN work.rows
        PROVE  LET d == work.rows[s].doc
               IN  IF d \in DOMAIN plan THEN s = plan[d].old
                   ELSE Exists(i[d]) /\ DocSeq(i[d]) = s
    <3> DEFINE d == work.rows[s].doc
    <3>1. d \in Docs
      BY TypesAre, ImageParts
    <3>2. Exists(work.ids[d]) /\ DocSeq(work.ids[d]) = s
      BY <2>1 DEF Mirrors
    <3>3. d \in DOMAIN plan => s = plan[d].old
      BY <1>2, <3>2 DEF OldSeq
    <3>4. d \notin DOMAIN plan => Exists(i[d]) /\ DocSeq(i[d]) = s
      BY <1>3, <3>1, <3>2
    <3>5. QED
      BY <3>3, <3>4
  <2>4. MirrorsAround'
    BY <1>1, <1>6, <2>2, <2>3 DEF MirrorsAround
  <2>5. QED
    BY <2>1, <2>4
<1>16. QED
  BY <1>7, <1>8, <1>9, <1>10, <1>11, <1>12, <1>13, <1>14, <1>15 DEF IInv

LEMMA WriteSeqTreeKeeps ==
    ASSUME IInv, WriteSeqTree
    PROVE  IInv'
<1> DEFINE inserted == {d \in DOMAIN plan : Exists(plan[d].tree)}
           seqs == {DocSeq(plan[d].tree) : d \in inserted}
           row(s) == LET d == CHOOSE d \in inserted : DocSeq(plan[d].tree) = s
                     IN  [doc |-> d, tree |-> plan[d].tree]
           kept == DOMAIN work.rows \ RemovedSeqs
           rows == [s \in kept \union seqs |-> IF s \in seqs THEN row(s) ELSE work.rows[s]]
<1>1. /\ pc = "seqTree" /\ pc' = "ready" /\ synced' = FALSE
      /\ batch' = NoBatch /\ order' = <<>> /\ touched' = {} /\ plan' = NoPlan
      /\ UNCHANGED <<written, disk, sound, acked, purged, torn>>
      /\ work' = [work EXCEPT !.rows = rows]
  BY DEF WriteSeqTree, ghosts
<1>2. /\ TypeOK /\ CallIsSound /\ SeqsAreUsedOnce /\ ImagesSucceed /\ FeedIsKept /\ PurgedIsWhole
      /\ DOMAIN plan \subseteq Docs /\ \A d \in DOMAIN plan : work.ids[d] = plan[d].tree
      /\ \A d \in DOMAIN plan : plan[d] = [tree |-> plan[d].tree, old |-> plan[d].old]
      /\ \A d \in DOMAIN plan : IsTree(plan[d].tree)
  BY <1>1 DEF IInv, TypeOK, CallIsSound
<1>3. /\ inserted \subseteq Docs
      /\ \A d \in Docs : d \in inserted <=> d \in DOMAIN plan /\ Exists(work.ids[d])
      /\ \A d \in inserted : DocSeq(plan[d].tree) = DocSeq(work.ids[d])
  BY <1>2
<1>4. \A d \in Docs : Exists(work.ids[d]) =>
         /\ DocSeq(work.ids[d]) \in 1..work.seq /\ DocSeq(work.ids[d]) \in SeqsOf(work.ids[d])
         /\ \A e \in Docs : Exists(work.ids[e]) /\ DocSeq(work.ids[e]) = DocSeq(work.ids[d]) => e = d
  BY TypesAre, ListedIs
<1>5. ASSUME NEW d \in inserted
      PROVE  /\ DocSeq(work.ids[d]) \in seqs
             /\ row(DocSeq(work.ids[d])) = [doc |-> d, tree |-> work.ids[d]]
  <2> DEFINE s == DocSeq(work.ids[d])
             e == CHOOSE e \in inserted : DocSeq(plan[e].tree) = s
  <2>1. e \in inserted /\ DocSeq(plan[e].tree) = s
    BY <1>3
  <2>2. e = d
    BY <1>3, <1>4, <2>1
  <2>3. row(s) = [doc |-> e, tree |-> plan[e].tree]
    OBVIOUS
  <2>4. QED
    BY <1>2, <1>3, <2>2, <2>3
<1> HIDE DEF row
<1>6. /\ DOMAIN rows = kept \union seqs /\ rows = [s \in DOMAIN rows |-> rows[s]]
      /\ \A s \in DOMAIN rows : \/ s \in kept /\ s \notin seqs /\ rows[s] = work.rows[s]
                                \/ \E d \in inserted : /\ s = DocSeq(work.ids[d])
                                                       /\ rows[s] = [doc |-> d, tree |-> work.ids[d]]
  <2>1. DOMAIN rows = kept \union seqs
    OBVIOUS
  <2>2. \A s \in seqs : rows[s] = row(s) /\ \E d \in inserted : s = DocSeq(work.ids[d])
    BY <1>3
  <2>3. \A s \in kept \ seqs : rows[s] = work.rows[s]
    OBVIOUS
  <2>4. \A s \in seqs : \E d \in inserted : /\ s = DocSeq(work.ids[d])
                                            /\ rows[s] = [doc |-> d, tree |-> work.ids[d]]
    <3> TAKE s \in seqs
    <3>1. PICK d \in inserted : s = DocSeq(work.ids[d])
      BY <2>2
    <3>2. rows[s] = row(s)
      BY <2>2
    <3> HIDE DEF rows, seqs, inserted
    <3>3. QED
      BY <1>5, <3>1, <3>2
  <2>5. rows = [s \in DOMAIN rows |-> rows[s]]
    OBVIOUS
  <2> HIDE DEF rows, seqs, kept, inserted
  <2>6. QED
    BY <2>1, <2>3, <2>4, <2>5
<1>7. \A d \in inserted : rows[DocSeq(work.ids[d])] = [doc |-> d, tree |-> work.ids[d]]
  BY <1>5
<1> HIDE DEF rows, seqs, inserted
<1>8. IsRows(rows)
  <2>1. ASSUME NEW s \in DOMAIN rows
        PROVE  /\ s \in Nat /\ rows[s] = [doc |-> rows[s].doc, tree |-> rows[s].tree]
               /\ rows[s].doc \in Docs /\ IsTree(rows[s].tree)
    <3>1. CASE s \in kept /\ rows[s] = work.rows[s]
      <4>1. IsRows(work.rows) /\ s \in DOMAIN work.rows
        BY <3>1, TypesAre, ImageIsMade
      <4> HIDE DEF kept
      <4>2. /\ s \in Nat /\ work.rows[s] = [doc |-> work.rows[s].doc, tree |-> work.rows[s].tree]
            /\ work.rows[s].doc \in Docs /\ IsTree(work.rows[s].tree)
        BY <4>1 DEF IsRows
      <4>3. QED
        BY <3>1, <4>2
    <3>2. CASE \E d \in inserted : s = DocSeq(work.ids[d]) /\ rows[s] = [doc |-> d, tree |-> work.ids[d]]
      <4>1. PICK d \in inserted : s = DocSeq(work.ids[d]) /\ rows[s] = [doc |-> d, tree |-> work.ids[d]]
        BY <3>2
      <4>2. d \in Docs /\ Exists(work.ids[d]) /\ IsTree(work.ids[d])
        BY <1>3, TypesAre, ImageParts
      <4>3. s \in Nat
        BY <1>4, <4>1, <4>2
      <4>4. rows[s].doc = d /\ rows[s].tree = work.ids[d]
        BY <4>1
      <4>5. QED
        BY <4>1, <4>2, <4>3, <4>4
    <3>3. QED
      BY <1>6, <3>1, <3>2
  <2>2. QED
    BY <1>6, <2>1 DEF IsRows
<1>9. /\ IsImage(work') /\ work'.ids = work.ids /\ work'.rows = rows /\ work'.seq = work.seq
      /\ work'.native = work.native
  <2>1. Made(work', work.ids, rows, work.seq, work.native)
    BY <1>1, <1>8, TypesAre, WithRows
  <2>2. QED
    BY <2>1 DEF Made
<1>10. ImageIsSound(work')
  <2>1. ImageIsSound(work)
    BY TypesAre
  <2>2. \A s \in DOMAIN rows : s <= work.seq
    <3>1. \A s \in DOMAIN work.rows : s <= work.seq
      BY <2>1 DEF ImageIsSound
    <3>2. \A d \in inserted : DocSeq(work.ids[d]) \in 1..work.seq
      BY <1>3, <1>4
    <3>3. \A d \in inserted : DocSeq(work.ids[d]) <= work.seq
      BY <3>2, TypesAre
    <3>4. QED
      BY <1>6, <3>1, <3>3
  <2>3. QED
    BY <1>9, <2>1, <2>2 DEF ImageIsSound
<1>11. TypeOK'
  <2>1. DOMAIN batch' = {} /\ batch' = [d \in DOMAIN batch' |-> batch'[d]]
        /\ DOMAIN plan' = {} /\ plan' = [d \in DOMAIN plan' |-> plan'[d]] /\ order' \in Seq(Docs)
    BY <1>1 DEF NoBatch, NoPlan
  <2>2. QED
    BY <1>1, <1>2, <1>9, <2>1 DEF TypeOK
<1>12. \A h \in Images' : ImageIsSound(h)
  BY <1>1, <1>10, TypesAre DEF Images
<1>13. ImagesSucceed'
  BY <1>1, <1>2, <1>9 DEF ImagesSucceed, Succeeds, Outlived
<1>14. HeadersReachDisk'
  BY <1>1 DEF HeadersReachDisk, IInv
<1>15. PurgedIsWhole'
  BY <1>1, <1>2 DEF PurgedIsWhole
<1>16. CallIsSound' /\ SeqsAreUsedOnce'
  BY <1>1, <1>10, CallOver
<1>17. FeedIsKept'
  <2> SUFFICES ASSUME ~torn PROVE Mirrors(written) /\ Mirrors(disk) /\ Mirrors(work')
    BY <1>1 DEF FeedIsKept
  <2>1. Mirrors(written) /\ Mirrors(disk) /\ MirrorsAround
    BY <1>1, <1>2 DEF FeedIsKept
  <2>2. ASSUME NEW d \in Docs, Exists(work.ids[d])
        PROVE  /\ DocSeq(work.ids[d]) \in DOMAIN rows
               /\ rows[DocSeq(work.ids[d])] = [doc |-> d, tree |-> work.ids[d]]
    <3> DEFINE s == DocSeq(work.ids[d])
    <3>1. CASE d \in DOMAIN plan
      BY <1>3, <1>5, <1>6, <1>7, <2>2, <3>1
    <3>2. CASE d \notin DOMAIN plan
      <4>1. s \in DOMAIN work.rows /\ work.rows[s] = [doc |-> d, tree |-> work.ids[d]]
        BY <2>1, <2>2, <3>2 DEF MirrorsAround
      <4>2. s \in Used(d) /\ s # NoOldSeq
        BY <1>4, <2>2 DEF Used, NoOldSeq
      <4>3. s \notin RemovedSeqs
        <5> SUFFICES ASSUME NEW e \in DOMAIN plan, plan[e].old = s PROVE FALSE
          BY DEF RemovedSeqs
        <5>1. s \in Used(e)
          BY <4>2 DEF Used
        <5>2. e # d /\ e \in Docs
          BY <1>2, <3>2
        <5>3. QED
          BY <1>2, <4>2, <5>1, <5>2 DEF SeqsAreUsedOnce
      <4>4. s \in DOMAIN rows
        BY <1>6, <4>1, <4>3
      <4>5. rows[s] = work.rows[s] \/ \E e \in inserted : s = DocSeq(work.ids[e])
        BY <1>6, <4>4
      <4>6. \A e \in inserted : s # DocSeq(work.ids[e])
        BY <1>3, <1>4, <2>2, <3>2
      <4>7. QED
        BY <4>1, <4>4, <4>5, <4>6
    <3>3. QED
      BY <3>1, <3>2
  <2>3. ASSUME NEW s \in DOMAIN rows
        PROVE  Exists(work.ids[rows[s].doc]) /\ DocSeq(work.ids[rows[s].doc]) = s
    <3>1. CASE s \in kept /\ rows[s] = work.rows[s]
      <4> DEFINE d == work.rows[s].doc
      <4>1. IF d \in DOMAIN plan THEN s = plan[d].old ELSE Exists(work.ids[d]) /\ DocSeq(work.ids[d]) = s
        BY <2>1, <3>1 DEF MirrorsAround
      <4>2. d \notin DOMAIN plan
        BY <3>1, <4>1 DEF RemovedSeqs
      <4>3. QED
        BY <3>1, <4>1, <4>2
    <3>2. CASE \E d \in inserted : s = DocSeq(work.ids[d]) /\ rows[s] = [doc |-> d, tree |-> work.ids[d]]
      <4>1. PICK d \in inserted : s = DocSeq(work.ids[d]) /\ rows[s] = [doc |-> d, tree |-> work.ids[d]]
        BY <3>2
      <4>2. d \in Docs /\ Exists(work.ids[d]) /\ rows[s].doc = d
        BY <1>3, <4>1
      <4>3. QED
        BY <4>1, <4>2
    <3>3. QED
      BY <1>6, <3>1, <3>2
  <2>4. Mirrors(work')
    BY <1>9, <2>2, <2>3 DEF Mirrors
  <2>5. QED
    BY <2>1, <2>4
<1>18. QED
  BY <1>11, <1>12, <1>13, <1>14, <1>15, <1>16, <1>17 DEF IInv

LEMMA TreeWriteFailsKeeps ==
    ASSUME IInv, TreeWriteFails
    PROVE  IInv'
<1>1. /\ pc \in {"idTree", "seqTree"} /\ pc' = "ready" /\ synced' = FALSE
      /\ batch' = NoBatch /\ order' = <<>> /\ touched' = {} /\ plan' = NoPlan
      /\ torn' = (torn \/ pc = "seqTree")
      /\ UNCHANGED <<work, written, disk, sound, acked, purged>>
  BY DEF TreeWriteFails
<1>2. torn' \in BOOLEAN /\ (~torn' => ~torn /\ pc # "seqTree")
  BY <1>1
<1>3. TypeOK'
  <2>1. DOMAIN batch' = {} /\ batch' = [d \in DOMAIN batch' |-> batch'[d]]
        /\ DOMAIN plan' = {} /\ plan' = [d \in DOMAIN plan' |-> plan'[d]] /\ order' \in Seq(Docs)
    BY <1>1 DEF NoBatch, NoPlan
  <2>2. TypeOK
    BY DEF IInv
  <2>3. QED
    BY <1>1, <1>2, <2>1, <2>2 DEF TypeOK
<1>4. (\A h \in Images' : ImageIsSound(h)) /\ ImagesSucceed' /\ PurgedIsWhole'
  BY <1>1, ImagesAsTheyWere
<1>5. CallIsSound' /\ SeqsAreUsedOnce'
  BY <1>1, CallOver, TypesAre
<1>6. FeedIsKept'
  BY <1>1, <1>2 DEF FeedIsKept, IInv
<1>7. HeadersReachDisk'
  BY <1>1 DEF HeadersReachDisk, IInv
<1>8. QED
  BY <1>3, <1>4, <1>5, <1>6, <1>7 DEF IInv

-----------------------------------------------------------------------------
(* The header's fields, and the commit                                      *)

\* A step of the writer at rest that leaves both trees and the seq alone.
LEMMA HeaderFieldKeeps ==
    ASSUME IInv, pc = "ready", NEW n,
           Made(work', work.ids, work.rows, work.seq, n), work.native => n, synced' = FALSE,
           UNCHANGED <<written, disk, sound, pc, call, ghosts>>
    PROVE  IInv'
<1>1. /\ UNCHANGED <<written, disk, sound, pc, batch, order, touched, plan, acked, purged, torn>>
      /\ IsImage(work') /\ work'.ids = work.ids /\ work'.rows = work.rows /\ work'.seq = work.seq
      /\ (work.native => work'.native)
  BY DEF call, ghosts, Made
<1>2. batch' = NoBatch /\ touched' = {} /\ plan' = NoPlan
  BY <1>1 DEF IInv, CallIsSound, NoBatch
<1>3. ImageIsSound(work')
  BY <1>1, TypesAre DEF ImageIsSound
<1>4. TypeOK'
  BY <1>1 DEF IInv, TypeOK
<1>5. \A h \in Images' : ImageIsSound(h)
  BY <1>1, <1>3, TypesAre DEF Images
<1>6. ImagesSucceed' /\ PurgedIsWhole'
  BY <1>1 DEF IInv, ImagesSucceed, Succeeds, Outlived, PurgedIsWhole
<1>7. HeadersReachDisk'
  BY <1>1 DEF HeadersReachDisk, IInv
<1>8. CallIsSound' /\ SeqsAreUsedOnce'
  BY <1>2, <1>3, CallOver
<1>9. FeedIsKept'
  BY <1>1 DEF IInv, FeedIsKept, Mirrors
<1>10. QED
  BY <1>4, <1>5, <1>6, <1>7, <1>8, <1>9 DEF IInv

LEMMA SettingKeeps ==
    ASSUME IInv,
           \/ \E l \in LocalIds, rev \in 0..MaxLocalRev : UpdateLocal(l, rev)
           \/ \E s \in Securities : SetSecurity(s)
           \/ MarkProtoNative
    PROVE  IInv'
<1>1. CASE \E l \in LocalIds, rev \in 0..MaxLocalRev : UpdateLocal(l, rev)
  <2>1. PICK l \in LocalIds, rev \in 0..MaxLocalRev : UpdateLocal(l, rev)
    BY <1>1
  <2>2. rev \in Nat
    BY BoundsAssumption
  <2>3. Made(work', work.ids, work.rows, work.seq, work.native)
    BY <2>1, <2>2, TypesAre, WithLocal DEF UpdateLocal
  <2>4. QED
    BY <2>1, <2>3, HeaderFieldKeeps DEF UpdateLocal
<1>2. CASE \E s \in Securities : SetSecurity(s)
  <2>1. PICK s \in Securities : SetSecurity(s)
    BY <1>2
  <2>2. Made(work', work.ids, work.rows, work.seq, work.native)
    BY <2>1, TypesAre, WithSecurity DEF SetSecurity
  <2>3. QED
    BY <2>1, <2>2, HeaderFieldKeeps DEF SetSecurity
<1>3. CASE MarkProtoNative
  <2>1. Made(work', work.ids, work.rows, work.seq, TRUE)
    BY <1>3, TypesAre, WithNative DEF MarkProtoNative
  <2>2. QED
    BY <1>3, <2>1, HeaderFieldKeeps DEF MarkProtoNative
<1>4. QED
  BY <1>1, <1>2, <1>3

\* The images move along the chain from the writer to the last commit.
LEMMA CommitKeeps ==
    ASSUME IInv, SyncData \/ WriteHeader \/ SyncHeader
    PROVE  IInv'
<1>1. /\ TypeOK /\ ImagesSucceed /\ PurgedIsWhole /\ FeedIsKept /\ HeadersReachDisk
      /\ CallIsSound /\ SeqsAreUsedOnce
      /\ IsImage(work) /\ IsImage(written) /\ IsImage(disk) /\ IsImage(acked)
      /\ Succeeds(acked, disk) /\ Succeeds(disk, written) /\ Succeeds(written, work)
  BY TypesAre DEF IInv, ImagesSucceed
<1>2. /\ Succeeds(acked, written) /\ Succeeds(disk, work)
      /\ Succeeds(work, work) /\ Succeeds(written, written)
  BY <1>1, SucceedsIsOrder, SucceedsItself
<1>3. /\ UNCHANGED <<work, batch, order, touched, plan, purged, torn>>
      /\ pc \in {"ready", "header", "sync"} /\ pc' \in {"ready", "header", "sync"}
      /\ written' \in Images /\ disk' \in Images /\ acked' \in Images
      /\ {written', disk'} \subseteq {work, written, disk}
      /\ synced' \in BOOLEAN /\ sound' \in BOOLEAN
  BY <1>1 DEF SyncData, WriteHeader, SyncHeader, call, ghosts, Images, TypeOK
<1>4. /\ Succeeds(acked', disk') /\ Succeeds(disk', written') /\ Succeeds(written', work)
      /\ HeadersReachDisk'
  <2>1. CASE SyncData
    BY <1>1, <1>2, <2>1 DEF SyncData, HeadersReachDisk, call, ghosts
  <2>2. CASE WriteHeader
    BY <1>1, <1>2, <2>2 DEF WriteHeader, HeadersReachDisk, call, ghosts
  <2>3. CASE SyncHeader
    BY <1>1, <1>2, <2>3 DEF SyncHeader, HeadersReachDisk, call
  <2>4. QED
    BY <2>1, <2>2, <2>3
<1>5. TypeOK'
  BY <1>1, <1>3, TypesAre DEF TypeOK
<1>6. \A h \in Images' : ImageIsSound(h)
  BY <1>3, TypesAre DEF Images
<1>7. ImagesSucceed'
  BY <1>3, <1>4 DEF ImagesSucceed, Succeeds, Outlived
<1>8. PurgedIsWhole'
  BY <1>1, <1>3 DEF PurgedIsWhole
<1>9. batch' = NoBatch /\ touched' = {} /\ plan' = NoPlan
  BY <1>1, <1>3 DEF CallIsSound, NoBatch
<1>10. CallIsSound' /\ SeqsAreUsedOnce'
  BY <1>3, <1>9, CallOver, TypesAre
<1>11. FeedIsKept'
  <2>1. ~torn => Mirrors(work) /\ Mirrors(written) /\ Mirrors(disk)
    BY <1>1, <1>3 DEF FeedIsKept
  <2>2. QED
    BY <1>3, <2>1 DEF FeedIsKept
<1>12. QED
  BY <1>4, <1>5, <1>6, <1>7, <1>8, <1>10, <1>11 DEF IInv

-----------------------------------------------------------------------------
(* Restarts                                                                 *)

\* A writer opened on a sound image that the last commit leads to.
LEMMA ReopenKeeps ==
    ASSUME IInv, NEW h, IsImage(h), ImageIsSound(h), Reopen(h),
           IsImage(acked'), ImageIsSound(acked'), Succeeds(acked', h), purged' = purged,
           torn' \in BOOLEAN, ~torn' => Mirrors(h)
    PROVE  IInv'
<1>1. /\ work' = h /\ written' = h /\ disk' = h /\ synced' = TRUE /\ sound' = TRUE /\ pc' = "ready"
      /\ batch' = NoBatch /\ order' = <<>> /\ touched' = {} /\ plan' = NoPlan
  BY DEF Reopen
<1>2. TypeOK'
  <2>1. DOMAIN batch' = {} /\ batch' = [d \in DOMAIN batch' |-> batch'[d]]
        /\ DOMAIN plan' = {} /\ plan' = [d \in DOMAIN plan' |-> plan'[d]] /\ order' \in Seq(Docs)
    BY <1>1 DEF NoBatch, NoPlan
  <2>2. purged' \subseteq Docs \X Revs
    BY DEF IInv, TypeOK
  <2>3. QED
    BY <1>1, <2>1, <2>2 DEF TypeOK
<1>3. \A g \in Images' : ImageIsSound(g)
  BY <1>1 DEF Images
<1>4. ImagesSucceed'
  <2>1. Succeeds(h, h)
    BY SucceedsItself
  <2>2. QED
    BY <1>1, <2>1 DEF ImagesSucceed, Succeeds, Outlived
<1>5. HeadersReachDisk' /\ PurgedIsWhole'
  BY <1>1 DEF HeadersReachDisk, PurgedIsWhole, IInv
<1>6. CallIsSound' /\ SeqsAreUsedOnce'
  BY <1>1, CallOver
<1>7. FeedIsKept'
  BY <1>1 DEF FeedIsKept
<1>8. QED
  BY <1>2, <1>3, <1>4, <1>5, <1>6, <1>7 DEF IInv

LEMMA CrashKeeps ==
    ASSUME IInv, Crash
    PROVE  IInv'
<1>1. PICK h \in {disk, written} : Reopen(h) /\ UNCHANGED <<acked, purged, torn>>
  BY DEF Crash, ghosts, IInv, HeadersReachDisk
<1>2. IsImage(h) /\ ImageIsSound(h) /\ IsImage(acked) /\ ImageIsSound(acked) /\ torn \in BOOLEAN
  BY TypesAre DEF Images, IInv, TypeOK
<1>3. Succeeds(acked, h)
  <2>1. PurgedIsWhole /\ Succeeds(acked, disk) /\ Succeeds(disk, written)
    BY DEF IInv, ImagesSucceed
  <2>2. Succeeds(acked, written)
    BY <2>1, TypesAre, SucceedsIsOrder
  <2>3. QED
    BY <2>1, <2>2
<1>4. ~torn => Mirrors(h)
  BY DEF IInv, FeedIsKept
<1>5. QED
  BY <1>1, <1>2, <1>3, <1>4, ReopenKeeps

\* A compaction keeps every leaf there is, acknowledged or not.
LEMMA CompactKeeps ==
    ASSUME IInv, Compact
    PROVE  IInv'
<1> DEFINE h == Compacted(written)
<1>1. Reopen(h) /\ torn' = FALSE /\ UNCHANGED <<acked, purged>>
  BY DEF Compact
<1>2. /\ IsImage(h) /\ ImageIsSound(h) /\ Mirrors(h)
      /\ h.seq = written.seq /\ h.native = written.native
      /\ \A d \in Docs : Leaves(h.ids[d]) = Leaves(written.ids[d])
  BY TypesAre, CompactedIs
<1> HIDE DEF h
<1>3. /\ PurgedIsWhole /\ Succeeds(acked, disk) /\ Succeeds(disk, written)
      /\ IsImage(acked) /\ IsImage(disk) /\ IsImage(written) /\ ImageIsSound(acked)
  BY TypesAre DEF IInv, ImagesSucceed, Images
<1>4. Succeeds(written, h)
  <2>1. Succeeds(written, written)
    BY <1>3, SucceedsItself
  <2>2. QED
    BY <1>2, <2>1 DEF Succeeds, Outlived, Covers
<1>5. Succeeds(acked, h)
  <2>1. Succeeds(acked, written)
    BY <1>3, SucceedsIsOrder
  <2>2. QED
    BY <1>2, <1>3, <1>4, <2>1, SucceedsIsOrder
<1>6. torn' \in BOOLEAN /\ (~torn' => Mirrors(h))
  BY <1>1, <1>2
<1>7. QED
  BY <1>1, <1>2, <1>3, <1>5, <1>6, ReopenKeeps

LEMMA CompactFailsKeeps ==
    ASSUME IInv, CompactFails
    PROVE  IInv'
<1>1. /\ pc = "ready" /\ work' = written
      /\ UNCHANGED <<written, disk, synced, sound, pc, batch, order, touched, plan,
                     acked, purged, torn>>
  BY DEF CompactFails, file, call, ghosts
<1>2. TypeOK'
  BY <1>1 DEF IInv, TypeOK
<1>3. \A h \in Images' : ImageIsSound(h)
  BY <1>1, TypesAre DEF Images
<1>4. ImagesSucceed' /\ PurgedIsWhole'
  <2>1. Succeeds(written, written)
    BY TypesAre, SucceedsItself
  <2>2. QED
    BY <1>1, <2>1 DEF IInv, ImagesSucceed, Succeeds, Outlived, PurgedIsWhole
<1>5. HeadersReachDisk'
  BY <1>1 DEF HeadersReachDisk, IInv
<1>6. batch' = NoBatch /\ touched' = {} /\ plan' = NoPlan
  BY <1>1 DEF IInv, CallIsSound, NoBatch
<1>7. CallIsSound' /\ SeqsAreUsedOnce'
  BY <1>1, <1>6, CallOver, TypesAre
<1>8. FeedIsKept'
  BY <1>1 DEF IInv, FeedIsKept
<1>9. QED
  BY <1>2, <1>3, <1>4, <1>5, <1>7, <1>8 DEF IInv

-----------------------------------------------------------------------------
(* The invariant                                                            *)

LEMMA InitIsSound ==
    ASSUME Init
    PROVE  IInv
<1> DEFINE ids == [d \in Docs |-> EmptyTree]
           local == [l \in LocalIds |-> 0]
<1>1. /\ work = [ids |-> ids, rows |-> NoRows, seq |-> 0, local |-> local,
                 security |-> NoSecurity, native |-> FALSE]
      /\ written = work /\ disk = work /\ acked = work
      /\ synced = TRUE /\ sound = TRUE /\ pc = "ready"
      /\ batch = NoBatch /\ order = <<>> /\ touched = {} /\ plan = NoPlan
      /\ purged = {} /\ torn = FALSE
  BY DEF Init
<1>2. IsIds(ids)
  BY EmptyIs, SoundIsRooted DEF IsIds
<1>3. IsRows(NoRows) /\ DOMAIN NoRows = {}
  BY DEF IsRows, NoRows
<1>4. local \in [LocalIds -> Nat] /\ NoSecurity \in Securities /\ FALSE \in BOOLEAN /\ 0 \in Nat
  BY BoundsAssumption
<1>5. \A d \in Docs : ids[d] = EmptyTree
  OBVIOUS
<1> HIDE DEF ids, local
<1>6. IsImage(work)
  BY <1>1, <1>2, <1>3, <1>4, MadeIsImage
<1>7. work.ids = ids /\ work.rows = NoRows /\ work.seq = 0
  BY <1>1
<1>8. ImageIsSound(work)
  BY <1>3, <1>5, <1>7, EmptyIs DEF ImageIsSound
<1>9. Mirrors(work)
  BY <1>3, <1>5, <1>7, EmptyIs DEF Mirrors
<1>10. DOMAIN batch = {} /\ batch = [d \in DOMAIN batch |-> batch[d]]
       /\ DOMAIN plan = {} /\ plan = [d \in DOMAIN plan |-> plan[d]] /\ order \in Seq(Docs)
  BY <1>1 DEF NoBatch, NoPlan
<1>11. TypeOK
  BY <1>1, <1>6, <1>10 DEF TypeOK
<1>12. \A h \in Images : ImageIsSound(h)
  BY <1>1, <1>8 DEF Images
<1>13. ImagesSucceed /\ HeadersReachDisk /\ PurgedIsWhole
  BY <1>1, <1>6, SucceedsItself DEF ImagesSucceed, HeadersReachDisk, PurgedIsWhole
<1>14. CallIsSound
  BY <1>1, <1>10 DEF CallIsSound
<1>15. SeqsAreUsedOnce
  <2>1. \A d \in Docs : Used(d) = {}
    BY <1>5, <1>7, <1>10, EmptyIs DEF Used
  <2>2. QED
    BY <2>1 DEF SeqsAreUsedOnce
<1>16. FeedIsKept
  BY <1>1, <1>9 DEF FeedIsKept
<1>17. QED
  BY <1>11, <1>12, <1>13, <1>14, <1>15, <1>16 DEF IInv

LEMMA StepKeeps ==
    ASSUME IInv, [Next]_vars
    PROVE  IInv'
<1>1. CASE \E d \in Docs, r \in Revs : \E n \in 1..Pos(r) : UpdateOne(d, r, n)
  <2>1. PICK d \in Docs, r \in Revs : \E n \in 1..Pos(r) : UpdateOne(d, r, n)
    BY <1>1
  <2>2. PICK n \in 1..Pos(r) : UpdateOne(d, r, n)
    BY <2>1
  <2>3. QED
    BY <2>2, MergeIntoKeeps DEF UpdateOne
<1>2. CASE RejectBatch
  BY <1>2, RejectBatchKeeps
<1>3. CASE BatchRead \/ BatchNumbered \/ PurgeRead \/ CommitFails
  BY <1>3, PhaseKeeps
<1>4. CASE NumberDoc
  BY <1>4, NumberDocKeeps
<1>5. CASE \E d \in Docs, rev \in Revs \union {NoRev}, r \in Revs :
             \E n \in 1..Pos(r) : SaveDoc(d, rev, r, n)
  <2>1. PICK d \in Docs, rev \in Revs \union {NoRev}, r \in Revs :
               \E n \in 1..Pos(r) : SaveDoc(d, rev, r, n)
    BY <1>5
  <2>2. PICK n \in 1..Pos(r) : SaveDoc(d, rev, r, n)
    BY <2>1
  <2>3. QED
    BY <2>2, MergeIntoKeeps DEF SaveDoc
<1>6. CASE \E d \in Docs : \E revs \in SUBSET Leaves(work.ids[d]) : PurgeDoc(d, revs)
  BY <1>6, PurgeDocKeeps
<1>7. CASE WriteIdTree
  BY <1>7, WriteIdTreeKeeps
<1>8. CASE WriteSeqTree
  BY <1>8, WriteSeqTreeKeeps
<1>9. CASE TreeWriteFails
  BY <1>9, TreeWriteFailsKeeps
<1>10. CASE \/ \E l \in LocalIds, rev \in 0..MaxLocalRev : UpdateLocal(l, rev)
            \/ \E s \in Securities : SetSecurity(s)
            \/ MarkProtoNative
  BY <1>10, SettingKeeps
<1>11. CASE SyncData \/ WriteHeader \/ SyncHeader
  BY <1>11, CommitKeeps
<1>12. CASE Crash
  BY <1>12, CrashKeeps
<1>13. CASE Compact
  BY <1>13, CompactKeeps
<1>14. CASE CompactFails
  BY <1>14, CompactFailsKeeps
<1>15. CASE UNCHANGED vars
  <2>1. UNCHANGED <<work, written, disk, synced, sound, pc, batch, order, touched, plan,
                    acked, purged, torn>>
    BY <1>15 DEF vars, file, call, ghosts
  <2>2. TypeOK' /\ HeadersReachDisk' /\ FeedIsKept'
    BY <2>1 DEF IInv, TypeOK, HeadersReachDisk, FeedIsKept, MirrorsAround
  <2>3. (\A h \in Images' : ImageIsSound(h)) /\ ImagesSucceed' /\ PurgedIsWhole'
    BY <2>1, ImagesAsTheyWere
  <2>4. CallIsSound' /\ SeqsAreUsedOnce'
    BY <2>1 DEF IInv, CallIsSound, SeqsAreUsedOnce, Used, Outlived, OldSeq
  <2>5. QED
    BY <2>2, <2>3, <2>4 DEF IInv
<1>16. QED
  BY <1>1, <1>2, <1>3, <1>4, <1>5, <1>6, <1>7, <1>8, <1>9, <1>10, <1>11, <1>12, <1>13,
     <1>14, <1>15 DEF Next

\* The writer keeps the inductive invariant: whatever call, failure, crash or
\* compaction comes next (writer.rs).
THEOREM WriterInvariant == Spec => []IInv
BY InitIsSound, StepKeeps, PTL DEF Spec

\* Every tree of every header can be served and numbered, whatever merged, stemmed,
\* numbered, purged or compacted it (revtree.rs, writer.rs).
THEOREM EveryHeaderIsSound == Spec => []HeadersAreSound
<1>1. IInv => HeadersAreSound
  <2> SUFFICES ASSUME IInv PROVE HeadersAreSound
    OBVIOUS
  <2>1. TypeOK
    BY DEF IInv
  <2>2. LeafBodiesKept
    BY TypesAre DEF LeafBodiesKept, ImageIsSound, SoundTree
  <2>3. NoPlaceholderWritten
    <3> SUFFICES ASSUME NEW h \in Images, NEW d \in Docs, NEW r \in DOMAIN h.ids[d]
                 PROVE  h.ids[d][r].seq # Pending /\ h.ids[d][r].seq <= h.seq
      BY DEF NoPlaceholderWritten
    <3> DEFINE s == h.ids[d][r].seq
    <3>1. SeqsOf(h.ids[d]) \subseteq 1..h.seq /\ h.seq \in Nat
      BY TypesAre, ImageParts DEF ImageIsSound
    <3>2. s = Missing \/ s \in 1..h.seq
      BY <3>1 DEF SeqsOf
    <3> HIDE DEF s
    <3>3. s # Pending /\ s <= h.seq
      BY <3>1, <3>2, SeqsAre DEF Missing
    <3>4. QED
      BY <3>3 DEF s
  <2>4. QED
    BY <2>1, <2>2, <2>3 DEF HeadersAreSound
<1>2. QED
  BY <1>1, WriterInvariant, PTL

\* The feed of every header lists each document once, under its seq and with its
\* tree, and nothing beyond the update seq (writer.rs, run_batch and purge).
THEOREM EveryFeedIsExact == Spec => []FeedIsExact
<1>1. IInv => FeedIsExact
  <2> SUFFICES ASSUME IInv PROVE FeedIsExact
    OBVIOUS
  <2>1. FeedMatchesDocs
    BY DEF IInv, FeedIsKept, FeedMatchesDocs
  <2>2. NoRowBeyondUpdateSeq
    BY TypesAre DEF NoRowBeyondUpdateSeq, ImageIsSound
  <2>3. QED
    BY <2>1, <2>2 DEF FeedIsExact
<1>2. QED
  BY <1>1, WriterInvariant, PTL

\* No update, stemming, failure, crash or compaction loses a revision that a commit
\* acknowledged and nobody purged.
THEOREM NoAckedRevisionIsLost == Spec => []AckedRevisionsSurvive
<1>1. IInv => AckedRevisionsSurvive
  <2> SUFFICES ASSUME IInv, NEW d \in Docs, NEW l \in Leaves(acked.ids[d]), <<d, l>> \notin purged
               PROVE  Covers(disk.ids[d], l) /\ Covers(written.ids[d], l)
    BY DEF AckedRevisionsSurvive
  <2>1. PurgedIsWhole /\ Succeeds(acked, disk) /\ Succeeds(disk, written)
    BY DEF IInv, ImagesSucceed
  <2>2. Succeeds(acked, written)
    BY <2>1, TypesAre, SucceedsIsOrder
  <2>3. QED
    BY <2>1, <2>2 DEF Succeeds, Outlived
<1>2. QED
  BY <1>1, WriterInvariant, PTL

\* A restart or a compaction never returns below what was acknowledged: no seq is
\* handed out again and a proto database stays one (writer.rs, open and compact).
THEOREM AckedStateStays == Spec => AckedStateIsKept
<1>1. ASSUME IInv, IInv', [Next]_vars
      PROVE  /\ work'.seq >= work.seq \/ work'.seq >= acked.seq
             /\ acked.native => \A h \in Images' : h.native
  <2>1. acked' = acked \/ acked' = work
    BY <1>1 DEF Next, vars, ghosts, UpdateOne, RejectBatch, BatchRead, NumberDoc, BatchNumbered,
       SaveDoc, PurgeDoc, PurgeRead, WriteIdTree, WriteSeqTree, TreeWriteFails, UpdateLocal,
       SetSecurity, MarkProtoNative, SyncData, WriteHeader, SyncHeader, CommitFails, Crash,
       Compact, CompactFails
  <2>2. /\ acked.seq <= disk.seq /\ disk.seq <= written.seq /\ written.seq <= work.seq
        /\ (acked.native => disk.native) /\ (disk.native => written.native)
        /\ (written.native => work.native)
        /\ acked.seq \in Nat /\ disk.seq \in Nat /\ written.seq \in Nat /\ work.seq \in Nat
    BY <1>1, TypesAre, ImageParts DEF IInv, ImagesSucceed, Succeeds
  <2>3. /\ acked'.seq <= disk'.seq /\ disk'.seq <= written'.seq /\ written'.seq <= work'.seq
        /\ (acked'.native => disk'.native) /\ (disk'.native => written'.native)
        /\ (written'.native => work'.native)
    BY <1>1 DEF IInv, ImagesSucceed, Succeeds
  <2>4. acked'.seq \in Nat /\ disk'.seq \in Nat /\ written'.seq \in Nat /\ work'.seq \in Nat
    BY <1>1, ImageParts DEF IInv, TypeOK
  <2>5. acked'.seq >= acked.seq /\ (acked.native => acked'.native)
    BY <2>1, <2>2
  <2>6. work'.seq >= acked.seq
    BY <2>2, <2>3, <2>4, <2>5
  <2>7. acked.native => \A h \in Images' : h.native
    BY <2>3, <2>5 DEF Images
  <2>8. QED
    BY <2>6, <2>7
<1>2. IInv /\ IInv' /\ [Next]_vars => work'.seq >= work.seq \/ work'.seq >= acked.seq
  BY <1>1
<1>3. IInv /\ IInv' /\ [Next]_vars => (acked.native => \A h \in Images' : h.native)
  BY <1>1
<1>4. Spec => AckedSeqNeverReused
  BY <1>2, WriterInvariant, PTL DEF Spec, AckedSeqNeverReused
<1>5. Spec => NativeIsKept
  BY <1>3, WriterInvariant, PTL DEF Spec, NativeIsKept
<1>6. QED
  BY <1>4, <1>5 DEF AckedStateIsKept

\* An interactive save leaves no more leaves than it found (writer.rs, save_doc:
\* "Never creates conflicts").
THEOREM SavesNeverBranch == Spec => SaveNeverBranches
<1>1. ASSUME IInv, NEW d \in Docs, NEW rev \in Revs \union {NoRev}, NEW r \in Revs,
             NEW n \in 1..Pos(r), SaveDoc(d, rev, r, n)
      PROVE  Cardinality(Leaves(batch'[d]))
               <= IF Exists(work.ids[d]) THEN Cardinality(Leaves(work.ids[d])) ELSE 1
  <2> DEFINE t == work.ids[d]
             u == Merge(t, r, n)
  <2>1. SoundTree(t) /\ SoundTree(u)
    BY <1>1, TypesAre, MergeIs
  <2>2. batch'[d] = u
    <3>1. d \notin DOMAIN batch
      BY <1>1 DEF SaveDoc, IInv, CallIsSound, NoBatch
    <3>2. QED
      BY <1>1, <3>1 DEF SaveDoc, MergeInto, TreeInBatch
  <2>3. IsFiniteSet(Leaves(t)) /\ IsFiniteSet(Leaves(u))
    <3>1. Leaves(t) \subseteq DOMAIN t /\ Leaves(u) \subseteq DOMAIN u
      BY DEF Leaves
    <3>2. IsFiniteSet(DOMAIN t) /\ IsFiniteSet(DOMAIN u)
      BY <2>1, SoundIsRooted
    <3> HIDE DEF t, u
    <3>3. QED
      BY <3>1, <3>2, FS_Subset
  <2>4. CASE ~Exists(t)
    <3>1. Leaves(t) = {}
      BY <2>4 DEF Leaves, Exists
    <3>2. Leaves(u) \subseteq {r}
      BY <2>1, <3>1, MergeIs
    <3>3. Cardinality({r}) = 1 /\ IsFiniteSet({r})
      BY FS_Singleton
    <3> HIDE DEF u
    <3>4. Cardinality(Leaves(u)) <= 1
      BY <3>2, <3>3, FS_Subset
    <3>5. QED
      BY <2>2, <2>4, <3>4
  <2>5. CASE Exists(t)
    <3>1. PICK parent \in EditParents(d, rev) :
            Pos(r) > 1 /\ History[r][2] = parent /\ n = PathLen(t, parent) + 1
      BY <1>1, <2>5 DEF SaveDoc, NewEdit
    <3>2. parent \in Leaves(t)
      BY <2>1, <2>5, <3>1, WinnerIs DEF EditParents
    <3>3. \/ Leaves(u) \subseteq Leaves(t)
          \/ Leaves(u) \subseteq {r} \union (Leaves(t) \ {parent})
      BY <2>1, <3>1, <3>2, EditIs
    <3> DEFINE L == Leaves(t)
               M == Leaves(u)
               E == L \ {parent}
    <3> HIDE DEF t, u, L, M
    <3>4. IsFiniteSet(L) /\ IsFiniteSet(M) /\ parent \in L
      BY <2>3, <3>2 DEF L, M
    <3>5. IsFiniteSet(E) /\ Cardinality(E) = Cardinality(L) - 1
      BY <3>4, FS_RemoveElement
    <3>6. /\ IsFiniteSet(E \union {r})
          /\ Cardinality(E \union {r}) = IF r \in E THEN Cardinality(E) ELSE Cardinality(E) + 1
      BY <3>5, FS_AddElement
    <3>7. Cardinality(L) \in Nat /\ Cardinality(M) \in Nat
      BY <3>4, FS_CardinalityType
    <3>8. Cardinality(E \union {r}) <= Cardinality(L)
      BY <3>5, <3>6, <3>7
    <3>9. M \subseteq L => Cardinality(M) <= Cardinality(L)
      BY <3>4, FS_Subset
    <3>10. M \subseteq E \union {r} => Cardinality(M) <= Cardinality(E \union {r})
      BY <3>6, FS_Subset
    <3>11. Cardinality(E \union {r}) \in Nat
      BY <3>6, FS_CardinalityType
    <3>12. M \subseteq L \/ M \subseteq E \union {r}
      BY <3>3 DEF L, M
    <3>13. Cardinality(M) <= Cardinality(L)
      BY <3>7, <3>8, <3>9, <3>10, <3>11, <3>12
    <3>14. QED
      BY <2>2, <2>5, <3>13 DEF L, M, t, u
  <2>6. QED
    BY <2>4, <2>5
<1>2. IInv => \A d \in Docs, rev \in Revs \union {NoRev}, r \in Revs : \A n \in 1..Pos(r) :
         SaveDoc(d, rev, r, n) =>
            Cardinality(Leaves(batch'[d]))
               <= IF Exists(work.ids[d]) THEN Cardinality(Leaves(work.ids[d])) ELSE 1
  BY <1>1
<1>3. QED
  BY <1>2, WriterInvariant, PTL DEF SaveNeverBranches

-----------------------------------------------------------------------------
(* Replicas of a document                                                   *)

\* No history is longer than the limit: nothing is ever stemmed.
Unstemmed == \A r \in Revs : Pos(r) <= RevsLimit

\* A child's path is its own name and the path of its parent.
LEMMA ChildPath ==
    ASSUME NEW t, Rooted(t), NEW c \in DOMAIN t, t[c].linked
    PROVE  LET p == History[c][2]
           IN  /\ p \in DOMAIN t /\ Pos(c) = Pos(p) + 1
               /\ Path(p, PathLen(t, p)) \subseteq Path(c, PathLen(t, c))
<1> DEFINE p == History[c][2]
<1>1. c \in Revs /\ Pos(c) \in Nat /\ Pos(c) > 1 /\ p \in DOMAIN t /\ History[c][1] = c
  BY HistoryIs DEF Rooted, IsTree
<1>2. /\ Pos(p) = Pos(c) - 1
      /\ \A j \in 1..(Pos(c) - 1) : History[p][j] = History[c][j + 1]
  BY <1>1, ParentIs
<1>3. IsPathLen(t, c, PathLen(t, c)) /\ IsPathLen(t, p, PathLen(t, p))
  BY <1>1, PathLenIs
<1>4. PathLen(t, c) \in 1..Pos(c) /\ PathLen(t, p) \in 1..Pos(p) /\ PathLen(t, c) # 1
  BY <1>1, <1>3 DEF IsPathLen
<1>5. PathLen(t, p) = PathLen(t, c) - 1
  <2>1. 2 \in 1..PathLen(t, c)
    BY <1>1, <1>4
  <2>2. PathLen(t, History[c][2]) = PathLen(t, c) - 2 + 1
    BY <2>1, SameRoot
  <2>3. QED
    BY <1>1, <1>4, <2>2
<1>6. \A j \in 1..PathLen(t, p) : j + 1 \in 1..PathLen(t, c) /\ History[p][j] = History[c][j + 1]
  BY <1>1, <1>2, <1>4, <1>5
<1>7. QED
  BY <1>1, <1>2, <1>6 DEF Path

\* Every revision of a tree is on the path that the tree gives to some leaf.
LEMMA LeafOver ==
    ASSUME NEW t, SoundTree(t), NEW x \in DOMAIN t
    PROVE  \E l \in Leaves(t) : x \in Path(l, PathLen(t, l))
<1> DEFINE Up == {y \in DOMAIN t : x \in Path(y, PathLen(t, y))}
           f == [y \in Up |-> Pos(y)]
<1>1. /\ Rooted(t) /\ IsFiniteSet(DOMAIN t)
      /\ \A y \in DOMAIN t : y \in Revs /\ Pos(y) \in Nat
  BY SoundIsRooted, HistoryIs
<1>2. x \in Up
  <2>1. PathLen(t, x) \in 1..Pos(x) /\ History[x][1] = x
    BY <1>1, PathLenIs, HistoryIs DEF IsPathLen
  <2>2. 1 \in 1..PathLen(t, x)
    BY <1>1, <2>1
  <2>3. QED
    BY <2>1, <2>2 DEF Path
<1>3. IsFiniteSet(Up)
  BY <1>1, FS_Subset
<1>4. f \in [Up -> Nat]
  BY <1>1
<1>5. PICK m \in Up : \A y \in Up : f[y] <= f[m]
  <2> HIDE DEF Up, f
  <2>1. QED
    BY <1>2, <1>3, <1>4, GreatestExists
<1>6. m \in DOMAIN t /\ x \in Path(m, PathLen(t, m)) /\ \A y \in Up : Pos(y) <= Pos(m)
  BY <1>5
<1>7. ASSUME NEW c \in DOMAIN t, ChildOf(t, c, m)
      PROVE  FALSE
  <2>1. t[c].linked /\ History[c][2] = m
    BY <1>7 DEF ChildOf
  <2>2. Pos(c) = Pos(m) + 1 /\ x \in Path(c, PathLen(t, c))
    BY <1>1, <1>6, <2>1, ChildPath
  <2>3. Pos(c) <= Pos(m)
    BY <1>6, <2>2
  <2>4. QED
    BY <1>1, <1>6, <2>2, <2>3
<1>8. QED
  BY <1>6, <1>7 DEF Leaves

\* Below the limit stem keeps all of a tree and every link.
LEMMA KeptIsAll ==
    ASSUME Unstemmed, NEW t, SoundTree(t)
    PROVE  Kept(t) = DOMAIN t /\ KeptBelow(t) = {x \in DOMAIN t : t[x].linked}
<1>1. Rooted(t) /\ \A l \in Leaves(t) : l \in DOMAIN t
  BY SoundIsRooted
<1>2. \A x \in DOMAIN t : x \in Revs /\ Pos(x) \in Nat /\ IsPathLen(t, x, PathLen(t, x))
  BY <1>1, PathLenIs, HistoryIs DEF Rooted, IsTree
<1>3. RevsLimit \in Nat
  BY LimitAssumption
<1>4. \A l \in Leaves(t) : KeptLen(t, l) = PathLen(t, l)
  <2> TAKE l \in Leaves(t)
  <2>1. PathLen(t, l) \in 1..Pos(l) /\ Pos(l) \in Nat /\ Pos(l) <= RevsLimit
    BY <1>1, <1>2 DEF IsPathLen, Unstemmed
  <2>2. PathLen(t, l) <= RevsLimit
    BY <1>3, <2>1
  <2>3. QED
    BY <2>2 DEF KeptLen
<1>5. Kept(t) = UNION {Path(l, PathLen(t, l)) : l \in Leaves(t)}
  BY <1>4 DEF Kept
<1>6. Kept(t) = DOMAIN t
  <2>1. \A l \in Leaves(t) : Path(l, PathLen(t, l)) \subseteq DOMAIN t
    BY <1>1, RootIs
  <2>2. QED
    BY <1>5, <2>1, LeafOver
<1>7. ASSUME NEW x \in KeptBelow(t)
      PROVE  x \in DOMAIN t /\ t[x].linked
  <2>1. PICK l \in Leaves(t) : x \in Path(l, PathLen(t, l) - 1)
    BY <1>4, <1>7 DEF KeptBelow
  <2>2. IsPathLen(t, l, PathLen(t, l)) /\ Pos(l) \in Nat
    BY <1>1, <1>2
  <2>3. PICK i \in 1..(PathLen(t, l) - 1) : x = History[l][i]
    BY <2>1 DEF Path
  <2>4. i \in 1..PathLen(t, l)
    BY <2>2, <2>3 DEF IsPathLen
  <2>5. QED
    BY <2>2, <2>3, <2>4 DEF IsPathLen
<1>8. ASSUME NEW x \in DOMAIN t, t[x].linked
      PROVE  x \in KeptBelow(t)
  <2>1. PICK l \in Leaves(t) : x \in Path(l, PathLen(t, l))
    BY LeafOver
  <2>2. IsPathLen(t, l, PathLen(t, l)) /\ Pos(l) \in Nat /\ l \in Revs
    BY <1>1, <1>2
  <2>3. x # History[l][PathLen(t, l)]
    BY <1>8, <2>2 DEF IsPathLen
  <2>4. x \in Path(l, PathLen(t, l) - 1)
    BY <2>1, <2>2, <2>3, PathBelow DEF IsPathLen
  <2>5. QED
    BY <1>4, <2>4 DEF KeptBelow
<1>9. QED
  BY <1>6, <1>7, <1>8

\* A path to a revision that the tree holds is merged where the revision is.
LEMMA TargetOfHeld ==
    ASSUME NEW t, SoundTree(t), NEW r \in DOMAIN t, NEW n \in 1..Pos(r)
    PROVE  Target(t, r, n) = Members(t, RootOf(t, r)) /\ r \in Target(t, r, n)
<1> DEFINE k == PathLen(t, r)
           z == RootOf(t, r)
           s == History[r][n]
           C == Connecting(t, r, n)
<1>1. Rooted(t) /\ r \in Revs /\ Pos(r) \in Nat /\ n \in Nat /\ n >= 1 /\ n <= Pos(r)
  BY SoundIsRooted, HistoryIs
<1>2. IsPathLen(t, r, k) /\ z = History[r][k]
  BY <1>1, PathLenIs DEF RootOf
<1>3. k \in 1..Pos(r) /\ k \in Nat /\ z \in DOMAIN t /\ ~t[z].linked
  BY <1>1, <1>2, RootIs DEF IsPathLen
<1>4. \A i \in 1..Pos(r) : Pos(History[r][i]) = Pos(r) - i + 1
  BY <1>1, AncestorIs
<1>5. z \in C
  <2>1. CASE k < n
    <3>1. k \in 1..n /\ z # s
      BY <1>1, <1>2, <1>3, <1>4, <2>1
    <3>2. QED
      BY <1>2, <1>3, <3>1 DEF Connecting, Path
  <2>2. CASE ~(k < n)
    <3>1. n \in 1..k
      BY <1>1, <1>3, <2>2
    <3>2. s \in DOMAIN t /\ RootOf(t, s) = z
      BY <1>1, <3>1, SameRoot
    <3>3. QED
      BY <1>3, <3>2 DEF Connecting, Members
  <2>3. QED
    BY <2>1, <2>2
<1>6. ASSUME NEW x \in C
      PROVE  Pos(x) <= Pos(z) /\ (Pos(z) <= Pos(x) => x = z)
  <2>1. x \in DOMAIN t /\ ~t[x].linked
    BY <1>6 DEF Connecting
  <2>2. x \in Path(r, Pos(r))
    <3>1. CASE x \in Path(r, n)
      BY <1>1, <3>1, PathIs
    <3>2. CASE s \in DOMAIN t /\ RootOf(t, s) = x
      <4>1. x \in Path(s, PathLen(t, s)) /\ PathLen(t, s) \in 1..Pos(s) /\ s \in Revs
        BY <1>1, <3>2, RootIs, PathLenIs DEF IsPathLen, Rooted, IsTree
      <4>2. x \in Path(s, Pos(s))
        BY <4>1, PathIs
      <4>3. s \in Path(r, Pos(r))
        BY <1>1 DEF Path
      <4>4. QED
        BY <1>1, <4>2, <4>3, AncestryIsOrder
    <3>3. QED
      BY <1>6, <3>1, <3>2 DEF Connecting, Members
  <2>3. PICK j \in 1..Pos(r) : x = History[r][j]
    BY <2>2 DEF Path
  <2>4. ~(j < k)
    <3>1. j < k => j \in 1..(k - 1)
      BY <1>1, <1>3
    <3>2. QED
      BY <1>2, <2>1, <2>3, <3>1 DEF IsPathLen
  <2>5. Pos(x) = Pos(r) - j + 1 /\ Pos(z) = Pos(r) - k + 1
    BY <1>2, <1>3, <1>4, <2>3
  <2>6. QED
    BY <1>1, <1>2, <1>3, <2>3, <2>4, <2>5
<1>7. Target(t, r, n) = Members(t, z)
  <2>1. Target(t, r, n) = Members(t, CHOOSE x \in C : \A y \in C : Pos(y) <= Pos(x))
    BY <1>5 DEF Target
  <2> HIDE DEF C, z
  <2>2. QED
    BY <1>5, <1>6, <2>1
<1>8. QED
  BY <1>7 DEF Members

\* What x of the tree is after the path to r was merged, when nothing is stemmed.
Joined(t, r, n, x) ==
    [linked |-> x \in Path(r, n) \ {History[r][n]} \/ (x \in DOMAIN t /\ t[x].linked),
     seq    |-> IF x \in DOMAIN t /\ Stored(t, x) THEN t[x].seq
                ELSE IF x = r THEN Pending ELSE Missing]

\* Below the limit a merge is a union: it adds the path and its links, and stores the
\* new revision where there is no body yet, whichever tree of the forest takes it.
LEMMA MergeIsUnion ==
    ASSUME Unstemmed, NEW t, SoundTree(t), NEW r \in Revs, NEW n \in 1..Pos(r)
    PROVE  Merge(t, r, n) = [x \in DOMAIN t \union Path(r, n) |-> Joined(t, r, n, x)]
<1> DEFINE T == Target(t, r, n)
           P == Path(r, n)
           s == History[r][n]
           D == DOMAIN t \union P
           a == MergedTree(t, r, n)
           b == [x \in DOMAIN t \ T |-> t[x]]
           F == {a, b}
           Has(x, u) == x \in Kept(u) /\ Stored(u, x)
<1>1. Rooted(t) /\ \A x \in DOMAIN t : t[x].linked \in BOOLEAN
  BY SoundIsRooted DEF Node
<1>2. /\ T \in SUBSET DOMAIN t
      /\ \A c \in DOMAIN t : t[c].linked => (c \in T <=> History[c][2] \in T)
  BY <1>1, TargetIs
<1>3. SoundTree(a) /\ DOMAIN a = T \union P
  BY MergedTreeIs
<1>4. SoundTree(b)
  <2> HIDE DEF T
  <2>1. QED
    BY <1>2, LeftAloneIs
<1>5. r \in P /\ (r \in DOMAIN t => r \in T)
  BY PathIs, TargetOfHeld
<1>6. \A x \in T \union P :
        /\ a[x].linked = (x \in P \ {s} \/ (x \in T /\ t[x].linked))
        /\ a[x].seq = IF x \in T /\ Stored(t, x) THEN t[x].seq
                      ELSE IF x = r THEN Pending ELSE Missing
  BY DEF MergedTree
<1>7. DOMAIN b = DOMAIN t \ T /\ \A x \in DOMAIN b : b[x] = t[x]
  OBVIOUS
<1>8. Merge(t, r, n) =
        [x \in UNION {Kept(u) : u \in F} |->
           [linked |-> \E u \in F : x \in KeptBelow(u),
            seq |-> IF \E u \in F : Has(x, u) THEN (CHOOSE u \in F : Has(x, u))[x].seq
                    ELSE Missing]]
  BY DEF Merge, MergePath, Stem
<1> HIDE DEF T, P, s, a, b
<1>9. /\ Kept(a) = T \union P /\ KeptBelow(a) = {x \in T \union P : a[x].linked}
      /\ Kept(b) = DOMAIN t \ T /\ KeptBelow(b) = {x \in DOMAIN t \ T : b[x].linked}
  BY <1>3, <1>4, <1>7, KeptIsAll
<1>10. UNION {Kept(u) : u \in F} = D
  BY <1>2, <1>9
<1>11. ASSUME NEW x \in D
       PROVE  (\E u \in F : x \in KeptBelow(u)) = (x \in P \ {s} \/ (x \in DOMAIN t /\ t[x].linked))
  BY <1>2, <1>6, <1>7, <1>9
<1>12. ASSUME NEW x \in D
       PROVE  (IF \E u \in F : Has(x, u) THEN (CHOOSE u \in F : Has(x, u))[x].seq ELSE Missing)
                = IF x \in DOMAIN t /\ Stored(t, x) THEN t[x].seq
                  ELSE IF x = r THEN Pending ELSE Missing
  <2>1. Has(x, a) <=> x \in T \union P /\ a[x].seq # Missing
    BY <1>9 DEF Stored
  <2>2. Has(x, b) <=> x \in DOMAIN t \ T /\ t[x].seq # Missing
    BY <1>7, <1>9 DEF Stored
  <2>3. Pending # Missing
    BY PendingAssumption DEF Missing
  <2>4. CASE x \in DOMAIN t \ T
    <3>1. x # r /\ ~Has(x, a)
      BY <1>5, <1>6, <2>1, <2>4
    <3>2. b[x].seq = t[x].seq
      BY <1>7, <2>4
    <3>3. CASE t[x].seq # Missing
      <4>1. Has(x, b) /\ \A u \in F : Has(x, u) => u = b
        BY <2>2, <2>4, <3>1, <3>3
      <4> HIDE DEF Has, F
      <4>2. b \in F
        BY DEF F
      <4>3. (CHOOSE u \in F : Has(x, u)) = b
        BY <4>1, <4>2
      <4>4. QED
        BY <2>4, <3>2, <3>3, <4>1, <4>2, <4>3 DEF Stored
    <3>4. CASE t[x].seq = Missing
      <4>1. \A u \in F : ~Has(x, u)
        BY <2>2, <3>1, <3>4
      <4> HIDE DEF Has, F
      <4>2. QED
        BY <3>1, <3>4, <4>1 DEF Stored
    <3>5. QED
      BY <3>3, <3>4
  <2>5. CASE x \in T \union P /\ x \notin DOMAIN t \ T
    <3>1. ~Has(x, b) /\ (x \in DOMAIN t <=> x \in T)
      BY <1>2, <2>2, <2>5
    <3>2. a[x].seq = IF x \in DOMAIN t /\ Stored(t, x) THEN t[x].seq
                     ELSE IF x = r THEN Pending ELSE Missing
      BY <1>6, <2>5, <3>1
    <3>3. CASE a[x].seq # Missing
      <4>1. Has(x, a) /\ \A u \in F : Has(x, u) => u = a
        BY <2>1, <2>5, <3>1, <3>3
      <4> HIDE DEF Has, F
      <4>2. a \in F
        BY DEF F
      <4>3. (CHOOSE u \in F : Has(x, u)) = a
        BY <4>1, <4>2
      <4>4. QED
        BY <3>2, <4>1, <4>2, <4>3
    <3>4. CASE a[x].seq = Missing
      <4>1. \A u \in F : ~Has(x, u)
        BY <2>1, <3>1, <3>4
      <4> HIDE DEF Has, F
      <4>2. QED
        BY <3>2, <3>4, <4>1
    <3>5. QED
      BY <3>3, <3>4
  <2>6. QED
    BY <1>2, <2>4, <2>5
<1>13. Merge(t, r, n) =
         [x \in D |-> [linked |-> x \in P \ {s} \/ (x \in DOMAIN t /\ t[x].linked),
                       seq |-> IF x \in DOMAIN t /\ Stored(t, x) THEN t[x].seq
                               ELSE IF x = r THEN Pending ELSE Missing]]
  <2> HIDE DEF D, F, Has
  <2>1. QED
    BY <1>8, <1>10, <1>11, <1>12
<1>14. QED
  BY <1>13 DEF Joined, P, s

\* The tree t after the updates of S, when nothing is stemmed.
WithUpdates(t, S) ==
    [x \in DOMAIN t \union UNION {Path(p[1], p[2]) : p \in S} |->
        [linked |-> \/ x \in DOMAIN t /\ t[x].linked
                    \/ \E p \in S : x \in Path(p[1], p[2]) \ {History[p[1]][p[2]]},
         seq    |-> IF x \in DOMAIN t /\ Stored(t, x) THEN t[x].seq
                    ELSE IF \E p \in S : x = p[1] THEN Pending ELSE Missing]]

\* Merging adds an update to those a tree has, whatever they are.
LEMMA MergeAddsUpdate ==
    ASSUME Unstemmed, NEW t, SoundTree(t), NEW S, S \subseteq Updates,
           SoundTree(WithUpdates(t, S)), NEW r \in Revs, NEW n \in 1..Pos(r)
    PROVE  Merge(WithUpdates(t, S), r, n) = WithUpdates(t, S \union {<<r, n>>})
<1> DEFINE u == WithUpdates(t, S)
           R == S \union {<<r, n>>}
           D == DOMAIN t \union UNION {Path(p[1], p[2]) : p \in S}
           In(x, p) == x \in Path(p[1], p[2]) \ {History[p[1]][p[2]]}
           LS(x) == (x \in DOMAIN t /\ t[x].linked) \/ \E p \in S : In(x, p)
           LR(x) == (x \in DOMAIN t /\ t[x].linked) \/ \E p \in R : In(x, p)
           SS(x) == IF x \in DOMAIN t /\ Stored(t, x) THEN t[x].seq
                    ELSE IF \E p \in S : x = p[1] THEN Pending ELSE Missing
           SR(x) == IF x \in DOMAIN t /\ Stored(t, x) THEN t[x].seq
                    ELSE IF \E p \in R : x = p[1] THEN Pending ELSE Missing
<1>1. u = [x \in D |-> [linked |-> LS(x), seq |-> SS(x)]]
  BY DEF WithUpdates
<1>2. WithUpdates(t, R) = [x \in D \union Path(r, n) |-> [linked |-> LR(x), seq |-> SR(x)]]
  <2>1. DOMAIN t \union UNION {Path(p[1], p[2]) : p \in R} = D \union Path(r, n)
    <3> DEFINE PathOf(p) == Path(p[1], p[2])
    <3>1. PathOf(<<r, n>>) = Path(r, n)
      OBVIOUS
    <3> HIDE DEF PathOf
    <3>2. UNION {PathOf(p) : p \in R} = (UNION {PathOf(p) : p \in S}) \union PathOf(<<r, n>>)
      OBVIOUS
    <3>3. QED
      BY <3>1, <3>2 DEF PathOf
  <2>2. WithUpdates(t, R) =
          [x \in DOMAIN t \union UNION {Path(p[1], p[2]) : p \in R} |->
             [linked |-> LR(x), seq |-> SR(x)]]
    <3> HIDE DEF R
    <3>1. QED
      BY DEF WithUpdates
  <2> HIDE DEF D, R, LR, SR
  <2>3. QED
    BY <2>1, <2>2
<1>3. \A p \in S : p[1] \in Path(p[1], p[2])
  BY PathIs DEF Updates
<1>4. Pending # Missing /\ r \in Path(r, n)
  BY PendingAssumption, PathIs DEF Missing
<1>5. \A x : LR(x) <=> LS(x) \/ x \in Path(r, n) \ {History[r][n]}
  <2> TAKE x
  <2>1. In(x, <<r, n>>) <=> x \in Path(r, n) \ {History[r][n]}
    OBVIOUS
  <2> HIDE DEF In
  <2>2. (\E p \in R : In(x, p)) <=> (\E p \in S : In(x, p)) \/ In(x, <<r, n>>)
    OBVIOUS
  <2>3. QED
    BY <2>1, <2>2
<1>6. \A x : (\E p \in R : x = p[1]) <=> (\E p \in S : x = p[1]) \/ x = r
  <2> TAKE x
  <2> DEFINE Its(p) == x = p[1]
  <2>1. Its(<<r, n>>) <=> x = r
    OBVIOUS
  <2> HIDE DEF Its
  <2>2. (\E p \in R : Its(p)) <=> (\E p \in S : Its(p)) \/ Its(<<r, n>>)
    OBVIOUS
  <2>3. (\E p \in R : Its(p)) <=> (\E p \in S : Its(p)) \/ x = r
    BY <2>1, <2>2
  <2>4. QED
    BY <2>3 DEF Its
<1> HIDE DEF u
<1>7. Merge(u, r, n) = [x \in D \union Path(r, n) |-> Joined(u, r, n, x)]
  <2>1. Merge(u, r, n) = [x \in DOMAIN u \union Path(r, n) |-> Joined(u, r, n, x)]
    BY MergeIsUnion DEF u
  <2>2. DOMAIN u = D
    BY <1>1
  <2>3. QED
    BY <2>1, <2>2
<1>8. ASSUME NEW x \in D \union Path(r, n)
      PROVE  Joined(u, r, n, x) = [linked |-> LR(x), seq |-> SR(x)]
  <2>1. x \in DOMAIN u <=> x \in D
    BY <1>1
  <2>2. x \in D => u[x].linked = LS(x) /\ u[x].seq = SS(x)
    <3> HIDE DEF D, LS, SS
    <3>1. QED
      BY <1>1
  <2>3. x \notin D => x \notin DOMAIN t /\ \A p \in S : x \notin Path(p[1], p[2])
    OBVIOUS
  <2>4. x \notin D => ~LS(x) /\ ~\E p \in S : x = p[1]
    BY <1>3, <2>3
  <2>5. LS(x) \in BOOLEAN /\ LR(x) \in BOOLEAN
    OBVIOUS
  <2>6. (x \in Path(r, n) \ {History[r][n]} \/ (x \in DOMAIN u /\ u[x].linked)) = LR(x)
    <3>1. LR(x) <=> LS(x) \/ x \in Path(r, n) \ {History[r][n]}
      BY <1>5
    <3> HIDE DEF LS, LR, D
    <3>2. QED
      BY <2>1, <2>2, <2>4, <2>5, <3>1
  <2>7. (IF x \in DOMAIN u /\ Stored(u, x) THEN u[x].seq ELSE IF x = r THEN Pending ELSE Missing)
          = SR(x)
    <3>1. CASE x \in D
      <4>1. u[x].seq = SS(x) /\ x \in DOMAIN u
        BY <2>1, <2>2, <3>1
      <4>2. SS(x) # Missing => SR(x) = SS(x)
        BY <1>4, <1>6
      <4>3. SS(x) = Missing => SR(x) = IF x = r THEN Pending ELSE Missing
        BY <1>4, <1>6 DEF Stored
      <4> HIDE DEF SS, SR
      <4>4. QED
        BY <4>1, <4>2, <4>3 DEF Stored
    <3>2. CASE x \notin D
      <4>1. SR(x) = IF x = r THEN Pending ELSE Missing
        BY <1>6, <2>3, <2>4, <3>2
      <4> HIDE DEF SR
      <4>2. QED
        BY <2>1, <3>2, <4>1
    <3>3. QED
      BY <3>1, <3>2
  <2> HIDE DEF LR, SR
  <2>8. QED
    BY <2>6, <2>7 DEF Joined
<1>9. Merge(u, r, n) = WithUpdates(t, R)
  <2> HIDE DEF D, LR, SR, R
  <2>1. QED
    BY <1>2, <1>7, <1>8
<1>10. QED
  BY <1>9 DEF u

\* A tree has no updates to begin with.
LEMMA WithNoUpdate ==
    ASSUME NEW t, SoundTree(t)
    PROVE  WithUpdates(t, {}) = t
<1>1. t = [x \in DOMAIN t |-> t[x]] /\ \A x \in DOMAIN t : t[x] \in Node
  BY SoundIsRooted DEF IsTree
<1>2. WithUpdates(t, {}) =
        [x \in DOMAIN t |->
          [linked |-> t[x].linked \/ FALSE, seq |-> IF Stored(t, x) THEN t[x].seq ELSE Missing]]
  <2>1. UNION {Path(p[1], p[2]) : p \in {}} = {}
    OBVIOUS
  <2>2. DOMAIN t \union UNION {Path(p[1], p[2]) : p \in {}} = DOMAIN t
    BY <2>1
  <2>3. QED
    BY <1>1, <2>2 DEF WithUpdates, Node
<1>3. ASSUME NEW x \in DOMAIN t
      PROVE  [linked |-> t[x].linked \/ FALSE, seq |-> IF Stored(t, x) THEN t[x].seq ELSE Missing]
               = t[x]
  <2>1. t[x] \in Node
    BY <1>1
  <2>2. t[x] = [linked |-> t[x].linked, seq |-> t[x].seq] /\ t[x].linked \in BOOLEAN
    BY <2>1 DEF Node
  <2>3. (t[x].linked \/ FALSE) = t[x].linked
    BY <2>2
  <2>4. (IF Stored(t, x) THEN t[x].seq ELSE Missing) = t[x].seq
    BY DEF Stored
  <2>5. QED
    BY <2>2, <2>3, <2>4
<1>4. QED
  BY <1>1, <1>2, <1>3

LEMMA UnionOfMerge ==
    ASSUME Unstemmed, NEW t, SoundTree(t), NEW r \in Revs, NEW n \in 1..Pos(r)
    PROVE  Merge(t, r, n) = WithUpdates(t, {<<r, n>>})
<1>1. WithUpdates(t, {}) = t
  BY WithNoUpdate
<1>2. Merge(WithUpdates(t, {}), r, n) = WithUpdates(t, {} \union {<<r, n>>})
  BY <1>1, MergeAddsUpdate
<1>3. {} \union {<<r, n>>} = {<<r, n>>}
  OBVIOUS
<1>4. QED
  BY <1>1, <1>2, <1>3

\* So two merges have the same outcome either way round.
LEMMA MergesEitherWay ==
    ASSUME Unstemmed, NEW t, SoundTree(t),
           NEW r \in Revs, NEW n \in 1..Pos(r), NEW q \in Revs, NEW k \in 1..Pos(q)
    PROVE  Merge(Merge(t, r, n), q, k) = Merge(Merge(t, q, k), r, n)
<1> DEFINE P == {<<r, n>>}
           Q == {<<q, k>>}
<1>1. P \subseteq Updates /\ Q \subseteq Updates
  BY DEF Updates
<1>2. Merge(t, r, n) = WithUpdates(t, P) /\ Merge(t, q, k) = WithUpdates(t, Q)
  BY UnionOfMerge
<1>3. SoundTree(Merge(t, r, n)) /\ SoundTree(Merge(t, q, k))
  BY MergeIs
<1>4. Merge(WithUpdates(t, P), q, k) = WithUpdates(t, P \union Q)
  <2>1. SoundTree(WithUpdates(t, P))
    BY <1>2, <1>3
  <2> HIDE DEF P
  <2>2. QED
    BY <1>1, <2>1, MergeAddsUpdate
<1>5. Merge(WithUpdates(t, Q), r, n) = WithUpdates(t, Q \union P)
  <2>1. SoundTree(WithUpdates(t, Q))
    BY <1>2, <1>3
  <2> HIDE DEF Q
  <2>2. QED
    BY <1>1, <2>1, MergeAddsUpdate
<1>6. P \union Q = Q \union P
  OBVIOUS
<1> HIDE DEF P, Q
<1>7. QED
  BY <1>2, <1>4, <1>5, <1>6

\* And a merge made twice is made once.
LEMMA MergedOnce ==
    ASSUME Unstemmed, NEW t, SoundTree(t), NEW r \in Revs, NEW n \in 1..Pos(r)
    PROVE  LET m == Merge(t, r, n)
           IN  Merge(m, r, n) = m /\ ~MergeChanges(m, r, n)
<1> DEFINE m == Merge(t, r, n)
           P == Path(r, n)
           s == History[r][n]
<1>1. m = [x \in DOMAIN t \union P |-> Joined(t, r, n, x)]
  BY MergeIsUnion
<1>2. SoundTree(m)
  BY MergeIs
<1>3. r \in P
  BY PathIs
<1>4. Pending # Missing
  BY PendingAssumption DEF Missing
<1> HIDE DEF m
<1>5. DOMAIN m = DOMAIN t \union P
  BY <1>1
<1>6. Merge(m, r, n) = [x \in DOMAIN m |-> Joined(m, r, n, x)]
  <2>1. Merge(m, r, n) = [x \in DOMAIN m \union P |-> Joined(m, r, n, x)]
    BY <1>2, MergeIsUnion
  <2>2. QED
    BY <1>5, <2>1
<1>7. Stored(m, r) /\ \A x \in P \ {s} : m[x].linked
  BY <1>1, <1>3, <1>4 DEF Joined, Stored
<1>8. \A x \in DOMAIN m : Joined(m, r, n, x) = m[x]
  <2> TAKE x \in DOMAIN m
  <2> DEFINE L == x \in P \ {s} \/ (x \in DOMAIN t /\ t[x].linked)
             S == IF x \in DOMAIN t /\ Stored(t, x) THEN t[x].seq
                  ELSE IF x = r THEN Pending ELSE Missing
  <2>1. m[x] = [linked |-> L, seq |-> S]
    BY <1>1 DEF Joined
  <2>2. x = r => m[x].seq # Missing
    BY <1>7 DEF Stored
  <2>3. L \in BOOLEAN /\ (x \in P \ {s} => L)
    OBVIOUS
  <2> HIDE DEF L, S
  <2>4. m[x].linked = L /\ m[x].seq = S
    BY <2>1
  <2>5. (x \in P \ {s} \/ (x \in DOMAIN m /\ m[x].linked)) = L
    BY <2>3, <2>4
  <2>6. (IF x \in DOMAIN m /\ Stored(m, x) THEN m[x].seq ELSE IF x = r THEN Pending ELSE Missing) = S
    BY <2>2, <2>4 DEF Stored
  <2>7. QED
    BY <2>1, <2>5, <2>6 DEF Joined
<1>9. Merge(m, r, n) = m
  <2>1. m = [x \in DOMAIN m |-> m[x]]
    BY <1>1
  <2>2. QED
    BY <1>6, <1>8, <2>1
<1>10. P \subseteq Target(m, r, n)
  <2>1. r \in DOMAIN m /\ Rooted(m) /\ Pos(r) \in Nat
    BY <1>2, <1>3, <1>5, SoundIsRooted, HistoryIs
  <2>2. Target(m, r, n) = Members(m, RootOf(m, r)) /\ IsPathLen(m, r, PathLen(m, r))
    BY <1>2, <2>1, TargetOfHeld, PathLenIs
  <2>3. ~(PathLen(m, r) < n)
    <3> SUFFICES ASSUME PathLen(m, r) < n PROVE FALSE
      OBVIOUS
    <3> DEFINE k == PathLen(m, r)
    <3>1. k \in 1..Pos(r) /\ ~m[History[r][k]].linked
      BY <2>2 DEF IsPathLen
    <3>2. History[r][k] \in P /\ History[r][k] # s
      <4>1. k \in 1..n
        BY <2>1, <3>1
      <4>2. Pos(History[r][k]) = Pos(r) - k + 1 /\ Pos(s) = Pos(r) - n + 1
        BY <3>1, AncestorIs
      <4>3. QED
        BY <2>1, <3>1, <4>1, <4>2 DEF Path
    <3>3. QED
      BY <1>7, <3>1, <3>2
  <2>4. \A i \in 1..n : i \in 1..PathLen(m, r)
    BY <2>1, <2>2, <2>3 DEF IsPathLen
  <2>5. \A i \in 1..n : History[r][i] \in Members(m, RootOf(m, r))
    BY <2>1, <2>4, SameRoot DEF Members
  <2>6. QED
    BY <2>2, <2>5 DEF Path
<1>11. ~MergeChanges(m, r, n)
  BY <1>7, <1>10 DEF MergeChanges
<1>12. QED
  BY <1>9, <1>11 DEF m

\* Replicas that receive the same updates, in any order and more than once, hold
\* the same tree, as long as nothing is stemmed: an update commutes with every
\* other and is quiet when repeated, on any tree (revtree.rs merge_path, stem).
THEOREM ReplicasMerge ==
    ASSUME Unstemmed, NEW t, SoundTree(t)
    PROVE  MergesConverge(t)
<1>1. \A p \in Updates : p[1] \in Revs /\ p[2] \in 1..Pos(p[1])
  BY DEF Updates
<1>2. MergesCommute(t)
  <2> DEFINE once == [p \in Updates |-> Merge(t, p[1], p[2])]
  <2>1. ASSUME NEW p \in Updates, NEW q \in Updates
        PROVE  Merge(once[p], q[1], q[2]) = Merge(once[q], p[1], p[2])
    BY <1>1, MergesEitherWay
  <2>2. QED
    BY <2>1 DEF MergesCommute
<1>3. MergeIsIdempotent(t)
  BY <1>1, MergedOnce DEF MergeIsIdempotent
<1>4. QED
  BY <1>2, <1>3 DEF MergesConverge

\* The trees a replica goes through as it receives the updates us, starting from t.
Receives(t, us, ts) ==
    /\ us \in Seq(Updates) /\ ts[1] = t
    /\ \A i \in 1..Len(us) : ts[i + 1] = Merge(ts[i], us[i][1], us[i][2])

\* What a replica holds is what the set of the updates it has received makes of the
\* tree it started from.
LEMMA ReplicaHolds ==
    ASSUME Unstemmed, NEW t, SoundTree(t), NEW us, NEW ts, Receives(t, us, ts)
    PROVE  /\ SoundTree(ts[Len(us) + 1])
           /\ ts[Len(us) + 1] = WithUpdates(t, {us[j] : j \in 1..Len(us)})
<1> DEFINE n == Len(us)
           First(i) == {us[j] : j \in 1..i}
           Good == {i \in 0..n : SoundTree(ts[i + 1]) /\ ts[i + 1] = WithUpdates(t, First(i))}
<1>1. /\ n \in Nat /\ ts[1] = t
      /\ \A i \in 1..n : us[i] \in Updates /\ ts[i + 1] = Merge(ts[i], us[i][1], us[i][2])
  BY DEF Receives
<1>2. \A p \in Updates : p[1] \in Revs /\ p[2] \in 1..Pos(p[1]) /\ p = <<p[1], p[2]>>
  BY DEF Updates
<1>3. ASSUME NEW i \in 0..n, \A j \in 0..n : j < i => j \in Good
      PROVE  i \in Good
  <2>1. CASE i = 0
    <3>1. First(0) = {}
      BY <1>1
    <3>2. WithUpdates(t, First(0)) = t
      BY <3>1, WithNoUpdate
    <3>3. QED
      BY <1>1, <2>1, <3>2
  <2>2. CASE i # 0
    <3>1. i \in 1..n /\ i - 1 \in 0..n /\ i - 1 < i /\ (i - 1) + 1 = i
      BY <1>1, <2>2
    <3>2. SoundTree(ts[i]) /\ ts[i] = WithUpdates(t, First(i - 1))
      BY <1>3, <3>1
    <3>3. /\ us[i][1] \in Revs /\ us[i][2] \in 1..Pos(us[i][1])
          /\ us[i] = <<us[i][1], us[i][2]>> /\ ts[i + 1] = Merge(ts[i], us[i][1], us[i][2])
      BY <1>1, <1>2, <3>1
    <3>4. SoundTree(ts[i + 1])
      BY <3>2, <3>3, MergeIs
    <3>5. First(i - 1) \subseteq Updates
      BY <1>1, <3>1
    <3>6. First(i) = First(i - 1) \union {us[i]}
      <4>1. \A j \in 1..i : j = i \/ j \in 1..(i - 1)
        BY <3>1
      <4>2. \A j \in 1..(i - 1) : j \in 1..i
        BY <3>1
      <4>3. i \in 1..i
        BY <3>1
      <4>4. QED
        BY <4>1, <4>2, <4>3
    <3>7. ts[i + 1] = WithUpdates(t, First(i))
      <4> HIDE DEF First
      <4>1. Merge(WithUpdates(t, First(i - 1)), us[i][1], us[i][2])
              = WithUpdates(t, First(i - 1) \union {<<us[i][1], us[i][2]>>})
        BY <3>2, <3>3, <3>5, MergeAddsUpdate
      <4>2. QED
        BY <3>2, <3>3, <3>6, <4>1
    <3>8. QED
      BY <3>4, <3>7
  <2>3. QED
    BY <2>1, <2>2
<1>4. n \in 0..n
  BY <1>1
<1>5. n \in Good
  <2>1. \A i \in 0..n : (\A j \in 0..n : j < i => j \in Good) => i \in Good
    BY <1>3
  <2>2. n \in Nat
    BY <1>1
  <2> HIDE DEF Good, n
  <2>3. QED
    BY <1>4, <2>1, <2>2, Inductive
<1>6. QED
  BY <1>5

\* Two replicas that start from one tree and receive the same updates, each in an
\* order of its own and as often as it likes, hold the same tree and so pick the same
\* winner, as long as nothing is stemmed (writer.rs update_docs, replicated).
THEOREM SameUpdatesSameTree ==
    ASSUME Unstemmed, NEW t, SoundTree(t),
           NEW us, NEW ts, Receives(t, us, ts), NEW vs, NEW ws, Receives(t, vs, ws),
           {us[j] : j \in 1..Len(us)} = {vs[j] : j \in 1..Len(vs)}
    PROVE  ts[Len(us) + 1] = ws[Len(vs) + 1]
<1>1. ts[Len(us) + 1] = WithUpdates(t, {us[j] : j \in 1..Len(us)})
  BY ReplicaHolds
<1>2. ws[Len(vs) + 1] = WithUpdates(t, {vs[j] : j \in 1..Len(vs)})
  BY ReplicaHolds
<1>3. QED
  BY <1>1, <1>2

\* Of any revisions there is one that an answer puts first.
LEMMA NewestIs ==
    ASSUME NEW K, K \subseteq Revs, IsFiniteSet(K), K # {}
    PROVE  Newest(K) \in K
<1> DEFINE f == [l \in K |-> Pos(l)]
           Top == {l \in K : \A k \in K : Pos(k) <= Pos(l)}
           g == [l \in Top |-> l]
<1>1. \A l \in K : l \in Nat /\ Pos(l) \in Nat
  BY HistoryIs, RevsAssumption
<1>2. PICK m \in K : \A k \in K : f[k] <= f[m]
  <2>1. f \in [K -> Nat]
    BY <1>1
  <2> HIDE DEF f
  <2>2. QED
    BY <2>1, GreatestExists
<1>3. m \in Top
  BY <1>2
<1>4. IsFiniteSet(Top)
  BY FS_Subset
<1>5. PICK w \in Top : \A k \in Top : g[k] <= g[w]
  <2>1. g \in [Top -> Nat]
    BY <1>1
  <2>2. Top # {}
    BY <1>3
  <2> HIDE DEF g, Top
  <2>3. QED
    BY <1>4, <2>1, <2>2, GreatestExists
<1>6. \A q \in K \ {w} : Pos(q) < Pos(w) \/ (Pos(q) = Pos(w) /\ q < w)
  <2> TAKE q \in K \ {w}
  <2>1. w \in K /\ w \in Nat /\ q \in Nat /\ Pos(w) \in Nat /\ Pos(q) \in Nat /\ Pos(q) <= Pos(w)
    BY <1>1
  <2>2. Pos(q) = Pos(w) => q \in Top /\ q <= w
    BY <1>5
  <2>3. QED
    BY <2>1, <2>2
<1>7. w \in K
  OBVIOUS
<1>8. QED
  BY <1>6, <1>7 DEF Newest

\* A replicator that asks for a revision the source holds is given a document: a
\* leaf that the revision led to, with a path that names it (api_bulk.rs
\* bulk_get, fetch.rs), whatever was stemmed, purged or edited before.
THEOREM HeldIsServed ==
    ASSUME NEW t, SoundTree(t), NEW r \in DOMAIN t
    PROVE  Served(t, r)
<1> DEFINE K == Descendants(t, r)
           w == Newest(K)
<1>1. /\ IsFiniteSet(DOMAIN t) /\ DOMAIN t \subseteq Revs /\ Leaves(t) \subseteq DOMAIN t
      /\ \A l \in Leaves(t) : Stored(t, l)
  BY SoundIsRooted DEF IsTree
<1>2. K \subseteq Leaves(t) /\ K # {}
  BY LeafOver DEF Descendants
<1>3. w \in K
  <2>1. K \subseteq Revs /\ IsFiniteSet(K)
    BY <1>1, <1>2, FS_Subset
  <2> HIDE DEF K
  <2>2. QED
    BY <1>2, <2>1, NewestIs
<1>4. LatestOf(t, r) = {w}
  BY <1>2 DEF LatestOf
<1>5. Stored(t, w) /\ w \in Leaves(t) /\ r \in Path(w, PathLen(t, w))
  BY <1>1, <1>3 DEF Descendants
<1> HIDE DEF w
<1>6. [rev |-> w, n |-> PathLen(t, w)] \in Fetch(t, r)
  <2>1. w \in {q \in LatestOf(t, r) : Stored(t, q)}
    BY <1>4, <1>5
  <2>2. Fetch(t, r) = DocJson(t, LatestOf(t, r))
    BY <1>4 DEF Fetch
  <2>3. QED
    BY <2>1, <2>2 DEF DocJson
<1>7. QED
  BY <1>5, <1>6 DEF Served

-----------------------------------------------------------------------------
(* Replication of a document                                                *)

\* What a target has taken of source: the documents it missed, in any order.
Pulls(source, target, us, ts) ==
    /\ Receives(target, us, ts)
    /\ {us[j] : j \in 1..Len(us)} = {<<doc.rev, doc.n>> : doc \in Brought(source, target)}

\* One replication brings every leaf, whatever the target held and in whatever order
\* the documents arrive: asked again, it misses none (api_bulk.rs revs_diff and
\* bulk_get, fetch.rs bulk_get).
THEOREM PullsBringAll ==
    ASSUME Unstemmed, NEW t, SoundTree(t), NEW u, SoundTree(u),
           NEW us, NEW ts, Pulls(t, u, us, ts)
    PROVE  LET v == ts[Len(us) + 1] IN SoundTree(v) /\ MissingRevs(v, Leaves(t)) = {}
<1> DEFINE v == ts[Len(us) + 1]
           S == {us[j] : j \in 1..Len(us)}
<1>1. SoundTree(v) /\ v = WithUpdates(u, S)
  BY ReplicaHolds DEF Pulls
<1>2. S = {<<doc.rev, doc.n>> : doc \in Brought(t, u)}
  BY DEF Pulls
<1> HIDE DEF v, S
<1>3. DOMAIN v = DOMAIN u \union UNION {Path(p[1], p[2]) : p \in S}
  BY <1>1 DEF WithUpdates
<1>4. ASSUME NEW r \in Leaves(t), r \notin DOMAIN u
      PROVE  r \in DOMAIN v
  <2>1. PICK doc \in Fetch(t, r) : r \in Path(doc.rev, doc.n)
    BY HeldIsServed DEF Served, Leaves
  <2>2. doc \in Brought(t, u)
    BY <1>4 DEF Brought, MissingRevs
  <2>3. <<doc.rev, doc.n>> \in S
    BY <1>2, <2>2
  <2>4. QED
    BY <1>3, <2>1, <2>3
<1>5. MissingRevs(v, Leaves(t)) = {}
  BY <1>3, <1>4 DEF MissingRevs
<1>6. QED
  BY <1>1, <1>5 DEF v

\* In a tree that was never stemmed a revision has its whole history.
LEMMA WholeIs ==
    ASSUME NEW t, SoundTree(t), Whole(t), NEW r \in DOMAIN t
    PROVE  PathLen(t, r) = Pos(r) /\ Path(r, Pos(r)) \subseteq DOMAIN t
<1>1. Rooted(t) /\ r \in Revs /\ Pos(r) \in Nat
  BY SoundIsRooted, HistoryIs
<1> DEFINE k == PathLen(t, r)
<1>2. IsPathLen(t, r, k) /\ Path(r, k) \subseteq DOMAIN t
  BY <1>1, PathLenIs, RootIs
<1>3. k \in 1..Pos(r) /\ k \in 1..k
  BY <1>1, <1>2 DEF IsPathLen
<1>4. Pos(History[r][k]) = 1
  BY <1>2, <1>3 DEF IsPathLen, Whole
<1>5. Pos(History[r][k]) = Pos(r) - k + 1
  BY <1>1, <1>3, AncestorIs
<1>6. QED
  BY <1>1, <1>2, <1>3, <1>4, <1>5

\* Of a leaf its own document is fetched.
LEMMA LeafIsFetched ==
    ASSUME NEW t, SoundTree(t), NEW l \in Leaves(t)
    PROVE  Fetch(t, l) = {[rev |-> l, n |-> PathLen(t, l)]}
<1>1. /\ Rooted(t) /\ l \in DOMAIN t /\ Stored(t, l) /\ Leaves(t) \subseteq DOMAIN t
      /\ \A m \in DOMAIN t : m \in Revs /\ Pos(m) \in Nat
  BY SoundIsRooted, HistoryIs
<1>2. l \in Descendants(t, l)
  <2>1. IsPathLen(t, l, PathLen(t, l)) /\ History[l][1] = l
    BY <1>1, PathLenIs, HistoryIs
  <2>2. 1 \in 1..PathLen(t, l)
    BY <1>1, <2>1 DEF IsPathLen
  <2>3. QED
    BY <2>1, <2>2 DEF Descendants, Path
<1>3. ASSUME NEW m \in Descendants(t, l), m # l
      PROVE  FALSE
  <2>1. m \in Leaves(t) /\ l \in Path(m, PathLen(t, m)) /\ m \in DOMAIN t /\ m \in Revs
    BY <1>1 DEF Descendants
  <2>2. IsPathLen(t, m, PathLen(t, m)) /\ Pos(m) \in Nat
    BY <1>1, <2>1, PathLenIs
  <2>3. PathLen(t, m) \in 1..Pos(m)
    BY <2>2 DEF IsPathLen
  <2>4. l \in Path(m, PathLen(t, m)) \ {m}
    BY <1>3, <2>1
  <2>5. PICK c \in Path(m, PathLen(t, m)) \ {History[m][PathLen(t, m)]} :
          Pos(c) > 1 /\ History[c][2] = l
    BY <2>1, <2>3, <2>4, PathIs
  <2>6. PICK i \in 1..PathLen(t, m) : c = History[m][i]
    BY <2>5 DEF Path
  <2>7. i \in 1..(PathLen(t, m) - 1)
    BY <2>2, <2>3, <2>5, <2>6
  <2>8. c \in DOMAIN t /\ t[c].linked
    BY <2>2, <2>6, <2>7 DEF IsPathLen
  <2>9. QED
    BY <2>5, <2>8 DEF Leaves, ChildOf
<1>4. Descendants(t, l) = {l}
  BY <1>2, <1>3
<1>5. Newest({l}) = l
  BY <1>1, FS_Singleton, NewestIs
<1>6. LatestOf(t, l) = {l}
  BY <1>4, <1>5 DEF LatestOf
<1>7. QED
  BY <1>1, <1>6 DEF Fetch, DocJson

\* Whole trees are joined by a replication.
LEMMA PulledIsUnion ==
    ASSUME Unstemmed, NEW t, SoundTree(t), Whole(t), NEW u, SoundTree(u), Whole(u),
           NEW us, NEW ts, Pulls(t, u, us, ts)
    PROVE  LET v == ts[Len(us) + 1]
           IN  SoundTree(v) /\ Whole(v) /\ DOMAIN v = DOMAIN t \union DOMAIN u
<1> DEFINE v == ts[Len(us) + 1]
           S == {us[j] : j \in 1..Len(us)}
           K == Leaves(t) \ DOMAIN u
<1>1. SoundTree(v) /\ v = WithUpdates(u, S)
  BY ReplicaHolds DEF Pulls
<1>2. S = {<<doc.rev, doc.n>> : doc \in Brought(t, u)}
  BY DEF Pulls
<1> HIDE DEF v, S
<1>3. \A l \in Leaves(t) : l \in DOMAIN t /\ l \in Revs /\ Pos(l) \in Nat /\ Pos(l) \in 1..Pos(l)
  BY SoundIsRooted, HistoryIs
<1>4. \A l \in Leaves(t) : Fetch(t, l) = {[rev |-> l, n |-> Pos(l)]}
  BY <1>3, LeafIsFetched, WholeIs
<1>5. Brought(t, u) = {[rev |-> l, n |-> Pos(l)] : l \in K}
  <2>1. Brought(t, u) = UNION {Fetch(t, l) : l \in K}
    BY DEF Brought, MissingRevs
  <2>2. QED
    BY <1>4, <2>1
<1>6. S = {<<l, Pos(l)>> : l \in K}
  <2>1. ASSUME NEW p \in S
        PROVE  \E l \in K : p = <<l, Pos(l)>>
    <3>1. PICK doc \in Brought(t, u) : p = <<doc.rev, doc.n>>
      BY <1>2
    <3>2. PICK l \in K : doc = [rev |-> l, n |-> Pos(l)]
      BY <1>5
    <3>3. QED
      BY <3>1, <3>2
  <2>2. ASSUME NEW l \in K
        PROVE  <<l, Pos(l)>> \in S
    <3> DEFINE doc == [rev |-> l, n |-> Pos(l)]
    <3>1. doc \in Brought(t, u) /\ <<doc.rev, doc.n>> = <<l, Pos(l)>>
      BY <1>5
    <3>2. QED
      BY <1>2, <3>1
  <2>3. QED
    BY <2>1, <2>2
<1>7. DOMAIN v = DOMAIN u \union UNION {Path(l, Pos(l)) : l \in K}
  <2>1. DOMAIN v = DOMAIN u \union UNION {Path(p[1], p[2]) : p \in S}
    BY <1>1 DEF WithUpdates
  <2>2. UNION {Path(p[1], p[2]) : p \in S} = UNION {Path(l, Pos(l)) : l \in K}
    <3>1. \A p \in S : \E l \in K : Path(p[1], p[2]) = Path(l, Pos(l))
      BY <1>6
    <3>2. \A l \in K : \E p \in S : Path(p[1], p[2]) = Path(l, Pos(l))
      <4> TAKE l \in K
      <4>1. <<l, Pos(l)>> \in S
        BY <1>6
      <4> HIDE DEF K
      <4> WITNESS <<l, Pos(l)>> \in S
      <4>2. QED
        OBVIOUS
    <3>3. QED
      BY <3>1, <3>2
  <2>3. QED
    BY <2>1, <2>2
<1>8. DOMAIN v = DOMAIN t \union DOMAIN u
  <2>1. \A l \in K : Path(l, Pos(l)) \subseteq DOMAIN t
    BY <1>3, WholeIs
  <2>2. ASSUME NEW x \in DOMAIN t, x \notin DOMAIN u
        PROVE  x \in DOMAIN v
    <3>1. PICK l \in Leaves(t) : x \in Path(l, Pos(l))
      BY LeafAbove, SoundIsRooted
    <3>2. l \notin DOMAIN u
      BY <2>2, <3>1, WholeIs
    <3>3. QED
      BY <1>7, <3>1, <3>2
  <2>3. QED
    BY <1>7, <2>1, <2>2
<1>9. Whole(v)
  <2> SUFFICES ASSUME NEW x \in DOMAIN v, Pos(x) # 1 PROVE v[x].linked
    BY DEF Whole
  <2>1. v[x].linked = \/ x \in DOMAIN u /\ u[x].linked
                      \/ \E p \in S : x \in Path(p[1], p[2]) \ {History[p[1]][p[2]]}
    BY <1>1 DEF WithUpdates
  <2>2. CASE x \in DOMAIN u
    BY <2>1, <2>2 DEF Whole
  <2>3. CASE x \notin DOMAIN u
    <3>1. PICK l \in K : x \in Path(l, Pos(l))
      BY <1>7, <2>3
    <3>2. Pos(History[l][Pos(l)]) = 1
      <4>1. Pos(History[l][Pos(l)]) = Pos(l) - Pos(l) + 1
        BY <1>3, AncestorIs
      <4>2. QED
        BY <1>3, <4>1
    <3>3. x \in Path(l, Pos(l)) \ {History[l][Pos(l)]} /\ <<l, Pos(l)>> \in S
      BY <1>6, <3>1, <3>2
    <3>4. QED
      BY <2>1, <3>3
  <2>4. QED
    BY <2>2, <2>3
<1>10. QED
  BY <1>1, <1>8, <1>9 DEF v

\* Replicas that were replicated both ways hold the same leaves, and so the same
\* conflicts: none is lost on the way and none made, whatever each held, as long as
\* their paths are whole (fetch.rs, api_bulk.rs).
THEOREM SyncedReplicasAgree ==
    ASSUME Unstemmed, NEW t, SoundTree(t), Whole(t), NEW u, SoundTree(u), Whole(u),
           NEW us, NEW ts, Pulls(t, u, us, ts), NEW vs, NEW ws, Pulls(u, t, vs, ws)
    PROVE  Leaves(ts[Len(us) + 1]) = Leaves(ws[Len(vs) + 1])
<1>1. ASSUME NEW v, SoundTree(v), Whole(v)
      PROVE  Leaves(v) = {x \in DOMAIN v : \A c \in DOMAIN v : ~(Pos(c) > 1 /\ History[c][2] = x)}
  <2>1. \A c \in DOMAIN v : Pos(c) \in Nat /\ Pos(c) >= 1 /\ (v[c].linked => Pos(c) > 1)
    BY <1>1, SoundIsRooted, HistoryIs DEF Rooted
  <2>2. \A c \in DOMAIN v : Pos(c) > 1 => v[c].linked
    BY <1>1, <2>1 DEF Whole
  <2>3. QED
    BY <2>1, <2>2 DEF Leaves, ChildOf
<1> DEFINE v == ts[Len(us) + 1]
           w == ws[Len(vs) + 1]
<1>2. SoundTree(v) /\ Whole(v) /\ DOMAIN v = DOMAIN t \union DOMAIN u
  BY PulledIsUnion
<1>3. SoundTree(w) /\ Whole(w) /\ DOMAIN w = DOMAIN u \union DOMAIN t
  BY PulledIsUnion
<1>4. DOMAIN v = DOMAIN w
  BY <1>2, <1>3
<1> HIDE DEF v, w
<1>5. Leaves(v) = Leaves(w)
  BY <1>1, <1>2, <1>3, <1>4
<1>6. QED
  BY <1>5 DEF v, w

\* An attachment that an answer leaves out is one that the client has, with the
\* ancestors it named by its own _revs_diff (api_docs.rs:196, api_bulk.rs:211).
THEOREM LeftOutAttachmentsAreHeld ==
    ASSUME NEW t, SoundTree(t), NEW u, SoundTree(u), NEW l \in Leaves(t)
    PROVE  LeftOutIsHeld(t, u, l)
<1> DEFINE A == PossibleAncestors(u, Leaves(t)) \intersect Path(l, PathLen(t, l))
           M == {0} \union {Pos(a) : a \in A}
           f == [a \in A |-> Pos(a)]
<1>1. /\ \A a \in Leaves(u) : a \in DOMAIN u /\ a \in Revs /\ Pos(a) \in Nat /\ Stored(u, a)
      /\ IsFiniteSet(DOMAIN u)
  BY SoundIsRooted, HistoryIs
<1>2. A \subseteq Leaves(u)
  BY DEF PossibleAncestors
<1>3. PICK m \in M : \A q \in M : m >= q
  <2>1. CASE A = {}
    BY <2>1
  <2>2. CASE A # {}
    <3>1. IsFiniteSet(A)
      BY <1>1, <1>2, FS_Subset
    <3>2. f \in [A -> Nat]
      BY <1>1, <1>2
    <3>3. PICK a \in A : \A b \in A : f[b] <= f[a]
      <4> HIDE DEF A, f
      <4>1. QED
        BY <2>2, <3>1, <3>2, GreatestExists
    <3>4. Pos(a) \in M /\ \A q \in M : Pos(a) >= q
      BY <1>1, <1>2, <3>3
    <3>5. QED
      BY <3>4
  <2>3. QED
    BY <2>1, <2>2
<1>4. Max(M) \in M
  <2> HIDE DEF M
  <2>1. QED
    BY <1>3 DEF Max
<1>5. Max(M) # 0 => \E a \in A : Pos(a) = Max(M)
  BY <1>4
<1>6. Cutoff(t, l, PossibleAncestors(u, Leaves(t))) = Max(M)
  BY DEF Cutoff
<1>7. SUFFICES ASSUME Max(M) > 0
               PROVE  \E a \in Path(l, PathLen(t, l)) :
                        a \in DOMAIN u /\ Stored(u, a) /\ Pos(a) >= Max(M)
  BY <1>6 DEF LeftOutIsHeld
<1>8. Max(M) # 0
  BY <1>7
<1>9. PICK a \in A : Pos(a) = Max(M)
  BY <1>5, <1>8
<1>10. a \in Path(l, PathLen(t, l)) /\ a \in DOMAIN u /\ Stored(u, a) /\ Pos(a) >= Max(M)
  <2> HIDE DEF M
  <2>1. QED
    BY <1>1, <1>2, <1>9
<1>11. QED
  BY <1>10

-----------------------------------------------------------------------------
(* Sites that replicate                                                     *)

\* What a site holds between two requests.
SoundCopy(t) == SoundTree(t) /\ Pending \notin SeqsOf(t)

\* What a merge leaves once it was numbered.
LEMMA ArrivedIs ==
    ASSUME NEW t, SoundTree(t), NEW r \in Revs, NEW n \in 1..Pos(r)
    PROVE  SoundCopy(AssignPending(Merge(t, r, n), SomeSeq))
<1>1. SoundTree(Merge(t, r, n))
  BY MergeIs
<1>2. SomeSeq \in Nat /\ SomeSeq > 0 /\ SomeSeq # Pending
  BY PendingAssumption DEF SomeSeq
<1> HIDE DEF SomeSeq
<1>3. /\ SoundTree(AssignPending(Merge(t, r, n), SomeSeq))
      /\ SeqsOf(AssignPending(Merge(t, r, n), SomeSeq))
           \subseteq (SeqsOf(Merge(t, r, n)) \ {Pending}) \union {SomeSeq}
  BY <1>1, <1>2, AssignIs
<1>4. QED
  BY <1>2, <1>3 DEF SoundCopy

\* What a purge leaves.
LEMMA PurgedIs ==
    ASSUME NEW t, SoundCopy(t), NEW R
    PROVE  SoundCopy(RemoveLeaves(t, R))
BY RemoveIs DEF SoundCopy

\* What is fetched is a revision that the source has, with its path there.
LEMMA FetchedIs ==
    ASSUME NEW t, SoundTree(t), NEW r, NEW d \in Fetch(t, r)
    PROVE  d.rev \in DOMAIN t /\ d.n = PathLen(t, d.rev) /\ d.n \in 1..Pos(d.rev)
<1>1. Rooted(t) /\ IsFiniteSet(DOMAIN t) /\ DOMAIN t \subseteq Revs
  BY SoundIsRooted DEF IsTree
<1>2. Descendants(t, r) \subseteq DOMAIN t
  BY DEF Descendants, Leaves
<1>3. LatestOf(t, r) \subseteq DOMAIN t
  <2>1. CASE Descendants(t, r) = {}
    BY <2>1 DEF LatestOf
  <2>2. CASE Descendants(t, r) # {}
    <3>1. Descendants(t, r) \subseteq Revs /\ IsFiniteSet(Descendants(t, r))
      BY <1>1, <1>2, FS_Subset
    <3>2. Newest(Descendants(t, r)) \in Descendants(t, r)
      BY <2>2, <3>1, NewestIs
    <3>3. QED
      BY <1>2, <2>2, <3>2 DEF LatestOf
  <2>3. QED
    BY <2>1, <2>2
<1>4. PICK revs : revs \subseteq DOMAIN t /\ d \in DocJson(t, revs)
  BY <1>3 DEF Fetch, DocOfRev
<1>5. PICK q \in revs : d = [rev |-> q, n |-> PathLen(t, q)]
  BY <1>4 DEF DocJson
<1>6. q \in DOMAIN t /\ IsPathLen(t, q, PathLen(t, q))
  BY <1>1, <1>4, <1>5, PathLenIs
<1>7. QED
  BY <1>5, <1>6 DEF IsPathLen

-----------------------------------------------------------------------------
(* The trees stay sound, stemmed or not                                     *)

CopiesAreSound ==
    copy = [s \in Sites |-> copy[s]] /\ \A s \in Sites : SoundCopy(copy[s])

FlightIsTyped ==
    /\ moved \subseteq Links /\ wanted \subseteq Links \X Revs
    /\ \A d \in carried :
          /\ d = [link |-> d.link, rev |-> d.rev, n |-> d.n]
          /\ d.link \in Links /\ d.rev \in Revs /\ d.n \in 1..Pos(d.rev)

BoundsAreTyped == edited \subseteq Revs /\ purges \in 0..MaxPurges /\ losses \in 0..MaxLosses

RInv == CopiesAreSound /\ FlightIsTyped /\ BoundsAreTyped

\* A site that takes a sound tree keeps all of them sound.
LEMMA CopyTaken ==
    ASSUME CopiesAreSound, NEW s \in Sites, NEW t, SoundCopy(t), copy' = [copy EXCEPT ![s] = t]
    PROVE  CopiesAreSound'
<1>1. /\ copy' = [x \in Sites |-> IF x = s THEN t ELSE copy[x]]
      /\ \A x \in Sites : SoundCopy(copy[x])
  BY DEF CopiesAreSound
<1>2. copy' = [x \in Sites |-> copy'[x]]
  BY <1>1
<1>3. \A x \in Sites : SoundCopy(copy'[x])
  BY <1>1
<1>4. QED
  BY <1>2, <1>3 DEF CopiesAreSound

LEMMA UpdateDocSound ==
    ASSUME CopiesAreSound, moved \subseteq Links,
           NEW s \in Sites, NEW r \in Revs, NEW n \in 1..Pos(r), UpdateDoc(s, r, n)
    PROVE  CopiesAreSound' /\ moved' \subseteq Links
<1> DEFINE u == AssignPending(Merge(copy[s], r, n), SomeSeq)
<1>1. SoundTree(copy[s])
  BY DEF CopiesAreSound, SoundCopy
<1>2. SoundCopy(u)
  BY <1>1, ArrivedIs
<1>3. (copy' = [copy EXCEPT ![s] = u] \/ copy' = copy) /\ moved' \subseteq Links
  BY DEF UpdateDoc, From
<1> HIDE DEF u
<1>4. CopiesAreSound'
  BY <1>2, <1>3, CopyTaken DEF CopiesAreSound
<1>5. QED
  BY <1>3, <1>4

LEMMA EditDocSound ==
    ASSUME RInv, NEW s \in Sites, NEW r \in Revs, EditDoc(s, r)
    PROVE  RInv'
<1> DEFINE t == copy[s]
           n == IF DOMAIN t = {} THEN 1 ELSE PathLen(t, History[r][2]) + 1
<1>1. SoundTree(t)
  BY DEF RInv, CopiesAreSound, SoundCopy
<1>2. n \in 1..Pos(r) /\ UpdateDoc(s, r, n)
  <2>1. CASE DOMAIN t = {}
    BY <2>1 DEF EditDoc
  <2>2. CASE DOMAIN t # {}
    <3>1. Pos(r) > 1 /\ History[r][2] \in Leaves(t) /\ UpdateDoc(s, r, n)
      BY <2>2 DEF EditDoc
    <3>2. n = PathLen(t, History[r][2]) + 1
      BY <2>2
    <3> HIDE DEF n, t
    <3>3. QED
      BY <1>1, <3>1, <3>2, EditIs
  <2>3. QED
    BY <2>1, <2>2
<1> HIDE DEF n, t
<1>3. CopiesAreSound' /\ moved' \subseteq Links
  BY <1>2, UpdateDocSound DEF RInv, FlightIsTyped
<1>4. edited' = edited \union {r} /\ UNCHANGED <<wanted, carried, bounds>>
  BY DEF EditDoc
<1>5. QED
  BY <1>3, <1>4 DEF RInv, FlightIsTyped, BoundsAreTyped, bounds

LEMMA PurgeLeavesSound ==
    ASSUME RInv, NEW s \in Sites, NEW R, PurgeLeaves(s, R)
    PROVE  RInv'
<1> DEFINE k == RemoveLeaves(copy[s], R)
<1>1. SoundCopy(k)
  BY PurgedIs DEF RInv, CopiesAreSound
<1>2. /\ copy' = [copy EXCEPT ![s] = k] /\ moved' \subseteq moved \union From(s)
      /\ purges > 0 /\ purges' = purges - 1 /\ UNCHANGED <<wanted, carried, edited, losses>>
  BY DEF PurgeLeaves
<1> HIDE DEF k
<1>3. CopiesAreSound'
  BY <1>1, <1>2, CopyTaken DEF RInv
<1>4. moved' \subseteq Links
  BY <1>2 DEF From, RInv, FlightIsTyped
<1>5. purges' \in 0..MaxPurges
  BY <1>2, ReplicasAssumption DEF RInv, BoundsAreTyped
<1>6. QED
  BY <1>2, <1>3, <1>4, <1>5 DEF RInv, FlightIsTyped, BoundsAreTyped

LEMMA WriteBySound ==
    ASSUME RInv, NEW d \in carried, WriteBy(d)
    PROVE  CopiesAreSound' /\ moved' \subseteq Links
<1>1. d.link[2] \in Sites /\ d.rev \in Revs /\ d.n \in 1..Pos(d.rev)
  BY ReplicasAssumption DEF RInv, FlightIsTyped
<1>2. UpdateDoc(d.link[2], d.rev, d.n)
  BY DEF WriteBy
<1>3. QED
  BY <1>1, <1>2, UpdateDocSound DEF RInv, FlightIsTyped

LEMMA FetchRevSound ==
    ASSUME RInv, NEW x \in wanted, FetchRev(x)
    PROVE  RInv'
<1>1. x[1] \in Links /\ x[1][1] \in Sites
  BY ReplicasAssumption DEF RInv, FlightIsTyped
<1>2. SoundTree(copy[x[1][1]]) /\ DOMAIN copy[x[1][1]] \subseteq Revs
  BY <1>1, SoundIsRooted DEF RInv, CopiesAreSound, SoundCopy, IsTree
<1>3. /\ carried' = carried \union
           {[link |-> x[1], rev |-> d.rev, n |-> d.n] : d \in Fetch(copy[x[1][1]], x[2])}
      /\ wanted' = wanted \ {x} /\ UNCHANGED <<copy, moved, edited, bounds>>
  BY DEF FetchRev
<1>4. ASSUME NEW e \in carried', e \notin carried
      PROVE  /\ e = [link |-> e.link, rev |-> e.rev, n |-> e.n]
             /\ e.link \in Links /\ e.rev \in Revs /\ e.n \in 1..Pos(e.rev)
  <2>1. PICK d \in Fetch(copy[x[1][1]], x[2]) : e = [link |-> x[1], rev |-> d.rev, n |-> d.n]
    BY <1>3, <1>4
  <2>2. d.rev \in Revs /\ d.n \in 1..Pos(d.rev)
    BY <1>2, FetchedIs
  <2>3. QED
    BY <1>1, <2>1, <2>2
<1>5. FlightIsTyped'
  BY <1>3, <1>4 DEF RInv, FlightIsTyped
<1>6. QED
  BY <1>3, <1>5 DEF RInv, CopiesAreSound, BoundsAreTyped, bounds

LEMMA ReplicasStep ==
    ASSUME RInv, [ReplicasNext]_replicaVars
    PROVE  RInv'
<1>1. CASE (\E s \in Sites, r \in Revs : EditDoc(s, r))
             \/ \E s \in Sites, revs \in SUBSET Revs : PurgeLeaves(s, revs)
  BY <1>1, EditDocSound, PurgeLeavesSound
<1>2. ASSUME NEW l \in Links, AskTarget(l)
      PROVE  RInv'
  <2>1. l[1] \in Sites
    BY ReplicasAssumption
  <2>2. Leaves(copy[l[1]]) \subseteq Revs
    BY <2>1, SoundIsRooted DEF RInv, CopiesAreSound, SoundCopy, Leaves
  <2>3. wanted' \subseteq Links \X Revs
    BY <1>2, <2>2 DEF AskTarget, MissingRevs, RInv, FlightIsTyped
  <2>4. QED
    BY <1>2, <2>3 DEF AskTarget, RInv, CopiesAreSound, FlightIsTyped, BoundsAreTyped, bounds
<1>3. CASE \E x \in wanted : FetchRev(x)
  BY <1>3, FetchRevSound
<1>4. ASSUME NEW d \in carried, WriteDoc(d)
      PROVE  RInv'
  <2>1. CopiesAreSound' /\ moved' \subseteq Links
    BY <1>4, WriteBySound DEF WriteDoc
  <2>2. QED
    BY <1>4, <2>1 DEF WriteDoc, RInv, FlightIsTyped, BoundsAreTyped, bounds
<1>5. ASSUME NEW d \in carried, WriteUnanswered(d)
      PROVE  RInv'
  <2>1. CopiesAreSound' /\ moved' \subseteq Links
    BY <1>5, WriteBySound DEF WriteUnanswered
  <2>2. losses' \in 0..MaxLosses
    BY <1>5, ReplicasAssumption DEF WriteUnanswered, RInv, BoundsAreTyped
  <2>3. QED
    BY <1>5, <2>1, <2>2 DEF WriteUnanswered, RInv, FlightIsTyped, BoundsAreTyped
<1>6. ASSUME NEW l \in Links, LoseSession(l)
      PROVE  RInv'
  <2>1. losses' \in 0..MaxLosses
    BY <1>6, ReplicasAssumption DEF LoseSession, RInv, BoundsAreTyped
  <2>2. QED
    BY <1>6, <2>1 DEF LoseSession, RInv, CopiesAreSound, FlightIsTyped, BoundsAreTyped
<1>7. CASE UNCHANGED replicaVars
  BY <1>7 DEF replicaVars, flight, bounds, RInv, CopiesAreSound, FlightIsTyped, BoundsAreTyped
<1>8. QED
  BY <1>1, <1>2, <1>3, <1>4, <1>5, <1>6, <1>7 DEF ReplicasNext, Replicating

LEMMA ReplicasStart ==
    ASSUME ReplicasInit
    PROVE  RInv
<1>1. SoundCopy(EmptyTree)
  BY EmptyIs DEF SoundCopy
<1>2. copy = [s \in Sites |-> EmptyTree]
  BY DEF ReplicasInit
<1>3. CopiesAreSound
  BY <1>1, <1>2 DEF CopiesAreSound
<1>4. QED
  BY <1>3, ReplicasAssumption DEF ReplicasInit, RInv, FlightIsTyped, BoundsAreTyped

\* At every site the tree is well formed and every body numbered, whatever is edited,
\* purged, stemmed, fetched late, written twice or lost on the way (writer.rs
\* update_docs and purge_docs, fetch.rs, write.rs).
THEOREM ReplicasStaySound == ReplicasSpec => []ReplicasTypeOK
<1>1. ReplicasInit => RInv
  BY ReplicasStart
<1>2. RInv /\ [ReplicasNext]_replicaVars => RInv'
  BY ReplicasStep
<1>3. RInv => ReplicasTypeOK
  <2> SUFFICES ASSUME RInv PROVE ReplicasTypeOK
    OBVIOUS
  <2>1. ASSUME NEW s \in Sites
        PROVE  /\ IsTree(copy[s]) /\ WellFormed(copy[s])
               /\ \A r \in DOMAIN copy[s] : copy[s][r].seq # Pending
    <3>1. SoundTree(copy[s]) /\ Pending \notin SeqsOf(copy[s]) /\ Pending # Missing
      BY PendingAssumption DEF RInv, CopiesAreSound, SoundCopy, Missing
    <3>2. QED
      BY <3>1 DEF SoundTree, SeqsOf
  <2>2. QED
    BY <2>1 DEF RInv, CopiesAreSound, FlightIsTyped, BoundsAreTyped, ReplicasTypeOK
<1>4. QED
  BY <1>1, <1>2, <1>3, PTL DEF ReplicasSpec

-----------------------------------------------------------------------------
(* Sites know sets of edits                                                 *)

\* What a site knows and shows, in the words of the abstract specification.
LeavesOf(known) == EditSets!Tips(known)

\* The leaves of a whole tree follow from the set of its revisions.
LEMMA WholeLeaves ==
    ASSUME NEW t, SoundTree(t), Whole(t)
    PROVE  /\ Leaves(t) = LeavesOf(DOMAIN t) /\ EditSets!WithAll(DOMAIN t)
           /\ DOMAIN t \subseteq Revs
<1>1. \A c \in DOMAIN t : c \in Revs /\ Pos(c) \in Nat /\ Pos(c) >= 1
  BY SoundIsRooted, HistoryIs
<1>2. \A c \in DOMAIN t : t[c].linked => Pos(c) > 1 /\ History[c][2] \in DOMAIN t
  BY SoundIsRooted DEF Rooted
<1>3. \A c \in DOMAIN t : Pos(c) > 1 => t[c].linked
  BY <1>1 DEF Whole
<1>4. \A c : EditSets!Before(c) = IF Pos(c) > 1 THEN {History[c][2]} ELSE {}
  BY DEF EditSets!Before, EditSets!Generation, Pos
<1>5. \A c \in DOMAIN t : \A r : ChildOf(t, c, r) <=> r \in EditSets!Before(c)
  BY <1>2, <1>3, <1>4 DEF ChildOf
<1>6. Leaves(t) = LeavesOf(DOMAIN t)
  BY <1>5 DEF Leaves, LeavesOf, EditSets!Tips
<1>7. EditSets!WithAll(DOMAIN t)
  BY <1>2, <1>3, <1>4 DEF EditSets!WithAll
<1>8. QED
  BY <1>1, <1>6, <1>7

\* And so does the winner.
LEMMA WholeWinner ==
    ASSUME NEW t, SoundTree(t), Whole(t)
    PROVE  (IF DOMAIN t = {} THEN {} ELSE {Winner(t)}) = EditSets!Best(LeavesOf(DOMAIN t))
<1>1. Leaves(t) = LeavesOf(DOMAIN t)
  BY WholeLeaves
<1>2. \A l \in Leaves(t) : l \in Revs /\ l \in Nat /\ Pos(l) \in Nat /\ Stored(t, l)
  BY SoundIsRooted, HistoryIs, RevsAssumption
<1>3. \A l, q \in Leaves(t) : Beats(t, l, q) <=> EditSets!Preferred(l, q)
  BY <1>2 DEF Beats, IsDeleted, EditSets!Preferred, EditSets!Generation, Pos
<1>4. CASE DOMAIN t = {}
  <2>1. Leaves(t) = {}
    BY <1>4 DEF Leaves
  <2>2. QED
    BY <1>1, <1>4, <2>1 DEF EditSets!Best
<1>5. CASE DOMAIN t # {}
  <2> DEFINE w == Winner(t)
  <2>1. w \in Leaves(t) /\ \A q \in Leaves(t) \ {w} : Beats(t, w, q)
    BY <1>5, WinnerIs DEF Exists
  <2> HIDE DEF w
  <2>2. w \in EditSets!Best(Leaves(t))
    BY <1>3, <2>1 DEF EditSets!Best
  <2>3. ASSUME NEW v \in EditSets!Best(Leaves(t)), v # w
        PROVE  FALSE
    <3>1. v \in Leaves(t) /\ Beats(t, v, w) /\ Beats(t, w, v)
      BY <1>3, <2>1, <2>3 DEF EditSets!Best
    <3>2. v \in Nat /\ w \in Nat /\ Pos(v) \in Nat /\ Pos(w) \in Nat
      BY <1>2, <2>1, <3>1
    <3>3. IsDeleted(t, v) = IsDeleted(t, w)
      BY <3>1 DEF Beats, IsDeleted
    <3>4. (Pos(v) > Pos(w) \/ (Pos(v) = Pos(w) /\ v > w)) /\ (Pos(w) > Pos(v) \/ (Pos(w) = Pos(v) /\ w > v))
      BY <3>1, <3>3 DEF Beats
    <3>5. QED
      BY <3>2, <3>4
  <2>4. EditSets!Best(Leaves(t)) = {w}
    BY <2>2, <2>3
  <2>5. QED
    BY <1>1, <1>5, <2>4 DEF w
<1>6. QED
  BY <1>4, <1>5

\* Numbering a tree changes none of its links.
LEMMA AssignKeepsWhole ==
    ASSUME NEW t, SoundTree(t), Whole(t)
    PROVE  LET u == AssignPending(t, SomeSeq) IN Whole(u) /\ DOMAIN u = DOMAIN t
<1> DEFINE u == AssignPending(t, SomeSeq)
<1>1. /\ DOMAIN u = DOMAIN t
      /\ \A x \in DOMAIN t : u[x] = IF t[x].seq = Pending THEN [t[x] EXCEPT !.seq = SomeSeq] ELSE t[x]
  BY DEF AssignPending
<1>2. \A x \in DOMAIN t : t[x] \in Node /\ SomeSeq \in Seqs
  BY SoundIsRooted, SeqsAre DEF SomeSeq
<1>3. ASSUME NEW x \in DOMAIN t
      PROVE  u[x].linked = t[x].linked
  <2>1. t[x] \in Node /\ SomeSeq \in Seqs
    BY <1>2
  <2> DEFINE v == [t[x] EXCEPT !.seq = SomeSeq]
  <2>2. v.linked = t[x].linked
    BY <2>1, NodeIs
  <2>3. u[x] = IF t[x].seq = Pending THEN v ELSE t[x]
    BY <1>1
  <2> HIDE DEF u, v
  <2>4. QED
    BY <2>2, <2>3
<1> HIDE DEF u
<1>4. Whole(u)
  BY <1>1, <1>3 DEF Whole
<1>5. QED
  BY <1>1, <1>4 DEF u

\* What comes with its history is added to what a whole tree holds.
LEMMA WholeArrival ==
    ASSUME Unstemmed, NEW t, SoundTree(t), Whole(t), NEW r \in Revs
    PROVE  LET u == AssignPending(Merge(t, r, Pos(r)), SomeSeq)
           IN  SoundTree(u) /\ Whole(u) /\ DOMAIN u = DOMAIN t \union Path(r, Pos(r))
<1> DEFINE n == Pos(r)
           m == Merge(t, r, n)
           u == AssignPending(m, SomeSeq)
<1>1. n \in Nat /\ n \in 1..Pos(r)
  BY HistoryIs
<1>2. SoundTree(m) /\ SoundTree(u)
  <2> HIDE DEF n
  <2>1. QED
    BY <1>1, MergeIs, ArrivedIs DEF SoundCopy
<1>3. m = [x \in DOMAIN t \union Path(r, n) |-> Joined(t, r, n, x)]
  <2> HIDE DEF n
  <2>1. QED
    BY <1>1, MergeIsUnion
<1>4. DOMAIN m = DOMAIN t \union Path(r, n)
  BY <1>3
<1>5. \A x \in DOMAIN m : m[x].linked = (x \in Path(r, n) \ {History[r][n]}
                                           \/ (x \in DOMAIN t /\ t[x].linked))
  <2> HIDE DEF n, m
  <2>1. QED
    BY <1>3, <1>4 DEF Joined
<1>6. Pos(History[r][n]) = 1
  <2>1. Pos(History[r][n]) = Pos(r) - n + 1
    <3> HIDE DEF n
    <3>1. QED
      BY <1>1, AncestorIs
  <2>2. QED
    BY <1>1, <2>1
<1>7. Whole(m)
  <2> HIDE DEF n, m
  <2>1. QED
    BY <1>4, <1>5, <1>6 DEF Whole
<1>8. Whole(u) /\ DOMAIN u = DOMAIN m
  <2> HIDE DEF n, m
  <2>1. QED
    BY <1>2, <1>7, AssignKeepsWhole
<1>9. QED
  BY <1>2, <1>4, <1>8

\* An edit of a leaf brings its whole history, of which only the edit is new.
LEMMA WholeEdit ==
    ASSUME NEW t, SoundTree(t), Whole(t), NEW r \in Revs, Pos(r) > 1, History[r][2] \in Leaves(t)
    PROVE  /\ PathLen(t, History[r][2]) + 1 = Pos(r)
           /\ DOMAIN t \union Path(r, Pos(r)) = DOMAIN t \union {r}
<1> DEFINE p == History[r][2]
<1>1. p \in DOMAIN t
  BY DEF Leaves
<1>2. PathLen(t, p) = Pos(p) /\ Path(p, Pos(p)) \subseteq DOMAIN t
  BY <1>1, WholeIs
<1>3. /\ Pos(p) = Pos(r) - 1 /\ Pos(r) \in Nat /\ History[r][1] = r
      /\ \A j \in 1..(Pos(r) - 1) : History[p][j] = History[r][j + 1]
  BY HistoryIs, ParentIs
<1> HIDE DEF p
<1>4. ASSUME NEW i \in 1..Pos(r), i # 1
      PROVE  History[r][i] \in DOMAIN t
  <2>1. i - 1 \in 1..(Pos(r) - 1) /\ (i - 1) + 1 = i
    BY <1>3, <1>4
  <2>2. History[r][i] = History[p][i - 1] /\ i - 1 \in 1..Pos(p)
    BY <1>3, <2>1
  <2>3. QED
    BY <1>2, <2>2 DEF Path
<1>5. r \in Path(r, Pos(r)) /\ \A x \in Path(r, Pos(r)) : x = r \/ x \in DOMAIN t
  BY <1>3, <1>4 DEF Path
<1>6. PathLen(t, p) + 1 = Pos(r)
  BY <1>2, <1>3
<1>7. QED
  BY <1>5, <1>6 DEF p

\* A purge leaves whole trees whole.
LEMMA WholePurged ==
    ASSUME NEW t, SoundTree(t), Whole(t), NEW R
    PROVE  /\ Whole(RemoveLeaves(t, R)) /\ DOMAIN RemoveLeaves(t, R) \subseteq DOMAIN t
<1> DEFINE keep == UNION {Path(l, PathLen(t, l)) : l \in Leaves(t) \ R}
<1>1. RemoveLeaves(t, R) = [x \in keep |-> t[x]]
  BY DEF RemoveLeaves
<1>2. ASSUME NEW l \in Leaves(t)
      PROVE  Path(l, PathLen(t, l)) \subseteq DOMAIN t
  BY SoundIsRooted, RootIs DEF Leaves
<1>3. keep \subseteq DOMAIN t
  BY <1>2
<1> HIDE DEF keep
<1>4. QED
  BY <1>1, <1>3 DEF Whole

-----------------------------------------------------------------------------
(* Nothing stemmed: the trees are whole                                     *)

\* Every tree is whole, and holds edits that were made; so does what is carried.
CopiesAreWhole ==
    \A s \in Sites : Whole(copy[s]) /\ DOMAIN copy[s] \subseteq edited

CarriedIsWhole ==
    \A d \in carried : d.n = Pos(d.rev) /\ Path(d.rev, Pos(d.rev)) \subseteq edited

WInv == RInv /\ CopiesAreWhole /\ CarriedIsWhole

\* Site s now knows these edits; the other sites know what they knew.
Takes(s, known) ==
    /\ copy' = [copy EXCEPT ![s] = copy'[s]]
    /\ DOMAIN copy'[s] = known

LEMMA WholeSites ==
    ASSUME WInv, NEW s \in Sites
    PROVE  /\ SoundTree(copy[s]) /\ Whole(copy[s]) /\ DOMAIN copy[s] \subseteq edited
           /\ DOMAIN copy = Sites /\ edited \subseteq Revs /\ DOMAIN copy[s] \subseteq Revs
BY SoundIsRooted DEF WInv, RInv, CopiesAreSound, SoundCopy, CopiesAreWhole, BoundsAreTyped, IsTree

\* A step that leaves one site with a whole tree of edits leaves all of them so.
LEMMA TakesKeeps ==
    ASSUME WInv, NEW s \in Sites, copy' = [copy EXCEPT ![s] = copy'[s]],
           Whole(copy'[s]), DOMAIN copy'[s] \subseteq edited', edited \subseteq edited'
    PROVE  CopiesAreWhole'
<1>1. \A x \in Sites : x = s \/ copy'[x] = copy[x]
  BY WholeSites
<1>2. QED
  BY <1>1 DEF WInv, CopiesAreWhole

\* An update that comes with its history is one more path of edits.
LEMMA UpdateDocTakes ==
    ASSUME Unstemmed, WInv, NEW s \in Sites, NEW r \in Revs, UpdateDoc(s, r, Pos(r))
    PROVE  /\ Takes(s, DOMAIN copy[s] \union Path(r, Pos(r)))
           /\ Whole(copy'[s]) /\ SoundTree(copy'[s])
<1> DEFINE t == copy[s]
           n == Pos(r)
           u == AssignPending(Merge(t, r, n), SomeSeq)
<1>1. SoundTree(t) /\ Whole(t) /\ DOMAIN copy = Sites
  BY WholeSites
<1>2. CASE copy' = [copy EXCEPT ![s] = u]
  <2>1. copy'[s] = u /\ copy' = [copy EXCEPT ![s] = copy'[s]]
    BY <1>1, <1>2
  <2>2. SoundTree(u) /\ Whole(u) /\ DOMAIN u = DOMAIN t \union Path(r, Pos(r))
    BY <1>1, WholeArrival
  <2> HIDE DEF u
  <2>3. QED
    BY <2>1, <2>2 DEF Takes
<1>3. CASE copy' = copy /\ ~MergeChanges(t, r, n)
  <2>1. Path(r, n) \subseteq Target(t, r, n)
    BY <1>3 DEF MergeChanges
  <2>2. Target(t, r, n) \subseteq DOMAIN t
    BY <1>1, SoundIsRooted, TargetIs
  <2>3. copy' = [copy EXCEPT ![s] = copy'[s]]
    <3>1. copy = [x \in Sites |-> copy[x]]
      BY DEF WInv, RInv, CopiesAreSound
    <3>2. QED
      BY <1>3, <3>1
  <2>4. DOMAIN copy'[s] = DOMAIN t \union Path(r, Pos(r)) /\ copy'[s] = t
    BY <1>3, <2>1, <2>2
  <2> HIDE DEF t
  <2>5. QED
    BY <1>1, <2>3, <2>4 DEF Takes, t
<1>4. QED
  BY <1>2, <1>3 DEF UpdateDoc

LEMMA EditDocTakes ==
    ASSUME Unstemmed, WInv, NEW s \in Sites, NEW r \in Revs, EditDoc(s, r)
    PROVE  /\ Takes(s, DOMAIN copy[s] \union {r}) /\ Whole(copy'[s]) /\ SoundTree(copy'[s])
           /\ edited' = edited \union {r} /\ UNCHANGED carried
           /\ IF DOMAIN copy[s] = {} THEN Pos(r) = 1
              ELSE Pos(r) > 1 /\ History[r][2] \in Leaves(copy[s])
<1> DEFINE t == copy[s]
<1>1. SoundTree(t) /\ Whole(t)
  BY WholeSites
<1>2. UpdateDoc(s, r, Pos(r)) /\ DOMAIN t \union Path(r, Pos(r)) = DOMAIN t \union {r}
  <2>1. CASE DOMAIN t = {}
    <3>1. Pos(r) = 1 /\ UpdateDoc(s, r, 1) /\ History[r][1] = r
      BY <2>1, HistoryIs DEF EditDoc
    <3>2. Path(r, 1) = {r}
      <4>1. \A i \in 1..1 : i = 1
        OBVIOUS
      <4>2. QED
        BY <3>1, <4>1 DEF Path
    <3>3. QED
      BY <3>1, <3>2
  <2>2. CASE DOMAIN t # {}
    <3>1. /\ Pos(r) > 1 /\ History[r][2] \in Leaves(t)
          /\ UpdateDoc(s, r, PathLen(t, History[r][2]) + 1)
      BY <2>2 DEF EditDoc
    <3>2. PathLen(t, History[r][2]) + 1 = Pos(r) /\ DOMAIN t \union Path(r, Pos(r)) = DOMAIN t \union {r}
      <4> HIDE DEF t
      <4>1. QED
        BY <1>1, <3>1, WholeEdit
    <3>3. QED
      BY <3>1, <3>2
  <2>3. QED
    BY <2>1, <2>2
<1>3. /\ Takes(s, DOMAIN copy[s] \union Path(r, Pos(r)))
      /\ Whole(copy'[s]) /\ SoundTree(copy'[s])
  BY <1>2, UpdateDocTakes
<1>4. QED
  BY <1>2, <1>3 DEF Takes, EditDoc

LEMMA PurgeLeavesTakes ==
    ASSUME WInv, NEW s \in Sites, NEW R, PurgeLeaves(s, R)
    PROVE  /\ Takes(s, DOMAIN copy'[s]) /\ Whole(copy'[s]) /\ SoundTree(copy'[s])
           /\ DOMAIN copy'[s] \subseteq DOMAIN copy[s] /\ Leaves(copy'[s]) \subseteq Leaves(copy[s])
           /\ UNCHANGED <<carried, edited>>
<1> DEFINE k == RemoveLeaves(copy[s], R)
<1>1. SoundTree(copy[s]) /\ Whole(copy[s]) /\ DOMAIN copy = Sites
  BY WholeSites
<1>2. /\ SoundTree(k) /\ Leaves(k) = Leaves(copy[s]) \ R
      /\ Whole(k) /\ DOMAIN k \subseteq DOMAIN copy[s]
  BY <1>1, RemoveIs, WholePurged
<1>3. copy' = [copy EXCEPT ![s] = k] /\ UNCHANGED <<carried, edited>>
  BY DEF PurgeLeaves
<1> HIDE DEF k
<1>4. copy'[s] = k /\ copy' = [copy EXCEPT ![s] = copy'[s]]
  BY <1>1, <1>3
<1>5. QED
  BY <1>2, <1>3, <1>4 DEF Takes

LEMMA WriteByTakes ==
    ASSUME Unstemmed, WInv, NEW d \in carried, WriteBy(d)
    PROVE  LET s == d.link[2]
           IN  /\ s \in Sites /\ Takes(s, DOMAIN copy[s] \union Path(d.rev, Pos(d.rev)))
               /\ Whole(copy'[s]) /\ SoundTree(copy'[s])
               /\ Path(d.rev, Pos(d.rev)) \subseteq edited
<1>1. d.link[2] \in Sites /\ d.rev \in Revs
  BY ReplicasAssumption DEF WInv, RInv, FlightIsTyped
<1>2. d.n = Pos(d.rev) /\ Path(d.rev, Pos(d.rev)) \subseteq edited
  BY DEF WInv, CarriedIsWhole
<1>3. UpdateDoc(d.link[2], d.rev, Pos(d.rev))
  BY <1>2 DEF WriteBy
<1>4. QED
  BY <1>1, <1>2, <1>3, UpdateDocTakes

LEMMA FetchRevWhole ==
    ASSUME WInv, NEW x \in wanted, FetchRev(x)
    PROVE  CarriedIsWhole'
<1> DEFINE t == copy[x[1][1]]
<1>1. x[1][1] \in Sites
  BY ReplicasAssumption DEF WInv, RInv, FlightIsTyped
<1>2. SoundTree(t) /\ Whole(t) /\ DOMAIN t \subseteq edited
  BY <1>1, WholeSites
<1>3. /\ carried' = carried \union
           {[link |-> x[1], rev |-> d.rev, n |-> d.n] : d \in Fetch(t, x[2])}
      /\ UNCHANGED edited
  BY DEF FetchRev
<1> HIDE DEF t
<1>4. ASSUME NEW e \in carried', e \notin carried
      PROVE  e.n = Pos(e.rev) /\ Path(e.rev, Pos(e.rev)) \subseteq edited
  <2>1. PICK d \in Fetch(t, x[2]) : e = [link |-> x[1], rev |-> d.rev, n |-> d.n]
    BY <1>3, <1>4
  <2>2. d.rev \in DOMAIN t /\ d.n = PathLen(t, d.rev)
    BY <1>2, FetchedIs
  <2>3. d.n = Pos(d.rev) /\ Path(d.rev, Pos(d.rev)) \subseteq edited
    BY <1>2, <2>2, WholeIs
  <2>4. QED
    BY <2>1, <2>3
<1>5. QED
  BY <1>3, <1>4 DEF WInv, CarriedIsWhole

LEMMA WholeStep ==
    ASSUME Unstemmed, WInv, [ReplicasNext]_replicaVars
    PROVE  WInv'
<1>1. RInv'
  BY ReplicasStep DEF WInv
<1>2. ASSUME NEW s \in Sites, NEW r \in Revs, EditDoc(s, r)
      PROVE  CopiesAreWhole' /\ CarriedIsWhole'
  <2>1. /\ Takes(s, DOMAIN copy[s] \union {r}) /\ Whole(copy'[s])
        /\ edited' = edited \union {r} /\ UNCHANGED carried
    BY <1>2, EditDocTakes
  <2>2. CopiesAreWhole'
    BY <2>1, WholeSites, TakesKeeps DEF Takes
  <2>3. QED
    BY <2>1, <2>2 DEF WInv, CarriedIsWhole
<1>3. ASSUME NEW s \in Sites, NEW revs \in SUBSET Revs, PurgeLeaves(s, revs)
      PROVE  CopiesAreWhole' /\ CarriedIsWhole'
  <2>1. /\ Takes(s, DOMAIN copy'[s]) /\ Whole(copy'[s])
        /\ DOMAIN copy'[s] \subseteq DOMAIN copy[s] /\ UNCHANGED <<carried, edited>>
    BY <1>3, PurgeLeavesTakes
  <2>2. CopiesAreWhole'
    BY <2>1, WholeSites, TakesKeeps DEF Takes
  <2>3. QED
    BY <2>1, <2>2 DEF WInv, CarriedIsWhole
<1>4. ASSUME NEW d \in carried, WriteDoc(d) \/ WriteUnanswered(d)
      PROVE  CopiesAreWhole' /\ CarriedIsWhole'
  <2>1. WriteBy(d) /\ UNCHANGED edited /\ carried' \subseteq carried
    BY <1>4 DEF WriteDoc, WriteUnanswered
  <2> DEFINE s == d.link[2]
  <2>2. /\ s \in Sites /\ Takes(s, DOMAIN copy[s] \union Path(d.rev, Pos(d.rev)))
        /\ Whole(copy'[s]) /\ Path(d.rev, Pos(d.rev)) \subseteq edited
    BY <2>1, WriteByTakes
  <2> HIDE DEF s
  <2>3. CopiesAreWhole'
    BY <2>1, <2>2, WholeSites, TakesKeeps DEF Takes
  <2>4. QED
    BY <2>1, <2>3 DEF WInv, CarriedIsWhole
<1>5. ASSUME NEW x \in wanted, FetchRev(x)
      PROVE  CopiesAreWhole' /\ CarriedIsWhole'
  BY <1>5, FetchRevWhole DEF FetchRev, WInv, CopiesAreWhole
<1>6. ASSUME NEW l \in Links, AskTarget(l) \/ LoseSession(l)
      PROVE  CopiesAreWhole' /\ CarriedIsWhole'
  BY <1>6 DEF AskTarget, LoseSession, WInv, CopiesAreWhole, CarriedIsWhole
<1>7. ASSUME UNCHANGED replicaVars
      PROVE  CopiesAreWhole' /\ CarriedIsWhole'
  BY <1>7 DEF replicaVars, flight, WInv, CopiesAreWhole, CarriedIsWhole
<1>8. CopiesAreWhole' /\ CarriedIsWhole'
  BY <1>2, <1>3, <1>4, <1>5, <1>6, <1>7 DEF ReplicasNext, Replicating
<1>9. QED
  BY <1>1, <1>8 DEF WInv

LEMMA WholeStart ==
    ASSUME ReplicasInit
    PROVE  WInv
<1>1. Whole(EmptyTree) /\ DOMAIN EmptyTree = {}
  BY DEF EmptyTree, Whole
<1>2. QED
  BY <1>1, ReplicasStart DEF ReplicasInit, WInv, CopiesAreWhole, CarriedIsWhole

LEMMA TreesAreWhole == ASSUME Unstemmed PROVE ReplicasSpec => []WInv
<1>1. ReplicasInit => WInv
  BY WholeStart
<1>2. WInv /\ [ReplicasNext]_replicaVars => WInv'
  BY WholeStep
<1>3. QED
  BY <1>1, <1>2, PTL DEF ReplicasSpec

\* Sites that would bring each other nothing show the same leaves and the same winner,
\* whatever was edited and purged where, and whatever is on its way (revtree.rs
\* collect_leaves and winner, api_bulk.rs revs_diff).
THEOREM ReplicasAlwaysAgree == ASSUME Unstemmed PROVE ReplicasSpec => []ReplicasAgree
<1>1. WInv => ReplicasAgree
  <2> SUFFICES ASSUME WInv, NEW s \in Sites, NEW o \in Sites,
                      MissesNothing(copy[s], copy[o]), MissesNothing(copy[o], copy[s])
               PROVE  /\ Leaves(copy[s]) = Leaves(copy[o])
                      /\ DOMAIN copy[s] # {} => Winner(copy[s]) = Winner(copy[o])
    BY DEF ReplicasAgree
  <2>1. ASSUME NEW x \in Sites, NEW y \in Sites, MissesNothing(copy[x], copy[y])
        PROVE  DOMAIN copy[y] \subseteq DOMAIN copy[x]
    <3>1. /\ SoundTree(copy[x]) /\ Whole(copy[x]) /\ SoundTree(copy[y]) /\ Whole(copy[y])
          /\ Leaves(copy[y]) \subseteq DOMAIN copy[x]
      BY <2>1, WholeSites DEF MissesNothing, MissingRevs
    <3>2. ASSUME NEW r \in DOMAIN copy[y]
          PROVE  r \in DOMAIN copy[x]
      <4>1. PICK l \in Leaves(copy[y]) : r \in Path(l, Pos(l))
        BY <3>1, LeafAbove, SoundIsRooted
      <4>2. QED
        BY <3>1, <4>1, WholeIs
    <3>3. QED
      BY <3>2
  <2>2. DOMAIN copy[s] = DOMAIN copy[o]
    BY <2>1
  <2>3. /\ SoundTree(copy[s]) /\ Whole(copy[s]) /\ SoundTree(copy[o]) /\ Whole(copy[o])
    BY WholeSites
  <2>4. Leaves(copy[s]) = Leaves(copy[o])
    BY <2>2, <2>3, WholeLeaves
  <2>5. DOMAIN copy[s] # {} => {Winner(copy[s])} = {Winner(copy[o])}
    BY <2>2, <2>3, WholeWinner
  <2>6. QED
    BY <2>4, <2>5
<1>2. QED
  BY <1>1, TreesAreWhole, PTL

\* Both at all times: what edits, replications, purges and losses leave at the sites is
\* well formed, and agrees where nothing is missing.
THEOREM ReplicasStayRight == ASSUME Unstemmed PROVE ReplicasSpec => []ReplicasAreSound
BY ReplicasStaySound, ReplicasAlwaysAgree, PTL DEF ReplicasAreSound

-----------------------------------------------------------------------------
(* The abstract replicas                                                    *)

\* A site shows what follows from the edits it knows.
LEMMA ShownIs ==
    ASSUME NEW t, SoundTree(t), Whole(t)
    PROVE  LET shown == [leaves |-> Leaves(t), winner |-> IF DOMAIN t = {} THEN {} ELSE {Winner(t)}]
           IN  /\ shown.leaves = EditSets!Tips(DOMAIN t)
               /\ shown.winner = EditSets!Best(EditSets!Tips(DOMAIN t))
BY WholeLeaves, WholeWinner DEF LeavesOf

\* So a step that takes edits to one site is one that has it know them.
LEMMA TakesIsKnows ==
    ASSUME WInv, WInv', NEW s \in Sites, NEW known,
           copy' = [copy EXCEPT ![s] = copy'[s]], DOMAIN copy'[s] = known
    PROVE  /\ [x \in Sites |-> DOMAIN copy'[x]] = [[x \in Sites |-> DOMAIN copy[x]] EXCEPT ![s] = known]
           /\ [x \in Sites |-> ShownBy(x).leaves']
                = [[x \in Sites |-> ShownBy(x).leaves] EXCEPT ![s] = EditSets!Tips(known)]
           /\ [x \in Sites |-> ShownBy(x).winner']
                = [[x \in Sites |-> ShownBy(x).winner] EXCEPT ![s] = EditSets!Best(EditSets!Tips(known))]
<1>1. \A x \in Sites : SoundTree(copy[x]) /\ Whole(copy[x])
  BY WholeSites
<1>2. \A x \in Sites : SoundTree(copy'[x]) /\ Whole(copy'[x])
  BY DEF WInv, RInv, CopiesAreSound, SoundCopy, CopiesAreWhole
<1>3. /\ \A x \in Sites : x = s \/ copy'[x] = copy[x]
      /\ DOMAIN copy'[s] = known
  BY WholeSites
<1>4. \A x \in Sites : x = s \/ ShownBy(x)' = ShownBy(x)
  BY <1>3 DEF ShownBy
<1>5. /\ ShownBy(s).leaves' = EditSets!Tips(known)
      /\ ShownBy(s).winner' = EditSets!Best(EditSets!Tips(known))
  <2> DEFINE t == copy'[s]
  <2>1. SoundTree(t) /\ Whole(t) /\ DOMAIN t = known
    BY <1>2, <1>3
  <2>2. ShownBy(s)' = [leaves |-> Leaves(t), winner |-> IF DOMAIN t = {} THEN {} ELSE {Winner(t)}]
    BY DEF ShownBy
  <2> HIDE DEF t
  <2>3. QED
    BY <2>1, <2>2, ShownIs
<1>6. [x \in Sites |-> DOMAIN copy'[x]] = [[x \in Sites |-> DOMAIN copy[x]] EXCEPT ![s] = known]
  BY <1>3
<1>7. [x \in Sites |-> ShownBy(x).leaves']
        = [[x \in Sites |-> ShownBy(x).leaves] EXCEPT ![s] = EditSets!Tips(known)]
  BY <1>4, <1>5
<1>8. [x \in Sites |-> ShownBy(x).winner']
        = [[x \in Sites |-> ShownBy(x).winner] EXCEPT ![s] = EditSets!Best(EditSets!Tips(known))]
  BY <1>4, <1>5
<1>9. QED
  BY <1>6, <1>7, <1>8

LEMMA EditDocIsEdit ==
    ASSUME Unstemmed, WInv, WInv', NEW s \in Sites, NEW r \in Revs, EditDoc(s, r)
    PROVE  EditSets!Edit(s, r)
<1>1. /\ Takes(s, DOMAIN copy[s] \union {r}) /\ edited' = edited \union {r}
      /\ IF DOMAIN copy[s] = {} THEN Pos(r) = 1
         ELSE Pos(r) > 1 /\ History[r][2] \in Leaves(copy[s])
  BY EditDocTakes
<1>2. EditSets!Knows(s, DOMAIN copy[s] \union {r})
  BY <1>1, TakesIsKnows DEF Takes, EditSets!Knows
<1>3. EditSets!Before(r) = IF Pos(r) > 1 THEN {History[r][2]} ELSE {}
  BY DEF EditSets!Before, EditSets!Generation, Pos
<1>4. ShownBy(s).leaves = Leaves(copy[s]) /\ Pos(r) \in Nat
  BY HistoryIs DEF ShownBy
<1>5. IF DOMAIN copy[s] = {} THEN EditSets!Before(r) = {}
      ELSE EditSets!Before(r) # {} /\ EditSets!Before(r) \subseteq ShownBy(s).leaves
  BY <1>1, <1>3, <1>4
<1>6. QED
  BY <1>1, <1>2, <1>5 DEF EditSets!Edit, EditSets!Knows

LEMMA PurgeLeavesIsForget ==
    ASSUME WInv, WInv', NEW s \in Sites, NEW R, PurgeLeaves(s, R)
    PROVE  \E edits \in SUBSET Revs : EditSets!Forget(s, edits)
<1> DEFINE k == DOMAIN copy'[s]
<1>1. /\ Takes(s, k) /\ Whole(copy'[s]) /\ SoundTree(copy'[s]) /\ UNCHANGED edited
      /\ k \subseteq DOMAIN copy[s] /\ Leaves(copy'[s]) \subseteq Leaves(copy[s])
  BY PurgeLeavesTakes
<1>2. EditSets!WithAll(k) /\ k \subseteq Revs
  BY <1>1, WholeLeaves
<1>3. EditSets!Knows(s, k)
  BY <1>1, TakesIsKnows DEF Takes, EditSets!Knows
<1>4. ShownBy(s).leaves' \subseteq ShownBy(s).leaves
  BY <1>1 DEF ShownBy
<1> HIDE DEF k
<1>5. EditSets!Forget(s, k)
  BY <1>1, <1>2, <1>3, <1>4 DEF EditSets!Forget
<1>6. QED
  BY <1>2, <1>5

LEMMA WriteByIsLearn ==
    ASSUME Unstemmed, WInv, WInv', NEW d \in carried, WriteBy(d), UNCHANGED edited
    PROVE  \E s \in Sites : \E edits \in SUBSET Revs : EditSets!Learn(s, edits)
<1> DEFINE s == d.link[2]
           known == DOMAIN copy[s] \union Path(d.rev, Pos(d.rev))
<1>1. /\ s \in Sites /\ Takes(s, known) /\ Path(d.rev, Pos(d.rev)) \subseteq edited
      /\ Whole(copy'[s]) /\ SoundTree(copy'[s])
  BY WriteByTakes
<1>2. known \subseteq edited /\ DOMAIN copy[s] \subseteq known
  BY <1>1, WholeSites
<1>3. EditSets!WithAll(known) /\ known \subseteq Revs
  BY <1>1, WholeLeaves DEF Takes
<1>4. EditSets!Knows(s, known)
  BY <1>1, TakesIsKnows DEF Takes, EditSets!Knows
<1> HIDE DEF s, known
<1>5. EditSets!Learn(s, known)
  BY <1>1, <1>2, <1>3, <1>4 DEF EditSets!Learn
<1>6. QED
  BY <1>1, <1>3, <1>5

LEMMA StepIsEdits ==
    ASSUME Unstemmed, WInv, WInv', [ReplicasNext]_replicaVars
    PROVE  [EditSets!Next]_(EditSets!vars)
<1>1. CASE \E s \in Sites, r \in Revs : EditDoc(s, r)
  BY <1>1, EditDocIsEdit DEF EditSets!Next
<1>2. CASE \E s \in Sites, revs \in SUBSET Revs : PurgeLeaves(s, revs)
  BY <1>2, PurgeLeavesIsForget DEF EditSets!Next
<1>3. ASSUME NEW d \in carried, WriteDoc(d) \/ WriteUnanswered(d)
      PROVE  EditSets!Next
  <2>1. WriteBy(d) /\ UNCHANGED edited
    BY <1>3 DEF WriteDoc, WriteUnanswered
  <2>2. QED
    BY <2>1, WriteByIsLearn DEF EditSets!Next
<1>4. CASE UNCHANGED <<copy, edited>>
  BY <1>4 DEF EditSets!vars, ShownBy
<1>5. CASE (\E l \in Links : AskTarget(l) \/ LoseSession(l)) \/ \E x \in wanted : FetchRev(x)
  BY <1>4, <1>5 DEF AskTarget, LoseSession, FetchRev
<1>6. CASE UNCHANGED replicaVars
  BY <1>4, <1>6 DEF replicaVars
<1>7. QED
  BY <1>1, <1>2, <1>3, <1>5, <1>6 DEF ReplicasNext, Replicating

LEMMA StartIsEdits ==
    ASSUME ReplicasInit
    PROVE  EditSets!Init
<1>1. copy = [s \in Sites |-> EmptyTree] /\ edited = {}
  BY DEF ReplicasInit
<1>2. DOMAIN EmptyTree = {}
  BY DEF EmptyTree
<1>3. \A s \in Sites : DOMAIN copy[s] = {} /\ ShownBy(s).leaves = {} /\ ShownBy(s).winner = {}
  BY <1>1, <1>2 DEF ShownBy, Leaves
<1>4. QED
  BY <1>1, <1>3 DEF EditSets!Init

\* As long as nothing is stemmed the sites implement sets of edits that spread: no edit
\* is lost or made up by fetches, late answers, repeated writes and lost sessions, and
\* what each site shows follows from the edits it knows (writer.rs, revtree.rs,
\* api_bulk.rs, couch-repl).
THEOREM ReplicasAreEditSets == ASSUME Unstemmed PROVE ReplicasSpec => ImplementsEditSets
<1>1. ReplicasInit => EditSets!Init
  BY StartIsEdits
<1>2. WInv /\ WInv' /\ [ReplicasNext]_replicaVars => [EditSets!Next]_(EditSets!vars)
  BY StepIsEdits
<1>3. ReplicasSpec => []WInv
  BY TreesAreWhole
<1>4. QED
  BY <1>1, <1>2, <1>3, PTL DEF ReplicasSpec, ImplementsEditSets, EditSets!Spec
=============================================================================
