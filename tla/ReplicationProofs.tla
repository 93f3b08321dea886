---------------------------- MODULE ReplicationProofs ----------------------------
(* Proofs about Replication: its inductive invariant, and what follows from it   *)
(* for every history of updates, every choice of options and any number of       *)
(* faults, crashes and sessions.                                                 *)
(*                                                                               *)
(* The argument: everything that the ledger has forgotten is known at the        *)
(* target, and everything it has not is borne by work in flight ("the books").   *)
(* So the seq it commits is safe to record, and a ledger with nothing in flight  *)
(* has brought all that the reader read.                                         *)
EXTENDS Replication, FiniteSetTheorems, SequenceTheorems, WellFoundedInduction, TLAPS

-----------------------------------------------------------------------------
(* Numbers                                                                  *)

\* Every set of naturals has a least.
LEMMA MinExists ==
    ASSUME NEW S \in SUBSET Nat, S # {}
    PROVE  \E x \in S : \A y \in S : x <= y
<1>1. PICK x \in S : \A y \in S : ~(<<y, x>> \in OpToRel(<, Nat))
  BY WFMin, NatLessThanWellFounded
<1>2. \A y \in S : ~(y < x)
  BY <1>1 DEF OpToRel
<1>3. QED
  BY <1>2

\* So what follows for a number from all those below holds of every number.
LEMMA Inductive ==
    ASSUME NEW n \in Nat, NEW S,
           \A i \in 0..n : (\A j \in 0..n : j < i => j \in S) => i \in S
    PROVE  \A i \in 0..n : i \in S
<1> DEFINE T == {i \in 0..n : i \notin S}
<1> SUFFICES ASSUME T # {} PROVE FALSE
  OBVIOUS
<1>1. PICK i \in T : \A j \in T : i <= j
  <2>1. T \in SUBSET Nat
    OBVIOUS
  <2> HIDE DEF T
  <2>2. QED
    BY <2>1, MinExists
<1>2. \A j \in 0..n : j < i => j \in S
  BY <1>1
<1>3. QED
  BY <1>1, <1>2

\* A bounded set of naturals has a greatest.
LEMMA MaxIsGreatest ==
    ASSUME NEW n \in Nat, NEW S \in SUBSET (0..n), S # {}
    PROVE  Max(S) \in S /\ \A y \in S : y <= Max(S)
<1> DEFINE T == {n - x : x \in S}
<1>0. \A x \in S : n - x \in Nat
  OBVIOUS
<1>1. T \in SUBSET Nat /\ T # {}
  BY <1>0
<1>2. PICK t \in T : \A y \in T : t <= y
  BY <1>1, MinExists
<1>3. PICK x \in S : t = n - x
  BY <1>2
<1>4. \A y \in S : y <= x
  <2> TAKE y \in S
  <2>1. n - x <= n - y
    BY <1>2, <1>3
  <2>2. QED
    BY <2>1
<1>5. QED
  BY <1>4 DEF Max

\* What Min picks is the least.
LEMMA MinIsLeast ==
    ASSUME NEW S \in SUBSET Nat, S # {}
    PROVE  Min(S) \in S /\ \A y \in S : Min(S) <= y
  BY MinExists DEF Min

\* q lists S in ascending order: what InOrder picks.
Orders(S, q) ==
    /\ q \in [1..Cardinality(S) -> S]
    /\ \A i, j \in 1..Cardinality(S) : i < j => q[i] < q[j]
    /\ \A x \in S : \E i \in 1..Cardinality(S) : q[i] = x

\* Every finite set of numbers has an order.
LEMMA InOrderOrders ==
    ASSUME NEW n \in Nat, NEW S \in SUBSET (1..n)
    PROVE  Orders(S, InOrder(S))
<1> DEFINE Orderly == {m \in 0..n : \A T \in SUBSET (1..m) : \E q : Orders(T, q)}
<1>1. ASSUME NEW m \in 0..n, \A j \in 0..n : j < m => j \in Orderly
      PROVE  m \in Orderly
  <2> SUFFICES ASSUME NEW T \in SUBSET (1..m) PROVE \E q : Orders(T, q)
    OBVIOUS
  <2>1. IsFiniteSet(T)
    <3>1. IsFiniteSet(1..m)
      BY FS_Interval
    <3>2. QED
      BY <3>1, FS_Subset
  <2>2. CASE T = {}
    <3>1. Cardinality(T) = 0
      BY <2>2, FS_EmptySet
    <3>2. Orders(T, [i \in 1..0 |-> 0])
      BY <2>2, <3>1 DEF Orders
    <3>3. QED
      BY <3>2
  <2>3. CASE m \notin T /\ T # {}
    <3>0. PICK x \in T : x \in 1..m
      BY <2>3
    <3>1. m - 1 \in 0..n /\ m - 1 < m /\ \A y \in T : y \in 1..(m - 1)
      BY <2>3, <3>0
    <3>2. m - 1 \in Orderly
      BY <1>1, <3>1
    <3>3. QED
      BY <3>1, <3>2
  <2>4. CASE m \in T
    <3> DEFINE U == T \ {m}
    <3>1. m - 1 \in 0..n /\ m - 1 < m /\ U \in SUBSET (1..(m - 1))
      BY <2>4
    <3>2. m - 1 \in Orderly
      BY <1>1, <3>1
    <3>3. PICK p : Orders(U, p)
      BY <3>1, <3>2
    <3>4. Cardinality(T) \in Nat /\ Cardinality(U) = Cardinality(T) - 1
          /\ Cardinality(U) \in Nat
      BY <2>1, <2>4, FS_RemoveElement, FS_CardinalityType, FS_Subset
    <3> DEFINE k == Cardinality(T)
               q == [i \in 1..k |-> IF i = k THEN m ELSE p[i]]
    <3>5. \A i \in 1..(k - 1) : p[i] \in U /\ p[i] < m
      <4>1. \A x \in U : x < m
        BY <3>1
      <4>2. p \in [1..(k - 1) -> U]
        BY <3>3, <3>4 DEF Orders
      <4>3. QED
        BY <4>1, <4>2
    <3>6. q \in [1..k -> T]
      BY <2>4, <3>4, <3>5
    <3>7. \A i, j \in 1..k : i < j => q[i] < q[j]
      <4> SUFFICES ASSUME NEW i \in 1..k, NEW j \in 1..k, i < j PROVE q[i] < q[j]
        OBVIOUS
      <4>1. i \in 1..(k - 1) /\ q[i] = p[i] /\ p[i] < m
        BY <3>4, <3>5
      <4>2. CASE j = k
        BY <4>1, <4>2
      <4>3. CASE j # k
        <5>1. j \in 1..(k - 1) /\ q[j] = p[j]
          BY <3>4, <4>3
        <5>2. QED
          BY <3>3, <3>4, <4>1, <5>1 DEF Orders
      <4>4. QED
        BY <4>2, <4>3
    <3>8. \A x \in T : \E i \in 1..k : q[i] = x
      <4> TAKE x \in T
      <4>1. CASE x = m
        <5>1. k \in 1..k /\ q[k] = m
          BY <3>4
        <5>2. QED
          BY <4>1, <5>1
      <4>2. CASE x # m
        <5>1. PICK i \in 1..(k - 1) : p[i] = x
          BY <4>2, <3>3, <3>4 DEF Orders
        <5>2. i \in 1..k /\ q[i] = x
          BY <3>4, <5>1
        <5>3. QED
          BY <5>2
      <4>3. QED
        BY <4>1, <4>2
    <3>9. Orders(T, q)
      BY <3>6, <3>7, <3>8 DEF Orders
    <3>10. QED
      BY <3>9
  <2>5. QED
    BY <2>2, <2>3, <2>4
<1>2. n \in Orderly
  <2> HIDE DEF Orderly
  <2>1. QED
    BY <1>1, Inductive
<1>3. \E q : Orders(S, q)
  BY <1>2
<1>4. QED
  BY <1>3 DEF Orders, InOrder

-----------------------------------------------------------------------------
(* Revisions and their ancestors                                            *)

\* How many updates the source will ever see.
Size == Len(Updates)

\* What the assumption on the updates says of each.
LEMMA UpdatesAre ==
    /\ Size \in Nat
    /\ \A i \in 1..Size :
         /\ Updates[i].doc \in Docs /\ ParentOf(i) \in 0..(i - 1)
         /\ ParentOf(i) # 0 => Updates[ParentOf(i)].doc = Updates[i].doc
<1>1. Size \in Nat /\ \A i \in 1..Size : Updates[i] \in [doc : Docs, parent : Nat]
  BY ReplicationAssumption, LenProperties, ElementOfSeq DEF ReplicationAssumption, Size
<1>2. \A i \in 1..Size : ParentOf(i) < i /\ (ParentOf(i) # 0 => Updates[ParentOf(i)].doc = Updates[i].doc)
  BY ReplicationAssumption DEF ReplicationAssumption, ParentOf, Size
<1>3. QED
  BY <1>1, <1>2 DEF ParentOf

\* The ancestry of the updates up to m, as a recursive function of its own.
Lineage(m, f) == f = [i \in 0..m |-> IF i = 0 THEN {} ELSE {i} \union f[ParentOf(i)]]

\* Such a function exists: a least update without one would be built from the one before.
LEMMA LineageExists ==
    \A m \in 0..Size : \E f : Lineage(m, f)
<1> DEFINE S == {m \in 0..Size : \E f : Lineage(m, f)}
<1>1. ASSUME NEW m \in 0..Size, \A j \in 0..Size : j < m => j \in S
      PROVE  m \in S
  <2>1. CASE m = 0
    <3>1. Lineage(0, [i \in 0..0 |-> {}])
      BY DEF Lineage
    <3>2. QED
      BY <2>1, <3>1
  <2>2. CASE m # 0
    <3>1. m - 1 \in 0..Size /\ m - 1 < m /\ m \in 1..Size
      BY <2>2, UpdatesAre
    <3>2. PICK f : Lineage(m - 1, f)
      BY <1>1, <3>1
    <3> DEFINE g == [i \in 0..m |-> IF i = m THEN {m} \union f[ParentOf(m)] ELSE f[i]]
    <3>3. \A i \in 1..m : ParentOf(i) \in 0..(i - 1) /\ ParentOf(i) \in 0..m /\ ParentOf(i) # m
      BY <3>1, UpdatesAre
    <3>4. \A i \in 0..(m - 1) : f[i] = IF i = 0 THEN {} ELSE {i} \union f[ParentOf(i)]
      BY <3>2 DEF Lineage
    <3>5. \A i \in 0..m : g[i] = IF i = 0 THEN {} ELSE {i} \union g[ParentOf(i)]
      <4> TAKE i \in 0..m
      <4>1. CASE i = 0
        <5>1. 0 \in 0..(m - 1) /\ 0 \in 0..m
          BY <2>2, <3>1
        <5>2. QED
          BY <2>2, <3>4, <4>1, <5>1
      <4>2. CASE i = m
        BY <2>2, <3>3, <4>2, UpdatesAre
      <4>3. CASE i # 0 /\ i # m
        <5>1. i \in 0..(m - 1) /\ i \in 1..m
          BY <4>3, UpdatesAre
        <5>2. g[i] = f[i] /\ g[ParentOf(i)] = f[ParentOf(i)]
          BY <3>3, <4>3, <5>1
        <5>3. QED
          BY <3>4, <4>3, <5>1, <5>2
      <4>4. QED
        BY <4>1, <4>2, <4>3
    <3>6. Lineage(m, g)
      BY <3>5 DEF Lineage
    <3>7. QED
      BY <3>6
  <2>3. QED
    BY <2>1, <2>2
<1>2. \A m \in 0..Size : m \in S
  <2> HIDE DEF S
  <2>1. QED
    BY <1>1, Inductive, UpdatesAre
<1>3. QED
  BY <1>2

\* Ancestry is the function it is defined to be.
LEMMA AncestryIs ==
    /\ Ancestry[0] = {}
    /\ \A i \in 1..Size : Ancestry[i] = {i} \union Ancestry[ParentOf(i)]
<1>1. Ancestry = CHOOSE f : Lineage(Size, f)
  BY DEF Ancestry, Lineage, Size
<1>2. Size \in 0..Size
  BY UpdatesAre
<1>3. Lineage(Size, Ancestry)
  BY <1>1, <1>2, LineageExists
<1>4. \A i \in 0..Size : Ancestry[i] = IF i = 0 THEN {} ELSE {i} \union Ancestry[ParentOf(i)]
  BY <1>3 DEF Lineage
<1>5. 0 \in 0..Size /\ \A i \in 1..Size : i \in 0..Size /\ i # 0
  BY UpdatesAre
<1>6. QED
  BY <1>4, <1>5

\* The ancestors of an update are earlier updates of its document.
LEMMA AncestorsAreEarlier ==
    \A i \in 0..Size : \A j \in Ancestry[i] : j \in 1..i /\ Updates[j].doc = Updates[i].doc
<1> DEFINE S == {i \in 0..Size : \A j \in Ancestry[i] : j \in 1..i /\ Updates[j].doc = Updates[i].doc}
<1>1. ASSUME NEW i \in 0..Size, \A j \in 0..Size : j < i => j \in S
      PROVE  i \in S
  <2>1. CASE i = 0
    BY <2>1, AncestryIs
  <2>2. CASE i # 0
    <3> DEFINE p == ParentOf(i)
    <3>1. i \in 1..Size /\ p \in 0..Size /\ p < i /\ (p # 0 => Updates[p].doc = Updates[i].doc)
      BY <2>2, UpdatesAre
    <3>2. p \in S
      BY <1>1, <3>1
    <3>3. \A j \in Ancestry[p] : p # 0 /\ j \in 1..i /\ Updates[j].doc = Updates[i].doc
      BY <3>1, <3>2, AncestryIs
    <3>4. QED
      BY <3>1, <3>3, AncestryIs
  <2>3. QED
    BY <2>1, <2>2
<1>2. \A i \in 0..Size : i \in S
  <2> HIDE DEF S
  <2>1. QED
    BY <1>1, Inductive, UpdatesAre
<1>3. QED
  BY <1>2

\* An ancestor of an ancestor is an ancestor.
LEMMA AncestryIsClosed ==
    \A i \in 0..Size : \A j \in Ancestry[i] : Ancestry[j] \subseteq Ancestry[i]
<1> DEFINE S == {i \in 0..Size : \A j \in Ancestry[i] : Ancestry[j] \subseteq Ancestry[i]}
<1>1. ASSUME NEW i \in 0..Size, \A j \in 0..Size : j < i => j \in S
      PROVE  i \in S
  <2>1. CASE i = 0
    BY <2>1, AncestryIs
  <2>2. CASE i # 0
    <3>1. i \in 1..Size /\ ParentOf(i) \in 0..Size /\ ParentOf(i) < i
      BY <2>2, UpdatesAre
    <3>2. ParentOf(i) \in S
      BY <1>1, <3>1
    <3>3. QED
      BY <3>1, <3>2, AncestryIs
  <2>3. QED
    BY <2>1, <2>2
<1>2. \A i \in 0..Size : i \in S
  <2> HIDE DEF S
  <2>1. QED
    BY <1>1, Inductive, UpdatesAre
<1>3. QED
  BY <1>2

\* Of two ancestors of one update, one is an ancestor of the other.
LEMMA AncestryIsAChain ==
    \A k \in 0..Size : \A i, j \in Ancestry[k] : i \in Ancestry[j] \/ j \in Ancestry[i]
<1> DEFINE S == {k \in 0..Size : \A i, j \in Ancestry[k] : i \in Ancestry[j] \/ j \in Ancestry[i]}
<1>1. ASSUME NEW k \in 0..Size, \A j \in 0..Size : j < k => j \in S
      PROVE  k \in S
  <2>1. CASE k = 0
    BY <2>1, AncestryIs
  <2>2. CASE k # 0
    <3>1. k \in 1..Size /\ ParentOf(k) \in 0..Size /\ ParentOf(k) < k
      BY <2>2, UpdatesAre
    <3>2. ParentOf(k) \in S
      BY <1>1, <3>1
    <3>3. QED
      BY <3>1, <3>2, AncestryIs
  <2>3. QED
    BY <2>1, <2>2
<1>2. \A k \in 0..Size : k \in S
  <2> HIDE DEF S
  <2>1. QED
    BY <1>1, Inductive, UpdatesAre
<1>3. QED
  BY <1>2

\* A proper ancestor has a child on the way.
LEMMA AncestorsHaveChildren ==
    \A k \in 0..Size : \A i \in Ancestry[k] : i # k => \E j \in Ancestry[k] : ParentOf(j) = i
<1> DEFINE S == {k \in 0..Size :
                   \A i \in Ancestry[k] : i # k => \E j \in Ancestry[k] : ParentOf(j) = i}
<1>1. ASSUME NEW k \in 0..Size, \A j \in 0..Size : j < k => j \in S
      PROVE  k \in S
  <2>1. CASE k = 0
    BY <2>1, AncestryIs
  <2>2. CASE k # 0
    <3>1. k \in 1..Size /\ ParentOf(k) \in 0..Size /\ ParentOf(k) < k
      BY <2>2, UpdatesAre
    <3>2. ParentOf(k) \in S
      BY <1>1, <3>1
    <3>3. QED
      BY <3>1, <3>2, AncestryIs
  <2>3. QED
    BY <2>1, <2>2
<1>2. \A k \in 0..Size : k \in S
  <2> HIDE DEF S
  <2>1. QED
    BY <1>1, Inductive, UpdatesAre
<1>3. QED
  BY <1>2

\* An update is among its own ancestors.
LEMMA IsOwnAncestor ==
    \A i \in 1..Size : i \in Ancestry[i]
  BY AncestryIs

\* No leaf of a document is an ancestor of another.
LEMMA LeavesAreUnrelated ==
    ASSUME NEW d, NEW n \in 0..Size
    PROVE  Leaves(d, n) \subseteq 1..n /\ Unrelated(Leaves(d, n))
<1>1. Leaves(d, n) \subseteq 1..n
  BY DEF Leaves, RevsOf
<1>2. ASSUME NEW i \in Leaves(d, n), NEW j \in Leaves(d, n), i \in Ancestry[j], i # j
      PROVE  FALSE
  <2>1. j \in 1..n /\ j \in 0..Size /\ Updates[j].doc = d
    BY UpdatesAre DEF Leaves, RevsOf
  <2>2. PICK k \in Ancestry[j] : ParentOf(k) = i
    BY <1>2, <2>1, AncestorsHaveChildren
  <2>3. k \in RevsOf(d, n)
    BY <2>1, AncestorsAreEarlier, UpdatesAre DEF RevsOf
  <2>4. QED
    BY <2>2, <2>3 DEF Leaves
<1>3. QED
  BY <1>1, <1>2 DEF Unrelated

\* Every revision is on the way to a leaf.
LEMMA LeavesBringAll ==
    ASSUME NEW d, NEW n \in 0..Size, NEW i \in RevsOf(d, n)
    PROVE  \E j \in Leaves(d, n) : i \in Ancestry[j]
<1> DEFINE S == {j \in RevsOf(d, n) : i \in Ancestry[j]}
<1>1. n \in Nat /\ \A j \in RevsOf(d, n) : j \in 1..n /\ j \in 1..Size /\ j \in 0..Size
  BY UpdatesAre DEF RevsOf
<1>2. i \in S /\ S \in SUBSET (0..n)
  BY <1>1, IsOwnAncestor
<1>3. Max(S) \in S /\ \A y \in S : y <= Max(S)
  <2> HIDE DEF S
  <2>1. QED
    BY <1>1, <1>2, MaxIsGreatest
<1>4. ASSUME NEW k \in RevsOf(d, n), ParentOf(k) = Max(S)
      PROVE  FALSE
  <2>1. k \in 1..Size /\ k > Max(S)
    BY <1>1, <1>3, <1>4, UpdatesAre
  <2>2. Max(S) \in Ancestry[k]
    BY <1>1, <1>3, <1>4, <2>1, AncestryIs, IsOwnAncestor
  <2>3. k \in S
    BY <1>1, <1>3, <2>2, AncestryIsClosed
  <2>4. k <= Max(S)
    BY <1>3, <2>3
  <2>5. k \in Nat /\ Max(S) \in Nat
    BY <1>1, <1>3
  <2>6. QED
    BY <2>1, <2>4, <2>5
<1>5. QED
  BY <1>3, <1>4 DEF Leaves

\* The row that shows an update is the newest of its document.
LEMMA RowIs ==
    ASSUME NEW n \in 0..Size, NEW i \in 1..n
    PROVE  /\ Row(i, n) \in 1..n /\ i <= Row(i, n)
           /\ Updates[Row(i, n)].doc = Updates[i].doc
           /\ \A j \in RevsOf(Updates[i].doc, n) : j <= Row(i, n)
           /\ i \in RevsOf(Updates[i].doc, n)
<1> DEFINE S == RevsOf(Updates[i].doc, n)
<1>1. n \in Nat /\ S \in SUBSET (0..n) /\ i \in S
  BY UpdatesAre DEF RevsOf
<1>2. Max(S) \in S /\ \A y \in S : y <= Max(S)
  <2> HIDE DEF S
  <2>1. QED
    BY <1>1, MaxIsGreatest
<1>3. QED
  BY <1>1, <1>2 DEF Row, RowSeq, RevsOf

\* An update moves the row of its own document, beyond all the others.
LEMMA RowMoves ==
    ASSUME NEW n \in 0..Size, n + 1 \in 0..Size, NEW i \in 1..(n + 1)
    PROVE  \/ Row(i, n + 1) = n + 1
           \/ i \in 1..n /\ Row(i, n + 1) = Row(i, n)
<1>1. CASE i = n + 1
  BY <1>1, RowIs, UpdatesAre
<1>2. CASE i # n + 1
  <2>1. i \in 1..n /\ i \in 1..(n + 1) /\ n \in Nat
    BY <1>2, UpdatesAre
  <2>2. CASE Updates[n + 1].doc = Updates[i].doc
    <3>1. n + 1 \in RevsOf(Updates[i].doc, n + 1)
      BY <2>1, <2>2 DEF RevsOf
    <3>2. n + 1 <= Row(i, n + 1) /\ Row(i, n + 1) \in 1..(n + 1)
      BY <3>1, RowIs
    <3>3. QED
      BY <2>1, <3>2
  <2>3. CASE Updates[n + 1].doc # Updates[i].doc
    <3>1. RevsOf(Updates[i].doc, n + 1) = RevsOf(Updates[i].doc, n)
      BY <2>1, <2>3 DEF RevsOf
    <3>2. QED
      BY <2>1, <3>1 DEF Row, RowSeq
  <2>4. QED
    BY <2>2, <2>3
<1>3. QED
  BY <1>1, <1>2

-----------------------------------------------------------------------------
(* The books                                                                *)

\* All the work that the books know of.
All(b) == b.changing \union b.copying

\* Whatever was owed still is, or is accounted for.
Pays(b, a) == \A i, o : Owed(b, i, o) => Owed(a, i, o)

\* What is in flight for an ordinal can be counted.
LEMMA FlightIsFinite ==
    ASSUME NEW b, IsFiniteSet(All(b)), NEW o
    PROVE  IsFiniteSet(Flight(b, o)) /\ Cardinality(Flight(b, o)) \in Nat
<1>1. Flight(b, o) \subseteq All(b)
  BY DEF Flight, All
<1>2. QED
  BY <1>1, FS_Subset, FS_CardinalityType

\* What being a ledger says of its parts.
LEMMA EntriesAre ==
    ASSUME NEW l, IsLedger(l)
    PROVE  /\ l.next \in Nat /\ l.committable \subseteq Nat
           /\ \A o \in DOMAIN l.entries :
                /\ o \in Nat /\ o < l.next
                /\ l.entries[o] \in Entry
                /\ l.entries[o].seq \in Nat /\ l.entries[o].pending \in Nat
  BY DEF IsLedger, Entry

\* A change is never a piece of work: the two records differ.
LEMMA ItemsAreApart ==
    Work \intersect Changes = {}
<1> SUFFICES ASSUME NEW x \in Work, x \in Changes PROVE FALSE
  OBVIOUS
<1>1. DOMAIN x = {"ord", "rev"}
  BY DEF Work
<1>2. DOMAIN x = {"ord", "revs"}
  BY DEF Changes
<1>3. "rev" # "revs" /\ "rev" # "ord"
  OBVIOUS
<1>4. QED
  BY <1>1, <1>2, <1>3

\* Work that bears an update is in flight.
LEMMA BearingIsInFlight ==
    ASSUME NEW b, NEW o, NEW i, Bears(b, o, i)
    PROVE  Flight(b, o) # {}
  BY DEF Bears, Flight

\* An entry that carries anything is not finished.
LEMMA CarryingIsPending ==
    ASSUME NEW b, NEW exact, Counted(b, exact), IsLedger(b.ledger),
           NEW o \in DOMAIN b.ledger.entries, NEW i, Carries(b, o, i)
    PROVE  b.ledger.entries[o].pending > 0
<1>1. Cardinality(Flight(b, o)) \in Nat /\ b.ledger.entries[o].pending \in Nat
      /\ IsFiniteSet(Flight(b, o))
  BY FlightIsFinite, EntriesAre DEF Counted, All
<1>2. CASE Cardinality(Flight(b, o)) < b.ledger.entries[o].pending
  BY <1>1, <1>2
<1>3. CASE Bears(b, o, i)
  <2>1. Flight(b, o) # {}
    BY <1>3, BearingIsInFlight
  <2>2. Cardinality(Flight(b, o)) # 0
    BY <1>1, <2>1, FS_EmptySet
  <2>3. QED
    BY <1>1, <2>2 DEF Counted
<1>4. QED
  BY <1>2, <1>3 DEF Carries

\* What is safe to record stays safe when more is known.
LEMMA SafeSeqsGrow ==
    ASSUME NEW known, NEW more, NEW n, known \subseteq more
    PROVE  SafeSeqs(known, n) \subseteq SafeSeqs(more, n)
  BY DEF SafeSeqs

-----------------------------------------------------------------------------
(* Advance                                                                  *)

\* seq.rs, advance: it takes the settled entries off and commits the seq of one of them.
LEMMA AdvanceIs ==
    ASSUME NEW l, IsLedger(l), NEW a, a = Advance(l)
    PROVE  /\ IsLedger(a) /\ a.next = l.next
           /\ DOMAIN a.entries = DOMAIN l.entries \ Settled(l)
           /\ \A o \in DOMAIN a.entries : a.entries[o] = l.entries[o]
           /\ \/ a.committable = l.committable
              \/ \E z \in Settled(l) : a.committable = {l.entries[z].seq}
<1> DEFINE done == Settled(l)
           left == [o \in DOMAIN l.entries \ done |-> l.entries[o]]
           z == CHOOSE o \in done : \A p \in done : p <= o
           c == IF done = {} THEN l.committable ELSE {l.entries[z].seq}
<1>1. a = [l EXCEPT !.entries = left, !.committable = c]
  BY DEF Advance
<1>2. l = [next |-> l.next, entries |-> l.entries, committable |-> l.committable]
  BY DEF IsLedger
<1>3. left \in [DOMAIN left -> Entry] /\ DOMAIN left = DOMAIN l.entries \ done
  BY EntriesAre
<1>4. done # {} => z \in done
  <2>1. done \in SUBSET (0..l.next) /\ l.next \in Nat
    BY EntriesAre DEF Settled
  <2> HIDE DEF done
  <2>2. done # {} => \E x \in done : \A y \in done : y <= x
    BY <2>1, MaxIsGreatest
  <2>3. QED
    BY <2>2
<1>5. c \subseteq Nat
  <2>1. done # {} => z \in DOMAIN l.entries
    BY <1>4 DEF Settled
  <2> HIDE DEF z, done
  <2>2. QED
    BY <2>1, EntriesAre
<1> HIDE DEF c, left
<1>6. a.next = l.next /\ a.entries = left /\ a.committable = c
      /\ a = [next |-> l.next, entries |-> left, committable |-> c]
  BY <1>1, <1>2
<1>7. IsLedger(a)
  BY <1>3, <1>5, <1>6, EntriesAre DEF IsLedger
<1>8. c = l.committable \/ \E y \in Settled(l) : c = {l.entries[y].seq}
  BY <1>4 DEF c
<1>9. QED
  BY <1>3, <1>6, <1>7, <1>8 DEF left

\* What is committable is safe: an entry is settled when nothing before it is owed.
LEMMA AdvanceKeepsBooks ==
    ASSUME NEW n \in 0..Size, NEW exact, NEW b, BooksAreSound(b, n, exact),
           NEW a, a.ledger = Advance(b.ledger), a.known = b.known,
           a.changing = b.changing, a.copying = b.copying
    PROVE  BooksAreSound(a, n, exact) /\ Pays(b, a) /\ a.ledger.next = b.ledger.next
<1> DEFINE l == b.ledger
           k == a.ledger
<1>1. IsLedger(l) /\ Counted(b, exact) /\ LedgerHolds(b, n)
  BY DEF BooksAreSound, LedgerHolds
<1>2. /\ IsLedger(k) /\ k.next = l.next
      /\ DOMAIN k.entries = DOMAIN l.entries \ Settled(l)
      /\ \A o \in DOMAIN k.entries : k.entries[o] = l.entries[o]
      /\ \/ k.committable = l.committable
         \/ \E z \in Settled(l) : k.committable = {l.entries[z].seq}
  BY <1>1, AdvanceIs
<1>3. \A o, i : Flight(a, o) = Flight(b, o) /\ (Bears(a, o, i) <=> Bears(b, o, i))
  BY DEF Flight, Bears
<1>4. \A o \in Settled(l) : o \in DOMAIN l.entries /\ Flight(b, o) = {}
  <2> TAKE o \in Settled(l)
  <2>1. o \in DOMAIN l.entries /\ o <= o /\ l.entries[o].pending = 0
    BY <1>1, EntriesAre DEF Settled
  <2>2. Cardinality(Flight(b, o)) = 0 /\ IsFiniteSet(Flight(b, o))
    BY <1>1, <2>1, FlightIsFinite DEF Counted, All
  <2>3. QED
    BY <2>1, <2>2, FS_EmptySet
<1>5. Counted(a, exact)
  <2>1. \A x \in a.changing \union a.copying : x.ord \in DOMAIN k.entries
    <3> TAKE x \in a.changing \union a.copying
    <3>1. x.ord \in DOMAIN l.entries /\ x \in Flight(b, x.ord)
      BY <1>1 DEF Counted, Flight
    <3>2. QED
      BY <3>1, <1>2, <1>4
  <2>2. QED
    BY <1>1, <1>2, <1>3, <2>1 DEF Counted
<1>6. Pays(b, a)
  <2> SUFFICES ASSUME NEW i, NEW o, NEW q \in DOMAIN l.entries, q <= o, Carries(b, q, i)
               PROVE  q \in DOMAIN k.entries /\ Carries(a, q, i)
    BY DEF Pays, Owed
  <2>1. l.entries[q].pending > 0
    BY <1>1, CarryingIsPending
  <2>2. q \notin Settled(l)
    BY <1>1, <2>1, EntriesAre DEF Settled
  <2>3. QED
    BY <1>2, <1>3, <2>2 DEF Carries
<1>7. \A s, o : Promised(b, n, s, o) => Promised(a, n, s, o)
  BY <1>6 DEF Promised, Pays
<1>8. ASSUME NEW z \in Settled(l)
      PROVE  l.entries[z].seq \in SafeSeqs(a.known, n)
  <2>1. z \in DOMAIN l.entries /\ l.entries[z].seq \in 0..n
    BY <1>1, <1>4, EntriesAre DEF LedgerHolds
  <2>2. ASSUME NEW i \in Shown(n), Row(i, n) <= l.entries[z].seq, i \notin b.known
        PROVE  FALSE
    <3>1. PICK q \in DOMAIN l.entries : q <= z /\ Carries(b, q, i)
      BY <1>1, <2>1, <2>2 DEF LedgerHolds, Promised, Owed
    <3>2. l.entries[q].pending > 0
      BY <1>1, <3>1, CarryingIsPending
    <3>3. l.entries[q].pending = 0
      BY <3>1 DEF Settled
    <3>4. QED
      BY <3>2, <3>3
  <2>3. QED
    BY <2>1, <2>2 DEF SafeSeqs
<1>9. LedgerHolds(a, n)
  <2>1. k.committable \subseteq SafeSeqs(a.known, n) /\ \A s, t \in k.committable : s = t
    BY <1>1, <1>2, <1>8 DEF LedgerHolds
  <2>2. QED
    BY <1>1, <1>2, <1>7, <2>1 DEF LedgerHolds
<1>10. Apart(a, n)
  BY DEF BooksAreSound, Apart
<1>11. QED
  BY <1>2, <1>5, <1>6, <1>9, <1>10 DEF BooksAreSound

-----------------------------------------------------------------------------
(* Work that is lost, done or passed on                                     *)

\* A ledger that holds goes on holding while every debt is paid or passed on.
LEMMA LedgerHoldsOn ==
    ASSUME NEW n, NEW b, LedgerHolds(b, n), NEW a, a.ledger = b.ledger,
           b.known \subseteq a.known, Pays(b, a)
    PROVE  LedgerHolds(a, n)
<1>1. \A s, o : Promised(b, n, s, o) => Promised(a, n, s, o)
  BY DEF Promised, Pays
<1>2. QED
  BY <1>1, SafeSeqsGrow DEF LedgerHolds

\* Work that is lost stays pending for ever.
LEMMA LosingKeepsBooks ==
    ASSUME NEW n \in 0..Size, NEW exact, NEW b, BooksAreSound(b, n, exact),
           NEW a, a.ledger = b.ledger, b.known \subseteq a.known,
           a.changing \subseteq b.changing, a.copying \subseteq b.copying,
           NEW exactly, exactly => exact /\ a.changing = b.changing /\ a.copying = b.copying
    PROVE  BooksAreSound(a, n, exactly) /\ Pays(b, a)
<1> DEFINE l == b.ledger
<1>1. IsLedger(l) /\ Counted(b, exact) /\ LedgerHolds(b, n) /\ Apart(b, n)
  BY DEF BooksAreSound, LedgerHolds
<1>2. IsFiniteSet(All(b)) /\ All(a) \subseteq All(b) /\ IsFiniteSet(All(a))
  BY <1>1, FS_Subset DEF Counted, All
<1>3. \A o : /\ Flight(a, o) \subseteq Flight(b, o)
             /\ Cardinality(Flight(a, o)) \in Nat /\ Cardinality(Flight(b, o)) \in Nat
             /\ Cardinality(Flight(a, o)) <= Cardinality(Flight(b, o))
             /\ Cardinality(Flight(a, o)) = Cardinality(Flight(b, o)) => Flight(a, o) = Flight(b, o)
  <2> TAKE o
  <2>1. Flight(a, o) \subseteq Flight(b, o)
    BY DEF Flight
  <2>2. IsFiniteSet(Flight(b, o))
    BY <1>2, FlightIsFinite
  <2>3. QED
    BY <1>2, <2>1, <2>2, FlightIsFinite, FS_Subset
<1>4. Counted(a, exactly)
  <2>1. ASSUME NEW o \in DOMAIN l.entries
        PROVE  /\ Cardinality(Flight(a, o)) <= l.entries[o].pending
               /\ exactly => Cardinality(Flight(a, o)) = l.entries[o].pending
    <3>1. Cardinality(Flight(b, o)) <= l.entries[o].pending /\ l.entries[o].pending \in Nat
      BY <1>1, EntriesAre DEF Counted
    <3>2. exactly => Flight(a, o) = Flight(b, o)
      BY DEF Flight
    <3>3. QED
      BY <1>1, <1>3, <3>1, <3>2 DEF Counted
  <2>2. \A c \in a.changing : Flight(a, c.ord) = {c} /\ l.entries[c.ord].pending = 1
    <3> TAKE c \in a.changing
    <3>1. Flight(b, c.ord) = {c} /\ l.entries[c.ord].pending = 1
      BY <1>1 DEF Counted
    <3>2. c \in Flight(a, c.ord)
      BY DEF Flight
    <3>3. QED
      BY <1>3, <3>1, <3>2
  <2>3. QED
    BY <1>1, <1>2, <2>1, <2>2 DEF Counted, All
<1>5. Pays(b, a)
  <2> SUFFICES ASSUME NEW i, NEW q \in DOMAIN l.entries, Carries(b, q, i)
               PROVE  Carries(a, q, i)
    BY DEF Pays, Owed
  <2>1. Cardinality(Flight(b, q)) <= l.entries[q].pending /\ l.entries[q].pending \in Nat
    BY <1>1, EntriesAre DEF Counted
  <2>2. CASE Cardinality(Flight(b, q)) < l.entries[q].pending
    BY <1>3, <2>1, <2>2 DEF Carries
  <2>3. CASE Flight(a, q) # Flight(b, q)
    <3>1. Cardinality(Flight(a, q)) < Cardinality(Flight(b, q))
      BY <1>3, <2>3
    <3>2. QED
      BY <1>3, <2>1, <3>1 DEF Carries
  <2>4. CASE Bears(b, q, i) /\ Flight(a, q) = Flight(b, q)
    <3>1. CASE \E w \in b.copying : w.ord = q /\ i \in Ancestry[w.rev]
      <4>1. PICK w \in b.copying : w.ord = q /\ i \in Ancestry[w.rev]
        BY <3>1
      <4>2. w \in Flight(a, q) /\ w \in Work
        BY <1>1, <2>4, <4>1 DEF Flight, Apart
      <4>3. w \in a.copying
        BY <1>1, <4>2, ItemsAreApart DEF Flight, Apart
      <4>4. QED
        BY <4>1, <4>3 DEF Carries, Bears
    <3>2. CASE \E c \in b.changing : c.ord = q /\ \E j \in c.revs : i \in Ancestry[j]
      <4>1. PICK c \in b.changing : c.ord = q /\ \E j \in c.revs : i \in Ancestry[j]
        BY <3>2
      <4>2. c \in Flight(a, q) /\ c \in Changes
        BY <1>1, <2>4, <4>1 DEF Flight, Apart
      <4>3. c \in a.changing
        BY <1>1, <4>2, ItemsAreApart DEF Flight, Apart
      <4>4. QED
        BY <4>1, <4>3 DEF Carries, Bears
    <3>3. QED
      BY <2>4, <3>1, <3>2 DEF Bears
  <2>5. QED
    BY <2>2, <2>3, <2>4 DEF Carries
<1>6. LedgerHolds(a, n)
  BY <1>1, <1>5, LedgerHoldsOn
<1>7. Apart(a, n)
  BY <1>1 DEF Apart
<1>8. QED
  BY <1>4, <1>5, <1>6, <1>7 DEF BooksAreSound

\* The finished items of an ordinal.
DoneOf(D, o) == {i \in D : i.ord = o}

\* An entry less the finished items of its ordinal.
Reduced(l, D, o) ==
    [seq |-> l.entries[o].seq, pending |-> Monus(l.entries[o].pending, Cardinality(DoneOf(D, o)))]

\* An entry with its seq and other pending work.
LEMMA RewriteIs ==
    ASSUME NEW l, IsLedger(l), NEW entries, DOMAIN entries = DOMAIN l.entries,
           \A o \in DOMAIN l.entries : entries[o] \in Entry,
           entries = [o \in DOMAIN l.entries |-> entries[o]],
           NEW m, m = [l EXCEPT !.entries = entries]
    PROVE  /\ IsLedger(m) /\ m.next = l.next /\ m.entries = entries
           /\ m.committable = l.committable
<1>1. l = [next |-> l.next, entries |-> l.entries, committable |-> l.committable]
      /\ l.next \in Nat /\ DOMAIN l.entries \subseteq {o \in Nat : o < l.next}
      /\ l.committable \subseteq Nat
  BY DEF IsLedger
<1>2. m.next = l.next /\ m.entries = entries /\ m.committable = l.committable
      /\ m = [next |-> l.next, entries |-> entries, committable |-> l.committable]
  BY <1>1
<1>3. entries \in [DOMAIN entries -> Entry]
  OBVIOUS
<1>4. QED
  BY <1>1, <1>2, <1>3 DEF IsLedger

\* seq.rs, complete: what the fold over the finished items computes, one entry at a time.
LEMMA ReduceIs ==
    ASSUME NEW l, IsLedger(l), NEW D, IsFiniteSet(D), NEW m, m = Reduce(l, D)
    PROVE  /\ IsLedger(m) /\ m.next = l.next /\ m.committable = l.committable
           /\ DOMAIN m.entries = DOMAIN l.entries
           /\ \A o \in DOMAIN l.entries :
                /\ m.entries[o].seq = l.entries[o].seq
                /\ m.entries[o].pending = Monus(l.entries[o].pending, Cardinality(DoneOf(D, o)))
<1> DEFINE entries == [o \in DOMAIN l.entries |-> Reduced(l, D, o)]
<1>1. \A o \in DOMAIN l.entries :
        /\ Reduced(l, D, o) \in Entry /\ Reduced(l, D, o).seq = l.entries[o].seq
        /\ Reduced(l, D, o).pending = Monus(l.entries[o].pending, Cardinality(DoneOf(D, o)))
  <2> TAKE o \in DOMAIN l.entries
  <2>1. DoneOf(D, o) \subseteq D
    BY DEF DoneOf
  <2>2. Cardinality(DoneOf(D, o)) \in Nat
    BY <2>1, FS_Subset, FS_CardinalityType
  <2>3. l.entries[o] \in Entry /\ l.entries[o].pending \in Nat
    BY EntriesAre
  <2> DEFINE p == Monus(l.entries[o].pending, Cardinality(DoneOf(D, o)))
  <2>4. p \in Nat
    BY <2>2, <2>3 DEF Monus
  <2> HIDE DEF p
  <2>5. [seq |-> l.entries[o].seq, pending |-> p] \in Entry
    BY <2>3, <2>4 DEF Entry
  <2>6. QED
    BY <2>5 DEF p, Reduced
<1>2. m = [l EXCEPT !.entries = entries]
  BY DEF Reduce, Reduced, DoneOf
<1>3. DOMAIN entries = DOMAIN l.entries /\ \A o \in DOMAIN l.entries : entries[o] = Reduced(l, D, o)
  OBVIOUS
<1>4. entries = [o \in DOMAIN l.entries |-> entries[o]]
  OBVIOUS
<1> HIDE DEF entries
<1>7. \A o \in DOMAIN l.entries : entries[o] \in Entry
  BY <1>1, <1>3
<1>5. IsLedger(m) /\ m.next = l.next /\ m.entries = entries /\ m.committable = l.committable
  BY <1>2, <1>3, <1>4, <1>7, RewriteIs
<1>6. QED
  BY <1>1, <1>3, <1>5

\* Whatever the items of D bring is known.
AccountsFor(known, b, D) ==
    /\ \A w \in D : w \in b.copying => Ancestry[w.rev] \subseteq known
    /\ \A c \in D : c \in b.changing => \A j \in c.revs : Ancestry[j] \subseteq known

\* Work that is done and accounted for.
LEMMA ReducingKeepsBooks ==
    ASSUME NEW n \in 0..Size, NEW exact, NEW b, BooksAreSound(b, n, exact),
           NEW D, D \subseteq All(b), NEW a, a.ledger = Reduce(b.ledger, D),
           a.changing = b.changing \ D, a.copying = b.copying \ D, b.known \subseteq a.known,
           AccountsFor(a.known, b, D)
    PROVE  BooksAreSound(a, n, exact) /\ Pays(b, a) /\ a.ledger.next = b.ledger.next
<1> DEFINE l == b.ledger
           k == a.ledger
<1>1. IsLedger(l) /\ Counted(b, exact) /\ LedgerHolds(b, n) /\ Apart(b, n)
  BY DEF BooksAreSound, LedgerHolds
<1>2. IsFiniteSet(All(b)) /\ All(a) = All(b) \ D /\ IsFiniteSet(All(a)) /\ IsFiniteSet(D)
  <2>1. IsFiniteSet(All(b)) /\ All(a) = All(b) \ D
    BY <1>1 DEF Counted, All
  <2>2. QED
    BY <2>1, FS_Subset
<1>3. /\ IsLedger(k) /\ k.next = l.next /\ k.committable = l.committable
      /\ DOMAIN k.entries = DOMAIN l.entries
      /\ \A o \in DOMAIN l.entries :
           /\ k.entries[o].seq = l.entries[o].seq
           /\ k.entries[o].pending = Monus(l.entries[o].pending, Cardinality(DoneOf(D, o)))
  <2>1. IsLedger(l) /\ IsFiniteSet(D) /\ k = Reduce(l, D)
    BY <1>1, <1>2
  <2> HIDE DEF l, k
  <2>2. QED
    BY <2>1, ReduceIs
<1>4. ASSUME NEW o \in DOMAIN l.entries
      PROVE  /\ Flight(a, o) = Flight(b, o) \ DoneOf(D, o)
             /\ Cardinality(Flight(b, o)) \in Nat /\ Cardinality(Flight(a, o)) \in Nat
             /\ k.entries[o].pending \in Nat /\ l.entries[o].pending \in Nat
             /\ Cardinality(Flight(b, o)) <= l.entries[o].pending
             /\ l.entries[o].pending - Cardinality(Flight(b, o)) =
                  k.entries[o].pending - Cardinality(Flight(a, o))
             /\ DoneOf(D, o) = {} => k.entries[o].pending = l.entries[o].pending
  <2>1. Flight(a, o) = Flight(b, o) \ DoneOf(D, o) /\ DoneOf(D, o) \subseteq Flight(b, o)
    BY DEF Flight, All, DoneOf
  <2>2. IsFiniteSet(Flight(b, o)) /\ Cardinality(Flight(b, o)) \in Nat
    BY <1>2, FlightIsFinite
  <2>3. Cardinality(DoneOf(D, o)) \in Nat /\ Cardinality(DoneOf(D, o)) <= Cardinality(Flight(b, o))
    BY <2>1, <2>2, FS_Subset, FS_CardinalityType
  <2>4. Cardinality(Flight(a, o)) = Cardinality(Flight(b, o)) - Cardinality(DoneOf(D, o))
    <3>1. Flight(b, o) \intersect DoneOf(D, o) = DoneOf(D, o)
      BY <2>1
    <3>2. QED
      BY <2>1, <2>2, <3>1, FS_Difference
  <2>5. Cardinality(Flight(b, o)) <= l.entries[o].pending /\ l.entries[o].pending \in Nat
    BY <1>1, EntriesAre DEF Counted
  <2>6. k.entries[o].pending = l.entries[o].pending - Cardinality(DoneOf(D, o))
    <3>1. Cardinality(DoneOf(D, o)) <= l.entries[o].pending
      BY <2>2, <2>3, <2>5
    <3>2. k.entries[o].pending = Monus(l.entries[o].pending, Cardinality(DoneOf(D, o)))
      BY <1>3
    <3>3. QED
      BY <3>1, <3>2 DEF Monus
  <2>7. DoneOf(D, o) = {} => Cardinality(DoneOf(D, o)) = 0
    BY FS_EmptySet
  <2>8. QED
    BY <2>1, <2>2, <2>3, <2>4, <2>5, <2>6, <2>7
<1>5. Counted(a, exact)
  <2>1. \A o \in DOMAIN l.entries :
          /\ Cardinality(Flight(a, o)) <= k.entries[o].pending
          /\ exact => Cardinality(Flight(a, o)) = k.entries[o].pending
    <3> TAKE o \in DOMAIN l.entries
    <3>1. exact => Cardinality(Flight(b, o)) = l.entries[o].pending
      BY <1>1 DEF Counted
    <3>2. /\ Cardinality(Flight(b, o)) \in Nat /\ Cardinality(Flight(a, o)) \in Nat
          /\ k.entries[o].pending \in Nat /\ l.entries[o].pending \in Nat
          /\ Cardinality(Flight(b, o)) <= l.entries[o].pending
          /\ l.entries[o].pending - Cardinality(Flight(b, o)) =
               k.entries[o].pending - Cardinality(Flight(a, o))
      BY <1>4
    <3> HIDE DEF k, l
    <3>3. QED
      BY <3>1, <3>2
  <2>2. \A c \in a.changing : Flight(a, c.ord) = {c} /\ k.entries[c.ord].pending = 1
    <3> TAKE c \in a.changing
    <3>1. c \in b.changing /\ Flight(b, c.ord) = {c} /\ l.entries[c.ord].pending = 1
          /\ c.ord \in DOMAIN l.entries
      BY <1>1 DEF Counted
    <3>2. DoneOf(D, c.ord) \subseteq Flight(b, c.ord) /\ c \notin DoneOf(D, c.ord)
      BY DEF Flight, All, DoneOf
    <3>3. DoneOf(D, c.ord) = {}
      BY <3>1, <3>2
    <3>4. QED
      BY <1>4, <3>1, <3>3
  <2>3. \A x \in All(a) : x.ord \in DOMAIN k.entries
    BY <1>1, <1>2, <1>3 DEF Counted, All
  <2>4. QED
    BY <1>2, <1>3, <2>1, <2>2, <2>3 DEF Counted, All
<1>6. Pays(b, a)
  <2> SUFFICES ASSUME NEW i, NEW q \in DOMAIN l.entries, Carries(b, q, i)
               PROVE  i \in a.known \/ Carries(a, q, i)
    BY <1>3 DEF Pays, Owed
  <2>1. CASE Cardinality(Flight(b, q)) < l.entries[q].pending
    <3> HIDE DEF l, k
    <3>1. Cardinality(Flight(a, q)) < k.entries[q].pending
      BY <1>4, <2>1
    <3>2. QED
      BY <3>1 DEF Carries, k
  <2>2. CASE \E w \in b.copying : w.ord = q /\ i \in Ancestry[w.rev]
    BY <2>2 DEF Carries, Bears, AccountsFor
  <2>3. CASE \E c \in b.changing : c.ord = q /\ \E j \in c.revs : i \in Ancestry[j]
    BY <2>3 DEF Carries, Bears, AccountsFor
  <2>4. QED
    BY <2>1, <2>2, <2>3 DEF Carries, Bears
<1>7. \A s, o : Promised(b, n, s, o) => Promised(a, n, s, o)
  BY <1>6 DEF Promised, Pays
<1>8. LedgerHolds(a, n)
  BY <1>1, <1>3, <1>7, SafeSeqsGrow DEF LedgerHolds
<1>9. Apart(a, n)
  BY <1>1 DEF Apart
<1>10. QED
  BY <1>3, <1>5, <1>6, <1>8, <1>9 DEF BooksAreSound

\* Finished work may leave the books when the updates it bore are accounted for.
LEMMA CompletingKeepsBooks ==
    ASSUME NEW n \in 0..Size, NEW exact, NEW b, BooksAreSound(b, n, exact),
           NEW D, D \subseteq All(b), NEW a, a.ledger = Complete(b.ledger, D),
           a.changing = b.changing \ D, a.copying = b.copying \ D, b.known \subseteq a.known,
           AccountsFor(a.known, b, D)
    PROVE  BooksAreSound(a, n, exact) /\ Pays(b, a) /\ a.ledger.next = b.ledger.next
<1> DEFINE m == [known |-> a.known, ledger |-> Reduce(b.ledger, D),
                 changing |-> a.changing, copying |-> a.copying]
<1>1. m.known = a.known /\ m.ledger = Reduce(b.ledger, D) /\ m.changing = a.changing
      /\ m.copying = a.copying
  OBVIOUS
<1> HIDE DEF m
<1>2. a.ledger = Advance(m.ledger)
  BY <1>1 DEF Complete
<1>3. BooksAreSound(m, n, exact) /\ Pays(b, m) /\ m.ledger.next = b.ledger.next
  <2>1. /\ m.changing = b.changing \ D /\ m.copying = b.copying \ D /\ b.known \subseteq m.known
        /\ AccountsFor(m.known, b, D)
    BY <1>1
  <2>2. QED
    BY <1>1, <2>1, ReducingKeepsBooks
<1>4. BooksAreSound(a, n, exact) /\ Pays(m, a) /\ a.ledger.next = m.ledger.next
  <2>1. a.known = m.known /\ a.changing = m.changing /\ a.copying = m.copying
    BY <1>1
  <2>2. QED
    BY <1>2, <1>3, <2>1, AdvanceKeepsBooks
<1>5. QED
  BY <1>3, <1>4 DEF Pays

\* The work of a is that of b with x in the place of u.
Swaps(b, u, x, a) ==
    /\ IsFiniteSet(All(b)) /\ u \in All(b) /\ x.ord = u.ord /\ x \notin All(b) \ {u}
    /\ All(a) = (All(b) \ {u}) \union {x}

\* One item in the place of another leaves the count of each entry as it is.
LEMMA SwappingCounts ==
    ASSUME NEW b, NEW u, NEW x, NEW a, Swaps(b, u, x, a)
    PROVE  /\ IsFiniteSet(All(a))
           /\ \A o : o # u.ord => Flight(a, o) = Flight(b, o)
           /\ Flight(a, u.ord) = (Flight(b, u.ord) \ {u}) \union {x}
           /\ \A o : Cardinality(Flight(a, o)) = Cardinality(Flight(b, o))
<1>1. \A o : o # u.ord => Flight(a, o) = Flight(b, o)
  BY DEF Swaps, Flight, All
<1>2. Flight(a, u.ord) = (Flight(b, u.ord) \ {u}) \union {x}
      /\ u \in Flight(b, u.ord) /\ x \notin Flight(b, u.ord) \ {u}
  BY DEF Swaps, Flight, All
<1>3. IsFiniteSet(Flight(b, u.ord)) /\ Cardinality(Flight(b, u.ord)) \in Nat
  BY FlightIsFinite DEF Swaps
<1>4. /\ IsFiniteSet(Flight(b, u.ord) \ {u})
      /\ Cardinality(Flight(b, u.ord) \ {u}) = Cardinality(Flight(b, u.ord)) - 1
  BY <1>2, <1>3, FS_RemoveElement
<1>5. Cardinality(Flight(a, u.ord)) = (Cardinality(Flight(b, u.ord)) - 1) + 1
  BY <1>2, <1>4, FS_AddElement
<1>6. Cardinality(Flight(a, u.ord)) = Cardinality(Flight(b, u.ord))
  BY <1>3, <1>5
<1>7. IsFiniteSet(All(a))
  BY FS_RemoveElement, FS_AddElement DEF Swaps
<1>8. QED
  BY <1>1, <1>2, <1>6, <1>7

\* A revision is fetched, or the newest one that brings it.
LEMMA FetchingKeepsBooks ==
    ASSUME NEW n \in 0..Size, NEW exact, NEW b, BooksAreSound(b, n, exact),
           NEW u \in b.copying, NEW x \in Work, x.ord = u.ord, x.rev \in 1..n,
           u.rev \in Ancestry[x.rev],
           NEW a, a.ledger = b.ledger, a.known = b.known, a.changing = b.changing,
           a.copying = (b.copying \ {u}) \union {x}
    PROVE  BooksAreSound(a, n, exact) /\ Pays(b, a) /\ x \notin b.copying \ {u}
<1> DEFINE l == b.ledger
<1>1. IsLedger(l) /\ Counted(b, exact) /\ LedgerHolds(b, n) /\ Apart(b, n)
  BY DEF BooksAreSound, LedgerHolds
<1>2. /\ u \in Work /\ u.rev \in 0..Size /\ x.rev \in 0..Size
      /\ \A w \in b.copying : w.rev \in 0..Size /\ w.rev \in 1..Size
      /\ x.rev \in 1..Size
  BY <1>1, UpdatesAre DEF Apart
<1>3. ASSUME NEW y \in b.copying \ {u}, y.ord = x.ord
      PROVE  x.rev \notin Ancestry[y.rev] /\ y.rev \notin Ancestry[x.rev]
  <2>1. u.rev \notin Ancestry[y.rev] /\ y.rev \notin Ancestry[u.rev]
    BY <1>1, <1>3 DEF Apart
  <2>2. x.rev \notin Ancestry[y.rev]
    BY <1>2, <2>1, AncestryIsClosed
  <2>3. y.rev \notin Ancestry[x.rev]
    BY <1>2, <2>1, AncestryIsAChain
  <2>4. QED
    BY <2>2, <2>3
<1>4. x \notin b.copying \ {u}
  BY <1>2, <1>3, IsOwnAncestor
<1>5. x \notin All(b) \ {u} /\ u \in All(b) /\ u \notin b.changing
      /\ All(a) = (All(b) \ {u}) \union {x} /\ IsFiniteSet(All(b))
  BY <1>1, <1>4, ItemsAreApart DEF All, Apart, Counted
<1>6. /\ IsFiniteSet(All(a))
      /\ \A o : o # u.ord => Flight(a, o) = Flight(b, o)
      /\ Flight(a, u.ord) = (Flight(b, u.ord) \ {u}) \union {x}
      /\ \A o : Cardinality(Flight(a, o)) = Cardinality(Flight(b, o))
  <2>1. Swaps(b, u, x, a)
    BY <1>5 DEF Swaps
  <2>2. QED
    BY <2>1, SwappingCounts
<1>7. Counted(a, exact)
  <2>1. \A c \in a.changing : Flight(a, c.ord) = {c}
    <3> TAKE c \in a.changing
    <3>1. Flight(b, c.ord) = {c} /\ u # c
      BY <1>1, <1>5 DEF Counted
    <3>2. u.ord # c.ord
      BY <1>5, <3>1 DEF Flight, All
    <3>3. QED
      BY <1>6, <3>1, <3>2
  <2>2. \A y \in All(a) : y.ord \in DOMAIN l.entries
    BY <1>1, <1>5 DEF Counted, All
  <2>3. QED
    BY <1>1, <1>6, <2>1, <2>2 DEF Counted, All
<1>8. Pays(b, a)
  <2> SUFFICES ASSUME NEW i, NEW q, Bears(b, q, i)
               PROVE  Bears(a, q, i)
    BY <1>6 DEF Pays, Owed, Carries
  <2>1. CASE q = u.ord /\ i \in Ancestry[u.rev]
    <3>1. i \in Ancestry[x.rev]
      BY <1>2, <2>1, AncestryIsClosed
    <3>2. QED
      BY <2>1, <3>1 DEF Bears
  <2>2. CASE ~(q = u.ord /\ i \in Ancestry[u.rev])
    BY <2>2 DEF Bears
  <2>3. QED
    BY <2>1, <2>2
<1>9. Apart(a, n)
  <2>1. \A y, z \in a.copying : y.ord = z.ord /\ y.rev \in Ancestry[z.rev] => y = z
    <3> TAKE y, z \in a.copying
    <3>1. CASE y \in b.copying \ {u} /\ z \in b.copying \ {u}
      BY <1>1, <3>1 DEF Apart
    <3>2. CASE y = x /\ z \in b.copying \ {u}
      BY <1>3, <3>2
    <3>3. CASE z = x /\ y \in b.copying \ {u}
      BY <1>3, <3>3
    <3>4. CASE y = x /\ z = x
      BY <3>4
    <3>5. QED
      BY <3>1, <3>2, <3>3, <3>4
  <2>2. QED
    BY <1>1, <2>1 DEF Apart
<1>10. LedgerHolds(a, n)
  BY <1>1, <1>8, LedgerHoldsOn
<1>11. QED
  BY <1>4, <1>7, <1>8, <1>9, <1>10 DEF BooksAreSound

\* Only the revisions that are missing go on.
LEMMA DiffingKeepsBooks ==
    ASSUME NEW n \in 0..Size, NEW exact, NEW b, BooksAreSound(b, n, exact),
           NEW c \in b.changing, NEW x \in Changes, x.ord = c.ord, x.revs \subseteq c.revs,
           \A j \in c.revs \ x.revs : Ancestry[j] \subseteq b.known,
           NEW a, a.ledger = b.ledger, a.known = b.known, a.copying = b.copying,
           a.changing = (b.changing \ {c}) \union {x}
    PROVE  BooksAreSound(a, n, exact) /\ Pays(b, a)
<1> DEFINE l == b.ledger
<1>1. IsLedger(l) /\ Counted(b, exact) /\ LedgerHolds(b, n) /\ Apart(b, n)
  BY DEF BooksAreSound, LedgerHolds
<1>2. c \in All(b) /\ c \notin b.copying /\ x \notin b.copying /\ IsFiniteSet(All(b))
      /\ Flight(b, c.ord) = {c} /\ l.entries[c.ord].pending = 1
  BY <1>1, ItemsAreApart DEF All, Apart, Counted
<1>3. x \notin All(b) \ {c}
  BY <1>2 DEF Flight, All
<1>4. All(a) = (All(b) \ {c}) \union {x}
  BY <1>2 DEF All
<1>5. /\ IsFiniteSet(All(a))
      /\ \A o : o # c.ord => Flight(a, o) = Flight(b, o)
      /\ Flight(a, c.ord) = {x}
      /\ \A o : Cardinality(Flight(a, o)) = Cardinality(Flight(b, o))
  <2>1. /\ IsFiniteSet(All(a))
        /\ \A o : o # c.ord => Flight(a, o) = Flight(b, o)
        /\ Flight(a, c.ord) = (Flight(b, c.ord) \ {c}) \union {x}
        /\ \A o : Cardinality(Flight(a, o)) = Cardinality(Flight(b, o))
    <3>1. Swaps(b, c, x, a)
      BY <1>2, <1>3, <1>4 DEF Swaps
    <3>2. QED
      BY <3>1, SwappingCounts
  <2>2. QED
    BY <1>2, <2>1
<1>6. Counted(a, exact)
  <2>1. \A d \in a.changing : Flight(a, d.ord) = {d} /\ l.entries[d.ord].pending = 1
    <3> TAKE d \in a.changing
    <3>1. CASE d = x
      BY <1>2, <1>5, <3>1
    <3>2. CASE d \in b.changing \ {c}
      <4>1. Flight(b, d.ord) = {d} /\ l.entries[d.ord].pending = 1
        BY <1>1, <3>2 DEF Counted
      <4>2. d.ord # c.ord
        BY <1>2, <3>2, <4>1
      <4>3. QED
        BY <1>5, <4>1, <4>2
    <3>3. QED
      BY <3>1, <3>2
  <2>2. \A y \in All(a) : y.ord \in DOMAIN l.entries
    BY <1>1, <1>4 DEF Counted, All
  <2>3. QED
    BY <1>1, <1>5, <2>1, <2>2 DEF Counted, All
<1>7. Pays(b, a)
  <2> SUFFICES ASSUME NEW i, NEW q, Bears(b, q, i), i \notin b.known
               PROVE  Bears(a, q, i)
    BY <1>5 DEF Pays, Owed, Carries
  <2>1. CASE q = c.ord /\ \E j \in c.revs : i \in Ancestry[j]
    <3>1. PICK j \in c.revs : i \in Ancestry[j]
      BY <2>1
    <3>2. j \in x.revs
      BY <3>1
    <3>3. QED
      BY <2>1, <3>1, <3>2 DEF Bears
  <2>2. CASE ~(q = c.ord /\ \E j \in c.revs : i \in Ancestry[j])
    BY <2>2 DEF Bears
  <2>3. QED
    BY <2>1, <2>2
<1>8. Apart(a, n)
  BY <1>1 DEF Apart, Unrelated
<1>9. LedgerHolds(a, n)
  BY <1>1, <1>7, LedgerHoldsOn
<1>10. QED
  BY <1>6, <1>7, <1>8, <1>9 DEF BooksAreSound

\* The pieces that a diffed change is exploded into.
Split(c) == {[ord |-> c.ord, rev |-> r] : r \in c.revs}

\* There is one piece for each missing revision.
LEMMA SplitIs ==
    ASSUME NEW c \in Changes, NEW n \in 0..Size, c.revs \subseteq 1..n
    PROVE  /\ Split(c) \subseteq Work /\ \A w \in Split(c) : w.ord = c.ord /\ w.rev \in c.revs
           /\ \A r \in c.revs : \E w \in Split(c) : w.ord = c.ord /\ w.rev = r
           /\ \A w, v \in Split(c) : w.rev = v.rev => w = v
           /\ IsFiniteSet(Split(c)) /\ Cardinality(Split(c)) = Cardinality(c.revs)
           /\ Cardinality(c.revs) \in Nat
<1>1. c.ord \in Nat /\ \A r \in c.revs : [ord |-> c.ord, rev |-> r] \in Work
  BY UpdatesAre DEF Changes, Work, Size
<1>2. IsFiniteSet(c.revs)
  <2>1. n \in Int /\ 1 \in Int
    BY UpdatesAre
  <2>2. IsFiniteSet(1..n)
    BY <2>1, FS_Interval
  <2>3. QED
    BY <2>2, FS_Subset
<1> DEFINE f == [r \in c.revs |-> [ord |-> c.ord, rev |-> r]]
<1>3. f \in Bijection(c.revs, Split(c))
  <2>1. f \in [c.revs -> Split(c)] /\ \A w \in Split(c) : \E r \in c.revs : f[r] = w
    BY DEF Split
  <2>2. \A r, s \in c.revs : f[r] = f[s] => r = s
    <3> TAKE r, s \in c.revs
    <3>1. f[r].rev = r /\ f[s].rev = s
      OBVIOUS
    <3>2. QED
      BY <3>1
  <2> HIDE DEF f
  <2>3. QED
    BY <2>1, <2>2 DEF Bijection, Injection, Surjection, IsInjective
<1>4. IsFiniteSet(Split(c)) /\ Cardinality(Split(c)) = Cardinality(c.revs)
  BY <1>2, <1>3, FS_Bijection DEF ExistsBijection
<1>5. \A w \in Split(c) : w.ord = c.ord /\ w.rev \in c.revs
                          /\ w = [ord |-> c.ord, rev |-> w.rev]
  BY DEF Split
<1>6. \A r \in c.revs : [ord |-> c.ord, rev |-> r] \in Split(c)
  BY DEF Split
<1>7. QED
  BY <1>1, <1>2, <1>4, <1>5, <1>6, FS_CardinalityType

\* seq.rs, expand: it sets one count and nothing else.
LEMMA ExpandIs ==
    ASSUME NEW l, IsLedger(l), NEW o \in DOMAIN l.entries, NEW p \in Nat,
           NEW m, m = Expand(l, o, p)
    PROVE  /\ IsLedger(m) /\ m.next = l.next /\ m.committable = l.committable
           /\ DOMAIN m.entries = DOMAIN l.entries
           /\ \A q \in DOMAIN l.entries :
                /\ m.entries[q].seq = l.entries[q].seq
                /\ m.entries[q].pending = IF q = o THEN p ELSE l.entries[q].pending
<1> DEFINE entry(q) == IF q = o THEN [l.entries[q] EXCEPT !.pending = p] ELSE l.entries[q]
           entries == [q \in DOMAIN l.entries |-> entry(q)]
<1>1. m = [l EXCEPT !.entries = entries]
  BY DEF Expand
<1>2. \A q \in DOMAIN l.entries :
        /\ entries[q] \in Entry /\ entries[q].seq = l.entries[q].seq
        /\ entries[q].pending = IF q = o THEN p ELSE l.entries[q].pending
  BY EntriesAre DEF Entry
<1>3. DOMAIN entries = DOMAIN l.entries /\ entries = [q \in DOMAIN l.entries |-> entries[q]]
  OBVIOUS
<1> HIDE DEF entries
<1>4. IsLedger(m) /\ m.next = l.next /\ m.entries = entries /\ m.committable = l.committable
  BY <1>1, <1>2, <1>3, RewriteIs
<1>5. QED
  BY <1>2, <1>3, <1>4

\* A change becomes the copies of its revisions.
LEMMA ExpandingKeepsBooks ==
    ASSUME NEW n \in 0..Size, NEW exact, NEW b, BooksAreSound(b, n, exact),
           NEW c \in b.changing, NEW a, a.known = b.known,
           a.ledger = Expand(b.ledger, c.ord, Cardinality(c.revs)),
           a.changing = b.changing \ {c}, a.copying = b.copying \union Split(c)
    PROVE  /\ BooksAreSound(a, n, exact) /\ Pays(b, a) /\ a.ledger.next = b.ledger.next
           /\ Split(c) \intersect b.copying = {}
<1> DEFINE l == b.ledger
           k == a.ledger
           p == Cardinality(c.revs)
<1>1. IsLedger(l) /\ Counted(b, exact) /\ LedgerHolds(b, n) /\ Apart(b, n)
  BY DEF BooksAreSound, LedgerHolds
<1>2. c \in All(b) /\ c \notin b.copying /\ IsFiniteSet(All(b)) /\ c \in Changes
      /\ Flight(b, c.ord) = {c} /\ l.entries[c.ord].pending = 1 /\ c.ord \in DOMAIN l.entries
      /\ c.revs \subseteq 1..n /\ Unrelated(c.revs)
  BY <1>1, ItemsAreApart DEF All, Apart, Counted
<1>3. /\ Split(c) \subseteq Work /\ \A w \in Split(c) : w.ord = c.ord /\ w.rev \in c.revs
      /\ \A r \in c.revs : \E w \in Split(c) : w.ord = c.ord /\ w.rev = r
      /\ \A w, v \in Split(c) : w.rev = v.rev => w = v
      /\ IsFiniteSet(Split(c)) /\ Cardinality(Split(c)) = p /\ p \in Nat
  BY <1>2, SplitIs
<1>4. /\ IsLedger(k) /\ k.next = l.next /\ k.committable = l.committable
      /\ DOMAIN k.entries = DOMAIN l.entries
      /\ \A q \in DOMAIN l.entries :
           /\ k.entries[q].seq = l.entries[q].seq
           /\ k.entries[q].pending = IF q = c.ord THEN p ELSE l.entries[q].pending
  BY <1>1, <1>2, <1>3, ExpandIs
<1>5. \A w \in b.copying : w.ord # c.ord
  BY <1>2 DEF Flight
<1>6. \A d \in b.changing \ {c} : d.ord # c.ord
  BY <1>2 DEF Flight
<1>7. Flight(a, c.ord) = Split(c) /\ \A o : o # c.ord => Flight(a, o) = Flight(b, o)
  BY <1>3, <1>5, <1>6 DEF Flight
<1>8. IsFiniteSet(All(a)) /\ All(a) = (All(b) \ {c}) \union Split(c)
  <2>1. All(a) = (All(b) \ {c}) \union Split(c)
    BY <1>2, <1>3 DEF All
  <2>2. IsFiniteSet(All(b) \ {c})
    BY <1>2, FS_RemoveElement
  <2>3. IsFiniteSet((All(b) \ {c}) \union Split(c))
    BY <1>3, <2>2, FS_Union
  <2>4. QED
    BY <2>1, <2>3
<1>9. Counted(a, exact)
  <2>1. \A o \in DOMAIN k.entries :
          /\ Cardinality(Flight(a, o)) <= k.entries[o].pending
          /\ exact => Cardinality(Flight(a, o)) = k.entries[o].pending
    <3> TAKE o \in DOMAIN k.entries
    <3>1. CASE o = c.ord
      BY <1>2, <1>3, <1>4, <1>7, <3>1
    <3>2. CASE o # c.ord
      BY <1>1, <1>4, <1>7, <3>2 DEF Counted
    <3>3. QED
      BY <3>1, <3>2
  <2>2. \A d \in a.changing : Flight(a, d.ord) = {d} /\ k.entries[d.ord].pending = 1
    BY <1>1, <1>4, <1>6, <1>7 DEF Counted
  <2>3. \A y \in All(a) : y.ord \in DOMAIN k.entries
    BY <1>1, <1>2, <1>3, <1>4, <1>8 DEF Counted, All
  <2>4. QED
    BY <1>8, <2>1, <2>2, <2>3 DEF Counted, All
<1>10. Pays(b, a)
  <2> SUFFICES ASSUME NEW i, NEW q \in DOMAIN l.entries, Carries(b, q, i)
               PROVE  Carries(a, q, i)
    BY <1>4 DEF Pays, Owed
  <2>1. CASE q # c.ord
    <3>1. Bears(b, q, i) => Bears(a, q, i)
      BY <2>1 DEF Bears
    <3>2. QED
      BY <1>4, <1>7, <2>1, <3>1 DEF Carries
  <2>2. CASE q = c.ord
    <3>1. Cardinality(Flight(b, q)) = 1
      BY <1>2, <2>2, FS_Singleton
    <3>2. Bears(b, q, i)
      BY <1>2, <2>2, <3>1 DEF Carries
    <3>3. PICK j \in c.revs : i \in Ancestry[j]
      BY <1>2, <1>5, <1>6, <2>2, <3>2 DEF Bears
    <3>4. PICK w \in Split(c) : w.ord = c.ord /\ w.rev = j
      BY <1>3
    <3>5. QED
      BY <2>2, <3>3, <3>4 DEF Carries, Bears
  <2>3. QED
    BY <2>1, <2>2
<1>11. Apart(a, n)
  <2>1. \A y, z \in a.copying : y.ord = z.ord /\ y.rev \in Ancestry[z.rev] => y = z
    <3> TAKE y, z \in a.copying
    <3>1. CASE y \in b.copying /\ z \in b.copying
      BY <1>1, <3>1 DEF Apart
    <3>2. CASE y \in Split(c) /\ z \in Split(c)
      BY <1>2, <1>3, <3>2 DEF Unrelated
    <3>3. CASE y.ord # z.ord
      BY <3>3
    <3>4. QED
      BY <1>3, <1>5, <3>1, <3>2, <3>3
  <2>2. QED
    BY <1>1, <1>2, <1>3, <2>1 DEF Apart
<1>12. \A s, o : Promised(b, n, s, o) => Promised(a, n, s, o)
  BY <1>10 DEF Promised, Pays
<1>13. LedgerHolds(a, n)
  BY <1>1, <1>4, <1>12 DEF LedgerHolds
<1>14. QED
  BY <1>3, <1>4, <1>5, <1>9, <1>10, <1>11, <1>13 DEF BooksAreSound

\* The ledger after one registration: a new ordinal, the others as they were.
LEMMA EnterIs ==
    ASSUME NEW l, IsLedger(l), NEW e \in Entry, NEW m, m = Enter(l, e)
    PROVE  /\ IsLedger(m) /\ m.next = l.next + 1 /\ m.committable = l.committable
           /\ DOMAIN m.entries = DOMAIN l.entries \union {l.next}
           /\ l.next \notin DOMAIN l.entries /\ m.entries[l.next] = e
           /\ \A o \in DOMAIN l.entries : m.entries[o] = l.entries[o]
<1> DEFINE entries == [o \in DOMAIN l.entries \union {l.next} |->
                         IF o = l.next THEN e ELSE l.entries[o]]
<1>1. l = [next |-> l.next, entries |-> l.entries, committable |-> l.committable]
      /\ l.next \in Nat /\ l.committable \subseteq Nat
  BY DEF IsLedger
<1>2. m = [l EXCEPT !.next = @ + 1, !.entries = entries]
  BY DEF Enter
<1>3. \A o \in DOMAIN l.entries : l.entries[o] \in Entry /\ o \in Nat /\ o < l.next
  BY EntriesAre
<1>4. entries \in [DOMAIN entries -> Entry] /\ DOMAIN entries = DOMAIN l.entries \union {l.next}
      /\ DOMAIN entries \subseteq {o \in Nat : o < l.next + 1}
  BY <1>1, <1>3
<1>5. l.next \notin DOMAIN l.entries /\ entries[l.next] = e
      /\ \A o \in DOMAIN l.entries : entries[o] = l.entries[o]
  BY <1>1, <1>3
<1> HIDE DEF entries
<1>6. m = [next |-> l.next + 1, entries |-> entries, committable |-> l.committable]
      /\ m.next = l.next + 1 /\ m.entries = entries /\ m.committable = l.committable
  BY <1>1, <1>2
<1>7. IsLedger(m)
  BY <1>1, <1>4, <1>6 DEF IsLedger
<1>8. QED
  BY <1>4, <1>5, <1>6, <1>7

\* The new entry e of a ledger, and the change X that goes with it, if any: what the
\* entry's seq stands for is in the books, in the change, or lost.
Enters(b, a, e, X, n, exact, exactly) ==
    /\ a.known = b.known /\ a.copying = b.copying
    /\ a.changing = b.changing \union X /\ a.ledger = Enter(b.ledger, e)
    /\ e \in Entry /\ e.seq <= n /\ e.pending \in {0, 1} /\ X \subseteq Changes
    /\ X = {} \/ ((\E c : X = {c}) /\ e.pending = 1)
    /\ \A c \in X : c.ord = b.ledger.next /\ c.revs \subseteq 1..n /\ Unrelated(c.revs)
    /\ exactly => exact /\ (X = {} => e.pending = 0)
    /\ \A i \in Shown(n) : Row(i, n) <= e.seq =>
         \/ Owed(b, i, b.ledger.next)
         \/ \E c \in X : \E j \in c.revs : i \in Ancestry[j]
         \/ X = {} /\ e.pending = 1

\* A registered change may join the books with a count that bounds its work.
LEMMA EnteringKeepsBooks ==
    ASSUME NEW n \in 0..Size, NEW exact, NEW b, BooksAreSound(b, n, exact),
           NEW a, NEW e, NEW X, NEW exactly, Enters(b, a, e, X, n, exact, exactly)
    PROVE  BooksAreSound(a, n, exactly) /\ Pays(b, a) /\ a.ledger.next = b.ledger.next + 1
<1> DEFINE l == b.ledger
           k == a.ledger
<1>1. IsLedger(l) /\ Counted(b, exact) /\ LedgerHolds(b, n) /\ Apart(b, n)
  BY DEF BooksAreSound, LedgerHolds
<1>2. /\ IsLedger(k) /\ k.next = l.next + 1 /\ k.committable = l.committable
      /\ DOMAIN k.entries = DOMAIN l.entries \union {l.next}
      /\ l.next \notin DOMAIN l.entries /\ k.entries[l.next] = e
      /\ \A o \in DOMAIN l.entries : k.entries[o] = l.entries[o]
  BY <1>1, EnterIs DEF Enters
<1>3. \A x \in All(b) : x.ord \in DOMAIN l.entries /\ x.ord # l.next
  BY <1>1, <1>2 DEF Counted, All
<1>4. Flight(a, l.next) = X /\ \A o \in DOMAIN l.entries : Flight(a, o) = Flight(b, o)
  BY <1>2, <1>3 DEF Flight, All, Enters
<1>5. IsFiniteSet(X) /\ IsFiniteSet(All(a)) /\ All(a) = All(b) \union X
      /\ Cardinality(X) <= e.pending /\ (exactly => Cardinality(X) = e.pending)
      /\ (X = {} /\ e.pending = 1 => Cardinality(X) < e.pending)
  <2>1. X = {} => Cardinality(X) = 0
    BY FS_EmptySet
  <2>2. (\E c : X = {c}) => Cardinality(X) = 1 /\ IsFiniteSet(X)
    BY FS_Singleton
  <2>3. IsFiniteSet(X)
    BY <2>2, FS_EmptySet DEF Enters
  <2>4. All(a) = All(b) \union X /\ IsFiniteSet(All(b))
    BY <1>1 DEF All, Enters, Counted
  <2>5. IsFiniteSet(All(b) \union X)
    BY <2>3, <2>4, FS_Union
  <2>6. e.pending \in {0, 1} /\ (X = {} \/ ((\E c : X = {c}) /\ e.pending = 1))
        /\ (exactly => (X = {} => e.pending = 0))
    BY DEF Enters
  <2>7. QED
    BY <2>1, <2>2, <2>3, <2>4, <2>5, <2>6
<1>6. Counted(a, exactly)
  <2>1. \A o \in DOMAIN k.entries :
          /\ Cardinality(Flight(a, o)) <= k.entries[o].pending
          /\ exactly => Cardinality(Flight(a, o)) = k.entries[o].pending
    <3> TAKE o \in DOMAIN k.entries
    <3>1. CASE o = l.next
      BY <1>2, <1>4, <1>5, <3>1
    <3>2. CASE o \in DOMAIN l.entries
      BY <1>1, <1>2, <1>4, <3>2 DEF Counted, Enters
    <3>3. QED
      BY <1>2, <3>1, <3>2
  <2>2. \A c \in a.changing : Flight(a, c.ord) = {c} /\ k.entries[c.ord].pending = 1
    <3> TAKE c \in a.changing
    <3>1. CASE c \in b.changing
      <4>1. c.ord \in DOMAIN l.entries /\ Flight(b, c.ord) = {c} /\ l.entries[c.ord].pending = 1
        BY <1>1, <3>1 DEF Counted
      <4>2. QED
        BY <1>2, <1>4, <4>1
    <3>2. CASE c \in X
      <4>1. c.ord = l.next /\ X = {c} /\ e.pending = 1
        BY <3>2 DEF Enters
      <4>2. QED
        BY <1>2, <1>4, <4>1
    <3>3. QED
      BY <3>1, <3>2 DEF Enters
  <2>3. \A x \in All(a) : x.ord \in DOMAIN k.entries
    BY <1>2, <1>3, <1>5 DEF Enters
  <2>4. QED
    BY <1>5, <2>1, <2>2, <2>3 DEF Counted, All
<1>7. Pays(b, a)
  <2> SUFFICES ASSUME NEW i, NEW q \in DOMAIN l.entries, Carries(b, q, i)
               PROVE  Carries(a, q, i)
    BY <1>2 DEF Pays, Owed, Enters
  <2>1. Bears(b, q, i) => Bears(a, q, i)
    BY DEF Bears, Enters
  <2>2. QED
    BY <1>2, <1>4, <2>1 DEF Carries
<1>8. Apart(a, n)
  BY <1>1 DEF Apart, Enters
<1>9. \A s, o : Promised(b, n, s, o) => Promised(a, n, s, o)
  BY <1>7 DEF Promised, Pays
<1>10. Promised(a, n, e.seq, l.next)
  <2> SUFFICES ASSUME NEW i \in Shown(n), Row(i, n) <= e.seq
               PROVE  Owed(a, i, l.next)
    BY DEF Promised
  <2>1. l.next \in DOMAIN k.entries /\ l.next <= l.next
    BY <1>1, <1>2, EntriesAre
  <2>2. CASE Owed(b, i, l.next)
    BY <1>7, <2>2 DEF Pays
  <2>3. CASE \E c \in X : \E j \in c.revs : i \in Ancestry[j]
    <3>1. Bears(a, l.next, i)
      BY <2>3 DEF Bears, Enters
    <3>2. QED
      BY <2>1, <3>1 DEF Owed, Carries
  <2>4. CASE X = {} /\ e.pending = 1
    <3>1. Carries(a, l.next, i)
      BY <1>2, <1>4, <1>5, <2>4 DEF Carries
    <3>2. QED
      BY <2>1, <3>1 DEF Owed
  <2>5. QED
    BY <2>2, <2>3, <2>4 DEF Enters
<1>11. LedgerHolds(a, n)
  <2>1. \A o \in DOMAIN k.entries :
          k.entries[o].seq <= n /\ Promised(a, n, k.entries[o].seq, o)
    BY <1>1, <1>2, <1>9, <1>10 DEF LedgerHolds, Enters
  <2>2. QED
    BY <1>1, <1>2, <2>1 DEF LedgerHolds, Enters
<1>12. QED
  BY <1>2, <1>6, <1>7, <1>8, <1>11 DEF BooksAreSound

-----------------------------------------------------------------------------
(* An update of the source                                                  *)

\* An update of the source moves rows forward only, behind every promise made.
LEMMA UpdatingKeepsPromises ==
    ASSUME NEW n \in 0..Size, n + 1 \in 0..Size
    PROVE  /\ \A i \in Shown(n + 1) : Row(i, n + 1) <= n => i \in Shown(n) /\ Row(i, n + 1) = Row(i, n)
           /\ \A b, o : \A s \in 0..n : Promised(b, n, s, o) => Promised(b, n + 1, s, o)
           /\ \A known : SafeSeqs(known, n) \subseteq SafeSeqs(known, n + 1)
<1>1. \A i \in Shown(n + 1) : Row(i, n + 1) <= n => i \in Shown(n) /\ Row(i, n + 1) = Row(i, n)
  <2> SUFFICES ASSUME NEW i \in Shown(n + 1), Row(i, n + 1) <= n
               PROVE  i \in Shown(n) /\ Row(i, n + 1) = Row(i, n)
    OBVIOUS
  <2>1. i \in 1..(n + 1) /\ n \in Nat
    BY UpdatesAre DEF Shown
  <2>2. Row(i, n + 1) # n + 1
    BY <2>1
  <2>3. i \in 1..n /\ Row(i, n + 1) = Row(i, n)
    BY <2>1, <2>2, RowMoves
  <2>4. QED
    BY <2>3 DEF Shown
<1>2. \A i \in Shown(n + 1) : \A s \in 0..n : Row(i, n + 1) <= s => Row(i, n + 1) <= n
  BY RowIs, UpdatesAre DEF Shown
<1>3. ASSUME NEW b, NEW o, NEW s \in 0..n, Promised(b, n, s, o)
      PROVE  Promised(b, n + 1, s, o)
  BY <1>1, <1>2, <1>3 DEF Promised
<1>4. ASSUME NEW known, NEW s \in SafeSeqs(known, n)
      PROVE  s \in SafeSeqs(known, n + 1)
  <2>1. s \in 0..n /\ s \in 0..(n + 1)
    BY UpdatesAre DEF SafeSeqs
  <2>2. QED
    BY <1>1, <1>2, <2>1 DEF SafeSeqs
<1>5. QED
  BY <1>1, <1>3, <1>4

\* So it disturbs no book.
LEMMA UpdatingKeepsBooks ==
    ASSUME NEW n \in 0..Size, n + 1 \in 0..Size, NEW exact, NEW b, BooksAreSound(b, n, exact)
    PROVE  BooksAreSound(b, n + 1, exact)
<1>1. Apart(b, n + 1)
  <2>1. \A i \in 1..n : i \in 1..(n + 1)
    BY UpdatesAre
  <2>2. QED
    BY <2>1 DEF BooksAreSound, Apart
<1>2. LedgerHolds(b, n + 1)
  <2>1. IsLedger(b.ledger) /\ LedgerHolds(b, n)
    BY DEF BooksAreSound, LedgerHolds
  <2>2. ASSUME NEW o \in DOMAIN b.ledger.entries
        PROVE  /\ b.ledger.entries[o].seq <= n + 1
               /\ Promised(b, n + 1, b.ledger.entries[o].seq, o)
    <3>1. b.ledger.entries[o].seq \in 0..n
      BY <2>1, EntriesAre, UpdatesAre DEF LedgerHolds
    <3>2. QED
      BY <2>1, <3>1, UpdatingKeepsPromises, UpdatesAre DEF LedgerHolds
  <2>3. b.ledger.committable \subseteq SafeSeqs(b.known, n + 1)
    BY <2>1, UpdatingKeepsPromises DEF LedgerHolds
  <2>4. QED
    BY <2>1, <2>2, <2>3 DEF LedgerHolds
<1>3. QED
  BY <1>1, <1>2 DEF BooksAreSound

-----------------------------------------------------------------------------
(* The rows of the feed                                                     *)

\* A function on 1..k is a sequence of length k.
LEMMA IsSequence ==
    ASSUME NEW T, NEW k \in Nat, NEW f \in [1..k -> T]
    PROVE  f \in Seq(T) /\ Len(f) = k
<1>1. f = [i \in 1..k |-> f[i]] /\ \A i \in 1..k : f[i] \in T
  OBVIOUS
<1>2. [i \in 1..k |-> f[i]] \in Seq(T)
  BY <1>1
<1>3. QED
  BY <1>1, <1>2

\* The rows of the feed: ascending, after since, and one for every update shown after it.
LEMMA RowsAfterAre ==
    ASSUME NEW n \in 0..Size, NEW s \in 0..n, NEW rows, rows = RowsAfter(s, n)
    PROVE  /\ rows \in Seq([seq : 0..Size, revs : SUBSET (1..Size)]) /\ Len(rows) \in Nat
           /\ \A k \in 1..Len(rows) :
                /\ rows[k].seq \in 1..n /\ rows[k].seq > s
                /\ rows[k].revs \subseteq 1..n /\ Unrelated(rows[k].revs)
           /\ \A j, k \in 1..Len(rows) : j < k => rows[j].seq < rows[k].seq
           /\ \A i \in Shown(n) : Row(i, n) > s =>
                \E k \in 1..Len(rows) : rows[k].seq = Row(i, n) /\ Brings(rows[k], i)
<1> DEFINE docs == {d \in Docs \ Hidden : RevsOf(d, n) # {} /\ RowSeq(d, n) > s}
           S == {RowSeq(d, n) : d \in docs}
           seqs == InOrder(S)
           N == Cardinality(S)
           row(q) == [seq |-> q, revs |-> Leaves(Updates[q].doc, n)]
<1>1. n \in Nat /\ Size \in Nat /\ n <= Size
  BY UpdatesAre
<1>2. \A q \in S : q \in 1..n /\ q > s
  <2> TAKE q \in S
  <2>1. PICK d \in docs : q = RowSeq(d, n)
    OBVIOUS
  <2>2. PICK i \in RevsOf(d, n) : TRUE
    BY <2>1
  <2>3. i \in 1..n /\ Updates[i].doc = d
    BY DEF RevsOf
  <2>4. q = Row(i, n)
    BY <2>1, <2>3 DEF Row
  <2>5. QED
    BY <2>1, <2>3, <2>4, RowIs
<1>3. Orders(S, seqs)
  <2>1. S \in SUBSET (1..n)
    BY <1>2
  <2> HIDE DEF S
  <2>2. QED
    BY <1>1, <2>1, InOrderOrders
<1>4. IsFiniteSet(S) /\ N \in Nat
  <2>1. S \in SUBSET (1..n)
    BY <1>2
  <2>3. IsFiniteSet(1..n)
    BY <1>1, FS_Interval
  <2> HIDE DEF S
  <2>2. IsFiniteSet(S)
    BY <2>1, <2>3, FS_Subset
  <2>4. QED
    BY <2>2, FS_CardinalityType
<1>5. rows = [k \in 1..N |-> row(seqs[k])]
  <2>1. rows = [k \in DOMAIN seqs |-> row(seqs[k])]
    BY DEF RowsAfter
  <2>2. DOMAIN seqs = 1..N
    <3> HIDE DEF seqs
    <3>1. QED
      BY <1>3 DEF Orders
  <2>3. QED
    BY <2>1, <2>2
<1>6. \A q \in 1..n : row(q) \in [seq : 0..Size, revs : SUBSET (1..Size)]
                      /\ row(q).revs \subseteq 1..n /\ Unrelated(row(q).revs) /\ row(q).seq = q
  <2> TAKE q \in 1..n
  <2>1. Leaves(Updates[q].doc, n) \subseteq 1..n /\ Unrelated(Leaves(Updates[q].doc, n))
    BY LeavesAreUnrelated
  <2>2. q \in 0..Size /\ Leaves(Updates[q].doc, n) \in SUBSET (1..Size)
    BY <1>1, <2>1
  <2>3. QED
    BY <2>1, <2>2
<1>7. \A k \in 1..N : seqs[k] \in S
  <2> HIDE DEF S, seqs
  <2>1. QED
    BY <1>3 DEF Orders
<1>8. rows \in Seq([seq : 0..Size, revs : SUBSET (1..Size)]) /\ Len(rows) = N
  <2> HIDE DEF S, seqs, row, N
  <2>1. \A k \in 1..N : row(seqs[k]) \in [seq : 0..Size, revs : SUBSET (1..Size)]
    BY <1>2, <1>6, <1>7
  <2>2. rows \in [1..N -> [seq : 0..Size, revs : SUBSET (1..Size)]]
    BY <1>5, <2>1
  <2>3. QED
    BY <1>4, <2>2, IsSequence
<1>9. ASSUME NEW k \in 1..N
      PROVE  /\ rows[k].seq \in 1..n /\ rows[k].seq > s /\ rows[k].seq = seqs[k]
             /\ rows[k].revs \subseteq 1..n /\ Unrelated(rows[k].revs)
             /\ rows[k] = row(seqs[k])
  <2>1. seqs[k] \in 1..n /\ seqs[k] > s /\ rows[k] = row(seqs[k])
    <3> HIDE DEF S, seqs, row
    <3>1. QED
      BY <1>2, <1>5, <1>7
  <2> HIDE DEF seqs, row
  <2>2. QED
    BY <1>6, <2>1
<1>10. \A j, k \in 1..N : j < k => rows[j].seq < rows[k].seq
  <2> HIDE DEF S, seqs, row
  <2>1. QED
    BY <1>3, <1>9 DEF Orders
<1>11. ASSUME NEW i \in Shown(n), Row(i, n) > s
       PROVE  \E k \in 1..N : rows[k].seq = Row(i, n) /\ Brings(rows[k], i)
  <2> DEFINE d == Updates[i].doc
  <2>1. i \in 1..n /\ d \in Docs \ Hidden /\ i \in RevsOf(d, n) /\ RowSeq(d, n) = Row(i, n)
        /\ Updates[Row(i, n)].doc = d
    <3>1. i \in 1..n /\ d \notin Hidden
      BY DEF Shown
    <3>2. i \in 1..Size
      BY <1>1, <3>1
    <3>3. QED
      BY <3>1, <3>2, RowIs, UpdatesAre DEF Row
  <2>2. Row(i, n) \in S
    BY <1>11, <2>1
  <2>3. PICK k \in 1..N : seqs[k] = Row(i, n)
    <3> HIDE DEF S, seqs
    <3>1. QED
      BY <1>3, <2>2 DEF Orders
  <2>4. rows[k].seq = Row(i, n) /\ rows[k].revs = Leaves(d, n)
    <3>1. rows[k].seq = seqs[k] /\ rows[k] = row(seqs[k])
      BY <1>9
    <3>2. rows[k].revs = Leaves(Updates[Row(i, n)].doc, n)
      BY <2>3, <3>1
    <3>3. QED
      BY <2>1, <2>3, <3>1, <3>2
  <2>5. PICK j \in Leaves(d, n) : i \in Ancestry[j]
    BY <2>1, LeavesBringAll
  <2>6. QED
    BY <2>4, <2>5 DEF Brings
<1>12. QED
  <2> HIDE DEF S, seqs, row, N
  <2>1. QED
    BY <1>4, <1>8, <1>9, <1>10, <1>11

-----------------------------------------------------------------------------
(* Checkpoints                                                              *)

\* f[i]: the first i entries of the history h, without those of session s.
Filters(h, s, m, f) ==
    f = [i \in 0..m |->
           IF i = 0 THEN <<>>
           ELSE IF h[i].session = s THEN f[i - 1]
           ELSE Append(f[i - 1], h[i])]

\* The filter of a history can be built from its end.
LEMMA FilterExists ==
    ASSUME NEW h, NEW s, NEW n \in Nat
    PROVE  \A m \in 0..n : \E f : Filters(h, s, m, f)
<1> DEFINE S == {m \in 0..n : \E f : Filters(h, s, m, f)}
           next(f, i) == IF h[i].session = s THEN f[i - 1] ELSE Append(f[i - 1], h[i])
<1>1. ASSUME NEW m \in 0..n, \A j \in 0..n : j < m => j \in S
      PROVE  m \in S
  <2>1. CASE m = 0
    <3>1. Filters(h, s, 0, [i \in 0..0 |-> <<>>])
      BY DEF Filters
    <3>2. QED
      BY <2>1, <3>1
  <2>2. CASE m # 0
    <3>1. m - 1 \in 0..n /\ m - 1 < m
      BY <2>2
    <3>2. PICK f : Filters(h, s, m - 1, f)
      BY <1>1, <3>1
    <3>3. \A i \in 0..(m - 1) : f[i] = IF i = 0 THEN <<>> ELSE next(f, i)
      BY <3>2 DEF Filters
    <3> DEFINE g == [i \in 0..m |-> IF i = m THEN next(f, m) ELSE f[i]]
    <3>4. \A i \in 0..m : g[i] = IF i = 0 THEN <<>> ELSE next(g, i)
      <4> TAKE i \in 0..m
      <4>1. CASE i = 0
        BY <2>2, <3>3, <4>1
      <4>2. CASE i # 0
        <5>1. i - 1 \in 0..m /\ i - 1 # m
          BY <4>2
        <5>2. g[i - 1] = f[i - 1]
          BY <5>1
        <5>3. next(g, i) = next(f, i)
          BY <5>2
        <5>4. g[i] = next(f, i)
          BY <3>3, <4>2
        <5>5. QED
          BY <4>2, <5>3, <5>4
      <4>3. QED
        BY <4>1, <4>2
    <3>5. Filters(h, s, m, g)
      BY <3>4 DEF Filters
    <3>6. QED
      BY <3>5
  <2>3. QED
    BY <2>1, <2>2
<1>2. \A m \in 0..n : m \in S
  <2> HIDE DEF S
  <2>1. QED
    BY <1>1, Inductive
<1>3. QED
  BY <1>2

\* What it keeps is a history again.
LEMMA FilterIsAHistory ==
    ASSUME NEW E, NEW h \in Seq(E), NEW s, NEW f, Filters(h, s, Len(h), f)
    PROVE  f[Len(h)] \in Seq(E)
<1> DEFINE n == Len(h)
           S == {i \in 0..n : f[i] \in Seq(E)}
<1>1. n \in Nat /\ \A i \in 1..n : h[i] \in E
  BY LenProperties, ElementOfSeq
<1>2. ASSUME NEW i \in 0..n, \A j \in 0..n : j < i => j \in S
      PROVE  i \in S
  <2>1. f[i] = IF i = 0 THEN <<>>
               ELSE IF h[i].session = s THEN f[i - 1] ELSE Append(f[i - 1], h[i])
    BY DEF Filters
  <2>2. CASE i = 0
    BY <2>1, <2>2, EmptySeq
  <2>3. CASE i # 0
    <3>1. i - 1 \in 0..n /\ i - 1 < i /\ h[i] \in E
      BY <1>1, <2>3
    <3>2. f[i - 1] \in Seq(E)
      BY <1>2, <3>1
    <3>3. Append(f[i - 1], h[i]) \in Seq(E)
      BY <3>1, <3>2, AppendProperties
    <3>4. QED
      BY <2>1, <2>3, <3>2, <3>3
  <2>4. QED
    BY <2>2, <2>3
<1>3. \A i \in 0..n : i \in S
  <2> HIDE DEF S
  <2>1. QED
    BY <1>1, <1>2, Inductive
<1>4. QED
  BY <1>1, <1>3

\* checkpoint.rs: the document is never empty, and holds old entries and the new one.
LEMMA CheckpointDocIs ==
    ASSUME NEW E, history \in Seq(E), NEW seq, [session |-> session.id, seq |-> seq] \in E
    PROVE  CheckpointDoc(seq) \in Seq(E) /\ CheckpointDoc(seq) # <<>>
<1> DEFINE others == CHOOSE f : Filters(history, session.id, Len(history), f)
           own == <<[session |-> session.id, seq |-> seq]>>
<1>1. CheckpointDoc(seq) = own \o others[Len(history)]
  BY DEF CheckpointDoc, Filters
<1>2. Len(history) \in Nat /\ Len(history) \in 0..Len(history)
  BY LenProperties
<1>3. Filters(history, session.id, Len(history), others)
  BY <1>2, FilterExists
<1>4. others[Len(history)] \in Seq(E)
  BY <1>3, FilterIsAHistory
<1>5. own \in Seq(E) /\ Len(own) = 1
  OBVIOUS
<1> HIDE DEF own, others
<1>6. \A q \in Seq(E) : own \o q \in Seq(E) /\ own \o q # <<>>
  <2> TAKE q \in Seq(E)
  <2>1. own \o q \in Seq(E) /\ Len(own \o q) = Len(own) + Len(q) /\ Len(q) \in Nat
    BY <1>5, ConcatProperties, LenProperties
  <2>2. QED
    BY <1>5, <2>1, EmptySeq
<1>7. QED
  BY <1>1, <1>4, <1>6

\* The histories whose every entry is safe to resume from.
Histories(known, n) == Seq([session : Sessions, seq : SafeSeqs(known, n)])

\* To start from the beginning is always safe.
LEMMA ZeroIsSafe ==
    ASSUME NEW n \in 0..Size, NEW known
    PROVE  0 \in SafeSeqs(known, n)
<1>1. 0 \in 0..n /\ \A i \in Shown(n) : ~(Row(i, n) <= 0)
  BY RowIs, UpdatesAre DEF Shown
<1>2. QED
  BY <1>1 DEF SafeSeqs

\* A session resumes at a seq some history records, or at the beginning.
LEMMA ResumesInAHistory ==
    ASSUME NEW n \in 0..Size, NEW known,
           NEW s \in Histories(known, n), NEW t \in Histories(known, n)
    PROVE  /\ Resume(s, t).seq \in SafeSeqs(known, n)
           /\ Resume(s, t).history \in Histories(known, n)
<1> DEFINE SS == SafeSeqs(known, n)
           E == [session : Sessions, seq : SS]
           shared == {i \in 1..Len(s) : \E j \in 1..Len(t) : t[j].session = s[i].session}
<1>1. 0 \in SS /\ <<>> \in Histories(known, n) /\ \A x \in SS : x \in 0..Size
  BY ZeroIsSafe, UpdatesAre DEF Histories, SafeSeqs
<1>2. /\ Len(s) \in Nat /\ \A i \in 1..Len(s) : s[i].seq \in SS
      /\ Len(t) \in Nat /\ \A i \in 1..Len(t) : t[i].seq \in SS
      /\ (t # <<>> => 1 \in 1..Len(t))
  <2> HIDE DEF SS
  <2>1. s \in Seq(E) /\ t \in Seq(E)
    BY DEF Histories, SS
  <2>2. \A q \in Seq(E) : /\ Len(q) \in Nat /\ \A i \in 1..Len(q) : q[i] \in E
                           /\ (q # <<>> => 1 \in 1..Len(q))
    <3> TAKE q \in Seq(E)
    <3>1. Len(q) \in Nat /\ \A i \in 1..Len(q) : q[i] \in E
      BY LenProperties, ElementOfSeq
    <3>2. q # <<>> => Len(q) # 0
      BY EmptySeq
    <3>3. QED
      BY <3>1, <3>2
  <2>3. \A x \in E : x.seq \in SS
    OBVIOUS
  <2> HIDE DEF E
  <2>4. QED
    BY <2>1, <2>2, <2>3
<1>3. CASE CommonSeq(s, t) # {}
  <2>1. shared # {} /\ CommonSeq(s, t) = {s[Min(shared)].seq}
    BY <1>3 DEF CommonSeq
  <2>2. shared \in SUBSET Nat
    BY <1>2
  <2>3. Min(shared) \in shared
    <3> HIDE DEF shared
    <3>1. QED
      BY <2>1, <2>2, MinIsLeast
  <2>4. CommonSeq(s, t) \subseteq SS /\ CommonSeq(s, t) \in SUBSET (0..Size)
    BY <1>1, <1>2, <2>1, <2>3
  <2>5. Max(CommonSeq(s, t)) \in CommonSeq(s, t)
    BY <1>3, <2>4, MaxIsGreatest, UpdatesAre
  <2>6. QED
    BY <1>1, <1>2, <1>3, <2>4, <2>5 DEF Resume
<1>4. CASE CommonSeq(s, t) = {}
  BY <1>1, <1>2, <1>4 DEF Resume
<1>5. QED
  BY <1>3, <1>4

-----------------------------------------------------------------------------
(* What a step keeps                                                        *)

\* The update seq of the source is within the updates.
LEMMA SourceIs ==
    ASSUME TypeOK
    PROVE  source \in 0..Size /\ source \in Nat /\ source <= Size
  BY UpdatesAre DEF TypeOK, Seqs, Size

\* The books, part by part.
LEMMA BooksAre ==
    /\ Books.known = Known /\ Books.ledger = ledger
    /\ Books.changing = changes \union missing
    /\ Books.copying = units \union atts \union fetched
  BY DEF Books

\* What is owed stays owed, or known, while debts are paid.
LEMMA OwedLater ==
    ASSUME NEW b, NEW a, IsLedger(b.ledger), IsLedger(a.ledger), Pays(b, a),
           b.ledger.next <= a.ledger.next, NEW i, Owed(b, i, b.ledger.next)
    PROVE  Owed(a, i, a.ledger.next)
<1>1. Owed(a, i, b.ledger.next)
  BY DEF Pays
<1>2. b.ledger.next \in Nat /\ a.ledger.next \in Nat /\ \A q \in DOMAIN a.ledger.entries : q \in Nat
  BY EntriesAre
<1>3. QED
  BY <1>1, <1>2 DEF Owed

\* An ancestor of what is accounted for is accounted for.
LEMMA KnownIsClosed ==
    ASSUME TypeOK, TargetIsClosed, NEW j \in Known
    PROVE  Ancestry[j] \subseteq Known
<1>1. CASE j \in target
  BY <1>1 DEF TargetIsClosed, Known
<1>2. CASE j \notin target
  <2>1. PICK k \in skipped : j \in Ancestry[k]
    BY <1>2 DEF Known
  <2>2. k \in 0..Size
    <3>1. k \in 1..source
      BY DEF TypeOK
    <3>2. QED
      BY <3>1, SourceIs, UpdatesAre
  <2>3. Ancestry[j] \subseteq Ancestry[k]
    BY <2>1, <2>2, AncestryIsClosed
  <2>4. QED
    BY <2>3 DEF Known
<1>3. QED
  BY <1>1, <1>2

\* A safe history stays safe when more is known.
LEMMA HistoriesGrow ==
    ASSUME NEW known, NEW more, NEW n, known \subseteq more
    PROVE  Histories(known, n) \subseteq Histories(more, n)
<1>1. SafeSeqs(known, n) \subseteq SafeSeqs(more, n)
  BY SafeSeqsGrow
<1>2. [session : Sessions, seq : SafeSeqs(known, n)] \subseteq [session : Sessions, seq : SafeSeqs(more, n)]
  BY <1>1
<1>3. QED
  BY <1>2, SeqMonotonic DEF Histories

\* So the records stay safe while nothing is forgotten.
LEMMA RecordsStaySafe ==
    ASSUME RecordsAreSafe, Known \subseteq Known', UNCHANGED <<source, srcCkpt, tgtCkpt, history>>,
           ckpts' \subseteq ckpts
    PROVE  RecordsAreSafe'
<1>1. SafeHistory = Histories(Known, source) /\ SafeHistory' = Histories(Known', source)
  BY DEF SafeHistory, Histories
<1>2. SafeHistory \subseteq SafeHistory'
  BY <1>1, HistoriesGrow
<1>3. QED
  BY <1>2 DEF RecordsAreSafe

\* The reader stays sound while the debts behind it are paid.
LEMMA ReaderStaysSound ==
    ASSUME ReaderIsSound, UNCHANGED <<source, reader>>, phase' = phase,
           session'.from = session.from, session'.opts = session.opts,
           Pays(Books, Books'), IsLedger(ledger), IsLedger(ledger'), ledger.next <= ledger'.next
    PROVE  ReaderIsSound'
<1>1. \A i : Owed(Books, i, ledger.next) => Owed(Books', i, ledger'.next)
  BY BooksAre, OwedLater DEF Books
<1>2. Promised(Books, source, reader.since, ledger.next) =>
        Promised(Books', source, reader.since, ledger'.next)
  BY <1>1 DEF Promised
<1>3. QED
  BY <1>1, <1>2 DEF ReaderIsSound

\* So does the session.
LEMMA SessionStaysSound ==
    ASSUME SessionIsSound, UNCHANGED <<source, reader, result>>, phase' = phase, phase = "running",
           session'.from = session.from, cancelled => cancelled',
           Pays(Books, Books'), IsLedger(ledger), IsLedger(ledger'), ledger.next <= ledger'.next
    PROVE  SessionIsSound'
<1>1. \A i : Owed(Books, i, ledger.next) => Owed(Books', i, ledger'.next)
  BY BooksAre, OwedLater DEF Books
<1>2. result # "clean"
  BY DEF SessionIsSound
<1>3. QED
  BY <1>1, <1>2 DEF SessionIsSound

-----------------------------------------------------------------------------
(* The work                                                                 *)

\* The changes in the diff stage, and the work behind it.
Changing == changes \union missing
Copying == units \union atts \union fetched

\* What a step of the stages that copy may touch.
WorkGoesOn ==
    /\ phase = "running"
    /\ UNCHANGED <<source, srcCkpt, tgtCkpt, history, lastWritten, ckpts, phase, result, reader>>
    /\ session' \in {session, [session EXCEPT !.skips = TRUE]}
    /\ cancelled' \in BOOLEAN /\ failed' \in BOOLEAN /\ (cancelled => cancelled')
    /\ faults' \in 0..MaxFaults
    /\ target \subseteq target' /\ target' \subseteq 1..source
    /\ skipped \subseteq skipped' /\ skipped' \subseteq 1..source
    /\ TargetIsClosed' /\ InOneLane'

\* What is written or skipped is known for good.
LEMMA KnownGrows ==
    ASSUME target \subseteq target', skipped \subseteq skipped'
    PROVE  Known \subseteq Known'
  BY DEF Known

\* A step of the stages keeps the invariant if it keeps the books and pays.
LEMMA WorkKeepsIInv ==
    ASSUME IInv, WorkGoesOn, BooksAreSound(Books', source, phase # "off" /\ ~cancelled'),
           Pays(Books, Books'), ledger'.next = ledger.next
    PROVE  IInv'
<1>1. IsLedger(ledger) /\ IsLedger(ledger') /\ ledger.next <= ledger'.next
      /\ Changing' \subseteq Changes /\ Copying' \subseteq Work
  <2>1. IsLedger(Books.ledger) /\ IsLedger(Books'.ledger)
        /\ Books'.changing \subseteq Changes /\ Books'.copying \subseteq Work
    BY DEF IInv, BooksAreSound, LedgerHolds, Apart
  <2>2. IsLedger(ledger) /\ IsLedger(ledger')
    BY <2>1, BooksAre DEF Books
  <2>3. ledger.next \in Nat
    BY <2>2, EntriesAre
  <2>4. QED
    BY <2>1, <2>2, <2>3 DEF Books, Changing, Copying
<1>2. /\ session' \in [id : Sessions, opts : Options, from : Seqs, skips : BOOLEAN]
      /\ session'.from = session.from /\ session'.opts = session.opts
  BY DEF IInv, TypeOK, WorkGoesOn
<1>3. TypeOK'
  BY <1>1, <1>2 DEF IInv, TypeOK, WorkGoesOn, Changing, Copying
<1>4. Known \subseteq Known'
  BY KnownGrows DEF WorkGoesOn
<1>5. ReaderIsSound'
  BY <1>1, <1>2, ReaderStaysSound DEF IInv, WorkGoesOn
<1>6. SessionIsSound'
  BY <1>1, <1>2, SessionStaysSound DEF IInv, WorkGoesOn
<1>7. RecordsAreSafe'
  BY <1>4, RecordsStaySafe DEF IInv, WorkGoesOn
<1>8. BooksAreSound(Books, source, phase # "off" /\ ~cancelled)'
  BY DEF WorkGoesOn
<1>9. QED
  BY <1>3, <1>5, <1>6, <1>7, <1>8 DEF IInv, WorkGoesOn

\* Work is lost only by a session that is cancelled with it.
LEMMA LosingWork ==
    ASSUME IInv, WorkGoesOn, ledger' = ledger,
           Changing' \subseteq Changing, Copying' \subseteq Copying,
           cancelled' \/ (Changing' = Changing /\ Copying' = Copying)
    PROVE  IInv'
<1> DEFINE exact == phase # "off" /\ ~cancelled
           exactly == phase # "off" /\ ~cancelled'
<1>1. BooksAreSound(Books, source, exact) /\ source \in 0..Size
  BY SourceIs DEF IInv
<1>2. /\ Books'.ledger = Books.ledger /\ Books.known \subseteq Books'.known
      /\ Books'.changing \subseteq Books.changing /\ Books'.copying \subseteq Books.copying
  BY KnownGrows DEF Books, WorkGoesOn, Changing, Copying
<1>3. exactly => exact /\ Books'.changing = Books.changing /\ Books'.copying = Books.copying
  BY DEF Books, WorkGoesOn, Changing, Copying
<1> HIDE DEF exact, exactly
<1>4. BooksAreSound(Books', source, exactly) /\ Pays(Books, Books')
  BY <1>1, <1>2, <1>3, LosingKeepsBooks
<1>5. QED
  BY <1>4, WorkKeepsIInv DEF exactly

\* Work is done when what it brings is known.
Finishes(D) ==
    /\ D \subseteq Changing \union Copying
    /\ Changing' = Changing \ D /\ Copying' = Copying \ D
    /\ AccountsFor(Known', Books, D)

\* Such a step is one that finishes some work and accounts for it.
LEMMA FinishingWork ==
    ASSUME IInv, WorkGoesOn, NEW D, Finishes(D), ledger' = Complete(ledger, D),
           cancelled' = cancelled
    PROVE  IInv'
<1> DEFINE exact == phase # "off" /\ ~cancelled
<1>1. BooksAreSound(Books, source, exact) /\ source \in 0..Size
  BY SourceIs DEF IInv
<1>2. /\ Books'.ledger = Complete(Books.ledger, D) /\ Books.known \subseteq Books'.known
      /\ Books'.changing = Books.changing \ D /\ Books'.copying = Books.copying \ D
      /\ D \subseteq All(Books) /\ AccountsFor(Books'.known, Books, D)
  BY KnownGrows DEF Books, WorkGoesOn, Changing, Copying, Finishes, All
<1> HIDE DEF exact
<1>3. BooksAreSound(Books', source, exact) /\ Pays(Books, Books')
      /\ Books'.ledger.next = Books.ledger.next
  BY <1>1, <1>2, CompletingKeepsBooks
<1>4. ledger'.next = ledger.next
  BY <1>3 DEF Books
<1>5. QED
  BY <1>3, <1>4, WorkKeepsIInv DEF exact

\* Work is under way only while a session runs.
LEMMA WorkIsOfARun ==
    ASSUME IInv, NEW x \in Changing \union Copying
    PROVE  phase = "running"
  BY DEF IInv, SessionIsSound, Books, Changing, Copying

\* Work in flight is about updates the source has.
LEMMA WorkIs ==
    ASSUME IInv
    PROVE  /\ \A w \in Copying : w \in Work /\ w.rev \in 1..source /\ w.rev \in 1..Size /\ w.rev \in 0..Size
           /\ \A c \in Changing : c \in Changes /\ c.revs \subseteq 1..source
           /\ Changing \intersect Copying = {}
           /\ source \in 0..Size /\ source \in Nat /\ source <= Size
<1>1. Apart(Books, source)
  BY DEF IInv, BooksAreSound
<1>2. source \in 0..Size /\ source \in Nat /\ source <= Size /\ Size \in Nat
  BY SourceIs, UpdatesAre DEF IInv
<1>3. QED
  BY <1>1, <1>2, ItemsAreApart DEF Apart, Books, Changing, Copying

\* A revision that is written comes with its ancestors.
LEMMA TargetGrows ==
    ASSUME IInv, NEW new, new \subseteq 1..source
    PROVE  /\ target \union UNION {Ancestry[j] : j \in new} \subseteq 1..source
           /\ \A t : t = target \union UNION {Ancestry[j] : j \in new} =>
                \A j \in t : Ancestry[j] \subseteq t
<1>1. source \in Nat /\ source <= Size /\ Size \in Nat
  BY SourceIs, UpdatesAre DEF IInv
<1>2. \A j \in new : j \in 1..source /\ j \in 0..Size
  BY <1>1
<1>3. \A j \in new : \A i \in Ancestry[j] : i \in 1..source
  BY <1>1, <1>2, AncestorsAreEarlier
<1>4. \A j \in new : \A i \in Ancestry[j] : Ancestry[i] \subseteq Ancestry[j]
  BY <1>2, AncestryIsClosed
<1>5. target \subseteq 1..source /\ \A j \in target : Ancestry[j] \subseteq target
  BY DEF IInv, TypeOK, TargetIsClosed
<1> DEFINE more == UNION {Ancestry[j] : j \in new}
<1>6. \A i \in more : \E j \in new : i \in Ancestry[j]
  OBVIOUS
<1>7. \A j \in new : Ancestry[j] \subseteq more
  OBVIOUS
<1> HIDE DEF more
<1>8. more \subseteq 1..source /\ \A i \in more : Ancestry[i] \subseteq more
  BY <1>3, <1>4, <1>6, <1>7
<1>9. target \union more \subseteq 1..source
      /\ \A j \in target \union more : Ancestry[j] \subseteq target \union more
  BY <1>5, <1>8
<1>10. QED
  BY <1>9 DEF more

\* A fault is counted.
LEMMA FaultIs ==
    ASSUME TypeOK, Fault
    PROVE  faults' \in 0..MaxFaults
  BY ReplicationAssumption DEF TypeOK, Fault, ReplicationAssumption

\* One lemma for each step of the stages (diff.rs, fetcher.rs, attachments, writer.rs).
LEMMA DiffKeeps ==
    ASSUME IInv, NEW tc \in changes, Diff(tc)
    PROVE  IInv'
<1>1. tc \in Changing /\ phase = "running" /\ tc \in Changes /\ tc \notin Copying /\ tc \notin missing
  BY WorkIsOfARun, WorkIs DEF Changing, IInv, InOneLane
<1>2. WorkGoesOn
  <2>1. CASE tc.revs \subseteq target
    BY <1>1, <2>1 DEF Diff, WorkGoesOn, IInv, TypeOK, InOneLane, TargetIsClosed,
       endpoints, run, token, recorder
  <2>2. CASE ~(tc.revs \subseteq target)
    <3> DEFINE x == [tc EXCEPT !.revs = @ \ target]
    <3>1. x \notin changes \ {tc}
      <4>1. Books.changing = Changing
        BY DEF Books, Changing
      <4>2. Flight(Books, tc.ord) = {tc}
        BY <1>1, <4>1 DEF IInv, BooksAreSound, Counted
      <4>3. x.ord = tc.ord
        BY <1>1 DEF Changes
      <4>4. QED
        BY <4>1, <4>2, <4>3 DEF Flight, Changing
    <3>2. InOneLane'
      BY <1>1, <2>2, <3>1 DEF Diff, IInv, InOneLane
    <3>3. QED
      BY <1>1, <2>2, <3>2 DEF Diff, WorkGoesOn, IInv, TypeOK, TargetIsClosed,
         endpoints, run, token, recorder
  <2>3. QED
    BY <2>1, <2>2
<1>3. CASE tc.revs \subseteq target
  <2>1. ledger' = Complete(ledger, {tc}) /\ cancelled' = cancelled /\ target' = target
    BY <1>3 DEF Diff, token, endpoints
  <2>2. Changing' = Changing \ {tc} /\ Copying' = Copying \ {tc}
    BY <1>1, <1>3 DEF Diff, Changing, Copying
  <2>3. AccountsFor(Known', Books, {tc})
    <3>1. tc \notin Books.copying
      BY <1>1 DEF Books, Copying
    <3>2. \A j \in tc.revs : Ancestry[j] \subseteq Known'
      BY <1>3, <2>1 DEF IInv, TargetIsClosed, Known
    <3>3. QED
      BY <3>1, <3>2 DEF AccountsFor
  <2>4. Finishes({tc})
    BY <1>1, <2>2, <2>3 DEF Finishes
  <2>5. QED
    BY <1>2, <2>1, <2>4, FinishingWork
<1>4. CASE ~(tc.revs \subseteq target)
  <2> DEFINE x == [tc EXCEPT !.revs = @ \ target]
             exact == phase # "off" /\ ~cancelled
  <2>1. x \in Changes /\ x.ord = tc.ord /\ x.revs \subseteq tc.revs /\ x.revs = tc.revs \ target
    BY <1>1 DEF Changes
  <2>2. /\ Books'.ledger = Books.ledger /\ Books'.known = Books.known
        /\ Books'.copying = Books.copying
        /\ Books'.changing = (Books.changing \ {tc}) \union {x}
    BY <1>1, <1>4 DEF Diff, Books, Known, endpoints
  <2>3. \A j \in tc.revs \ x.revs : Ancestry[j] \subseteq Books.known
    BY <2>1, BooksAre DEF IInv, TargetIsClosed, Known
  <2>4. BooksAreSound(Books, source, exact) /\ source \in 0..Size /\ tc \in Books.changing
    BY <1>1, SourceIs DEF IInv, Books, Changing
  <2> HIDE DEF x, exact
  <2>5. BooksAreSound(Books', source, exact) /\ Pays(Books, Books')
    BY <2>1, <2>2, <2>3, <2>4, DiffingKeepsBooks
  <2>6. cancelled' = cancelled /\ ledger' = ledger
    BY <1>4 DEF Diff, token
  <2>7. QED
    BY <1>2, <2>5, <2>6, WorkKeepsIInv DEF exact
<1>5. QED
  BY <1>3, <1>4

LEMMA DiffFailsKeeps ==
    ASSUME IInv, NEW tc \in changes, DiffFails(tc)
    PROVE  IInv'
<1>1. phase = "running" /\ faults' \in 0..MaxFaults
  BY WorkIsOfARun, FaultIs DEF Changing, DiffFails, IInv
<1>2. WorkGoesOn
  BY <1>1 DEF DiffFails, Fails, WorkGoesOn, IInv, TypeOK, InOneLane, TargetIsClosed,
     endpoints, run, token, recorder
<1>3. QED
  BY <1>2, LosingWork DEF DiffFails, Fails, Changing, Copying

LEMMA ExplodeKeeps ==
    ASSUME IInv, NEW md \in missing, Explode(md)
    PROVE  IInv'
<1> DEFINE exact == phase # "off" /\ ~cancelled
<1>1. md \in Changing /\ phase = "running" /\ md \notin changes
  BY WorkIsOfARun DEF Changing, IInv, InOneLane
<1>2. BooksAreSound(Books, source, exact) /\ source \in 0..Size /\ md \in Books.changing
  BY <1>1, SourceIs DEF IInv, Books, Changing
<1>3. /\ Books'.ledger = Expand(Books.ledger, md.ord, Cardinality(md.revs))
      /\ Books'.known = Books.known
      /\ Books'.copying = Books.copying \union Split(md)
      /\ Books'.changing = Books.changing \ {md}
  BY <1>1 DEF Explode, Books, Known, Split, endpoints
<1> HIDE DEF exact
<1>4. /\ BooksAreSound(Books', source, exact) /\ Pays(Books, Books')
      /\ Books'.ledger.next = Books.ledger.next
      /\ Split(md) \intersect Books.copying = {}
  BY <1>2, <1>3, ExpandingKeepsBooks
<1>5. Split(md) \intersect (atts \union fetched) = {}
  BY <1>4 DEF Books
<1>6. WorkGoesOn
  BY <1>1, <1>5 DEF Explode, Split, WorkGoesOn, IInv, TypeOK, InOneLane, TargetIsClosed,
     endpoints, run, token, recorder
<1>7. cancelled' = cancelled /\ ledger'.next = ledger.next
  BY <1>4 DEF Explode, Books, token
<1>8. QED
  BY <1>4, <1>6, <1>7, WorkKeepsIInv DEF exact

\* A body that the source may return brings the revision asked for.
LEMMA BodiesBring ==
    ASSUME IInv, NEW rev \in 1..source, NEW body \in Bodies(rev)
    PROVE  body \in 1..source /\ rev \in Ancestry[body]
<1> DEFINE S == {i \in Leaves(Updates[rev].doc, source) : rev \in Ancestry[i]}
<1>1. source \in 0..Size /\ source \in Nat /\ rev \in 1..Size
  BY SourceIs, UpdatesAre DEF IInv
<1>2. rev \in RevsOf(Updates[rev].doc, source)
  BY DEF RevsOf
<1>3. S # {}
  BY <1>1, <1>2, LeavesBringAll
<1>4. Leaves(Updates[rev].doc, source) \subseteq 1..source
  BY <1>1, LeavesAreUnrelated
<1>5. S \in SUBSET (0..source)
  BY <1>4
<1>6. Max(S) \in S
  <2> HIDE DEF S
  <2>1. QED
    BY <1>1, <1>3, <1>5, MaxIsGreatest
<1>7. body = rev \/ body = Max(S)
  BY DEF Bodies
<1>8. QED
  BY <1>1, <1>4, <1>6, <1>7, IsOwnAncestor

LEMMA FetchKeeps ==
    ASSUME IInv, NEW u \in units, Fetch(u)
    PROVE  IInv'
<1> DEFINE exact == phase # "off" /\ ~cancelled
<1>1. u \in Copying /\ phase = "running" /\ u \in Work /\ u.rev \in 1..source
  BY WorkIsOfARun, WorkIs DEF Copying
<1>2. PICK body \in Bodies(u.rev) :
        LET item == [u EXCEPT !.rev = body]
        IN  \/ atts' = atts \union {item} /\ UNCHANGED fetched
            \/ fetched' = fetched \union {item} /\ UNCHANGED atts
  BY DEF Fetch
<1> DEFINE x == [u EXCEPT !.rev = body]
<1>3. x \in Work /\ x.ord = u.ord /\ x.rev \in 1..source /\ u.rev \in Ancestry[x.rev]
  <2>1. body \in 1..source /\ u.rev \in Ancestry[body]
    BY <1>1, BodiesBring
  <2>2. body \in 1..Len(Updates)
    BY <2>1, SourceIs, UpdatesAre DEF IInv, Size
  <2>3. QED
    BY <1>1, <2>1, <2>2 DEF Work
<1>4. /\ Books'.ledger = Books.ledger /\ Books'.known = Books.known
      /\ Books'.changing = Books.changing
      /\ Books'.copying = (Books.copying \ {u}) \union {x}
      /\ BooksAreSound(Books, source, exact) /\ source \in 0..Size /\ u \in Books.copying
  <2>1. u \notin atts /\ u \notin fetched
    BY DEF IInv, InOneLane
  <2>2. QED
    BY <1>1, <1>2, <2>1, SourceIs DEF Fetch, Books, Known, endpoints, IInv
<1> HIDE DEF exact, x
<1>5. BooksAreSound(Books', source, exact) /\ Pays(Books, Books') /\ x \notin Books.copying \ {u}
  BY <1>3, <1>4, FetchingKeepsBooks
<1>6. InOneLane'
  <2>1. x \notin (units \union atts \union fetched) \ {u}
    BY <1>5 DEF Books
  <2>2. \/ atts' = atts \union {x} /\ UNCHANGED fetched
        \/ fetched' = fetched \union {x} /\ UNCHANGED atts
    BY <1>2 DEF x
  <2>3. QED
    BY <2>1, <2>2 DEF IInv, InOneLane, Fetch
<1>7. WorkGoesOn
  BY <1>1, <1>6 DEF Fetch, WorkGoesOn, IInv, TypeOK, TargetIsClosed, endpoints, run, token, recorder
<1>8. cancelled' = cancelled /\ ledger' = ledger
  BY DEF Fetch, token
<1>9. QED
  BY <1>5, <1>7, <1>8, WorkKeepsIInv DEF exact

\* An item is given up on: done with, and skipped, or lost and the session cancelled.
LEMMA GivingUpKeeps ==
    ASSUME IInv, WorkGoesOn, NEW w \in Copying, GiveUp(w) \/ Abort,
           Changing' = Changing, Copying' = Copying \ {w}
    PROVE  IInv'
<1>1. CASE Abort
  BY <1>1, LosingWork DEF Abort, Fails
<1>2. CASE GiveUp(w) /\ session.opts.continueOnError
  <2>1. ledger' = Complete(ledger, {w}) /\ cancelled' = cancelled
        /\ skipped' = skipped \union {w.rev}
    BY <1>2 DEF GiveUp, token
  <2>2. Ancestry[w.rev] \subseteq Known' /\ w \notin Changing
    BY <2>1, WorkIs DEF Known
  <2>3. Finishes({w})
    BY <2>2 DEF Finishes, AccountsFor, Books, Changing
  <2>4. QED
    BY <2>1, <2>3, FinishingWork
<1>3. QED
  BY <1>1, <1>2 DEF GiveUp

LEMMA FetchFailsKeeps ==
    ASSUME IInv, NEW u \in units, FetchFails(u)
    PROVE  IInv'
<1>1. u \in Copying /\ phase = "running" /\ u.rev \in 1..source /\ faults' \in 0..MaxFaults
  BY WorkIsOfARun, WorkIs, FaultIs DEF Copying, FetchFails, IInv
<1>2. Changing' = Changing /\ Copying' = Copying \ {u} /\ InOneLane'
  BY DEF FetchFails, Changing, Copying, IInv, InOneLane
<1>3. WorkGoesOn
  BY <1>1, <1>2 DEF FetchFails, GiveUp, Abort, Fails, WorkGoesOn, IInv, TypeOK,
     TargetIsClosed, endpoints, token, recorder
<1>4. QED
  BY <1>1, <1>2, <1>3, GivingUpKeeps DEF FetchFails

LEMMA AttInlineKeeps ==
    ASSUME IInv, NEW ad \in atts, AttInline(ad)
    PROVE  IInv'
<1>1. ad \in Copying /\ phase = "running"
  BY WorkIsOfARun DEF Copying
<1>2. Changing' = Changing /\ Copying' = Copying /\ InOneLane'
  BY DEF AttInline, Changing, Copying, IInv, InOneLane
<1>3. WorkGoesOn /\ ledger' = ledger
  BY <1>1, <1>2 DEF AttInline, WorkGoesOn, IInv, TypeOK, TargetIsClosed, endpoints, run, token, recorder
<1>4. QED
  BY <1>2, <1>3, LosingWork

LEMMA AttStreamKeeps ==
    ASSUME IInv, NEW ad \in atts, AttStream(ad)
    PROVE  IInv'
<1>1. ad \in Copying /\ phase = "running" /\ ad.rev \in 1..source /\ ad \notin Changing
  BY WorkIsOfARun, WorkIs DEF Copying
<1>2. Changing' = Changing \ {ad} /\ Copying' = Copying \ {ad} /\ InOneLane'
  BY <1>1 DEF AttStream, Changing, Copying, IInv, InOneLane
<1>3. target' \subseteq 1..source /\ TargetIsClosed'
  <2>1. target' = target \union UNION {Ancestry[j] : j \in {ad.rev}} /\ {ad.rev} \subseteq 1..source
    BY <1>1 DEF AttStream
  <2>2. QED
    BY <2>1, TargetGrows DEF TargetIsClosed
<1>4. WorkGoesOn
  BY <1>1, <1>2, <1>3 DEF AttStream, WorkGoesOn, IInv, TypeOK, run, token, recorder
<1>5. Finishes({ad})
  <2>1. Ancestry[ad.rev] \subseteq Known'
    BY DEF AttStream, Known
  <2>2. QED
    BY <1>1, <1>2, <2>1 DEF Finishes, AccountsFor, Books, Changing
<1>6. QED
  BY <1>4, <1>5, FinishingWork DEF AttStream, token

LEMMA AttFailsKeeps ==
    ASSUME IInv, NEW ad \in atts, AttFails(ad)
    PROVE  IInv'
<1>1. ad \in Copying /\ phase = "running" /\ ad.rev \in 1..source /\ faults' \in 0..MaxFaults
  BY WorkIsOfARun, WorkIs, FaultIs DEF Copying, AttFails, IInv
<1>2. Changing' = Changing /\ Copying' = Copying \ {ad} /\ InOneLane'
  BY DEF AttFails, Changing, Copying, IInv, InOneLane
<1>3. target \subseteq target' /\ target' \subseteq 1..source /\ TargetIsClosed'
  <2>1. CASE target' = target
    BY <2>1 DEF IInv, TypeOK, TargetIsClosed
  <2>2. CASE target' = target \union Ancestry[ad.rev]
    <3>1. target' = target \union UNION {Ancestry[j] : j \in {ad.rev}} /\ {ad.rev} \subseteq 1..source
      BY <1>1, <2>2
    <3>2. QED
      BY <3>1, TargetGrows DEF TargetIsClosed
  <2>3. QED
    BY <2>1, <2>2 DEF AttFails
<1>4. WorkGoesOn
  BY <1>1, <1>2, <1>3 DEF AttFails, GiveUp, Abort, Fails, WorkGoesOn, IInv, TypeOK, token, recorder
<1>5. QED
  BY <1>1, <1>2, <1>4, GivingUpKeeps DEF AttFails

\* A batch is work of the last stage, and of no other.
LEMMA BatchIs ==
    ASSUME IInv, NEW batch \in Batches
    PROVE  /\ batch \subseteq fetched /\ batch \subseteq Copying /\ phase = "running"
           /\ batch \intersect Changing = {} /\ (units \union atts) \intersect batch = {}
           /\ \A w \in batch : w.rev \in 1..source
<1>1. batch \in SUBSET fetched /\ batch # {}
  BY DEF Batches
<1>2. batch \subseteq Copying
  BY <1>1 DEF Copying
<1>3. QED
  BY <1>1, <1>2, WorkIsOfARun, WorkIs DEF IInv, InOneLane

\* Writing adds whole ancestries of revisions the source has.
LEMMA WritingGrows ==
    ASSUME IInv, NEW batch \in Batches, NEW some \in SUBSET batch,
           target' = target \union Written(some)
    PROVE  target \subseteq target' /\ target' \subseteq 1..source /\ TargetIsClosed'
<1> DEFINE new == {w.rev : w \in some}
<1>1. new \subseteq 1..source
  BY BatchIs
<1>2. target' = target \union UNION {Ancestry[j] : j \in new}
  BY DEF Written
<1> HIDE DEF new
<1>3. QED
  BY <1>1, <1>2, TargetGrows DEF TargetIsClosed

LEMMA FlushKeeps ==
    ASSUME IInv, NEW batch \in Batches, Flush(batch)
    PROVE  IInv'
<1>1. Changing' = Changing \ batch /\ Copying' = Copying \ batch /\ InOneLane'
  BY BatchIs DEF Flush, Changing, Copying, IInv, InOneLane
<1>2. target \subseteq target' /\ target' \subseteq 1..source /\ TargetIsClosed'
  BY WritingGrows DEF Flush
<1>3. WorkGoesOn
  BY <1>1, <1>2, BatchIs DEF Flush, WorkGoesOn, IInv, TypeOK, run, token, recorder
<1>4. Finishes(batch)
  <2>1. \A w \in batch : Ancestry[w.rev] \subseteq Known'
    BY DEF Flush, Written, Known
  <2>2. QED
    BY <1>1, <2>1, BatchIs DEF Finishes, AccountsFor, Books, Changing
<1>5. QED
  BY <1>3, <1>4, FinishingWork DEF Flush, token

LEMMA FlushUnansweredKeeps ==
    ASSUME IInv, NEW batch \in Batches, FlushUnanswered(batch)
    PROVE  IInv'
<1>1. Changing' = Changing /\ Copying' = Copying /\ InOneLane'
  BY DEF FlushUnanswered, Changing, Copying, IInv, InOneLane, items
<1>2. target \subseteq target' /\ target' \subseteq 1..source /\ TargetIsClosed'
  BY WritingGrows DEF FlushUnanswered
<1>3. WorkGoesOn /\ ledger' = ledger
  BY <1>1, <1>2, BatchIs, FaultIs
     DEF FlushUnanswered, WorkGoesOn, IInv, TypeOK, run, token, recorder
<1>4. QED
  BY <1>1, <1>3, LosingWork

LEMMA FlushFailsKeeps ==
    ASSUME IInv, NEW batch \in Batches, FlushFails(batch)
    PROVE  IInv'
<1>1. Changing' = Changing /\ Copying' \subseteq Copying /\ InOneLane'
  BY DEF FlushFails, Changing, Copying, IInv, InOneLane
<1>2. target \subseteq target' /\ target' \subseteq 1..source /\ TargetIsClosed'
  <2>1. CASE target' = target
    BY <2>1 DEF IInv, TypeOK, TargetIsClosed
  <2>2. CASE target' = target \union Written(batch)
    BY <2>2, WritingGrows
  <2>3. QED
    BY <2>1, <2>2 DEF FlushFails
<1>3. WorkGoesOn
  BY <1>1, <1>2, BatchIs, FaultIs
     DEF FlushFails, Fails, WorkGoesOn, IInv, TypeOK, run, token, recorder
<1>4. QED
  BY <1>1, <1>3, LosingWork DEF FlushFails, Fails

\* What is done is done, and the rest of the batch is lost.
LEMMA FinishingAndLosingWork ==
    ASSUME IInv, WorkGoesOn, NEW D, D \subseteq Copying,
           ledger' = Complete(ledger, D), Changing' = Changing,
           Copying' \subseteq Copying \ D, cancelled',
           \A w \in D : Ancestry[w.rev] \subseteq Known'
    PROVE  IInv'
<1> DEFINE exact == phase # "off" /\ ~cancelled
           m == [known |-> Known', ledger |-> Complete(ledger, D), changing |-> Changing,
                 copying |-> Copying \ D]
<1>1. BooksAreSound(Books, source, exact) /\ source \in 0..Size
  BY SourceIs DEF IInv
<1>2. D \intersect Changing = {}
  BY WorkIs
<1>3. /\ m.ledger = Complete(Books.ledger, D) /\ Books.known \subseteq m.known
      /\ m.changing = Books.changing \ D /\ m.copying = Books.copying \ D
      /\ D \subseteq All(Books) /\ AccountsFor(m.known, Books, D)
  BY <1>2, KnownGrows DEF Books, WorkGoesOn, Changing, Copying, All, AccountsFor
<1>4. /\ Books'.ledger = m.ledger /\ m.known \subseteq Books'.known
      /\ Books'.changing \subseteq m.changing /\ Books'.copying \subseteq m.copying
  BY DEF Books, Changing, Copying
<1> HIDE DEF exact, m
<1>5. BooksAreSound(m, source, exact) /\ Pays(Books, m) /\ m.ledger.next = Books.ledger.next
  BY <1>1, <1>3, CompletingKeepsBooks
<1>6. BooksAreSound(Books', source, FALSE) /\ Pays(m, Books')
  BY <1>1, <1>4, <1>5, LosingKeepsBooks
<1>7. Pays(Books, Books') /\ ledger'.next = ledger.next
  BY <1>4, <1>5, <1>6, BooksAre DEF Pays, Books
<1>8. BooksAreSound(Books', source, phase # "off" /\ ~cancelled')
  BY <1>6
<1>9. QED
  BY <1>7, <1>8, WorkKeepsIInv

LEMMA FlushRejectedKeeps ==
    ASSUME IInv, NEW batch \in Batches, NEW rejected \in (SUBSET batch) \ {{}},
           FlushRejected(batch, rejected)
    PROVE  IInv'
<1> DEFINE docs == {Updates[w.rev].doc : w \in rejected}
           bad == {w \in batch : Updates[w.rev].doc \in docs}
<1>1. /\ Changing' = Changing /\ Copying' = Copying \ batch /\ InOneLane'
      /\ faults' \in 0..MaxFaults /\ rejected \subseteq bad /\ bad \subseteq batch
  BY BatchIs, FaultIs DEF FlushRejected, Changing, Copying, IInv, InOneLane
<1>2. target \subseteq target' /\ target' \subseteq 1..source /\ TargetIsClosed'
  <2>1. batch \ rejected \in SUBSET batch /\ target' = target \union Written(batch \ rejected)
    BY DEF FlushRejected
  <2>2. QED
    BY <2>1, WritingGrows
<1>3. \A w \in batch \ bad : Ancestry[w.rev] \subseteq Known'
  BY <1>1 DEF FlushRejected, Written, Known
<1>4. CASE session.opts.continueOnError
  <2>1. /\ ledger' = Complete(ledger, batch) /\ skipped' = skipped \union {w.rev : w \in bad}
        /\ session' = [session EXCEPT !.skips = TRUE] /\ UNCHANGED token
    BY <1>4 DEF FlushRejected
  <2>2. skipped \subseteq skipped' /\ skipped' \subseteq 1..source /\ phase = "running"
    BY <1>1, <2>1, BatchIs DEF IInv, TypeOK
  <2>3. WorkGoesOn
    BY <1>1, <1>2, <2>1, <2>2 DEF FlushRejected, WorkGoesOn, IInv, TypeOK, token, recorder
  <2>4. \A w \in batch : Ancestry[w.rev] \subseteq Known'
    BY <1>3, <2>1 DEF Known
  <2>5. Finishes(batch)
    BY <1>1, <2>4, BatchIs DEF Finishes, AccountsFor, Books, Changing
  <2>6. QED
    BY <2>1, <2>3, <2>5, FinishingWork DEF token
<1>5. CASE ~session.opts.continueOnError
  <2>1. PICK done \in SUBSET (batch \ bad) :
          ledger' = Complete(ledger, done) /\ Fails /\ UNCHANGED <<skipped, session>>
    BY <1>5 DEF FlushRejected
  <2>2. WorkGoesOn
    BY <1>1, <1>2, <2>1, BatchIs DEF FlushRejected, Fails, WorkGoesOn, IInv, TypeOK, recorder
  <2>3. done \subseteq Copying /\ Copying' \subseteq Copying \ done /\ cancelled'
    BY <1>1, <2>1, BatchIs DEF Fails
  <2>4. QED
    BY <1>1, <1>3, <2>1, <2>2, <2>3, FinishingAndLosingWork
<1>6. QED
  BY <1>4, <1>5

LEMMA DropKeeps ==
    ASSUME IInv, Drop
    PROVE  IInv'
<1>1. Changing' \subseteq Changing /\ Copying' \subseteq Copying /\ InOneLane'
  BY DEF Drop, Changing, Copying, IInv, InOneLane
<1>2. WorkGoesOn
  BY <1>1 DEF Drop, WorkGoesOn, IInv, TypeOK, TargetIsClosed, endpoints, run, token, recorder
<1>3. QED
  BY <1>1, <1>2, LosingWork DEF Drop, token

-----------------------------------------------------------------------------
(* The reader                                                               *)

\* What a step of the reader may touch, and what it owes.
ReaderGoesOn ==
    /\ phase = "running"
    /\ UNCHANGED <<source, target, srcCkpt, tgtCkpt, skipped, history, lastWritten, ckpts,
                   session, phase, result>>
    /\ cancelled' \in BOOLEAN /\ failed' \in BOOLEAN
    /\ faults' \in 0..MaxFaults
    /\ InOneLane' /\ ReaderIsSound'
    /\ reader'.at = "stopped" /\ ~cancelled' =>
         \A i \in Shown(session.from) : Owed(Books', i, ledger'.next)

\* The record of the reader.
ReaderIsTyped(r) ==
    r \in [at : {"fetch", "emit", "stopped"}, since : Seqs, last : Seqs, end : BOOLEAN,
           page : Seq([seq : Seqs, revs : SUBSET (1..Len(Updates))])]

\* A step of the reader keeps the invariant if it keeps the books, the reader and the session sound.
LEMMA ReadingKeepsIInv ==
    ASSUME IInv, ReaderGoesOn, ReaderIsTyped(reader'),
           BooksAreSound(Books', source, phase # "off" /\ ~cancelled')
    PROVE  IInv'
<1>1. IsLedger(ledger') /\ Changing' \subseteq Changes /\ Copying' \subseteq Work
  <2>1. IsLedger(Books'.ledger) /\ Books'.changing \subseteq Changes /\ Books'.copying \subseteq Work
    BY DEF BooksAreSound, LedgerHolds, Apart
  <2>2. QED
    BY <2>1 DEF Books, Changing, Copying
<1>2. TypeOK'
  BY <1>1 DEF IInv, TypeOK, ReaderGoesOn, ReaderIsTyped, Changing, Copying
<1>3. SessionIsSound'
  BY DEF IInv, SessionIsSound, ReaderGoesOn
<1>4. RecordsAreSafe'
  <2>1. Known \subseteq Known'
    BY DEF Known, ReaderGoesOn
  <2>2. QED
    BY <2>1, RecordsStaySafe DEF IInv, ReaderGoesOn
<1>5. BooksAreSound(Books, source, phase # "off" /\ ~cancelled)'
  BY DEF ReaderGoesOn
<1>6. TargetIsClosed'
  BY DEF IInv, TargetIsClosed, ReaderGoesOn
<1>7. QED
  BY <1>2, <1>3, <1>4, <1>5, <1>6 DEF IInv, ReaderGoesOn

\* What the invariant says of the reader, in the form the steps use.
LEMMA ReaderIs ==
    ASSUME IInv
    PROVE  /\ ReaderIsTyped(reader) /\ reader.since \in Nat /\ reader.last \in Nat
           /\ reader.page \in Seq([seq : Seqs, revs : SUBSET (1..Len(Updates))])
           /\ Len(reader.page) \in Nat
           /\ \A k \in 1..Len(reader.page) : reader.page[k].seq \in Nat
           /\ IsLedger(ledger) /\ ledger.next \in Nat
<1>1. reader.page \in Seq([seq : Seqs, revs : SUBSET (1..Len(Updates))]) /\ IsLedger(ledger)
      /\ ReaderIsTyped(reader) /\ reader.since \in Seqs /\ reader.last \in Seqs
  BY DEF IInv, TypeOK, ReaderIsTyped
<1>2. Seqs \subseteq Nat
  BY UpdatesAre DEF Seqs, Size
<1>3. \A k \in 1..Len(reader.page) : reader.page[k] \in [seq : Seqs, revs : SUBSET (1..Len(Updates))]
  BY <1>1, ElementOfSeq
<1>4. Len(reader.page) \in Nat /\ ledger.next \in Nat
  BY <1>1, LenProperties, EntriesAre
<1>5. QED
  BY <1>1, <1>2, <1>3, <1>4

\* Steps that leave the books as they are.
LEMMA SameBooks ==
    ASSUME IInv, UNCHANGED <<target, skipped, ledger, items>>, cancelled => cancelled'
    PROVE  /\ Books' = Books /\ InOneLane'
           /\ BooksAreSound(Books', source, phase # "off" /\ ~cancelled')
<1>1. Books' = Books /\ InOneLane'
  BY DEF Books, Known, InOneLane, items, IInv
<1>2. QED
  BY <1>1 DEF IInv, BooksAreSound, Counted

\* One lemma for each step of the reader (changes_reader.rs).
LEMMA ChunkDoneKeeps ==
    ASSUME IInv, ChunkDone
    PROVE  IInv'
<1>1. cancelled' = cancelled
  BY DEF ChunkDone, token
<1>2. /\ Books' = Books /\ InOneLane'
      /\ BooksAreSound(Books', source, phase # "off" /\ ~cancelled')
  BY <1>1, SameBooks DEF ChunkDone, endpoints
<1>3. /\ reader'.at = "fetch" /\ reader'.page = reader.page /\ reader'.since = reader.since
      /\ reader'.last = reader.last /\ ReaderIsTyped(reader')
  BY ReaderIs DEF ChunkDone, ReaderIsTyped
<1>4. ReaderIsSound'
  BY <1>2, <1>3 DEF ReaderIsSound, ChunkDone, IInv, endpoints, run
<1>5. ReaderGoesOn
  BY <1>2, <1>3, <1>4 DEF ReaderGoesOn, ChunkDone, IInv, TypeOK, endpoints, run, token, recorder
<1>6. QED
  BY <1>2, <1>3, <1>5, ReadingKeepsIInv

LEMMA FeedDropsKeeps ==
    ASSUME IInv, FeedDrops
    PROVE  IInv'
<1>1. cancelled' = cancelled /\ faults' \in 0..MaxFaults
  BY FaultIs DEF FeedDrops, token, IInv
<1>2. /\ Books' = Books /\ InOneLane'
      /\ BooksAreSound(Books', source, phase # "off" /\ ~cancelled')
  BY <1>1, SameBooks DEF FeedDrops, endpoints
<1>3. /\ reader'.at = "fetch" /\ reader'.page = <<>> /\ reader'.since = reader.since
      /\ reader'.last = reader.since /\ ReaderIsTyped(reader') /\ reader.since \in Nat
  <2>1. reader' = [reader EXCEPT !.at = "fetch", !.page = <<>>, !.last = reader.since]
    BY DEF FeedDrops
  <2>2. <<>> \in Seq([seq : Seqs, revs : SUBSET (1..Len(Updates))])
    BY EmptySeq
  <2>3. QED
    BY <2>1, <2>2, ReaderIs DEF ReaderIsTyped
<1>4. ReaderIsSound'
  <2>1. reader.since <= source /\ Promised(Books, source, reader.since, ledger.next)
    BY ReaderIs, SourceIs DEF ReaderIsSound, FeedDrops, IInv
  <2>2. PageIsSound(<<>>, reader.since, source)
    BY DEF PageIsSound
  <2>3. QED
    BY <1>2, <1>3, <2>1, <2>2 DEF ReaderIsSound, FeedDrops, Promised, endpoints, run
<1>5. ReaderGoesOn
  BY <1>1, <1>2, <1>3, <1>4 DEF ReaderGoesOn, FeedDrops, IInv, TypeOK, endpoints, run, token, recorder
<1>6. QED
  BY <1>2, <1>3, <1>5, ReadingKeepsIInv

\* A reader that stops holds no page.
LEMMA StoppedReaderIsTyped ==
    ASSUME IInv, reader' = [reader EXCEPT !.at = "stopped", !.page = <<>>]
    PROVE  reader'.at = "stopped" /\ ReaderIsTyped(reader')
<1>1. <<>> \in Seq([seq : Seqs, revs : SUBSET (1..Len(Updates))])
  BY EmptySeq
<1>2. QED
  BY <1>1, ReaderIs DEF ReaderIsTyped

LEMMA ReadFailsKeeps ==
    ASSUME IInv, ReadFails
    PROVE  IInv'
<1>1. cancelled' = TRUE /\ failed' = TRUE /\ faults' \in 0..MaxFaults
  BY FaultIs DEF ReadFails, Fails, IInv
<1>2. /\ Books' = Books /\ InOneLane'
      /\ BooksAreSound(Books', source, phase # "off" /\ ~cancelled')
  BY <1>1, SameBooks DEF ReadFails, endpoints
<1>3. reader'.at = "stopped" /\ ReaderIsTyped(reader')
  BY StoppedReaderIsTyped DEF ReadFails
<1>4. ReaderGoesOn
  BY <1>1, <1>2, <1>3 DEF ReaderGoesOn, ReaderIsSound, ReadFails, endpoints, run, recorder
<1>5. QED
  BY <1>2, <1>3, <1>4, ReadingKeepsIInv

\* What the reader's invariant says while it reads.
LEMMA Reading ==
    ASSUME IInv, phase = "running", reader.at # "stopped"
    PROVE  /\ reader.since <= reader.last /\ reader.last <= source
           /\ PageIsSound(reader.page, reader.last, source)
           /\ Promised(Books, source, reader.since, ledger.next)
           /\ \A i \in Shown(source) : Row(i, source) <= reader.last =>
                \/ Owed(Books, i, ledger.next)
                \/ \E k \in 1..Len(reader.page) :
                     reader.page[k].seq = Row(i, source) /\ Brings(reader.page[k], i)
           /\ reader.at = "fetch" => reader.page = <<>>
           /\ ~session.opts.continuous =>
                /\ reader.at = "fetch" => reader.since = reader.last /\ ~reader.end
                /\ \A i \in Shown(session.from) :
                     \/ Owed(Books, i, ledger.next)
                     \/ \E k \in 1..Len(reader.page) : Brings(reader.page[k], i)
                     \/ ~reader.end /\ Row(i, source) > reader.last
           /\ Shown(session.from) \subseteq Shown(source)
           /\ \A i \in Shown(source) : Row(i, source) \in Nat
<1>1. session.from <= source /\ session.from \in Nat /\ source \in Nat /\ source \in 0..Size
  BY SourceIs, UpdatesAre DEF IInv, SessionIsSound, TypeOK, Seqs, Size
<1>2. Shown(session.from) \subseteq Shown(source)
  BY <1>1 DEF Shown
<1>3. \A i \in Shown(source) : Row(i, source) \in Nat
  BY <1>1, RowIs DEF Shown
<1>4. QED
  BY <1>2, <1>3 DEF IInv, ReaderIsSound

\* A page: the first rows of those to come.
Paged(rows, last, page) ==
    /\ last = IF Len(rows) >= PageSize THEN rows[PageSize].seq ELSE source
    /\ page = SubSeq(rows, 1, Min({Len(rows), PageSize}))

\* What a page of the feed is, wherever the limit cuts it.
LEMMA PageIs ==
    ASSUME IInv, reader.since \in 0..source, NEW rows, rows = RowsAfter(reader.since, source),
           NEW last, NEW page, Paged(rows, last, page)
    PROVE  /\ last \in Seqs /\ reader.since <= last /\ last <= source
           /\ page \in Seq([seq : Seqs, revs : SUBSET (1..Len(Updates))])
           /\ PageIsSound(page, last, source)
           /\ \A i \in Shown(source) :
                reader.since < Row(i, source) /\ Row(i, source) <= last =>
                  \E k \in 1..Len(page) : page[k].seq = Row(i, source) /\ Brings(page[k], i)
<1> DEFINE E == [seq : Seqs, revs : SUBSET (1..Len(Updates))]
           N == Len(rows)
           m == Min({Len(rows), PageSize})
<1>1. source \in 0..Size /\ source \in Nat /\ source <= Size /\ Size \in Nat
  BY SourceIs, UpdatesAre DEF IInv
<1>2. /\ rows \in Seq(E) /\ N \in Nat
      /\ \A k \in 1..N : /\ rows[k].seq \in 1..source /\ rows[k].seq > reader.since
                         /\ rows[k].revs \subseteq 1..source /\ Unrelated(rows[k].revs)
      /\ \A j, k \in 1..N : j < k => rows[j].seq < rows[k].seq
      /\ \A i \in Shown(source) : Row(i, source) > reader.since =>
           \E k \in 1..N : rows[k].seq = Row(i, source) /\ Brings(rows[k], i)
  BY <1>1, RowsAfterAre DEF Seqs, Size
<1>3. PageSize \in Nat /\ PageSize > 0
  BY ReplicationAssumption DEF ReplicationAssumption
<1>4. m \in {N, PageSize} /\ m <= N /\ m <= PageSize /\ m \in Nat
  <2>1. {N, PageSize} \in SUBSET Nat /\ {N, PageSize} # {}
    BY <1>2, <1>3
  <2>2. m \in {N, PageSize} /\ \A y \in {N, PageSize} : m <= y
    BY <2>1, MinIsLeast
  <2>3. QED
    BY <2>1, <2>2
<1>0. page = SubSeq(rows, 1, m) /\ last = IF N >= PageSize THEN rows[PageSize].seq ELSE source
  BY DEF Paged
<1> HIDE DEF N, m, E
<1>5. page \in Seq(E) /\ Len(page) = m /\ \A k \in 1..m : page[k] = rows[k]
  <2>1. page = SubSeq(rows, 1, m) /\ Len(rows) = N
    BY <1>0 DEF N
  <2>2. rows \in Seq(E) /\ \A k \in 1..m : rows[k] \in E
    BY <1>2, <1>4, <2>1, ElementOfSeq
  <2>3. m \in Int /\ 1 \in Int /\ \A k \in 1..m : rows[k] \in E
    BY <1>4, <2>2
  <2>4. /\ SubSeq(rows, 1, m) \in Seq(E)
        /\ Len(SubSeq(rows, 1, m)) = IF 1 <= m THEN m - 1 + 1 ELSE 0
        /\ \A k \in 1..(m - 1 + 1) : SubSeq(rows, 1, m)[k] = rows[1 + k - 1]
    BY <2>3, SubSeqProperties
  <2>5. m - 1 + 1 = m /\ (~(1 <= m) => m = 0) /\ \A k \in 1..m : 1 + k - 1 = k
    BY <1>4
  <2>6. QED
    BY <2>1, <2>4, <2>5
<1>6. last \in 0..source /\ reader.since <= last
      /\ \A k \in 1..m : rows[k].seq <= last
  <2>1. CASE N >= PageSize
    <3>1. PageSize \in 1..N /\ last = rows[PageSize].seq
      BY <1>0, <1>2, <1>3, <2>1
    <3>2. last \in 1..source /\ last > reader.since
      BY <1>2, <3>1
    <3>3. ASSUME NEW k \in 1..m PROVE rows[k].seq <= last
      <4>1. k \in 1..N /\ (k < PageSize \/ k = PageSize)
        BY <1>2, <1>3, <1>4
      <4>2. rows[k].seq \in 1..source
        BY <1>2, <4>1
      <4>3. k < PageSize => rows[k].seq < rows[PageSize].seq
        BY <1>2, <3>1, <4>1
      <4>4. QED
        BY <1>1, <3>1, <3>2, <4>1, <4>2, <4>3
    <3>4. QED
      BY <1>1, <3>2, <3>3
  <2>2. CASE ~(N >= PageSize)
    <3>1. last = source /\ \A k \in 1..m : k \in 1..N
      BY <1>0, <1>2, <1>4, <2>2
    <3>2. QED
      BY <1>1, <1>2, <3>1
  <2>3. QED
    BY <2>1, <2>2
<1>7. PageIsSound(page, last, source)
  <2>1. \A k \in 1..m : k \in 1..N /\ page[k] = rows[k]
    <3>1. \A k \in 1..m : k \in 1..N
      BY <1>2, <1>4
    <3>2. QED
      BY <1>5, <3>1
  <2>2. \A k \in 1..m : /\ page[k].seq <= last /\ page[k].revs \subseteq 1..source
                         /\ Unrelated(page[k].revs)
    BY <1>2, <1>6, <2>1
  <2>3. \A j, k \in 1..m : j < k => page[j].seq < page[k].seq
    BY <1>2, <2>1
  <2>4. QED
    BY <1>5, <2>2, <2>3 DEF PageIsSound
<1>8. ASSUME NEW i \in Shown(source), reader.since < Row(i, source), Row(i, source) <= last
      PROVE  \E k \in 1..m : page[k].seq = Row(i, source) /\ Brings(page[k], i)
  <2>1. Row(i, source) \in Nat
    BY <1>1, RowIs DEF Shown
  <2>2. PICK k \in 1..N : rows[k].seq = Row(i, source) /\ Brings(rows[k], i)
    BY <1>2, <1>8, <2>1
  <2>3. k <= m
    <3>1. CASE N >= PageSize
      <4>1. PageSize \in 1..N /\ last = rows[PageSize].seq /\ m = PageSize
        BY <1>0, <1>2, <1>3, <1>4, <3>1
      <4>2. PageSize < k => rows[PageSize].seq < rows[k].seq
        BY <1>2, <4>1
      <4>3. rows[PageSize].seq \in Nat
        BY <1>2, <4>1
      <4>4. QED
        BY <1>3, <1>8, <2>1, <2>2, <4>1, <4>2, <4>3
    <3>2. CASE ~(N >= PageSize)
      BY <1>0, <1>2, <1>3, <1>4, <3>2
    <3>3. QED
      BY <3>1, <3>2
  <2>4. k \in 1..m
    BY <1>2, <1>4, <2>3
  <2>5. QED
    BY <1>5, <2>2, <2>4
<1>9. last \in Seqs
  BY <1>1, <1>6 DEF Seqs, Size
<1>10. QED
  BY <1>5, <1>6, <1>7, <1>8, <1>9 DEF E

LEMMA FetchPageKeeps ==
    ASSUME IInv, FetchPage
    PROVE  IInv'
<1> DEFINE rows == RowsAfter(reader.since, source)
           full == Len(rows) >= PageSize
           last == IF full THEN rows[PageSize].seq ELSE source
           page == SubSeq(rows, 1, Min({Len(rows), PageSize}))
<1>1. phase = "running" /\ reader.at = "fetch" /\ ~cancelled /\ cancelled' = cancelled
      /\ reader' = [reader EXCEPT !.at = "emit", !.page = page, !.last = last, !.end = last = source]
  BY DEF FetchPage, token
<1>2. /\ Books' = Books /\ InOneLane'
      /\ BooksAreSound(Books', source, phase # "off" /\ ~cancelled')
  BY <1>1, SameBooks DEF FetchPage, endpoints
<1>3. /\ last \in Seqs /\ reader.since <= last /\ last <= source
      /\ page \in Seq([seq : Seqs, revs : SUBSET (1..Len(Updates))])
      /\ PageIsSound(page, last, source)
      /\ \A i \in Shown(source) :
           reader.since < Row(i, source) /\ Row(i, source) <= last =>
             \E k \in 1..Len(page) : page[k].seq = Row(i, source) /\ Brings(page[k], i)
  <2>1. reader.since \in 0..source
    BY <1>1, Reading, ReaderIs, SourceIs DEF IInv
  <2> HIDE DEF rows
  <2>2. rows = RowsAfter(reader.since, source) /\ Paged(rows, last, page)
    BY DEF rows, Paged
  <2> HIDE DEF last, page, full
  <2>3. QED
    BY <2>1, <2>2, PageIs
<1> HIDE DEF last, page, rows, full
<1>4. /\ reader'.at = "emit" /\ reader'.page = page /\ reader'.since = reader.since
      /\ reader'.last = last /\ (reader'.end <=> last = source) /\ ReaderIsTyped(reader')
  BY <1>1, <1>3, ReaderIs DEF ReaderIsTyped
<1>5. /\ Promised(Books, source, reader.since, ledger.next)
      /\ ~session.opts.continuous =>
           /\ reader.since = reader.last
           /\ \A i \in Shown(session.from) :
                Owed(Books, i, ledger.next) \/ Row(i, source) > reader.last
      /\ Shown(session.from) \subseteq Shown(source)
      /\ \A i \in Shown(source) : Row(i, source) \in Nat
      /\ Len(reader.page) = 0
  <2>1. reader.page = <<>>
    BY <1>1, Reading
  <2>2. Len(reader.page) = 0
    BY <2>1
  <2>3. QED
    BY <1>1, <2>2, Reading
<1>6. source \in Nat /\ last \in Nat /\ reader.since \in Nat /\ reader.last \in Nat
  BY <1>3, SourceIs, UpdatesAre, ReaderIs DEF IInv, Seqs, Size
<1>7. ASSUME NEW i \in Shown(source)
      PROVE  \/ Owed(Books, i, ledger.next)
             \/ \E k \in 1..Len(page) : page[k].seq = Row(i, source) /\ Brings(page[k], i)
             \/ Row(i, source) > last
  BY <1>3, <1>5, <1>6 DEF Promised
<1>8. \A i \in Shown(source) : Row(i, source) <= source
  BY SourceIs, RowIs DEF IInv, Shown
<1>9. ReaderIsSound'
  <2>1. \A i \in Shown(source) : Row(i, source) <= last =>
          \/ Owed(Books, i, ledger.next)
          \/ \E k \in 1..Len(page) : page[k].seq = Row(i, source) /\ Brings(page[k], i)
    BY <1>5, <1>6, <1>7
  <2>2. \A i \in Shown(session.from) :
          \/ Owed(Books, i, ledger.next)
          \/ \E k \in 1..Len(page) : Brings(page[k], i)
          \/ last # source /\ Row(i, source) > last
    BY <1>5, <1>6, <1>7, <1>8
  <2>3. UNCHANGED <<source, session, ledger>>
    BY DEF FetchPage, endpoints, run
  <2>4. QED
    BY <1>2, <1>3, <1>4, <1>5, <2>1, <2>2, <2>3 DEF ReaderIsSound
<1>10. ReaderGoesOn
  BY <1>1, <1>2, <1>4, <1>9 DEF ReaderGoesOn, FetchPage, IInv, TypeOK, endpoints, run, token, recorder
<1>11. QED
  BY <1>2, <1>4, <1>10, ReadingKeepsIInv

\* The barrier at the end of a page: nothing up to it is left out of the books.
LEMMA MarkingKeepsBooks ==
    ASSUME NEW n \in 0..Size, NEW exact, NEW b, BooksAreSound(b, n, exact),
           NEW s \in 0..n, \A i \in Shown(n) : Row(i, n) <= s => Owed(b, i, b.ledger.next),
           NEW a, a.known = b.known, a.changing = b.changing, a.copying = b.copying,
           a.ledger = RegisterDone(b.ledger, s)
    PROVE  BooksAreSound(a, n, exact) /\ Pays(b, a) /\ a.ledger.next = b.ledger.next + 1
<1> DEFINE e == [seq |-> s, pending |-> 0]
           m == [known |-> b.known, ledger |-> Enter(b.ledger, e), changing |-> b.changing,
                 copying |-> b.copying]
<1>1. m.known = b.known /\ m.ledger = Enter(b.ledger, e) /\ m.changing = b.changing
      /\ m.copying = b.copying /\ a.ledger = Advance(m.ledger)
  BY DEF RegisterDone
<1>2. e \in Entry /\ e.seq = s /\ e.pending = 0 /\ e.seq <= n /\ n \in Nat
  BY UpdatesAre DEF Entry
<1> HIDE DEF m, e
<1>3. Enters(b, m, e, {}, n, exact, exact)
  <2>1. \A i \in Shown(n) : Row(i, n) <= e.seq => Owed(b, i, b.ledger.next)
    BY <1>2
  <2>2. m.changing = b.changing \union {}
    BY <1>1
  <2>3. /\ m.known = b.known /\ m.copying = b.copying /\ m.ledger = Enter(b.ledger, e)
        /\ e \in Entry /\ e.seq <= n /\ e.pending \in {0, 1}
    BY <1>1, <1>2
  <2>4. exact => exact /\ ({} = {} => e.pending = 0)
    BY <1>2
  <2>5. QED
    BY <2>1, <2>2, <2>3, <2>4 DEF Enters
<1>4. BooksAreSound(m, n, exact) /\ Pays(b, m) /\ m.ledger.next = b.ledger.next + 1
  BY <1>3, EnteringKeepsBooks
<1>5. BooksAreSound(a, n, exact) /\ Pays(m, a) /\ a.ledger.next = m.ledger.next
  BY <1>1, <1>4, AdvanceKeepsBooks
<1>6. QED
  BY <1>4, <1>5 DEF Pays

\* With no row left, all that is listed up to last is in the books.
LEMMA PageIsRead ==
    ASSUME IInv, phase = "running", reader.at # "stopped", reader.page = <<>>,
           UNCHANGED <<source, target, skipped, items>>, ledger' = RegisterDone(ledger, reader.last),
           cancelled => cancelled'
    PROVE  /\ BooksAreSound(Books', source, phase # "off" /\ ~cancelled')
           /\ \A i : Owed(Books, i, ledger.next) => Owed(Books', i, ledger'.next)
           /\ \A i \in Shown(source) : Row(i, source) <= reader.last => Owed(Books, i, ledger.next)
           /\ InOneLane'
<1> DEFINE exact == phase # "off" /\ ~cancelled
           exactly == phase # "off" /\ ~cancelled'
<1>1. BooksAreSound(Books, source, exact) /\ source \in 0..Size /\ (exactly => exact)
  BY SourceIs DEF IInv
<1>2. \A i \in Shown(source) : Row(i, source) <= reader.last => Owed(Books, i, ledger.next)
  <2>1. Len(reader.page) = 0
    OBVIOUS
  <2>2. QED
    BY <2>1, Reading
<1>3. reader.last \in 0..source
  BY Reading, ReaderIs, SourceIs DEF IInv
<1>4. /\ Books'.known = Books.known /\ Books'.changing = Books.changing
      /\ Books'.copying = Books.copying /\ Books'.ledger = RegisterDone(Books.ledger, reader.last)
      /\ Books.ledger = ledger /\ Books'.ledger = ledger'
  BY DEF Books, Known, items
<1> HIDE DEF exact, exactly
<1>5. \A i \in Shown(source) : Row(i, source) <= reader.last => Owed(Books, i, Books.ledger.next)
  BY <1>2, <1>4
<1>6. BooksAreSound(Books', source, exact) /\ Pays(Books, Books')
      /\ Books'.ledger.next = Books.ledger.next + 1
  BY <1>1, <1>3, <1>4, <1>5, MarkingKeepsBooks
<1>7. BooksAreSound(Books', source, exactly)
  BY <1>1, <1>6 DEF BooksAreSound, Counted
<1>8. \A i : Owed(Books, i, ledger.next) => Owed(Books', i, ledger'.next)
  <2>1. IsLedger(Books.ledger) /\ IsLedger(Books'.ledger)
    BY <1>1, <1>6 DEF BooksAreSound, LedgerHolds
  <2>2. Books.ledger.next <= Books'.ledger.next
    BY <1>6, <2>1, EntriesAre
  <2>3. QED
    BY <1>4, <1>6, <2>1, <2>2, OwedLater
<1>9. InOneLane'
  BY DEF IInv, InOneLane, items
<1>10. QED
  BY <1>2, <1>7, <1>8, <1>9 DEF exactly

LEMMA PageDoneKeeps ==
    ASSUME IInv, PageDone
    PROVE  IInv'
<1>1. /\ phase = "running" /\ reader.at = "emit" /\ ~session.opts.continuous
      /\ reader.page = <<>> /\ cancelled' = cancelled
      /\ UNCHANGED <<source, target, skipped, items, session>>
      /\ ledger' = RegisterDone(ledger, reader.last)
  BY DEF PageDone, endpoints, run, token
<1>2. /\ BooksAreSound(Books', source, phase # "off" /\ ~cancelled')
      /\ \A i : Owed(Books, i, ledger.next) => Owed(Books', i, ledger'.next)
      /\ \A i \in Shown(source) : Row(i, source) <= reader.last => Owed(Books, i, ledger.next)
      /\ InOneLane'
  BY <1>1, PageIsRead
<1>3. /\ reader'.at = (IF reader.end THEN "stopped" ELSE "fetch")
      /\ reader'.page = <<>> /\ reader'.since = reader.last /\ reader'.last = reader.last
      /\ reader'.end = reader.end /\ ReaderIsTyped(reader')
  <2>1. reader' = [reader EXCEPT !.at = IF reader.end THEN "stopped" ELSE "fetch",
                                 !.since = reader.last]
    BY DEF PageDone
  <2>2. QED
    BY <1>1, <2>1, ReaderIs DEF ReaderIsTyped
<1>4. /\ reader.last <= source /\ reader.last <= reader.last
      /\ PageIsSound(<<>>, reader.last, source) /\ Len(reader.page) = 0
  BY <1>1, Reading, ReaderIs
<1>5. \A i \in Shown(session.from) :
        Owed(Books', i, ledger'.next) \/ (~reader.end /\ Row(i, source) > reader.last)
  BY <1>1, <1>2, <1>4, Reading
<1>6. ReaderIsSound'
  BY <1>1, <1>2, <1>3, <1>4, <1>5 DEF ReaderIsSound, Promised
<1>7. reader'.at = "stopped" => \A i \in Shown(session.from) : Owed(Books', i, ledger'.next)
  BY <1>3, <1>5
<1>8. ReaderGoesOn
  BY <1>1, <1>2, <1>6, <1>7 DEF ReaderGoesOn, PageDone, IInv, TypeOK, endpoints, run, token, recorder
<1>9. QED
  BY <1>2, <1>3, <1>8, ReadingKeepsIInv

LEMMA FeedEndsKeeps ==
    ASSUME IInv, FeedEnds
    PROVE  IInv'
<1>1. /\ phase = "running" /\ reader.at # "stopped" /\ reader.page = <<>>
      /\ UNCHANGED <<source, target, skipped, items>>
      /\ ledger' = RegisterDone(ledger, reader.last)
      /\ cancelled' = TRUE /\ failed' = TRUE /\ faults' \in 0..MaxFaults
  BY FaultIs DEF FeedEnds, Fails, endpoints, IInv
<1>2. BooksAreSound(Books', source, phase # "off" /\ ~cancelled') /\ InOneLane'
  BY <1>1, PageIsRead
<1>3. reader'.at = "stopped" /\ ReaderIsTyped(reader')
  BY ReaderIs DEF FeedEnds, ReaderIsTyped
<1>4. ReaderGoesOn
  BY <1>1, <1>2, <1>3 DEF ReaderGoesOn, ReaderIsSound, FeedEnds, endpoints, run, recorder
<1>5. QED
  BY <1>2, <1>3, <1>4, ReadingKeepsIInv

\* The first row of a page.
LEMMA FirstRow ==
    ASSUME IInv, phase = "running", reader.at # "stopped", reader.page # <<>>
    PROVE  LET row == Head(reader.page)
           IN  /\ row.seq \in 0..source /\ row.seq <= reader.last /\ row.seq \in Seqs
               /\ row.revs \subseteq 1..source /\ Unrelated(row.revs)
               /\ [seq |-> row.seq, pending |-> 1] \in Entry
               /\ Tail(reader.page) \in Seq([seq : Seqs, revs : SUBSET (1..Len(Updates))])
               /\ PageIsSound(Tail(reader.page), reader.last, source)
               /\ \A k \in 1..Len(reader.page) :
                    /\ row.seq <= reader.page[k].seq
                    /\ reader.page[k].seq = row.seq => reader.page[k] = row
                    /\ \/ reader.page[k] = row
                       \/ \E j \in 1..Len(Tail(reader.page)) : Tail(reader.page)[j] = reader.page[k]
<1> DEFINE page == reader.page
           E == [seq : Seqs, revs : SUBSET (1..Len(Updates))]
           row == Head(page)
           rest == Tail(page)
<1>1. page \in Seq(E) /\ Len(page) \in Nat /\ PageIsSound(page, reader.last, source)
      /\ reader.last <= source /\ reader.last \in Nat /\ source \in Nat
      /\ \A k \in 1..Len(page) : page[k].seq \in Nat
  BY ReaderIs, Reading, SourceIs DEF IInv
<1>2. Len(page) # 0 /\ 1 \in 1..Len(page)
  BY <1>1, EmptySeq
<1>3. row = page[1] /\ row \in E /\ rest \in Seq(E) /\ Len(rest) = Len(page) - 1
      /\ \A j \in 1..Len(rest) : rest[j] = page[j + 1]
  <2>1. page \in Seq(E) /\ page # <<>>
    BY <1>1
  <2>2. row \in E /\ rest \in Seq(E) /\ Len(rest) = Len(page) - 1
    BY <2>1, HeadTailProperties
  <2>3. \A j \in 1..Len(rest) : rest[j] = page[j + 1]
    BY <2>1, HeadTailProperties
  <2>4. row = page[1]
    BY DEF Head
  <2>5. QED
    BY <2>2, <2>3, <2>4
<1>4. \A k \in 1..Len(page) : row.seq <= page[k].seq /\ (page[k].seq = row.seq => k = 1)
  BY <1>1, <1>2, <1>3 DEF PageIsSound
<1>5. \A k \in 1..Len(page) : k = 1 \/ (k - 1 \in 1..Len(rest) /\ rest[k - 1] = page[k])
  BY <1>1, <1>3
<1>6. PageIsSound(rest, reader.last, source)
  <2>1. \A j \in 1..Len(rest) : j + 1 \in 1..Len(page) /\ rest[j] = page[j + 1]
    BY <1>1, <1>3
  <2>2. \A j, k \in 1..Len(rest) : j < k => j + 1 < k + 1
    BY <1>1, <1>3
  <2>3. QED
    BY <1>1, <2>1, <2>2 DEF PageIsSound
<1>7. row.seq \in Nat /\ row.seq <= reader.last /\ row.seq \in Seqs
      /\ row.revs \subseteq 1..source /\ Unrelated(row.revs)
  BY <1>1, <1>2, <1>3 DEF PageIsSound
<1>8. row.seq \in 0..source /\ [seq |-> row.seq, pending |-> 1] \in Entry
  BY <1>1, <1>7 DEF Entry
<1>9. QED
  BY <1>3, <1>4, <1>5, <1>6, <1>7, <1>8

LEMMA EmitKeeps ==
    ASSUME IInv, Emit
    PROVE  IInv'
<1> DEFINE row == Head(reader.page)
           rest == Tail(reader.page)
           e == [seq |-> row.seq, pending |-> 1]
           c == [ord |-> ledger.next, revs |-> row.revs]
           exact == phase # "off" /\ ~cancelled
           since == IF session.opts.continuous THEN row.seq ELSE reader.since
<1>1. /\ phase = "running" /\ reader.at = "emit" /\ reader.page # <<>> /\ cancelled' = cancelled
      /\ ledger' = Enter(ledger, e) /\ changes' = changes \union {c}
      /\ reader' = [reader EXCEPT !.page = rest, !.since = since]
      /\ UNCHANGED <<source, target, skipped, missing, units, atts, fetched, session, phase>>
  BY DEF Emit, Register, endpoints, run, token
<1>2. /\ row.seq \in 0..source /\ row.seq <= reader.last /\ row.seq \in Seqs
      /\ row.revs \subseteq 1..source /\ Unrelated(row.revs) /\ e \in Entry
      /\ rest \in Seq([seq : Seqs, revs : SUBSET (1..Len(Updates))])
      /\ PageIsSound(rest, reader.last, source)
      /\ \A k \in 1..Len(reader.page) :
           /\ row.seq <= reader.page[k].seq
           /\ reader.page[k].seq = row.seq => reader.page[k] = row
           /\ reader.page[k] = row \/ \E j \in 1..Len(rest) : rest[j] = reader.page[k]
  BY <1>1, FirstRow
<1> HIDE DEF row, rest
<1>3. BooksAreSound(Books, source, exact) /\ source \in 0..Size /\ source \in Nat /\ source <= Size
      /\ IsLedger(ledger) /\ ledger.next \in Nat
  BY SourceIs, ReaderIs DEF IInv
<1>4. c \in Changes /\ c.ord = ledger.next /\ c.revs = row.revs
  BY <1>2, <1>3 DEF Changes, Size
<1>5. e \in Entry /\ e.seq = row.seq /\ e.pending = 1
  BY <1>2
<1>6. \A i \in Shown(source) : Row(i, source) <= row.seq =>
        Owed(Books, i, ledger.next) \/ Brings(row, i)
  <2> TAKE i \in Shown(source)
  <2> HAVE Row(i, source) <= row.seq
  <2>1. Row(i, source) <= reader.last /\ Row(i, source) \in Nat /\ row.seq \in Nat
    BY <1>1, <1>2, <1>3, Reading, ReaderIs
  <2>2. \/ Owed(Books, i, ledger.next)
        \/ \E k \in 1..Len(reader.page) :
             reader.page[k].seq = Row(i, source) /\ Brings(reader.page[k], i)
    BY <1>1, <2>1, Reading
  <2>3. ASSUME NEW k \in 1..Len(reader.page),
               reader.page[k].seq = Row(i, source), Brings(reader.page[k], i)
        PROVE  Brings(row, i)
    <3>1. reader.page[k].seq = row.seq
      BY <1>2, <2>1, <2>3
    <3>2. QED
      BY <1>2, <2>3, <3>1
  <2>4. QED
    BY <2>2, <2>3
<1>7. /\ Books'.known = Books.known /\ Books'.copying = Books.copying
      /\ Books'.changing = Books.changing \union {c} /\ Books'.ledger = Enter(Books.ledger, e)
      /\ Books.ledger = ledger /\ Books'.ledger = ledger'
  BY <1>1 DEF Books, Known
<1> HIDE DEF c, e, exact
<1>8. Enters(Books, Books', e, {c}, source, exact, exact)
  <2>1. \A i \in Shown(source) : Row(i, source) <= e.seq =>
          \/ Owed(Books, i, Books.ledger.next)
          \/ \E x \in {c} : \E j \in x.revs : i \in Ancestry[j]
    BY <1>4, <1>5, <1>6, <1>7 DEF Brings
  <2>2. {c} # {} /\ (\E x : {c} = {x}) /\ {c} \subseteq Changes
    BY <1>4
  <2>3. \A x \in {c} : x.ord = Books.ledger.next /\ x.revs \subseteq 1..source /\ Unrelated(x.revs)
    BY <1>2, <1>4, <1>7
  <2>4. e.seq <= source
    BY <1>2, <1>3, <1>5
  <2>5. QED
    BY <1>5, <1>7, <2>1, <2>2, <2>3, <2>4 DEF Enters
<1>9. BooksAreSound(Books', source, exact) /\ Pays(Books, Books') /\ ledger'.next = ledger.next + 1
      /\ IsLedger(ledger')
  <2>1. BooksAreSound(Books', source, exact) /\ Pays(Books, Books')
        /\ Books'.ledger.next = Books.ledger.next + 1
    BY <1>3, <1>8, EnteringKeepsBooks
  <2>2. QED
    BY <1>7, <2>1 DEF BooksAreSound, LedgerHolds
<1>10. \A i : Owed(Books, i, ledger.next) => Owed(Books', i, ledger'.next)
  <2>1. Books.ledger.next <= Books'.ledger.next /\ IsLedger(Books.ledger) /\ IsLedger(Books'.ledger)
    BY <1>3, <1>7, <1>9
  <2>2. QED
    BY <1>7, <1>9, <2>1, OwedLater
<1>11. \A i : Brings(row, i) => Owed(Books', i, ledger'.next)
  <2> SUFFICES ASSUME NEW i, Brings(row, i) PROVE Owed(Books', i, ledger'.next)
    OBVIOUS
  <2>1. Bears(Books', ledger.next, i)
    BY <1>4, <1>7 DEF Bears, Brings
  <2>2. ledger.next \in DOMAIN Books'.ledger.entries /\ ledger.next <= ledger'.next
    BY <1>3, <1>5, <1>7, <1>9, EnterIs
  <2>3. QED
    BY <2>1, <2>2 DEF Owed, Carries
<1>12. /\ reader'.at = "emit" /\ reader'.page = rest /\ reader'.since = since
       /\ reader'.last = reader.last /\ reader'.end = reader.end /\ ReaderIsTyped(reader')
       /\ since <= reader.last
  <2>1. since \in Seqs /\ since <= reader.last
    BY <1>1, <1>2, ReaderIs, Reading DEF ReaderIsTyped
  <2> HIDE DEF since
  <2>2. QED
    BY <1>1, <1>2, <2>1, ReaderIs DEF ReaderIsTyped
<1>13. ReaderIsSound'
  <2>1. Promised(Books', source, since, ledger'.next)
    BY <1>1, <1>6, <1>10, <1>11, Reading DEF Promised
  <2>2. \A i \in Shown(source) : Row(i, source) <= reader.last =>
          \/ Owed(Books', i, ledger'.next)
          \/ \E j \in 1..Len(rest) : rest[j].seq = Row(i, source) /\ Brings(rest[j], i)
    <3> TAKE i \in Shown(source)
    <3> HAVE Row(i, source) <= reader.last
    <3>1. CASE Owed(Books, i, ledger.next)
      BY <1>10, <3>1
    <3>2. ASSUME NEW k \in 1..Len(reader.page),
                 reader.page[k].seq = Row(i, source), Brings(reader.page[k], i)
          PROVE  \/ Owed(Books', i, ledger'.next)
                 \/ \E j \in 1..Len(rest) : rest[j].seq = Row(i, source) /\ Brings(rest[j], i)
      BY <1>2, <1>11, <3>2
    <3>3. QED
      BY <1>1, <3>1, <3>2, Reading
  <2>3. ~session.opts.continuous => \A i \in Shown(session.from) :
          \/ Owed(Books', i, ledger'.next)
          \/ \E j \in 1..Len(rest) : Brings(rest[j], i)
          \/ ~reader.end /\ Row(i, source) > reader.last
    <3> HAVE ~session.opts.continuous
    <3> TAKE i \in Shown(session.from)
    <3>1. CASE Owed(Books, i, ledger.next)
      BY <1>10, <3>1
    <3>2. ASSUME NEW k \in 1..Len(reader.page), Brings(reader.page[k], i)
          PROVE  Owed(Books', i, ledger'.next) \/ \E j \in 1..Len(rest) : Brings(rest[j], i)
      BY <1>2, <1>11, <3>2
    <3>3. QED
      BY <1>1, <3>1, <3>2, Reading
  <2>4. reader.last <= source
    BY <1>1, Reading
  <2> HIDE DEF since
  <2>5. QED
    BY <1>1, <1>2, <1>12, <2>1, <2>2, <2>3, <2>4 DEF ReaderIsSound
<1>14. InOneLane'
  <2>1. c \notin missing
    <3>1. \A x \in missing : x.ord \in DOMAIN ledger.entries
      BY <1>3 DEF BooksAreSound, Counted, Books
    <3>2. QED
      BY <1>3, <1>4, <3>1, EntriesAre
  <2>2. QED
    BY <1>1, <2>1 DEF IInv, InOneLane
<1>15. ReaderGoesOn
  BY <1>1, <1>12, <1>13, <1>14
     DEF ReaderGoesOn, Emit, IInv, TypeOK, endpoints, run, token, recorder
<1>16. QED
  BY <1>1, <1>9, <1>12, <1>15, ReadingKeepsIInv DEF exact

LEMMA ReaderStopsKeeps ==
    ASSUME IInv, ReaderStops
    PROVE  IInv'
<1>1. /\ phase = "running" /\ reader.at # "stopped" /\ cancelled /\ cancelled' = cancelled
      /\ failed' \in BOOLEAN
      /\ UNCHANGED <<source, target, skipped, items, session, phase, result, faults>>
  BY DEF ReaderStops, endpoints, run, IInv, TypeOK
<1>2. reader'.at = "stopped" /\ ReaderIsTyped(reader')
  BY StoppedReaderIsTyped DEF ReaderStops
<1>3. BooksAreSound(Books', source, phase # "off" /\ ~cancelled') /\ InOneLane'
  <2>1. CASE ledger' = ledger
    BY <1>1, <2>1, SameBooks
  <2>2. CASE ledger' # ledger
    <3> DEFINE row == Head(reader.page)
               e == [seq |-> row.seq, pending |-> 1]
               exact == phase # "off" /\ ~cancelled
    <3>1. reader.page # <<>> /\ ledger' = Enter(ledger, e)
      BY <2>2 DEF ReaderStops, Register
    <3>2. e \in Entry /\ row.seq \in 0..source /\ source \in 0..Size /\ source \in Nat
          /\ BooksAreSound(Books, source, exact)
      BY <1>1, <3>1, FirstRow, SourceIs DEF IInv
    <3>3. e.seq <= source /\ e.pending = 1 /\ e \in Entry
      BY <3>2
    <3>4. /\ Books'.known = Books.known /\ Books'.copying = Books.copying
          /\ Books'.changing = Books.changing \union {} /\ Books'.ledger = Enter(Books.ledger, e)
      BY <1>1, <3>1 DEF Books, Known, items
    <3> HIDE DEF e, exact
    <3>5. Enters(Books, Books', e, {}, source, exact, FALSE)
      BY <3>3, <3>4 DEF Enters
    <3>6. BooksAreSound(Books', source, FALSE)
      BY <3>2, <3>5, EnteringKeepsBooks
    <3>7. InOneLane'
      BY <1>1 DEF IInv, InOneLane, items
    <3>8. (phase # "off" /\ ~cancelled') = FALSE
      BY <1>1
    <3>9. QED
      BY <3>6, <3>7, <3>8
  <2>3. QED
    BY <2>1, <2>2
<1>4. ReaderGoesOn
  BY <1>1, <1>2, <1>3 DEF ReaderGoesOn, ReaderIsSound, ReaderStops, IInv, TypeOK, endpoints, recorder
<1>5. QED
  BY <1>2, <1>3, <1>4, ReadingKeepsIInv

-----------------------------------------------------------------------------
(* The recorder                                                             *)

\* SafeHistory is the set of histories whose every entry is safe.
LEMMA SafeHistoriesAre ==
    ASSUME TypeOK
    PROVE  /\ SafeHistory = Histories(Known, source) /\ SafeHistory \subseteq CheckpointHistory
           /\ \A h \in SafeHistory : h # <<>> => h[1].seq \in SafeSeqs(Known, source) /\ h[1].seq \in Seqs
<1> DEFINE SS == SafeSeqs(Known, source)
           E == [session : Sessions, seq : SS]
<1>1. SS \subseteq Seqs
  BY SourceIs, UpdatesAre DEF SafeSeqs, Seqs, Size
<1>2. SafeHistory = Seq(E) /\ E \subseteq [session : Sessions, seq : Seqs]
  BY <1>1 DEF SafeHistory
<1>3. SafeHistory \subseteq CheckpointHistory
  <2> DEFINE F == [session : Sessions, seq : Seqs]
  <2>1. CheckpointHistory = Seq(F) /\ E \subseteq F
    BY <1>2 DEF CheckpointHistory
  <2> HIDE DEF E, F
  <2>2. Seq(E) \subseteq Seq(F)
    BY <2>1, SeqMonotonic
  <2>3. QED
    BY <1>2, <2>1, <2>2
<1>4. ASSUME NEW h \in SafeHistory, h # <<>> PROVE h[1] \in E
  <2>1. h \in Seq(E)
    BY <1>2
  <2> HIDE DEF E
  <2>2. 1 \in 1..Len(h)
    BY <2>1, <1>4, EmptySeq
  <2>3. QED
    BY <2>1, <2>2, ElementOfSeq
<1>5. \A x \in E : x.seq \in SS
  OBVIOUS
<1>6. QED
  BY <1>1, <1>3, <1>4, <1>5 DEF SafeHistory, Histories

\* What is recorded is committable, and so safe.
LEMMA CheckpointDocIsSafe ==
    ASSUME IInv, HasNews
    PROVE  CheckpointDoc(Max(ledger.committable)) \in SafeHistory
           /\ CheckpointDoc(Max(ledger.committable)) # <<>>
<1> DEFINE SS == SafeSeqs(Known, source)
           seq == Max(ledger.committable)
<1>1. ledger.committable \subseteq SS /\ ledger.committable # {}
  BY DEF IInv, BooksAreSound, LedgerHolds, Books, HasNews
<1>2. ledger.committable \in SUBSET (0..Size)
  BY <1>1, SourceIs, UpdatesAre DEF SafeSeqs, IInv
<1>3. seq \in SS
  BY <1>1, <1>2, MaxIsGreatest, UpdatesAre
<1>4. session.id \in Sessions /\ history \in Seq([session : Sessions, seq : SS])
  BY DEF IInv, TypeOK, RecordsAreSafe, SafeHistory
<1>5. [session |-> session.id, seq |-> seq] \in [session : Sessions, seq : SS]
  BY <1>3, <1>4
<1> HIDE DEF seq
<1>6. CheckpointDoc(seq) \in Seq([session : Sessions, seq : SS]) /\ CheckpointDoc(seq) # <<>>
  BY <1>4, <1>5, CheckpointDocIs
<1>7. QED
  BY <1>6 DEF SafeHistory, seq

\* A step that touches the records only.
LEMMA RecordingKeepsIInv ==
    ASSUME IInv, UNCHANGED <<source, target, skipped, run, reader, ledger, items, cancelled>>,
           TypeOK', RecordsAreSafe'
    PROVE  IInv'
<1>1. Books' = Books /\ Known' = Known
  BY DEF Books, Known, items
<1>2. BooksAreSound(Books, source, phase # "off" /\ ~cancelled)'
  BY <1>1 DEF IInv, run
<1>3. InOneLane' /\ TargetIsClosed'
  BY DEF IInv, InOneLane, TargetIsClosed, items
<1>4. ReaderIsSound'
  BY <1>1 DEF IInv, ReaderIsSound, run
<1>5. SessionIsSound'
  BY <1>1 DEF IInv, SessionIsSound, run
<1>6. QED
  BY <1>2, <1>3, <1>4, <1>5 DEF IInv

\* It depends on the source and on what is known only.
LEMMA SafeHistoryStays ==
    ASSUME UNCHANGED <<source, target, skipped>>
    PROVE  SafeHistory' = SafeHistory
  BY DEF SafeHistory, SafeSeqs, Known, Shown, Row

\* The checkpoint of the ledger is safe: everything up to it is known.
LEMMA NewCheckpointIsSafe ==
    ASSUME IInv, HasNews, NEW by \in {"periodic", "final"}, NewCheckpoint(by),
           UNCHANGED <<endpoints, skipped, history>>
    PROVE  /\ RecordsAreSafe'
           /\ ckpts' \subseteq [by : {"periodic", "final"}, at : {"target", "source"},
                                doc : CheckpointHistory]
<1> DEFINE doc == CheckpointDoc(Max(ledger.committable))
           c == [by |-> by, at |-> "target", doc |-> doc]
<1>1. doc \in SafeHistory /\ doc # <<>>
  BY CheckpointDocIsSafe
<1>2. ckpts' = ckpts \union {c} /\ SafeHistory' = SafeHistory
  BY SafeHistoryStays DEF NewCheckpoint, endpoints
<1> HIDE DEF doc
<1>3. RecordsAreSafe'
  BY <1>1, <1>2 DEF IInv, RecordsAreSafe, endpoints
<1>4. doc \in CheckpointHistory
  BY <1>1, SafeHistoriesAre DEF IInv
<1>5. QED
  BY <1>2, <1>3, <1>4 DEF IInv, TypeOK

\* One lemma for each step of the recorder (checkpoint.rs, pipeline.rs).
LEMMA PeriodicCheckpointKeeps ==
    ASSUME IInv, PeriodicCheckpoint
    PROVE  IInv'
<1>1. HasNews /\ NewCheckpoint("periodic") /\ UNCHANGED <<endpoints, skipped, history>>
  BY DEF PeriodicCheckpoint, recorder
<1>2. /\ RecordsAreSafe'
      /\ ckpts' \subseteq [by : {"periodic", "final"}, at : {"target", "source"},
                           doc : CheckpointHistory]
  BY <1>1, NewCheckpointIsSafe
<1>3. TypeOK'
  BY <1>2 DEF IInv, TypeOK, PeriodicCheckpoint, endpoints, run, items, token, recorder
<1>4. QED
  BY <1>2, <1>3, RecordingKeepsIInv DEF PeriodicCheckpoint, endpoints, token

\* A checkpoint under way is a safe history.
LEMMA CheckpointsAre ==
    ASSUME IInv, NEW c \in ckpts
    PROVE  /\ c \in [by : {"periodic", "final"}, at : {"target", "source"}, doc : CheckpointHistory]
           /\ c.doc \in SafeHistory /\ c.doc # <<>> /\ c.doc \in CheckpointHistory
           /\ c.doc[1].seq \in Seqs
  BY SafeHistoriesAre DEF IInv, TypeOK, RecordsAreSafe

LEMMA PutTargetKeeps ==
    ASSUME IInv, NEW c \in ckpts, PutTarget(c)
    PROVE  IInv'
<1> DEFINE d == [c EXCEPT !.at = "source"]
<1>1. tgtCkpt' = c.doc /\ ckpts' = (ckpts \ {c}) \union {d} /\ SafeHistory' = SafeHistory
      /\ UNCHANGED <<srcCkpt, history>>
  BY SafeHistoryStays DEF PutTarget, recorder
<1>2. d \in [by : {"periodic", "final"}, at : {"target", "source"}, doc : CheckpointHistory]
      /\ d.doc = c.doc
  BY CheckpointsAre
<1> HIDE DEF d
<1>3. RecordsAreSafe'
  BY <1>1, <1>2, CheckpointsAre DEF IInv, RecordsAreSafe
<1>4. TypeOK'
  BY <1>1, <1>2, CheckpointsAre DEF IInv, TypeOK, PutTarget, run, items, token, recorder
<1>5. QED
  BY <1>3, <1>4, RecordingKeepsIInv DEF PutTarget, token

LEMMA PutSourceKeeps ==
    ASSUME IInv, NEW c \in ckpts, PutSource(c)
    PROVE  IInv'
<1>1. /\ srcCkpt' = c.doc /\ ckpts' = ckpts \ {c} /\ SafeHistory' = SafeHistory
      /\ tgtCkpt' = tgtCkpt /\ history' \in {history, c.doc}
      /\ lastWritten' \in {lastWritten, {c.doc[1].seq}}
  BY SafeHistoryStays DEF PutSource, recorder
<1>2. RecordsAreSafe'
  BY <1>1, CheckpointsAre DEF IInv, RecordsAreSafe
<1>3. TypeOK'
  BY <1>1, CheckpointsAre DEF IInv, TypeOK, PutSource, run, items, token
<1>4. QED
  BY <1>2, <1>3, RecordingKeepsIInv DEF PutSource, token

LEMMA PutFailsKeeps ==
    ASSUME IInv, NEW c \in ckpts, PutFails(c)
    PROVE  IInv'
<1>1. /\ srcCkpt' \in {srcCkpt, c.doc} /\ tgtCkpt' \in {tgtCkpt, c.doc} /\ ckpts' = ckpts \ {c}
      /\ SafeHistory' = SafeHistory /\ UNCHANGED <<history, lastWritten>>
      /\ faults' \in 0..MaxFaults
  BY SafeHistoryStays, FaultIs DEF PutFails, recorder, IInv
<1>2. RecordsAreSafe'
  BY <1>1, CheckpointsAre DEF IInv, RecordsAreSafe
<1>3. TypeOK'
  BY <1>1, CheckpointsAre DEF IInv, TypeOK, PutFails, run, items, token
<1>4. QED
  BY <1>2, <1>3, RecordingKeepsIInv DEF PutFails, token

-----------------------------------------------------------------------------
(* The session                                                              *)

\* With no work under way and nothing lost, nothing is owed.
LEMMA NothingIsOwed ==
    ASSUME NEW n, NEW exact, exact, NEW b, BooksAreSound(b, n, exact), All(b) = {},
           NEW i, NEW o, Owed(b, i, o)
    PROVE  i \in b.known
<1> SUFFICES ASSUME NEW q \in DOMAIN b.ledger.entries, Carries(b, q, i) PROVE FALSE
  BY DEF Owed
<1>1. Flight(b, q) = {} /\ ~Bears(b, q, i)
  BY DEF All, Flight, Bears
<1>2. Cardinality(Flight(b, q)) = b.ledger.entries[q].pending
  BY DEF BooksAreSound, Counted
<1>3. Cardinality(Flight(b, q)) = 0
  BY <1>1, FS_EmptySet
<1>4. QED
  BY <1>1, <1>2, <1>3 DEF Carries

\* One lemma for each step of the source and of the session (pipeline.rs).
LEMMA UpdateSourceKeeps ==
    ASSUME IInv, UpdateSource
    PROVE  IInv'
<1> DEFINE n == source
<1>1. n \in 0..Size /\ n + 1 \in 0..Size /\ source' = n + 1 /\ n \in Nat
  BY SourceIs, UpdatesAre DEF UpdateSource, IInv, Size
<1>2. /\ UNCHANGED <<target, srcCkpt, tgtCkpt, session, phase, result, reader, ledger, items,
                     skipped, cancelled, failed, history, lastWritten, ckpts, faults>>
      /\ Books' = Books /\ Known' = Known
  BY DEF UpdateSource, run, items, token, recorder, Books, Known
<1>3. /\ \A i \in Shown(n + 1) : Row(i, n + 1) <= n => i \in Shown(n) /\ Row(i, n + 1) = Row(i, n)
      /\ \A b, o : \A s \in 0..n : Promised(b, n, s, o) => Promised(b, n + 1, s, o)
      /\ \A known : SafeSeqs(known, n) \subseteq SafeSeqs(known, n + 1)
  BY <1>1, UpdatingKeepsPromises
<1>4. TypeOK'
  <2>1. source' \in Seqs /\ \A i \in 1..source : i \in 1..source'
    BY <1>1 DEF Seqs, Size
  <2>2. target' \subseteq 1..source' /\ skipped' \subseteq 1..source'
    BY <1>2, <2>1 DEF IInv, TypeOK
  <2>3. QED
    BY <1>2, <2>1, <2>2 DEF IInv, TypeOK, items
<1>5. BooksAreSound(Books, source, phase # "off" /\ ~cancelled)'
  <2> DEFINE exact == phase # "off" /\ ~cancelled
  <2>1. BooksAreSound(Books, n, exact)
    BY DEF IInv
  <2>2. exact' = exact
    BY <1>2
  <2> HIDE DEF exact
  <2>3. BooksAreSound(Books, n + 1, exact)
    BY <1>1, <2>1, UpdatingKeepsBooks
  <2>4. BooksAreSound(Books', source', exact')
    BY <1>1, <1>2, <2>2, <2>3
  <2>5. QED
    BY <2>4 DEF exact
<1>6. InOneLane' /\ TargetIsClosed'
  BY <1>2 DEF IInv, InOneLane, TargetIsClosed, items
<1>7. ReaderIsSound'
  <2> SUFFICES ASSUME phase = "running", reader.at # "stopped"
               PROVE  ReaderIsSound'
    BY <1>2 DEF ReaderIsSound
  <2>1. reader.since \in 0..n /\ reader.last \in 0..n
    BY <1>1, Reading, ReaderIs
  <2>2. reader.last <= n + 1 /\ reader.since <= reader.last
        /\ (reader.at = "fetch" => reader.page = <<>>)
        /\ (~session.opts.continuous => (reader.at = "fetch" => reader.since = reader.last /\ ~reader.end))
    BY <1>1, <2>1, Reading
  <2>3. PageIsSound(reader.page, reader.last, n + 1)
    <3>1. \A i \in 1..n : i \in 1..(n + 1)
      BY <1>1
    <3>2. QED
      BY <3>1, Reading DEF PageIsSound
  <2>4. Promised(Books, n + 1, reader.since, ledger.next)
    BY <1>3, <2>1, Reading
  <2>5. \A i \in Shown(n + 1) : Row(i, n + 1) <= reader.last =>
          i \in Shown(n) /\ Row(i, n + 1) = Row(i, n)
    <3>1. \A i \in Shown(n + 1) : Row(i, n + 1) \in Nat
      BY <1>1, RowIs DEF Shown
    <3>2. QED
      BY <1>1, <1>3, <2>1, <3>1
  <2>6. \A i \in Shown(n + 1) : Row(i, n + 1) <= reader.last =>
          \/ Owed(Books, i, ledger.next)
          \/ \E k \in 1..Len(reader.page) :
               reader.page[k].seq = Row(i, n + 1) /\ Brings(reader.page[k], i)
    BY <2>5, Reading
  <2>7. ~session.opts.continuous => \A i \in Shown(session.from) :
          \/ Owed(Books, i, ledger.next)
          \/ \E k \in 1..Len(reader.page) : Brings(reader.page[k], i)
          \/ ~reader.end /\ Row(i, n + 1) > reader.last
    <3> HAVE ~session.opts.continuous
    <3> TAKE i \in Shown(session.from)
    <3>1. i \in Shown(n) /\ i \in 1..(n + 1) /\ Row(i, n) \in Nat
      BY <1>1, Reading DEF Shown
    <3>2. Row(i, n + 1) = n + 1 \/ Row(i, n + 1) = Row(i, n)
      BY <1>1, <3>1, RowMoves
    <3>3. Row(i, n) > reader.last => Row(i, n + 1) > reader.last
      BY <1>1, <2>1, <3>1, <3>2
    <3>4. QED
      BY <3>3, Reading
  <2>8. QED
    BY <1>1, <1>2, <2>2, <2>3, <2>4, <2>6, <2>7 DEF ReaderIsSound
<1>8. SessionIsSound'
  <2>1. session.from <= source'
    BY <1>1, UpdatesAre DEF IInv, SessionIsSound, TypeOK, Seqs, Size
  <2>2. QED
    BY <1>2, <2>1 DEF IInv, SessionIsSound
<1>9. RecordsAreSafe'
  <2>1. SafeHistory \subseteq SafeHistory'
    <3> DEFINE E == [session : Sessions, seq : SafeSeqs(Known, n)]
               F == [session : Sessions, seq : SafeSeqs(Known, n + 1)]
    <3>1. E \subseteq F /\ SafeHistory = Seq(E) /\ SafeHistory' = Seq(F)
      BY <1>1, <1>2, <1>3 DEF SafeHistory
    <3> HIDE DEF E, F
    <3>2. QED
      BY <3>1, SeqMonotonic
  <2>2. QED
    BY <1>2, <2>1 DEF IInv, RecordsAreSafe
<1>10. QED
  BY <1>4, <1>5, <1>6, <1>7, <1>8, <1>9 DEF IInv

\* A session begins with empty books.
LEMMA NewBooksAreSound ==
    ASSUME NEW n \in 0..Size, NEW exact, NEW b, b.ledger = NewLedger,
           b.changing = {}, b.copying = {}
    PROVE  BooksAreSound(b, n, exact)
<1>1. IsLedger(NewLedger) /\ DOMAIN NewLedger.entries = {} /\ NewLedger.committable = {}
  BY DEF IsLedger, NewLedger
<1>2. IsFiniteSet({})
  BY FS_EmptySet
<1>3. QED
  BY <1>1, <1>2 DEF BooksAreSound, Counted, Apart, LedgerHolds

LEMMA StartSessionKeeps ==
    ASSUME IInv, NEW opts \in Options, StartSession(opts)
    PROVE  IInv'
<1> DEFINE start == Resume(srcCkpt, tgtCkpt)
           SS == SafeSeqs(Known, source)
<1>1. /\ source \in 0..Size /\ source \in Nat /\ source \in Seqs
      /\ session.id + 1 \in Sessions
  BY SourceIs, ReplicationAssumption
     DEF IInv, TypeOK, StartSession, Sessions, ReplicationAssumption
<1>2. start.seq \in SS /\ start.history \in SafeHistory
  <2>1. srcCkpt \in Histories(Known, source) /\ tgtCkpt \in Histories(Known, source)
        /\ SafeHistory = Histories(Known, source)
    BY SafeHistoriesAre DEF IInv, RecordsAreSafe
  <2>2. QED
    BY <1>1, <2>1, ResumesInAHistory
<1>3. start.seq \in Seqs /\ start.seq \in 0..source
  BY <1>1, <1>2, UpdatesAre DEF SafeSeqs, Seqs, Size
<1> HIDE DEF start
<1>4. /\ phase' = "running" /\ result' = "none" /\ ledger' = NewLedger /\ lastWritten' = {}
      /\ cancelled' = FALSE /\ failed' = FALSE /\ history' = start.history
      /\ session' = [id |-> session.id + 1, opts |-> opts, from |-> source, skips |-> FALSE]
      /\ reader' = [at |-> "fetch", since |-> start.seq, page |-> <<>>,
                    last |-> start.seq, end |-> FALSE]
      /\ UNCHANGED <<source, target, srcCkpt, tgtCkpt, changes, missing, units, atts, fetched,
                     skipped, ckpts, faults>>
  BY DEF StartSession, start, endpoints, items
<1>5. /\ Books'.known = Books.known /\ Books.known = Known /\ Books'.ledger = NewLedger
      /\ Books'.changing = {} /\ Books'.copying = {} /\ Known' = Known /\ Changing = {} /\ Copying = {}
  <2>1. Books.changing \union Books.copying = {}
    BY DEF IInv, SessionIsSound, StartSession
  <2>2. QED
    BY <1>4, <2>1 DEF Books, Known, Changing, Copying
<1>6. BooksAreSound(Books', source', phase' # "off" /\ ~cancelled')
  BY <1>1, <1>4, <1>5, NewBooksAreSound
<1>7. TypeOK'
  <2>1. IsLedger(ledger')
    BY <1>5, <1>6 DEF BooksAreSound, LedgerHolds, Books
  <2>2. <<>> \in Seq([seq : Seqs, revs : SUBSET (1..Len(Updates))])
    BY EmptySeq
  <2>3. reader' \in [at : {"fetch", "emit", "stopped"}, since : Seqs, last : Seqs, end : BOOLEAN,
                     page : Seq([seq : Seqs, revs : SUBSET (1..Len(Updates))])]
    BY <1>3, <1>4, <2>2
  <2>4. session' \in [id : Sessions, opts : Options, from : Seqs, skips : BOOLEAN]
    BY <1>1, <1>4
  <2>5. history' \in CheckpointHistory
    BY <1>2, <1>4, SafeHistoriesAre DEF IInv
  <2>6. QED
    BY <1>4, <2>1, <2>3, <2>4, <2>5 DEF IInv, TypeOK
<1>8. InOneLane' /\ TargetIsClosed'
  BY <1>4 DEF IInv, InOneLane, TargetIsClosed
<1>9. ReaderIsSound'
  <2>1. \A i \in Shown(source) : Row(i, source) <= start.seq => Owed(Books', i, ledger'.next)
    BY <1>2, <1>5 DEF SafeSeqs, Owed
  <2>2. Promised(Books', source, start.seq, ledger'.next) /\ PageIsSound(<<>>, start.seq, source)
    BY <2>1 DEF Promised, PageIsSound
  <2>3. start.seq <= start.seq /\ start.seq <= source
        /\ \A i \in Shown(source) : Row(i, source) <= start.seq \/ Row(i, source) > start.seq
    BY <1>1, <1>3, RowIs DEF Shown
  <2>4. /\ reader'.at = "fetch" /\ reader'.since = start.seq /\ reader'.page = <<>>
        /\ reader'.last = start.seq /\ reader'.end = FALSE
        /\ session'.from = source /\ session'.opts = opts
    BY <1>4
  <2>5. QED
    BY <1>4, <2>1, <2>2, <2>3, <2>4 DEF ReaderIsSound
<1>10. SessionIsSound'
  BY <1>1, <1>4 DEF SessionIsSound
<1>11. RecordsAreSafe'
  <2>1. SafeHistory' = SafeHistory
    BY <1>4, SafeHistoryStays
  <2>2. QED
    BY <1>2, <1>4, <2>1 DEF IInv, RecordsAreSafe
<1>12. QED
  BY <1>6, <1>7, <1>8, <1>9, <1>10, <1>11 DEF IInv

\* A step that ends a session or a part of it: nothing else is touched.
LEMMA EndingKeepsIInv ==
    ASSUME IInv, UNCHANGED <<source, target, skipped, session, reader, ledger>>,
           TypeOK', RecordsAreSafe', phase' # "running",
           Changing' = {}, Copying' = {},
           phase' # "off" /\ ~cancelled' => phase # "off" /\ ~cancelled
                                            /\ Changing' = Changing /\ Copying' = Copying,
           result' = "clean" => phase' = "off",
           (phase' \in {"closing", "final"} \/ result' = "clean") /\ ~cancelled' =>
              Shown(session.from) \subseteq Known
    PROVE  IInv'
<1> DEFINE exact == phase # "off" /\ ~cancelled
           exactly == phase' # "off" /\ ~cancelled'
<1>1. BooksAreSound(Books, source, exact) /\ source \in 0..Size
  BY SourceIs DEF IInv
<1>2. /\ Books'.ledger = Books.ledger /\ Books.known \subseteq Books'.known
      /\ Books'.changing \subseteq Books.changing /\ Books'.copying \subseteq Books.copying
      /\ Books'.changing = {} /\ Books'.copying = {} /\ Known' = Known
  BY DEF Books, Known, Changing, Copying
<1>3. exactly => exact /\ Books'.changing = Books.changing /\ Books'.copying = Books.copying
  BY DEF Books, Changing, Copying
<1> HIDE DEF exact, exactly
<1>4. BooksAreSound(Books', source, exactly)
  BY <1>1, <1>2, <1>3, LosingKeepsBooks
<1>5. BooksAreSound(Books, source, phase # "off" /\ ~cancelled)'
  BY <1>4 DEF exactly
<1>6. InOneLane' /\ TargetIsClosed'
  BY DEF IInv, TargetIsClosed, InOneLane, Changing, Copying
<1>7. ReaderIsSound'
  BY DEF ReaderIsSound
<1>8. SessionIsSound'
  BY <1>2 DEF IInv, SessionIsSound
<1>9. QED
  BY <1>5, <1>6, <1>7, <1>8 DEF IInv

\* Out of the running phase no work is in flight.
LEMMA NoWorkIsLeft ==
    ASSUME IInv, phase # "running"
    PROVE  Changing = {} /\ Copying = {}
  BY DEF IInv, SessionIsSound, Books, Changing, Copying

\* Records that no step touched stay safe.
LEMMA RecordsAreLeft ==
    ASSUME IInv, UNCHANGED <<source, target, skipped, srcCkpt, tgtCkpt, history>>, ckpts' \subseteq ckpts
    PROVE  RecordsAreSafe'
<1>1. Known \subseteq Known'
  BY DEF Known
<1>2. QED
  BY <1>1, RecordsStaySafe DEF IInv

LEMMA CloseKeeps ==
    ASSUME IInv, Close
    PROVE  IInv'
<1>1. /\ phase = "running" /\ reader.at = "stopped" /\ phase' = "closing"
      /\ Changing = {} /\ Copying = {}
      /\ UNCHANGED <<source, target, srcCkpt, tgtCkpt, session, result, reader, ledger, items,
                     skipped, cancelled, failed, history, lastWritten, ckpts, faults>>
  BY DEF Close, endpoints, token, recorder, Changing, Copying
<1>2. Changing' = Changing /\ Copying' = Copying
  BY <1>1 DEF items, Changing, Copying
<1>3. TypeOK'
  BY <1>1 DEF IInv, TypeOK, items
<1>4. RecordsAreSafe'
  BY <1>1, RecordsAreLeft
<1>5. ~cancelled => Shown(session.from) \subseteq Known
  <2> SUFFICES ASSUME ~cancelled, NEW i \in Shown(session.from) PROVE i \in Known
    OBVIOUS
  <2> DEFINE exact == phase # "off" /\ ~cancelled
  <2>1. exact /\ BooksAreSound(Books, source, exact)
    BY <1>1 DEF IInv
  <2>2. All(Books) = {} /\ Books.known = Known
    BY <1>1 DEF All, Books, Changing, Copying
  <2>3. Owed(Books, i, ledger.next)
    BY <1>1 DEF IInv, SessionIsSound
  <2> HIDE DEF exact
  <2>4. QED
    BY <2>1, <2>2, <2>3, NothingIsOwed
<1>6. result' # "clean"
  BY <1>1 DEF IInv, SessionIsSound
<1>7. QED
  BY <1>1, <1>2, <1>3, <1>4, <1>5, <1>6, EndingKeepsIInv

LEMMA FinalCheckpointKeeps ==
    ASSUME IInv, FinalCheckpoint
    PROVE  IInv'
<1>1. /\ phase = "closing" /\ phase' = "final" /\ Changing = {} /\ Copying = {}
      /\ UNCHANGED <<source, target, srcCkpt, tgtCkpt, session, result, reader, ledger, items,
                     skipped, cancelled, failed, history, lastWritten, faults>>
  BY NoWorkIsLeft DEF FinalCheckpoint, endpoints, token, recorder
<1>2. Changing' = Changing /\ Copying' = Copying
  BY <1>1 DEF items, Changing, Copying
<1>3. /\ RecordsAreSafe'
      /\ ckpts' \subseteq [by : {"periodic", "final"}, at : {"target", "source"},
                           doc : CheckpointHistory]
  <2>1. CASE HasNews
    <3>1. NewCheckpoint("final") /\ UNCHANGED <<endpoints, skipped, history>>
      BY <2>1 DEF FinalCheckpoint, recorder
    <3>2. QED
      BY <2>1, <3>1, NewCheckpointIsSafe
  <2>2. CASE ~HasNews
    <3>1. ckpts' = ckpts
      BY <2>2 DEF FinalCheckpoint
    <3>2. QED
      BY <1>1, <3>1, RecordsAreLeft DEF IInv, TypeOK
  <2>3. QED
    BY <2>1, <2>2
<1>4. TypeOK'
  BY <1>1, <1>3 DEF IInv, TypeOK, items
<1>5. ~cancelled => Shown(session.from) \subseteq Known
  BY <1>1 DEF IInv, SessionIsSound
<1>6. result' # "clean"
  BY <1>1 DEF IInv, SessionIsSound
<1>7. QED
  BY <1>1, <1>2, <1>3, <1>4, <1>5, <1>6, EndingKeepsIInv

LEMMA ReturnKeeps ==
    ASSUME IInv, Return
    PROVE  IInv'
<1>1. /\ phase = "final" /\ phase' = "off" /\ Changing = {} /\ Copying = {}
      /\ result' \in {"none", "clean", "partial", "error"}
      /\ UNCHANGED <<source, target, srcCkpt, tgtCkpt, session, reader, ledger, items,
                     skipped, cancelled, failed, history, lastWritten, ckpts, faults>>
  BY NoWorkIsLeft DEF Return, endpoints, token, recorder
<1>2. Changing' = Changing /\ Copying' = Copying
  BY <1>1 DEF items, Changing, Copying
<1>3. TypeOK'
  BY <1>1 DEF IInv, TypeOK, items
<1>4. RecordsAreSafe'
  BY <1>1, RecordsAreLeft
<1>5. ~cancelled => Shown(session.from) \subseteq Known
  BY <1>1 DEF IInv, SessionIsSound
<1>6. QED
  BY <1>1, <1>2, <1>3, <1>4, <1>5, EndingKeepsIInv

LEMMA CrashKeeps ==
    ASSUME IInv, Crash
    PROVE  IInv'
<1>1. /\ phase' = "off" /\ result' = "none" /\ ckpts' = {}
      /\ changes' = {} /\ missing' = {} /\ units' = {} /\ atts' = {} /\ fetched' = {}
      /\ UNCHANGED <<source, target, srcCkpt, tgtCkpt, session, reader, ledger,
                     skipped, cancelled, failed, history, lastWritten>>
      /\ faults' \in 0..MaxFaults
  BY FaultIs DEF Crash, endpoints, token, recorder, IInv
<1>2. Changing' = {} /\ Copying' = {}
  BY <1>1 DEF Changing, Copying
<1>3. TypeOK'
  BY <1>1 DEF IInv, TypeOK
<1>4. RecordsAreSafe'
  BY <1>1, RecordsAreLeft
<1>5. QED
  BY <1>1, <1>2, <1>3, <1>4, EndingKeepsIInv

LEMMA CancelKeeps ==
    ASSUME IInv, Cancel
    PROVE  IInv'
<1>1. /\ phase = "running" /\ cancelled' = TRUE /\ faults' \in 0..MaxFaults
      /\ UNCHANGED <<source, target, srcCkpt, tgtCkpt, session, phase, result, reader, ledger,
                     items, skipped, failed, history, lastWritten, ckpts>>
  BY FaultIs DEF Cancel, endpoints, run, recorder, IInv
<1>2. Changing' = Changing /\ Copying' = Copying /\ InOneLane' /\ TargetIsClosed'
  BY <1>1 DEF items, Changing, Copying, IInv, InOneLane, TargetIsClosed
<1>3. WorkGoesOn
  BY <1>1, <1>2 DEF WorkGoesOn, IInv, TypeOK
<1>4. QED
  BY <1>1, <1>2, <1>3, LosingWork

\* The invariant holds at the start.
LEMMA InitIsSound ==
    ASSUME Init
    PROVE  IInv
<1>1. source \in 0..Size /\ source \in Nat /\ 0 \in Seqs /\ source \in Seqs
      /\ 0 \in Sessions /\ MaxFaults \in 0..MaxFaults
  BY ReplicationAssumption, UpdatesAre DEF Init, ReplicationAssumption, Seqs, Size, Sessions
<1>2. (CHOOSE o \in Options : TRUE) \in Options
  BY ReplicationAssumption DEF ReplicationAssumption
<1>3. /\ Books.ledger = NewLedger /\ Books.changing = {} /\ Books.copying = {}
  BY DEF Init, Books
<1>4. BooksAreSound(Books, source, phase # "off" /\ ~cancelled)
  BY <1>1, <1>3, NewBooksAreSound
<1>5. <<>> \in CheckpointHistory /\ <<>> \in SafeHistory
      /\ <<>> \in Seq([seq : Seqs, revs : SUBSET (1..Len(Updates))])
  BY EmptySeq DEF CheckpointHistory, SafeHistory
<1>6. IsLedger(ledger)
  BY <1>3, <1>4 DEF BooksAreSound, LedgerHolds, Books
<1>7. TypeOK
  <2>1. session \in [id : Sessions, opts : Options, from : Seqs, skips : BOOLEAN]
    BY <1>1, <1>2 DEF Init
  <2>2. reader \in [at : {"fetch", "emit", "stopped"}, since : Seqs, last : Seqs, end : BOOLEAN,
                    page : Seq([seq : Seqs, revs : SUBSET (1..Len(Updates))])]
    BY <1>1, <1>5 DEF Init
  <2>3. QED
    BY <1>1, <1>5, <1>6, <2>1, <2>2 DEF Init, TypeOK
<1>8. InOneLane /\ TargetIsClosed /\ ReaderIsSound /\ RecordsAreSafe
  BY <1>5 DEF Init, InOneLane, TargetIsClosed, ReaderIsSound, RecordsAreSafe
<1>9. SessionIsSound
  BY <1>1, <1>3 DEF Init, SessionIsSound
<1>10. QED
  BY <1>4, <1>7, <1>8, <1>9 DEF IInv

-----------------------------------------------------------------------------
(* The theorems                                                             *)

\* Every step keeps it.
LEMMA NextKeeps ==
    ASSUME IInv, [Next]_vars
    PROVE  IInv'
<1>1. CASE UpdateSource
  BY <1>1, UpdateSourceKeeps
<1>2. CASE \E opts \in Options : StartSession(opts)
  BY <1>2, StartSessionKeeps
<1>3. CASE Reads
  BY <1>3, FetchPageKeeps, EmitKeeps, PageDoneKeeps, ChunkDoneKeeps, ReaderStopsKeeps DEF Reads
<1>4. CASE Copies
  BY <1>4, DiffKeeps, ExplodeKeeps, FetchKeeps, AttInlineKeeps, AttStreamKeeps, FlushKeeps
     DEF Copies
<1>5. CASE Drop
  BY <1>5, DropKeeps
<1>6. CASE Records
  BY <1>6, PutTargetKeeps, PutSourceKeeps, CloseKeeps, FinalCheckpointKeeps, ReturnKeeps
     DEF Records
<1>7. CASE PeriodicCheckpoint
  BY <1>7, PeriodicCheckpointKeeps
<1>8. CASE Trouble
  <2>1. CASE FeedDrops \/ FeedEnds \/ ReadFails \/ Crash \/ Cancel
    BY <2>1, FeedDropsKeeps, FeedEndsKeeps, ReadFailsKeeps, CrashKeeps, CancelKeeps
  <2>2. CASE \/ \E tc \in changes : DiffFails(tc)
             \/ \E u \in units : FetchFails(u)
             \/ \E ad \in atts : AttFails(ad)
             \/ \E c \in ckpts : PutFails(c)
    BY <2>2, DiffFailsKeeps, FetchFailsKeeps, AttFailsKeeps, PutFailsKeeps
  <2>3. CASE \E batch \in Batches :
               \/ FlushUnanswered(batch) \/ FlushFails(batch)
               \/ \E rejected \in (SUBSET batch) \ {{}} : FlushRejected(batch, rejected)
    BY <2>3, FlushUnansweredKeeps, FlushFailsKeeps, FlushRejectedKeeps
  <2>4. QED
    BY <1>8, <2>1, <2>2, <2>3 DEF Trouble
<1>9. CASE UNCHANGED vars
  <2>1. /\ UNCHANGED <<source, target, skipped, run, reader, ledger, items, cancelled>>
        /\ UNCHANGED <<srcCkpt, tgtCkpt, failed, history, lastWritten, ckpts, faults>>
    BY <1>9 DEF vars, endpoints, token, recorder
  <2>2. TypeOK'
    BY <2>1 DEF IInv, TypeOK, run, items
  <2>3. RecordsAreSafe'
    BY <2>1, RecordsAreLeft
  <2>4. QED
    BY <2>1, <2>2, <2>3, RecordingKeepsIInv
<1>10. QED
  BY <1>1, <1>2, <1>3, <1>4, <1>5, <1>6, <1>7, <1>8, <1>9 DEF Next, Progress

\* The invariant of the replication holds in every state.
THEOREM Invariant ==
    Spec => []IInv
<1>1. Init => IInv
  BY InitIsSound
<1>2. IInv /\ [Next]_vars => IInv'
  BY NextKeeps
<1>3. QED
  BY <1>1, <1>2, PTL DEF Spec

\* What is known is accounted for.
LEMMA KnownIsAccounted ==
    ASSUME NEW i \in Known
    PROVE  Accounted(i)
  BY DEF Known, Accounted

\* Three sets that share nothing: their sizes add up.
LEMMA SumOfThree ==
    ASSUME NEW A, NEW B, NEW C, IsFiniteSet(A), IsFiniteSet(B), IsFiniteSet(C),
           A \intersect B = {}, (A \union B) \intersect C = {}
    PROVE  Cardinality(A \union B \union C) = Cardinality(A) + Cardinality(B) + Cardinality(C)
<1>1. Cardinality(A) \in Nat /\ Cardinality(B) \in Nat /\ Cardinality(C) \in Nat
      /\ Cardinality({}) = 0
  BY FS_CardinalityType, FS_EmptySet
<1>2. IsFiniteSet(A \union B)
      /\ Cardinality(A \union B) = Cardinality(A) + Cardinality(B) - Cardinality(A \intersect B)
  BY FS_Union
<1>3. Cardinality(A \union B \union C) =
        Cardinality(A \union B) + Cardinality(C) - Cardinality((A \union B) \intersect C)
  BY <1>2, FS_Union
<1>4. Cardinality(A \intersect B) = 0 /\ Cardinality((A \union B) \intersect C) = 0
  BY <1>1
<1> DEFINE AB == A \union B
           ABC == A \union B \union C
<1>5. Cardinality(AB) = Cardinality(A) + Cardinality(B)
  BY <1>1, <1>2, <1>4
<1>6. Cardinality(ABC) = Cardinality(AB) + Cardinality(C)
  <2>1. Cardinality(AB) \in Nat
    BY <1>1, <1>5
  <2>2. QED
    BY <1>1, <1>3, <1>4, <2>1
<1> HIDE DEF AB
<1>7. Cardinality(ABC) = Cardinality(A) + Cardinality(B) + Cardinality(C)
  BY <1>1, <1>5, <1>6
<1>8. QED
  BY <1>7

\* No count of the ledger is below the work it stands for.
LEMMA CountsAreSound ==
    ASSUME IInv
    PROVE  WorkIsCounted
<1>1. Counted(Books, phase # "off" /\ ~cancelled) /\ IsLedger(ledger) /\ InOneLane
  BY DEF IInv, BooksAreSound, TypeOK
<1>2. ASSUME NEW w \in units \union atts \union fetched
      PROVE  /\ w.ord \in DOMAIN ledger.entries
             /\ ledger.entries[w.ord].pending >=
                  Cardinality({x \in units : x.ord = w.ord})
                  + Cardinality({x \in atts : x.ord = w.ord})
                  + Cardinality({x \in fetched : x.ord = w.ord})
  <2> DEFINE A == {x \in units : x.ord = w.ord}
             B == {x \in atts : x.ord = w.ord}
             C == {x \in fetched : x.ord = w.ord}
             F == Flight(Books, w.ord)
  <2>1. w.ord \in DOMAIN ledger.entries /\ Cardinality(F) <= ledger.entries[w.ord].pending
        /\ IsFiniteSet(All(Books))
    BY <1>1 DEF Counted, Books, All
  <2>2. A \union B \union C \subseteq F /\ A \subseteq F /\ B \subseteq F /\ C \subseteq F
    BY DEF Flight, Books
  <2>3. IsFiniteSet(F) /\ Cardinality(F) \in Nat
    BY <2>1, FlightIsFinite
  <2>4. A \intersect B = {} /\ (A \union B) \intersect C = {}
    BY <1>1 DEF InOneLane
  <2> HIDE DEF A, B, C, F
  <2>5. IsFiniteSet(A) /\ IsFiniteSet(B) /\ IsFiniteSet(C)
        /\ IsFiniteSet(A \union B \union C) /\ Cardinality(A \union B \union C) <= Cardinality(F)
    BY <2>2, <2>3, FS_Subset
  <2>6. Cardinality(A \union B \union C) = Cardinality(A) + Cardinality(B) + Cardinality(C)
    BY <2>4, <2>5, SumOfThree
  <2>7. Cardinality(A) + Cardinality(B) + Cardinality(C) \in Nat
    BY <2>5, FS_CardinalityType
  <2>8. ledger.entries[w.ord].pending \in Nat
    BY <1>1, <2>1, EntriesAre
  <2>9. ledger.entries[w.ord].pending >= Cardinality(A) + Cardinality(B) + Cardinality(C)
    BY <2>1, <2>3, <2>5, <2>6, <2>7, <2>8
  <2>10. QED
    BY <2>1, <2>9 DEF A, B, C
<1>3. ASSUME NEW tc \in changes \union missing
      PROVE  tc.ord \in DOMAIN ledger.entries /\ ledger.entries[tc.ord].pending = 1
  BY <1>1 DEF Counted, Books
<1>4. QED
  BY <1>2, <1>3 DEF WorkIsCounted

\* The seq that a session would resume from hides nothing.
LEMMA ResumingIsSafe ==
    ASSUME IInv
    PROVE  ResumeIsSafe
<1>1. ResumeSeq \in SafeSeqs(Known, source)
  BY SafeHistoriesAre, ResumesInAHistory, SourceIs DEF IInv, RecordsAreSafe, ResumeSeq
<1>2. ASSUME NEW d \in Docs \ Hidden, RowSeq(d, source) <= ResumeSeq, NEW i \in Leaves(d, source)
      PROVE  Accounted(i)
  <2>1. i \in Shown(source) /\ Row(i, source) = RowSeq(d, source)
    BY DEF Leaves, RevsOf, Shown, Row
  <2>2. i \in Known
    BY <1>1, <1>2, <2>1 DEF SafeSeqs
  <2>3. QED
    BY <2>2, KnownIsAccounted
<1>3. QED
  BY <1>2 DEF ResumeIsSafe

\* Whatever is in flight, lost or repeated, no work is counted twice or forgotten,
\* and a session started from the two checkpoint documents skips no revision: seq.rs
\* and checkpoint.rs, for any history of updates, of faults and of sessions.
THEOREM RecordsNeverRunAhead ==
    Spec => []CheckpointsAreSound
<1>1. IInv => CheckpointsAreSound
  BY CountsAreSound, ResumingIsSafe DEF CheckpointsAreSound, IInv
<1>2. QED
  BY <1>1, Invariant, PTL

\* A session that ends cleanly has brought what the source listed.
LEMMA CleanIsComplete ==
    ASSUME IInv
    PROVE  CleanMeansComplete
<1> SUFFICES ASSUME result = "clean", ~cancelled,
                    NEW i \in 1..session.from, Updates[i].doc \notin Hidden
             PROVE  Accounted(i)
  BY DEF CleanMeansComplete
<1>1. i \in Shown(session.from) /\ Shown(session.from) \subseteq Known
  BY DEF IInv, SessionIsSound, Shown
<1>2. QED
  BY <1>1, KnownIsAccounted

\* A session with nothing to do has brought what the source lists.
LEMMA IdleIsCaughtUp ==
    ASSUME IInv
    PROVE  IdleMeansCaughtUp
<1> SUFFICES ASSUME phase = "running", ~cancelled, reader.at = "fetch",
                    RowsAfter(reader.since, source) = <<>>,
                    changes \union missing \union units \union atts \union fetched = {},
                    NEW i \in 1..source, Updates[i].doc \notin Hidden
             PROVE  Accounted(i)
  BY DEF IdleMeansCaughtUp
<1>1. source \in 0..Size /\ reader.since \in 0..source /\ i \in Shown(source)
  BY SourceIs, Reading, ReaderIs DEF IInv, Shown
<1>2. ~(Row(i, source) > reader.since)
  <2> DEFINE rows == RowsAfter(reader.since, source)
  <2>1. Len(rows) = 0
    OBVIOUS
  <2> HIDE DEF rows
  <2>2. rows = RowsAfter(reader.since, source)
    BY DEF rows
  <2>3. Row(i, source) > reader.since => \E k \in 1..Len(rows) : TRUE
    BY <1>1, <2>2, RowsAfterAre
  <2>4. QED
    BY <2>1, <2>3
<1>3. Row(i, source) \in Nat /\ reader.since \in Nat
  BY <1>1, Reading, ReaderIs
<1>4. Owed(Books, i, ledger.next)
  BY <1>1, <1>2, <1>3, Reading DEF Promised
<1> DEFINE exact == phase # "off" /\ ~cancelled
<1>5. exact /\ BooksAreSound(Books, source, exact) /\ All(Books) = {} /\ Books.known = Known
  BY DEF IInv, All, Books
<1> HIDE DEF exact
<1>6. i \in Known
  BY <1>4, <1>5, NothingIsOwed
<1>7. QED
  BY <1>6, KnownIsAccounted

\* A session that claims to be done, for good or for now, has brought everything the
\* source listed: pipeline.rs and changes_reader.rs, whatever was updated, lost, cut
\* into pages or read again on the way.
THEOREM DoneMeansDone ==
    Spec => []SessionIsComplete
<1>1. IInv => SessionIsComplete
  BY CleanIsComplete, IdleIsCaughtUp DEF SessionIsComplete
<1>2. QED
  BY <1>1, Invariant, PTL
-----------------------------------------------------------------------------
(* The abstract copying                                                     *)

WithAncestors(revs) == UNION {Ancestry[j] : j \in revs}

\* What holds the histories of its members is closed in the abstract sense.
LEMMA ClosedIsWithHistory ==
    ASSUME NEW revs \in SUBSET (1..Size), \A j \in revs : Ancestry[j] \subseteq revs
    PROVE  Abstract!WithHistory(revs)
<1> SUFFICES ASSUME NEW j \in revs, Updates[j].parent # 0
             PROVE  Updates[j].parent \in revs
  BY DEF Abstract!WithHistory
<1>1. j \in 1..Size /\ Ancestry[j] = {j} \union Ancestry[ParentOf(j)]
  BY AncestryIs
<1>2. ParentOf(j) \in 1..Size
  BY <1>1, UpdatesAre DEF ParentOf
<1>3. ParentOf(j) \in Ancestry[ParentOf(j)]
  BY <1>2, IsOwnAncestor
<1>4. QED
  BY <1>1, <1>3 DEF ParentOf

\* So are revisions with their ancestors.
LEMMA AncestorsAreWithHistory ==
    ASSUME NEW n \in 0..Size, NEW revs \in SUBSET (1..n)
    PROVE  /\ WithAncestors(revs) \subseteq 1..n
           /\ Abstract!WithHistory(WithAncestors(revs))
<1>1. n \in Nat /\ Size \in Nat
  BY UpdatesAre
<1>2. ASSUME NEW k \in revs, NEW i \in Ancestry[k]
      PROVE  i \in 1..n /\ i \in 1..Size /\ Ancestry[i] \subseteq Ancestry[k]
  <2>1. k \in 0..Size /\ k \in 1..n
    BY <1>1
  <2>2. i \in 1..k /\ Ancestry[i] \subseteq Ancestry[k]
    BY <2>1, AncestorsAreEarlier, AncestryIsClosed
  <2>3. QED
    BY <1>1, <2>1, <2>2
<1> DEFINE all == WithAncestors(revs)
<1>3. all \in SUBSET (1..Size) /\ all \subseteq 1..n /\ \A j \in all : Ancestry[j] \subseteq all
  BY <1>2 DEF WithAncestors
<1> HIDE DEF all
<1>4. Abstract!WithHistory(all)
  BY <1>3, ClosedIsWithHistory
<1>5. QED
  BY <1>3, <1>4 DEF all

\* Whatever adds to the target or gives up is an abstract copy.
LEMMA GrowingIsCopy ==
    ASSUME IInv, IInv', UNCHANGED <<source, srcCkpt, tgtCkpt>>, Claimed' = Claimed,
           target \subseteq target', skipped \subseteq skipped'
    PROVE  Abstract!Copy
<1>1. /\ source \in 0..Size /\ source' = source
      /\ target' \in SUBSET (1..source) /\ target' \in SUBSET (1..Size)
      /\ skipped' \in SUBSET (1..source)
      /\ \A j \in target' : Ancestry[j] \subseteq target'
  BY SourceIs, UpdatesAre DEF IInv, TypeOK, TargetIsClosed, Seqs, Size
<1>2. Abstract!WithHistory(target')
  BY <1>1, ClosedIsWithHistory
<1>3. /\ WithAncestors(skipped') \subseteq 1..source
      /\ Abstract!WithHistory(WithAncestors(skipped'))
  BY <1>1, AncestorsAreWithHistory
<1>4. WithAncestors(skipped) \subseteq WithAncestors(skipped')
  BY DEF WithAncestors
<1>5. ResumeSeq' = ResumeSeq
  BY DEF ResumeSeq
<1>6. target' \union WithAncestors(skipped') \subseteq 1..source
  BY <1>1, <1>3
<1>7. QED
  BY <1>1, <1>2, <1>3, <1>4, <1>5, <1>6 DEF Abstract!Copy, WithAncestors

\* A seq that is safe lists nothing that is not accounted for.
LEMMA SafeSeqsCoverTheirList ==
    ASSUME TypeOK, NEW s \in SafeSeqs(Known, source)
    PROVE  s \in 0..source /\ Abstract!ListedBy(s) \subseteq Abstract!Accounted
<1>1. source \in 0..Size /\ source \in Nat /\ s \in 0..source /\ s \in Nat
  BY SourceIs DEF SafeSeqs
<1>2. ASSUME NEW i \in Abstract!ListedBy(s)
      PROVE  i \in Abstract!Accounted
  <2>1. /\ i \in Shown(source) /\ i \in 1..source
        /\ \A j \in 1..source : Updates[j].doc = Updates[i].doc => j <= s
    BY <1>2 DEF Abstract!ListedBy, Abstract!Visible, Shown
  <2>2. Row(i, source) \in 1..source /\ Updates[Row(i, source)].doc = Updates[i].doc
    BY <1>1, <2>1, RowIs
  <2>3. Row(i, source) <= s
    BY <2>1, <2>2
  <2>4. i \in Known
    BY <2>1, <2>3 DEF SafeSeqs
  <2>5. QED
    BY <2>4 DEF Known, Abstract!Accounted
<1>3. QED
  BY <1>1, <1>2

\* A checkpoint that is written moves the resume seq to a safe one.
LEMMA RecordingIsRecord ==
    ASSUME IInv, IInv', UNCHANGED <<source, target, skipped>>, Claimed' = Claimed
    PROVE  Abstract!Record
<1>1. TypeOK /\ srcCkpt' \in Histories(Known, source) /\ tgtCkpt' \in Histories(Known, source)
  <2>1. Known' = Known
    BY DEF Known
  <2>2. srcCkpt' \in SafeHistory' /\ tgtCkpt' \in SafeHistory'
    BY DEF IInv, RecordsAreSafe
  <2>3. SafeHistory' = Histories(Known, source)
    BY <2>1 DEF SafeHistory, Histories
  <2>4. QED
    BY <2>2, <2>3 DEF IInv
<1>2. ResumeSeq' \in SafeSeqs(Known, source)
  BY <1>1, ResumesInAHistory, SourceIs DEF ResumeSeq
<1>3. QED
  BY <1>1, <1>2, SafeSeqsCoverTheirList DEF Abstract!Record

\* What replicate claims changes only where it returns, and where its answer is
\* forgotten.
LEMMA ClaimStays ==
    ASSUME IInv, result' = result, session'.from = session.from, session'.opts = session.opts,
           cancelled' = cancelled \/ phase = "running"
    PROVE  Claimed' = Claimed
<1>1. phase = "running" => result # "clean"
  BY DEF IInv, SessionIsSound
<1>2. QED
  BY <1>1 DEF Claimed

\* The steps that change neither endpoint nor answer.
LEMMA InnerStepsStutter ==
    ASSUME IInv, UNCHANGED <<source, target, skipped, srcCkpt, tgtCkpt>>,
           result' = result, session'.from = session.from, session'.opts = session.opts,
           cancelled' = cancelled \/ phase = "running"
    PROVE  UNCHANGED Abstract!vars
<1>1. Claimed' = Claimed
  BY ClaimStays
<1>2. ResumeSeq' = ResumeSeq
  BY DEF ResumeSeq
<1>3. QED
  BY <1>1, <1>2 DEF Abstract!vars

\* Work is done while the session runs only.
LEMMA WorkMeansRunning ==
    ASSUME IInv, changes \union missing \union units \union atts \union fetched # {}
    PROVE  phase = "running"
  BY DEF IInv, SessionIsSound, Books

\* Where nothing but the answer changes, it is a claim or it is forgotten.
LEMMA ReturnIsClaim ==
    ASSUME IInv, IInv', UNCHANGED <<source, target, skipped, srcCkpt, tgtCkpt>>
    PROVE  Abstract!Claim \/ Abstract!Forget
<1>1. ResumeSeq' = ResumeSeq
  BY DEF ResumeSeq
<1>2. CASE Claimed' = 0
  BY <1>1, <1>2 DEF Abstract!Forget
<1>3. CASE Claimed' # 0
  <2>1. Claimed' = session'.from /\ result' = "clean" /\ ~cancelled'
    BY <1>3 DEF Claimed
  <2>2. session'.from <= source /\ Shown(session'.from) \subseteq Known
    <3>1. Known' = Known
      BY DEF Known
    <3>2. session'.from <= source' /\ Shown(session'.from) \subseteq Known'
      BY <2>1 DEF IInv, SessionIsSound, Shown
    <3>3. QED
      BY <3>1, <3>2
  <2>3. session'.from \in 1..source
    <3>1. session'.from \in Nat /\ source \in Nat
      BY SourceIs, UpdatesAre DEF IInv, TypeOK, Seqs, Size
    <3>2. QED
      BY <1>3, <2>1, <2>2, <3>1
  <2>4. Abstract!Visible(session'.from) \subseteq Abstract!Accounted
    BY <2>2 DEF Abstract!Visible, Abstract!Accounted, Shown, Known
  <2>5. QED
    BY <1>1, <2>1, <2>3, <2>4 DEF Abstract!Claim
<1>4. QED
  BY <1>2, <1>3

\* What the stages do to the target and to the revisions given up on.
LEMMA CopyingIsCopy ==
    ASSUME IInv, IInv',
           \/ \E u \in units : FetchFails(u)
           \/ \E ad \in atts : AttStream(ad) \/ AttFails(ad)
           \/ \E batch \in Batches :
                \/ Flush(batch) \/ FlushUnanswered(batch) \/ FlushFails(batch)
                \/ \E rejected \in (SUBSET batch) \ {{}} : FlushRejected(batch, rejected)
    PROVE  Abstract!Copy
<1>1. phase = "running"
  <2>1. units \union atts \union fetched # {}
    BY DEF Batches
  <2>2. QED
    BY <2>1, WorkMeansRunning
<1>2. session \in [id : Sessions, opts : Options, from : Seqs, skips : BOOLEAN]
  BY DEF IInv, TypeOK
<1>3. /\ UNCHANGED <<source, srcCkpt, tgtCkpt, result>>
      /\ session'.from = session.from /\ session'.opts = session.opts
      /\ target \subseteq target' /\ skipped \subseteq skipped'
  <2>1. CASE \E u \in units : FetchFails(u)
    BY <2>1, <1>2 DEF FetchFails, GiveUp, Abort, endpoints
  <2>2. CASE \E ad \in atts : AttStream(ad) \/ AttFails(ad)
    BY <2>2, <1>2 DEF AttStream, AttFails, GiveUp, Abort, run
  <2>3. CASE \E batch \in Batches : Flush(batch) \/ FlushUnanswered(batch) \/ FlushFails(batch)
    BY <2>3 DEF Flush, FlushUnanswered, FlushFails, run
  <2>4. CASE \E batch \in Batches : \E rejected \in (SUBSET batch) \ {{}} :
               FlushRejected(batch, rejected)
    <3>1. PICK batch \in Batches, rejected \in SUBSET fetched : FlushRejected(batch, rejected)
      BY <2>4 DEF Batches
    <3>2. QED
      BY <3>1, <1>2 DEF FlushRejected
  <2>5. QED
    BY <2>1, <2>2, <2>3, <2>4
<1>4. Claimed' = Claimed
  BY <1>1, <1>3, ClaimStays
<1>5. QED
  BY <1>3, <1>4, GrowingIsCopy

\* The other steps of a session touch neither endpoint.
LEMMA StagesStutter ==
    ASSUME IInv,
           \/ Reads \/ Drop \/ Close \/ FinalCheckpoint \/ PeriodicCheckpoint
           \/ \E tc \in changes : Diff(tc) \/ DiffFails(tc)
           \/ \E md \in missing : Explode(md)
           \/ \E u \in units : Fetch(u)
           \/ \E ad \in atts : AttInline(ad)
           \/ FeedDrops \/ FeedEnds \/ ReadFails \/ Cancel
           \/ UNCHANGED vars
    PROVE  UNCHANGED Abstract!vars
<1>1. /\ UNCHANGED <<source, target, skipped, srcCkpt, tgtCkpt, result>>
      /\ session' = session
      /\ cancelled' = cancelled \/ phase = "running"
  <2>1. CASE Reads
    BY <2>1 DEF Reads, FetchPage, Emit, PageDone, ChunkDone, ReaderStops, endpoints, run, token
  <2>2. CASE Drop \/ Close \/ FinalCheckpoint \/ PeriodicCheckpoint
    BY <2>2 DEF Drop, Close, FinalCheckpoint, PeriodicCheckpoint, endpoints, run, token
  <2>3. CASE \E tc \in changes : Diff(tc) \/ DiffFails(tc)
    BY <2>3, WorkMeansRunning DEF Diff, DiffFails, endpoints, run, token
  <2>4. CASE \/ \E md \in missing : Explode(md)
             \/ \E u \in units : Fetch(u)
             \/ \E ad \in atts : AttInline(ad)
    BY <2>4 DEF Explode, Fetch, AttInline, endpoints, run, token
  <2>5. CASE FeedDrops \/ FeedEnds \/ ReadFails \/ Cancel
    BY <2>5 DEF FeedDrops, FeedEnds, ReadFails, Cancel, endpoints, run, token
  <2>6. CASE UNCHANGED vars
    BY <2>6 DEF vars, endpoints, run, token
  <2>7. QED
    BY <2>1, <2>2, <2>3, <2>4, <2>5, <2>6
<1>2. QED
  BY <1>1, InnerStepsStutter

\* A checkpoint on its way reaches an endpoint, or fails to.
LEMMA PuttingIsRecord ==
    ASSUME IInv, IInv', \E c \in ckpts : PutTarget(c) \/ PutSource(c) \/ PutFails(c)
    PROVE  Abstract!Record
<1>1. /\ UNCHANGED <<source, target, skipped, result, session>> /\ cancelled' = cancelled
  BY DEF PutTarget, PutSource, PutFails, run, token
<1>2. Claimed' = Claimed
  BY <1>1, ClaimStays
<1>3. QED
  BY <1>1, <1>2, RecordingIsRecord

\* A session begins or ends, in one way or another.
LEMMA AnsweringIsClaim ==
    ASSUME IInv, IInv', Return \/ Crash \/ \E opts \in Options : StartSession(opts)
    PROVE  Abstract!Claim \/ Abstract!Forget
<1>1. UNCHANGED <<source, target, skipped, srcCkpt, tgtCkpt>>
  BY DEF Return, Crash, StartSession, endpoints
<1>2. QED
  BY <1>1, ReturnIsClaim

\* The source gets on by itself.
LEMMA UpdateSourceIsUpdate ==
    ASSUME IInv, UpdateSource
    PROVE  Abstract!Update
<1>1. /\ source < Len(Updates) /\ source' = source + 1
      /\ UNCHANGED <<target, skipped, srcCkpt, tgtCkpt, result, session, cancelled>>
  BY DEF UpdateSource, run, token
<1>2. Claimed' = Claimed /\ ResumeSeq' = ResumeSeq
  BY <1>1 DEF Claimed, ResumeSeq
<1>3. QED
  BY <1>1, <1>2 DEF Abstract!Update

\* Every step is one of the abstract copying, or a stutter of it.
LEMMA NextIsAbstract ==
    ASSUME IInv, IInv', [Next]_vars
    PROVE  [Abstract!Next]_(Abstract!vars)
<1>1. CASE UpdateSource
  BY <1>1, UpdateSourceIsUpdate DEF Abstract!Next
<1>2. CASE Return \/ Crash \/ \E opts \in Options : StartSession(opts)
  BY <1>2, AnsweringIsClaim DEF Abstract!Next
<1>3. CASE \E c \in ckpts : PutTarget(c) \/ PutSource(c) \/ PutFails(c)
  BY <1>3, PuttingIsRecord DEF Abstract!Next
<1> DEFINE Copied ==
             \/ \E u \in units : FetchFails(u)
             \/ \E ad \in atts : AttStream(ad) \/ AttFails(ad)
             \/ \E batch \in Batches :
                  \/ Flush(batch) \/ FlushUnanswered(batch) \/ FlushFails(batch)
                  \/ \E rejected \in (SUBSET batch) \ {{}} : FlushRejected(batch, rejected)
           Stage ==
             \/ Reads \/ Drop \/ Close \/ FinalCheckpoint \/ PeriodicCheckpoint
             \/ \E tc \in changes : Diff(tc) \/ DiffFails(tc)
             \/ \E md \in missing : Explode(md)
             \/ \E u \in units : Fetch(u)
             \/ \E ad \in atts : AttInline(ad)
             \/ FeedDrops \/ FeedEnds \/ ReadFails \/ Cancel
             \/ UNCHANGED vars
<1>4. CASE Copied
  BY <1>4, CopyingIsCopy DEF Abstract!Next
<1>5. CASE Stage
  BY <1>5, StagesStutter
<1>6. \/ UpdateSource \/ Return \/ Crash \/ \E opts \in Options : StartSession(opts)
      \/ \E c \in ckpts : PutTarget(c) \/ PutSource(c) \/ PutFails(c)
      \/ Copied \/ Stage
  <2>1. CASE UpdateSource \/ (\E opts \in Options : StartSession(opts)) \/ Reads \/ Drop
             \/ PeriodicCheckpoint \/ UNCHANGED vars
    BY <2>1
  <2>2. CASE Copies
    BY <2>2 DEF Copies
  <2>3. CASE Records
    BY <2>3 DEF Records
  <2>4. CASE Trouble
    BY <2>4 DEF Trouble
  <2>5. QED
    BY <2>1, <2>2, <2>3, <2>4 DEF Next, Progress
<1>7. QED
  BY <1>1, <1>2, <1>3, <1>4, <1>5, <1>6

LEMMA InitIsAbstract ==
    ASSUME Init
    PROVE  Abstract!Init
<1>1. Len(<<>>) = 0 /\ 1..0 = {}
  OBVIOUS
<1>2. ResumeSeq = 0
  BY <1>1 DEF Init, ResumeSeq, Resume
<1>3. Claimed = 0
  BY DEF Init, Claimed
<1>4. UNION {Ancestry[j] : j \in skipped} = {}
  BY DEF Init
<1>5. QED
  BY <1>2, <1>3, <1>4 DEF Init, Abstract!Init

\* The replicator as a whole is the abstract copying: what reached the target stays
\* there with its history, and whatever the stages, the ledger, the checkpoints and
\* the faults do, what a session would resume from and what replicate claims to have
\* brought never pass what is on the target or was given up on (pipeline.rs).
THEOREM ReplicationIsCopying ==
    Spec => IsCopying
<1>1. Init => Abstract!Init
  BY InitIsAbstract
<1>2. IInv /\ IInv' /\ [Next]_vars => [Abstract!Next]_(Abstract!vars)
  BY NextIsAbstract
<1>3. QED
  BY <1>1, <1>2, Invariant, PTL DEF Spec, IsCopying, Abstract!Spec
=============================================================================
