-------------------------- MODULE IndexFileProofs --------------------------
(***************************************************************************)
(* An index is current up to the seq in its header, for any documents,     *)
(* definitions, requests, batches and crashes.                             *)
(***************************************************************************)
EXTENDS IndexFile, FiniteSetTheorems, SequenceTheorems, WellFoundedInduction, TLAPS

LEMMA KeysAreFinite ==
    IsFiniteSet(Keys)
  BY FS_Union, IndexAssumption DEF IndexAssumption, Keys

-----------------------------------------------------------------------------
(* The least and the greatest number                                        *)

LEMMA MinExists ==
    ASSUME NEW S \in SUBSET Nat, S # {}
    PROVE  \E x \in S : \A y \in S : x <= y
<1>1. PICK x \in S : \A y \in S : ~(<<y, x>> \in OpToRel(<, Nat))
  BY WFMin, NatLessThanWellFounded
<1>2. \A y \in S : ~(y < x)
  BY <1>1 DEF OpToRel
<1>3. QED
  BY <1>2

LEMMA MaxIsGreatest ==
    ASSUME NEW n \in Nat, NEW S \in SUBSET (0..n), S # {}
    PROVE  Max(S) \in S /\ \A y \in S : y <= Max(S)
<1> DEFINE T == {n - x : x \in S}
<1>1. \A x \in S : n - x \in Nat
  OBVIOUS
<1>2. T \in SUBSET Nat /\ T # {}
  BY <1>1
<1>3. PICK t \in T : \A y \in T : t <= y
  BY <1>2, MinExists
<1>4. PICK x \in S : t = n - x
  BY <1>3
<1>5. \A y \in S : y <= x
  <2> TAKE y \in S
  <2>1. n - x <= n - y
    BY <1>3, <1>4
  <2>2. QED
    BY <2>1
<1>6. QED
  BY <1>5 DEF Max

-----------------------------------------------------------------------------
(* A batch of an update                                                     *)

\* How many rows of the changes after since are not after the one of k.
UpTo(r, k) == {j \in Keys : r.row[j] > r.since /\ r.row[j] <= r.row[k]}

LEMMA UpToIsFinite ==
    ASSUME NEW r, NEW k
    PROVE  IsFiniteSet(UpTo(r, k)) /\ Cardinality(UpTo(r, k)) \in Nat
<1>1. UpTo(r, k) \in SUBSET Keys
  BY DEF UpTo
<1>2. QED
  BY <1>1, KeysAreFinite, FS_Subset, FS_CardinalityType

LEMMA PendingIs ==
    ASSUME NEW r
    PROVE  Pending(r) = {k \in Keys : r.row[k] > r.since /\ Cardinality(UpTo(r, k)) <= BATCH}
<1>1. ASSUME NEW k
      PROVE  {j \in {i \in Keys : r.row[i] > r.since} : r.row[j] <= r.row[k]} = UpTo(r, k)
  BY DEF UpTo
<1>2. QED
  BY <1>1 DEF Pending

\* The batch ends with one of its rows, and has every row up to that one.
LEMMA BatchIsLowest ==
    ASSUME NEW r, NEW n \in Nat, r.row \in [Keys -> 0..n], r.since \in Nat, Pending(r) # {}
    PROVE  LET last == Max({r.row[k] : k \in Pending(r)})
           IN  /\ last \in 0..n /\ last > r.since
               /\ \A k \in Pending(r) : r.row[k] <= last
               /\ \A k \in Keys : r.row[k] <= last /\ r.row[k] > r.since => k \in Pending(r)
<1> DEFINE S == {r.row[k] : k \in Pending(r)}
           last == Max(S)
<1>1. \A k \in Pending(r) : k \in Keys /\ r.row[k] \in 0..n /\ r.row[k] > r.since
  BY PendingIs
<1>2. S \in SUBSET (0..n) /\ S # {}
  BY <1>1
<1>3. last \in S /\ \A y \in S : y <= last
  BY <1>2, MaxIsGreatest
<1>4. PICK m \in Pending(r) : r.row[m] = last
  BY <1>3
<1> HIDE DEF last
<1>5. ASSUME NEW k \in Keys, r.row[k] <= last, r.row[k] > r.since
      PROVE  k \in Pending(r)
  <2>1. UpTo(r, k) \subseteq UpTo(r, m)
    BY <1>1, <1>4, <1>5 DEF UpTo
  <2>2. Cardinality(UpTo(r, k)) <= Cardinality(UpTo(r, m))
    BY <2>1, UpToIsFinite, FS_Subset
  <2>3. Cardinality(UpTo(r, m)) <= BATCH /\ BATCH \in Nat
    BY PendingIs, IndexAssumption DEF IndexAssumption
  <2>4. Cardinality(UpTo(r, k)) <= BATCH
    BY <2>2, <2>3, UpToIsFinite
  <2>5. QED
    BY <1>5, <2>4, PendingIs
<1>6. QED
  BY <1>1, <1>2, <1>3, <1>4, <1>5 DEF last

\* An empty batch: the update has seen every change of its snapshot.
LEMMA EmptyBatchIsLast ==
    ASSUME NEW r, NEW n \in Nat, r.row \in [Keys -> 0..n], RowsAreDistinct(r.row),
           r.since \in Nat, Pending(r) = {}
    PROVE  \A k \in Keys : r.row[k] <= r.since
<1> SUFFICES ASSUME NEW k \in Keys, r.row[k] > r.since
             PROVE  FALSE
  OBVIOUS
<1> DEFINE S == {r.row[j] : j \in {i \in Keys : r.row[i] > r.since}}
<1>1. S \in SUBSET Nat /\ S # {}
  OBVIOUS
<1>2. PICK x \in S : \A y \in S : x <= y
  BY <1>1, MinExists
<1>3. PICK m \in Keys : r.row[m] = x /\ r.row[m] > r.since
  BY <1>2
<1>4. \A j \in UpTo(r, m) : j = m
  BY <1>2, <1>3 DEF UpTo, RowsAreDistinct
<1>5. UpTo(r, m) = {m}
  BY <1>3, <1>4 DEF UpTo
<1>6. Cardinality(UpTo(r, m)) = 1
  BY <1>5, FS_Singleton
<1>7. m \in Pending(r)
  BY <1>3, <1>6, PendingIs, IndexAssumption DEF IndexAssumption
<1>8. QED
  BY <1>7

\* So does one that is not full.
LEMMA ShortBatchIsLast ==
    ASSUME NEW r, NEW n \in Nat, r.row \in [Keys -> 0..n], RowsAreDistinct(r.row),
           r.since \in Nat, Pending(r) # {}, Cardinality(Pending(r)) # BATCH
    PROVE  \A k \in Keys : r.row[k] <= Max({r.row[j] : j \in Pending(r)})
<1> DEFINE last == Max({r.row[j] : j \in Pending(r)})
<1> SUFFICES ASSUME NEW k \in Keys, r.row[k] > last
             PROVE  FALSE
  <2>1. last \in 0..n
    BY BatchIsLowest
  <2>2. \A k \in Keys : ~(r.row[k] > last) => r.row[k] <= last
    BY <2>1
  <2>3. QED
    BY <2>2
<1>1. /\ last \in 0..n /\ last > r.since
      /\ \A j \in Pending(r) : r.row[j] <= last
      /\ \A j \in Keys : r.row[j] <= last /\ r.row[j] > r.since => j \in Pending(r)
  BY BatchIsLowest
<1>2. \A j \in Pending(r) : j \in Keys /\ r.row[j] > r.since
  BY PendingIs
<1> HIDE DEF last
<1> DEFINE S == {r.row[j] : j \in {i \in Keys : r.row[i] > last}}
<1>3. S \in SUBSET Nat /\ S # {}
  OBVIOUS
<1>4. PICK x \in S : \A y \in S : x <= y
  BY <1>3, MinExists
<1>5. PICK m \in Keys : r.row[m] = x /\ r.row[m] > last
  BY <1>4
<1>6. m \notin Pending(r)
  BY <1>1, <1>5
<1>7. UpTo(r, m) = Pending(r) \cup {m}
  <2>1. ASSUME NEW j \in UpTo(r, m)
        PROVE  j \in Pending(r) \cup {m}
    <3>1. j \in Keys /\ r.row[j] > r.since /\ r.row[j] <= r.row[m]
      BY DEF UpTo
    <3>2. CASE r.row[j] <= last
      BY <1>1, <3>1, <3>2
    <3>3. CASE r.row[j] > last
      BY <1>1, <1>4, <1>5, <3>1, <3>3 DEF RowsAreDistinct
    <3>4. QED
      BY <1>1, <3>1, <3>2, <3>3
  <2>2. ASSUME NEW j \in Pending(r) \cup {m}
        PROVE  j \in UpTo(r, m)
    BY <1>1, <1>2, <1>5 DEF UpTo
  <2>3. QED
    BY <2>1, <2>2
<1>8. Pending(r) \in SUBSET Keys /\ IsFiniteSet(Pending(r)) /\ Cardinality(Pending(r)) \in Nat
  BY <1>2, KeysAreFinite, FS_Subset, FS_CardinalityType
<1>9. Cardinality(UpTo(r, m)) = Cardinality(Pending(r)) + 1
  BY <1>6, <1>7, <1>8, FS_AddElement
<1>10. Cardinality(UpTo(r, m)) > BATCH /\ BATCH \in Nat
  BY <1>1, <1>5, <1>6, PendingIs, UpToIsFinite, IndexAssumption DEF IndexAssumption
<1>11. Cardinality(Pending(r)) <= BATCH
  <2> DEFINE P == {r.row[j] : j \in Pending(r)}
  <2>1. P \in SUBSET (0..n) /\ P # {}
    BY <1>2
  <2>2. last \in P
    BY <2>1, MaxIsGreatest DEF last
  <2>3. PICK e \in Pending(r) : r.row[e] = last
    BY <2>2
  <2>4. Pending(r) \subseteq UpTo(r, e)
    BY <1>1, <1>2, <2>3 DEF UpTo
  <2>5. Cardinality(Pending(r)) <= Cardinality(UpTo(r, e))
    BY <2>4, UpToIsFinite, FS_Subset
  <2>6. Cardinality(UpTo(r, e)) <= BATCH
    BY <2>3, PendingIs
  <2>7. QED
    BY <1>8, <1>10, <2>5, <2>6, UpToIsFinite
<1>12. QED
  BY <1>8, <1>9, <1>10, <1>11

-----------------------------------------------------------------------------
(* The rows of a file                                                       *)

\* The rows of the changed documents are replaced, and no other.
LEMMA ApplyReplacesRows ==
    ASSUME NEW f, IsFile(f), KeysMatchIds(f), NEW d, NEW changed \in SUBSET Keys, NEW leaves
    PROVE  LET g == Apply(f, d, changed, leaves)
           IN  /\ IsFile(g) /\ KeysMatchIds(g)
               /\ g.uuid = f.uuid /\ g.seq = f.seq
               /\ \A k \in Keys : g.ids[k] = IF k \in changed THEN KeysOf(d, leaves[k])
                                                               ELSE f.ids[k]
<1> DEFINE ids == [k \in Keys |-> IF k \in changed THEN KeysOf(d, leaves[k]) ELSE f.ids[k]]
           Rows(t, k) == {[cols |-> c, id |-> k] : c \in t[k]}
           keys == (f.keys \ UNION {Rows(f.ids, k) : k \in changed})
                     \cup UNION {Rows(ids, k) : k \in changed}
           g == Apply(f, d, changed, leaves)
<1>1. g = [f EXCEPT !.ids = ids, !.keys = keys]
  BY DEF Apply
<1>2. f.keys = UNION {Rows(f.ids, k) : k \in Keys}
  BY DEF KeysMatchIds
<1>3. keys = UNION {Rows(ids, k) : k \in Keys}
  <2>1. ASSUME NEW e \in keys
        PROVE  e \in UNION {Rows(ids, k) : k \in Keys}
    <3>1. CASE e \in UNION {Rows(ids, k) : k \in changed}
      BY <3>1
    <3>2. CASE e \in f.keys /\ e \notin UNION {Rows(f.ids, k) : k \in changed}
      <4>1. PICK k \in Keys : e \in Rows(f.ids, k)
        BY <1>2, <3>2
      <4>2. k \notin changed
        BY <3>2, <4>1
      <4>3. Rows(ids, k) = Rows(f.ids, k)
        BY <4>2
      <4>4. QED
        BY <4>1, <4>3
    <3>3. QED
      BY <2>1, <3>1, <3>2
  <2>2. ASSUME NEW k \in Keys, NEW e \in Rows(ids, k)
        PROVE  e \in keys
    <3>1. CASE k \in changed
      BY <3>1, <2>2
    <3>2. CASE k \notin changed
      <4>1. e \in Rows(f.ids, k) /\ e.id = k
        BY <2>2, <3>2
      <4>2. \A j \in changed : e \notin Rows(f.ids, j)
        BY <3>2, <4>1
      <4>3. QED
        BY <1>2, <4>1, <4>2
    <3>3. QED
      BY <3>1, <3>2
  <2>3. QED
    BY <2>1, <2>2
<1> HIDE DEF ids, keys, g
<1>4. /\ DOMAIN g = DOMAIN f /\ g.ids = ids /\ g.keys = keys
      /\ g.uuid = f.uuid /\ g.seq = f.seq
  BY <1>1 DEF IsFile
<1>5. DOMAIN ids = Keys
  BY DEF ids
<1>6. KeysMatchIds(g)
  BY <1>3, <1>4 DEF KeysMatchIds
<1>7. IsFile(g)
  BY <1>4, <1>5 DEF IsFile
<1>8. QED
  BY <1>4, <1>6, <1>7 DEF ids, g

\* A scan finds under an id what the second tree remembers of it.
LEMMA ScanFindsIds ==
    ASSUME NEW f, KeysMatchIds(f), NEW k \in Keys
    PROVE  {e.cols : e \in {x \in f.keys : x.id = k}} = f.ids[k]
<1> DEFINE Rows(j) == {[cols |-> c, id |-> j] : c \in f.ids[j]}
<1>1. f.keys = UNION {Rows(j) : j \in Keys}
  BY DEF KeysMatchIds
<1>2. ASSUME NEW e \in f.keys, e.id = k
      PROVE  e.cols \in f.ids[k]
  <2>1. PICK j \in Keys : e \in Rows(j)
    BY <1>1
  <2>2. PICK c \in f.ids[j] : e = [cols |-> c, id |-> j]
    BY <2>1
  <2>3. QED
    BY <1>2, <2>2
<1>3. ASSUME NEW c \in f.ids[k]
      PROVE  \E e \in f.keys : e.id = k /\ e.cols = c
  <2>1. [cols |-> c, id |-> k] \in f.keys
    BY <1>1
  <2>2. QED
    BY <2>1
<1>4. QED
  BY <1>2, <1>3

-----------------------------------------------------------------------------
(* Writes of the store                                                      *)

\* What a step may do to the store: a document that is there after it is as it
\* was, or has a seq that nobody has seen.
StoreGrows ==
    /\ docs' \in [Keys -> Seq(Bodies \cup {Deleted})] /\ uuid' = uuid
    /\ seq' \in Nat /\ seq' >= seq /\ row' \in [Keys -> 0..seq'] /\ RowsAreDistinct(row')
    /\ \A k \in Keys : row'[k] = 0 <=> docs'[k] = <<>>
    /\ \A k \in Keys : docs'[k] # <<>> => \/ docs'[k] = docs[k] /\ row'[k] = row[k]
                                          \/ row'[k] > seq

LEMMA SameStoreGrows ==
    ASSUME IInv, UNCHANGED <<docs, row, seq, uuid>>
    PROVE  StoreGrows
  BY DEF IInv, TypeOK, StoreIsSound, StoreGrows, RowsAreDistinct

LEMMA StoreStepGrows ==
    ASSUME IInv, NEW k \in Keys, NEW leaves \in Seq(Bodies \cup {Deleted}), leaves # <<>>,
           Store(k, leaves), uuid' = uuid
    PROVE  StoreGrows /\ row'[k] > seq
<1>1. /\ docs' = [docs EXCEPT ![k] = leaves] /\ row' = [row EXCEPT ![k] = seq + 1]
      /\ seq' = seq + 1
  BY DEF Store
<1>2. /\ docs \in [Keys -> Seq(Bodies \cup {Deleted})] /\ seq \in Nat
      /\ row \in [Keys -> 0..seq] /\ RowsAreDistinct(row)
      /\ \A j \in Keys : row[j] = 0 <=> docs[j] = <<>>
  BY DEF IInv, TypeOK, StoreIsSound
<1>3. docs' \in [Keys -> Seq(Bodies \cup {Deleted})]
  BY <1>1, <1>2
<1>4. row' \in [Keys -> 0..seq']
  BY <1>1, <1>2
<1>5. \A j \in Keys : /\ docs'[j] = IF j = k THEN leaves ELSE docs[j]
                      /\ row'[j] = IF j = k THEN seq + 1 ELSE row[j]
  BY <1>1, <1>2
<1>6. RowsAreDistinct(row')
  BY <1>2, <1>5 DEF RowsAreDistinct
<1>7. \A j \in Keys : row'[j] = 0 <=> docs'[j] = <<>>
  BY <1>2, <1>5
<1>8. QED
  BY <1>1, <1>2, <1>3, <1>4, <1>5, <1>6, <1>7 DEF StoreGrows

\* A file of this database says what it must of the documents it has seen.
IsCurrent(f, d) ==
    f.uuid = uuid => f.seq <= seq /\ IndexedTo(f.ids, d, docs, row, f.seq)

\* A file that is not written is as current as it was.
LEMMA FileStaysCurrent ==
    ASSUME IInv, StoreGrows, NEW f, NEW d, IsFile(f), IsCurrent(f, d)
    PROVE  IsFile(f)' /\ IsCurrent(f, d)'
<1>1. uuid' = uuid /\ seq \in Nat /\ seq' \in Nat /\ seq' >= seq /\ f.seq \in Nat
      /\ row \in [Keys -> 0..seq] /\ row' \in [Keys -> 0..seq']
  BY DEF IInv, StoreIsSound, StoreGrows, IsFile
<1>2. IsFile(f)'
  BY <1>1 DEF IsFile
<1>3. ASSUME f.uuid = uuid, NEW k \in Keys, docs'[k] # <<>>, row'[k] <= f.seq
      PROVE  f.ids[k] = KeysOf(d, docs'[k])
  <2>1. ~(row'[k] > seq)
    BY <1>1, <1>3 DEF IsCurrent
  <2>2. docs'[k] = docs[k] /\ row'[k] = row[k]
    BY <1>3, <2>1 DEF StoreGrows
  <2>3. QED
    BY <1>3, <2>2 DEF IsCurrent, IndexedTo
<1>4. QED
  BY <1>1, <1>2, <1>3 DEF IsCurrent, IndexedTo

\* An update goes on with its snapshot, whatever is written beside it.
LEMMA UpdateStaysSound ==
    ASSUME IInv, StoreGrows, NEW r, UpdateIsSound(r)
    PROVE  UpdateIsSound(r)'
<1>1. uuid' = uuid /\ seq \in Nat /\ seq' \in Nat /\ seq' >= seq /\ r.seq \in 0..seq
  BY DEF IInv, StoreIsSound, StoreGrows, UpdateIsSound
<1>2. r.seq \in 0..seq' /\ IsFile(r.idx)' /\ r.idx.uuid = uuid'
  BY <1>1 DEF UpdateIsSound, IsFile
<1>3. ASSUME NEW k \in Keys, docs'[k] # <<>>, row'[k] <= r.seq
      PROVE  docs'[k] = r.docs[k] /\ row'[k] = r.row[k]
  <2>1. ~(row'[k] > seq) /\ row'[k] \in Nat
    BY <1>1, <1>3 DEF StoreGrows
  <2>2. docs'[k] = docs[k] /\ row'[k] = row[k]
    BY <1>3, <2>1 DEF StoreGrows
  <2>3. QED
    BY <1>3, <2>2 DEF UpdateIsSound
<1>4. QED
  BY <1>2, <1>3 DEF UpdateIsSound

LEMMA PurgeStaysSound ==
    ASSUME IInv, StoreGrows, UNCHANGED files, NEW r, r.id \in Keys, PurgeIsSound(r)
    PROVE  PurgeIsSound(r)'
<1> SUFFICES ASSUME NEW d \in DOMAIN files, files[d].uuid = uuid', docs'[r.id] # <<>>
             PROVE  files[d].seq < row'[r.id]
  BY DEF PurgeIsSound
<1>1. /\ seq \in Nat /\ files[d].seq \in Nat /\ files[d].seq <= seq
      /\ row'[r.id] \in Nat /\ uuid' = uuid
  BY DEF IInv, StoreIsSound, FilesAreFiles, IsFile, RowsAreCurrent, StoreGrows
<1>2. CASE docs'[r.id] = docs[r.id] /\ row'[r.id] = row[r.id]
  BY <1>1, <1>2 DEF PurgeIsSound
<1>3. CASE row'[r.id] > seq
  BY <1>1, <1>3
<1>4. QED
  BY <1>2, <1>3 DEF StoreGrows

\* The requests beside the one that takes a step.
LEMMA OthersStaySound ==
    ASSUME IInv, StoreGrows, NEW o \in Procs, reqs'[o] = reqs[o],
           UNCHANGED files \/ reqs[o].pc # "purging"
    PROVE  /\ reqs'[o].pc = "updating" => UpdateIsSound(reqs[o])'
           /\ reqs'[o].pc = "purging" => reqs'[o].id \in Keys /\ PurgeIsSound(reqs[o])'
           /\ reqs'[o].pc = "scanning" =>
                \A k \in Keys : reqs'[o].docs[k] # <<>> =>
                   {e.cols : e \in {x \in reqs'[o].keys : x.id = k}}
                      = KeysOf(reqs'[o].def, reqs'[o].docs[k])
<1>1. CASE reqs[o].pc = "updating"
  <2>1. UpdateIsSound(reqs[o])
    BY <1>1 DEF IInv, RequestsAreSound
  <2>2. \A r : UpdateIsSound(r) => UpdateIsSound(r)'
    BY UpdateStaysSound
  <2>3. UpdateIsSound(reqs[o])'
    BY <2>1, <2>2
  <2>4. QED
    BY <1>1, <2>3
<1>2. CASE reqs[o].pc = "purging"
  BY <1>2, PurgeStaysSound DEF IInv, RequestsAreSound
<1>3. QED
  BY <1>1, <1>2 DEF IInv, ScanSeesSnapshot

\* What holds of one request.
RequestIsSound(o) ==
    /\ reqs[o].pc = "updating" => UpdateIsSound(reqs[o])
    /\ reqs[o].pc = "purging" => reqs[o].id \in Keys /\ PurgeIsSound(reqs[o])
    /\ reqs[o].pc = "scanning" =>
         \A k \in Keys : reqs[o].docs[k] # <<>> =>
           {e.cols : e \in {x \in reqs[o].keys : x.id = k}} = KeysOf(reqs[o].def, reqs[o].docs[k])

FilesAreSound ==
    /\ DOMAIN files \subseteq Defs
    /\ \A d \in DOMAIN files :
         IsFile(files[d]) /\ KeysMatchIds(files[d]) /\ IsCurrent(files[d], d)

Locked == {"updating", "purging", "deleting"}

LEMMA FilesOfIInv ==
    ASSUME IInv
    PROVE  FilesAreSound
  BY DEF IInv, TypeOK, FilesAreFiles, RowsAreCurrent, FilesAreSound, IsCurrent

LEMMA PartsMakeIInv ==
    ASSUME StoreIsSound', FilesAreSound', lock' \in Procs \cup {Free},
           \A k \in Keys : row'[k] \in 0..seq' /\ (row'[k] = 0 <=> docs'[k] = <<>>),
           \A o \in Procs : RequestIsSound(o)' /\ (reqs'[o].pc \in Locked <=> lock' = o)
    PROVE  IInv'
<1>1. TypeOK'
  BY DEF TypeOK, FilesAreSound, Locked
<1>2. FilesAreFiles' /\ RowsAreCurrent'
  BY DEF FilesAreSound, FilesAreFiles, RowsAreCurrent, IsCurrent
<1>3. RequestsAreSound' /\ ScanSeesSnapshot'
  BY DEF RequestIsSound, RequestsAreSound, ScanSeesSnapshot
<1>4. QED
  BY <1>1, <1>2, <1>3 DEF IInv

LEMMA SameFilesAreSound ==
    ASSUME IInv, StoreGrows, UNCHANGED files
    PROVE  FilesAreSound'
<1>1. ASSUME NEW d \in DOMAIN files
      PROVE  IsFile(files[d])' /\ IsCurrent(files[d], d)'
  <2>1. \A f : IsFile(f) /\ IsCurrent(f, d) => IsFile(f)' /\ IsCurrent(f, d)'
    BY FileStaysCurrent
  <2>2. QED
    BY <2>1, FilesOfIInv DEF FilesAreSound
<1>2. QED
  BY <1>1, FilesOfIInv DEF FilesAreSound, KeysMatchIds

\* One request takes a step, which may write the store or, holding the lock, the
\* files.
LEMMA RequestStepKeepsIInv ==
    ASSUME IInv, StoreGrows, NEW p \in Procs, DOMAIN reqs' = Procs,
           \A o \in Procs \ {p} : reqs'[o] = reqs[o],
           UNCHANGED files \/ lock \in {p, Free}, FilesAreSound',
           lock' \in Procs \cup {Free}, reqs'[p].pc \in Locked <=> lock' = p,
           \A o \in Procs \ {p} : lock' = o <=> lock = o,
           RequestIsSound(p)'
    PROVE  IInv'
<1>1. StoreIsSound'
  BY DEF StoreIsSound, StoreGrows, IInv
<1>2. ASSUME NEW o \in Procs \ {p}
      PROVE  RequestIsSound(o)' /\ (reqs'[o].pc \in Locked <=> lock' = o)
  <2>1. reqs'[o] = reqs[o] /\ (reqs[o].pc \in Locked <=> lock = o)
    BY DEF IInv, TypeOK, Locked
  <2>2. UNCHANGED files \/ reqs[o].pc # "purging"
    BY <2>1, IndexAssumption DEF IndexAssumption, Locked
  <2>3. QED
    BY <2>1, <2>2, OthersStaySound DEF RequestIsSound
<1>3. \A k \in Keys : row'[k] \in 0..seq' /\ (row'[k] = 0 <=> docs'[k] = <<>>)
  BY DEF StoreGrows
<1>4. \A o \in Procs : RequestIsSound(o)' /\ (reqs'[o].pc \in Locked <=> lock' = o)
  BY <1>2
<1>5. QED
  BY <1>1, <1>3, <1>4, PartsMakeIInv

\* A write of the store beside the requests.
LEMMA StoreStepKeepsIInv ==
    ASSUME IInv, StoreGrows, UNCHANGED <<files, lock, reqs>>
    PROVE  IInv'
<1>1. StoreIsSound' /\ \A k \in Keys : row'[k] \in 0..seq' /\ (row'[k] = 0 <=> docs'[k] = <<>>)
  BY DEF StoreIsSound, StoreGrows, IInv
<1>2. FilesAreSound'
  BY SameFilesAreSound
<1>3. \A o \in Procs : RequestIsSound(o)'
  BY OthersStaySound DEF RequestIsSound
<1>4. \A o \in Procs : reqs'[o].pc \in Locked <=> lock' = o
  BY DEF IInv, TypeOK, Locked
<1>5. QED
  BY <1>1, <1>2, <1>3, <1>4, PartsMakeIInv DEF IInv, TypeOK

LEMMA LeavesAreTyped ==
    ASSUME IInv, NEW k \in Keys
    PROVE  docs[k] \in Seq(Bodies \cup {Deleted})
  BY DEF IInv, StoreIsSound

LEMMA WritesKeepIInv ==
    ASSUME IInv, NEW id \in Ids,
           Delete(id) \/ \E b \in Bodies \ {Ddoc} : Put(id, b) \/ AddConflict(id, b)
    PROVE  IInv'
<1>1. id \in Keys /\ docs[id] \in Seq(Bodies \cup {Deleted})
  BY LeavesAreTyped DEF Keys
<1>2. PICK leaves \in Seq(Bodies \cup {Deleted}) : leaves # <<>> /\ Store(id, leaves)
  <2>1. CASE Delete(id)
    <3>1. Tail(docs[id]) \in Seq(Bodies \cup {Deleted})
      BY <1>1, <2>1, HeadTailProperties DEF Delete, Live
    <3> DEFINE rest == Tail(docs[id])
    <3> HIDE DEF rest
    <3>2. /\ Append(rest, Deleted) \in Seq(Bodies \cup {Deleted})
          /\ Append(rest, Deleted) # <<>>
      <4>1. rest \in Seq(Bodies \cup {Deleted}) /\ Deleted \in Bodies \cup {Deleted}
        BY <3>1 DEF rest
      <4>2. QED
        BY <4>1, AppendProperties
    <3>3. QED
      BY <2>1, <3>2 DEF Delete, rest
  <2>2. ASSUME NEW b \in Bodies, Put(id, b)
        PROVE  \E leaves \in Seq(Bodies \cup {Deleted}) : leaves # <<>> /\ Store(id, leaves)
    <3> DEFINE rest == IF docs[id] = <<>> THEN <<>> ELSE Tail(docs[id])
    <3>1. rest \in Seq(Bodies \cup {Deleted})
      BY <1>1, HeadTailProperties
    <3>2. <<b>> \in Seq(Bodies \cup {Deleted}) /\ Len(<<b>>) = 1
      OBVIOUS
    <3> HIDE DEF rest
    <3>3. <<b>> \o rest \in Seq(Bodies \cup {Deleted}) /\ <<b>> \o rest # <<>>
      BY <3>1, <3>2, ConcatProperties
    <3>4. Store(id, <<b>> \o rest)
      BY <2>2 DEF Put, rest
    <3>5. QED
      BY <3>3, <3>4
  <2>3. ASSUME NEW b \in Bodies, AddConflict(id, b)
        PROVE  \E leaves \in Seq(Bodies \cup {Deleted}) : leaves # <<>> /\ Store(id, leaves)
    <3>1. <<b>> \in Seq(Bodies \cup {Deleted}) /\ Len(<<b>>) = 1
      OBVIOUS
    <3>2. <<b>> \o docs[id] \in Seq(Bodies \cup {Deleted}) /\ <<b>> \o docs[id] # <<>>
      BY <1>1, <3>1, ConcatProperties
    <3>3. Append(docs[id], b) \in Seq(Bodies \cup {Deleted}) /\ Append(docs[id], b) # <<>>
      BY <1>1, AppendProperties
    <3>4. QED
      BY <2>3, <3>2, <3>3 DEF AddConflict
  <2>4. QED
    BY <2>1, <2>2, <2>3
<1>3. UNCHANGED <<uuid, files, lock, reqs>>
  BY DEF Delete, Put, AddConflict
<1>4. StoreGrows
  BY <1>1, <1>2, <1>3, StoreStepGrows
<1>5. QED
  BY <1>3, <1>4, StoreStepKeepsIInv

LEMMA IndexCreateKeepsIInv ==
    ASSUME IInv, NEW d \in Defs, IndexCreate(d)
    PROVE  IInv'
<1>1. d \in Keys /\ <<Ddoc>> \in Seq(Bodies \cup {Deleted}) /\ <<Ddoc>> # <<>>
  BY IndexAssumption DEF IndexAssumption, Keys
<1>2. StoreGrows
  BY <1>1, StoreStepGrows DEF IndexCreate
<1>3. QED
  BY <1>2, StoreStepKeepsIInv DEF IndexCreate

-----------------------------------------------------------------------------
(* Requests that end                                                        *)

LEMMA IdleIsIdle ==
    Idle.pc = "idle"
  BY DEF Idle

\* A request takes a step to another state of it.
LEMMA RequestBecomes ==
    ASSUME IInv, NEW p \in Procs, NEW q, reqs' = [reqs EXCEPT ![p] = q]
    PROVE  /\ DOMAIN reqs' = Procs /\ reqs'[p] = q
           /\ \A o \in Procs \ {p} : reqs'[o] = reqs[o]
  BY DEF IInv, StoreIsSound

\* A request ends, whatever it has done to the files.
LEMMA EndKeepsIInv ==
    ASSUME IInv, NEW p \in Procs, reqs' = [reqs EXCEPT ![p] = Idle],
           UNCHANGED <<docs, row, seq, uuid>>, FilesAreSound',
           \/ lock = p /\ lock' = Free
           \/ lock # p /\ UNCHANGED <<lock, files>>
    PROVE  IInv'
<1>1. StoreGrows
  BY SameStoreGrows
<1>2. /\ DOMAIN reqs' = Procs /\ reqs'[p].pc = "idle"
      /\ \A o \in Procs \ {p} : reqs'[o] = reqs[o]
  BY RequestBecomes, IdleIsIdle
<1>3. lock' \in Procs \cup {Free} /\ lock' # p /\ \A o \in Procs \ {p} : lock' = o <=> lock = o
  BY IndexAssumption DEF IndexAssumption, IInv, TypeOK
<1>4. RequestIsSound(p)' /\ ~(reqs'[p].pc \in Locked)
  BY <1>2 DEF RequestIsSound, Locked
<1>5. QED
  BY <1>1, <1>2, <1>3, <1>4, RequestStepKeepsIInv

LEMMA LockOfRequest ==
    ASSUME IInv, NEW p \in Procs
    PROVE  reqs[p].pc \in Locked <=> lock = p
  BY DEF IInv, TypeOK, Locked

LEMMA FailureKeepsIInv ==
    ASSUME IInv, NEW p \in Procs, UpdateFails(p) \/ PurgeEnds(p) \/ ScanEnds(p)
    PROVE  IInv'
<1>1. StoreGrows /\ UNCHANGED files
  BY SameStoreGrows DEF UpdateFails, PurgeEnds, ScanEnds
<1>2. FilesAreSound'
  BY <1>1, SameFilesAreSound
<1>3. \/ lock = p /\ lock' = Free
      \/ lock # p /\ UNCHANGED <<lock, files>>
  BY LockOfRequest DEF UpdateFails, PurgeEnds, ScanEnds, Locked
<1>4. QED
  BY <1>2, <1>3, EndKeepsIInv DEF UpdateFails, PurgeEnds, ScanEnds

LEMMA RemoveFileKeepsIInv ==
    ASSUME IInv, NEW p \in Procs, RemoveFile(p)
    PROVE  IInv'
<1>1. /\ DOMAIN files' = DOMAIN files \ {reqs[p].def}
      /\ \A d \in DOMAIN files' : files'[d] = files[d]
      /\ UNCHANGED <<docs, row, seq, uuid>>
  BY DEF RemoveFile
<1>2. FilesAreSound'
  BY <1>1, FilesOfIInv DEF FilesAreSound, IsFile, KeysMatchIds, IsCurrent
<1>3. lock = p /\ lock' = Free
  BY LockOfRequest DEF RemoveFile, Locked
<1>4. QED
  BY <1>1, <1>2, <1>3, EndKeepsIInv DEF RemoveFile

\* A tombstone for the design document first.
LEMMA IndexDeleteKeepsIInv ==
    ASSUME IInv, NEW p \in Procs, NEW d \in Defs, IndexDelete(p, d)
    PROVE  IInv'
<1> DEFINE q == [pc |-> "deleting", def |-> d]
<1>1. d \in Keys /\ <<Deleted>> \in Seq(Bodies \cup {Deleted}) /\ <<Deleted>> # <<>>
  BY DEF Keys
<1>2. /\ lock = Free /\ lock' = p /\ reqs' = [reqs EXCEPT ![p] = q]
      /\ UNCHANGED <<uuid, files>>
      /\ Store(d, <<Deleted>>) \/ UNCHANGED <<docs, row, seq>>
  BY DEF IndexDelete
<1>3. StoreGrows
  BY <1>1, <1>2, StoreStepGrows, SameStoreGrows
<1>4. FilesAreSound'
  BY <1>2, <1>3, SameFilesAreSound
<1>5. q.pc = "deleting"
  OBVIOUS
<1> HIDE DEF q
<1>6. /\ DOMAIN reqs' = Procs /\ reqs'[p].pc = "deleting"
      /\ \A o \in Procs \ {p} : reqs'[o] = reqs[o]
  BY <1>2, <1>5, RequestBecomes
<1>7. RequestIsSound(p)' /\ (reqs'[p].pc \in Locked <=> lock' = p)
  BY <1>2, <1>6 DEF RequestIsSound, Locked
<1>8. \A o \in Procs \ {p} : lock' = o <=> lock = o
  BY <1>2, IndexAssumption DEF IndexAssumption
<1>9. QED
  BY <1>2, <1>3, <1>4, <1>6, <1>7, <1>8, RequestStepKeepsIInv

-----------------------------------------------------------------------------
(* Updates                                                                  *)

\* A file that has seen nothing has nothing to be wrong about.
LEMMA NewFileIsSound ==
    ASSUME IInv, NEW d
    PROVE  IsFile(NewFile) /\ KeysMatchIds(NewFile) /\ IsCurrent(NewFile, d)
<1>1. /\ DOMAIN NewFile = {"uuid", "seq", "keys", "ids"}
      /\ NewFile.uuid = uuid /\ NewFile.seq = 0 /\ NewFile.keys = {}
      /\ NewFile.ids = [k \in Keys |-> {}]
  BY DEF NewFile, File
<1>2. uuid \in 1..uuid /\ seq \in Nat
  BY DEF IInv, StoreIsSound
<1>3. IsFile(NewFile)
  BY <1>1, <1>2 DEF IsFile
<1>4. KeysMatchIds(NewFile)
  BY <1>1 DEF KeysMatchIds
<1>5. \A k \in Keys : docs[k] # <<>> => ~(row[k] <= 0)
  BY DEF IInv, TypeOK
<1>6. IsCurrent(NewFile, d)
  BY <1>1, <1>2, <1>5 DEF IsCurrent, IndexedTo
<1>7. QED
  BY <1>3, <1>4, <1>6

LEMMA FindStartsKeepsIInv ==
    ASSUME IInv, NEW p \in Procs, NEW d \in Defs, FindStarts(p, d)
    PROVE  IInv'
<1> DEFINE idx == IF d \in DOMAIN files THEN files[d] ELSE NewFile
           q == [pc |-> "updating", def |-> d, idx |-> idx, docs |-> docs, row |-> row,
                 seq |-> seq, since |-> idx.seq, more |-> TRUE]
<1>1. /\ lock = Free /\ lock' = p /\ idx.uuid = uuid
      /\ files' = [e \in DOMAIN files \cup {d} |-> IF e = d THEN idx ELSE files[e]]
      /\ reqs' = [reqs EXCEPT ![p] = q]
      /\ UNCHANGED <<docs, row, seq, uuid>>
  BY DEF FindStarts
<1>2. IsFile(idx) /\ KeysMatchIds(idx) /\ IsCurrent(idx, d)
  BY NewFileIsSound, FilesOfIInv DEF FilesAreSound
<1>3. StoreGrows
  BY <1>1, SameStoreGrows
<1>4. UpdateIsSound(q)
  <2>1. /\ DOMAIN q = {"pc", "def", "idx", "docs", "row", "seq", "since", "more"}
        /\ q.def = d /\ q.idx = idx /\ q.docs = docs /\ q.row = row /\ q.seq = seq
        /\ q.since = idx.seq /\ q.more
    OBVIOUS
  <2> HIDE DEF q, idx
  <2>2. /\ seq \in 0..seq /\ row \in [Keys -> 0..seq] /\ RowsAreDistinct(row)
        /\ \A k \in Keys : row[k] = 0 <=> docs[k] = <<>>
    BY DEF IInv, TypeOK, StoreIsSound
  <2>3. idx.seq \in idx.seq..seq /\ IndexedTo(idx.ids, d, docs, row, idx.seq)
    BY <1>1, <1>2, <2>2 DEF IsCurrent, IsFile
  <2>4. QED
    BY <1>1, <1>2, <2>1, <2>2, <2>3 DEF UpdateIsSound
<1>5. q.pc = "updating"
  OBVIOUS
<1> HIDE DEF q, idx
<1>6. /\ DOMAIN reqs' = Procs /\ reqs'[p] = q
      /\ \A o \in Procs \ {p} : reqs'[o] = reqs[o]
  BY <1>1, RequestBecomes
<1>7. RequestIsSound(p)' /\ (reqs'[p].pc \in Locked <=> lock' = p)
  <2>1. \A r : UpdateIsSound(r) => UpdateIsSound(r)'
    BY <1>3, UpdateStaysSound
  <2>2. UpdateIsSound(reqs[p])'
    BY <1>4, <1>6, <2>1
  <2>3. QED
    BY <1>1, <1>5, <1>6, <2>2 DEF RequestIsSound, Locked
<1>8. FilesAreSound'
  <2>1. ASSUME NEW e \in DOMAIN files'
        PROVE  e \in Defs /\ IsFile(files'[e]) /\ KeysMatchIds(files'[e]) /\ IsCurrent(files'[e], e)
    BY <1>1, <1>2, FilesOfIInv DEF FilesAreSound
  <2>2. QED
    BY <1>1, <2>1 DEF FilesAreSound, IsFile, KeysMatchIds, IsCurrent
<1>9. \A o \in Procs \ {p} : lock' = o <=> lock = o
  BY <1>1, IndexAssumption DEF IndexAssumption
<1>10. QED
  BY <1>1, <1>3, <1>6, <1>7, <1>8, <1>9, RequestStepKeepsIInv

\* The rows of a batch are the lowest that are left, and all of them if it is not
\* full: the copy of the index is current up to the last of them.
LEMMA UpdateBatchKeepsIInv ==
    ASSUME IInv, NEW p \in Procs, UpdateBatch(p)
    PROVE  IInv'
<1> DEFINE r == reqs[p]
           pending == Pending(r)
           idx == Apply(r.idx, r.def, pending, r.docs)
           last == Max({r.row[k] : k \in pending})
           more == Cardinality(pending) = BATCH
           q == [r EXCEPT !.idx = idx, !.since = last, !.more = more]
<1>1. /\ r.pc = "updating" /\ pending # {} /\ UNCHANGED <<docs, row, seq, uuid, files, lock>>
      /\ reqs' = [reqs EXCEPT ![p] = q]
  BY DEF UpdateBatch
<1>2. UpdateIsSound(r)
  BY <1>1 DEF IInv, RequestsAreSound
<1>3. pending \in SUBSET Keys /\ \A k \in pending : r.row[k] > r.since
  BY PendingIs
<1>4. /\ r.seq \in Nat /\ r.since \in Nat /\ r.row \in [Keys -> 0..r.seq]
      /\ RowsAreDistinct(r.row)
  BY <1>2 DEF UpdateIsSound, IsFile, IInv, StoreIsSound
<1>5. /\ last \in 0..r.seq /\ last > r.since
      /\ \A k \in Keys : r.row[k] <= last /\ r.row[k] > r.since => k \in pending
  BY <1>1, <1>4, BatchIsLowest
<1>6. more \/ \A k \in Keys : r.row[k] <= last
  BY <1>1, <1>4, ShortBatchIsLast
<1>7. /\ IsFile(idx) /\ KeysMatchIds(idx)
      /\ idx.uuid = r.idx.uuid /\ idx.seq = r.idx.seq
      /\ \A k \in Keys : idx.ids[k] = IF k \in pending THEN KeysOf(r.def, r.docs[k])
                                                       ELSE r.idx.ids[k]
  <2>1. IsFile(r.idx) /\ KeysMatchIds(r.idx)
    BY <1>2 DEF UpdateIsSound
  <2> HIDE DEF r, pending
  <2>2. QED
    BY <1>3, <2>1, ApplyReplacesRows
<1> HIDE DEF pending, idx, last, more
<1>8. IndexedTo(idx.ids, r.def, r.docs, r.row, last)
  <2> SUFFICES ASSUME NEW k \in Keys, r.docs[k] # <<>>, r.row[k] <= last
               PROVE  idx.ids[k] = KeysOf(r.def, r.docs[k])
    BY DEF IndexedTo
  <2>1. CASE k \in pending
    BY <1>7, <2>1
  <2>2. CASE k \notin pending
    <3>1. r.row[k] <= r.since
      BY <1>4, <1>5, <2>2
    <3>2. QED
      BY <1>2, <1>7, <2>2, <3>1 DEF UpdateIsSound, IndexedTo
  <2>3. QED
    BY <2>1, <2>2
<1>9. /\ DOMAIN q = DOMAIN r /\ q.pc = r.pc /\ q.def = r.def /\ q.docs = r.docs
      /\ q.row = r.row /\ q.seq = r.seq /\ q.idx = idx /\ q.since = last /\ q.more = more
  <2>1. DOMAIN r = {"pc", "def", "idx", "docs", "row", "seq", "since", "more"}
    BY <1>2 DEF UpdateIsSound
  <2> HIDE DEF r
  <2>2. QED
    BY <2>1
<1> HIDE DEF q
<1>10. UpdateIsSound(q)
  <2>1. idx.seq <= last /\ idx.seq \in Nat
    BY <1>2, <1>4, <1>5, <1>7 DEF UpdateIsSound, IsFile
  <2>2. last \in idx.seq..r.seq
    BY <1>4, <1>5, <2>1
  <2>3. QED
    BY <1>2, <1>6, <1>7, <1>8, <1>9, <2>2 DEF UpdateIsSound
<1>11. StoreGrows /\ FilesAreSound'
  BY <1>1, SameStoreGrows, SameFilesAreSound
<1>12. /\ DOMAIN reqs' = Procs /\ reqs'[p] = q
       /\ \A o \in Procs \ {p} : reqs'[o] = reqs[o]
  BY <1>1, RequestBecomes
<1>13. lock = p
  BY <1>1, LockOfRequest DEF Locked
<1>14. RequestIsSound(p)' /\ (reqs'[p].pc \in Locked <=> lock' = p)
  <2>1. \A t : UpdateIsSound(t) => UpdateIsSound(t)'
    BY <1>11, UpdateStaysSound
  <2>2. UpdateIsSound(reqs[p])'
    BY <1>10, <1>12, <2>1
  <2>3. QED
    BY <1>1, <1>9, <1>12, <1>13, <2>2 DEF RequestIsSound, Locked
<1>15. QED
  BY <1>1, <1>11, <1>12, <1>13, <1>14, RequestStepKeepsIInv

\* What is published is current up to the seq of the snapshot, or nothing has
\* changed; and the scan has every document of the snapshot.
LEMMA UpdateEndsKeepsIInv ==
    ASSUME IInv, NEW p \in Procs, UpdateEnds(p)
    PROVE  IInv'
<1> DEFINE r == reqs[p]
           idx == IF r.since > r.idx.seq THEN [r.idx EXCEPT !.seq = Max({r.since, r.seq})]
                  ELSE r.idx
           q == [pc |-> "scanning", def |-> r.def, keys |-> idx.keys, docs |-> r.docs]
<1>1. /\ r.pc = "updating" /\ (~r.more \/ Pending(r) = {})
      /\ files' = [files EXCEPT ![r.def] = idx]
      /\ lock' = Free /\ reqs' = [reqs EXCEPT ![p] = q]
      /\ UNCHANGED <<docs, row, seq, uuid>>
  BY DEF UpdateEnds
<1>2. r.pc = "updating" /\ UpdateIsSound(r)
  BY DEF IInv, RequestsAreSound, UpdateEnds
<1>3. /\ r.seq \in Nat /\ r.since \in Nat /\ r.idx.seq \in Nat /\ r.idx.seq <= r.since
      /\ r.since <= r.seq /\ r.seq <= seq /\ seq \in Nat /\ r.row \in [Keys -> 0..r.seq]
      /\ RowsAreDistinct(r.row)
  BY <1>2 DEF UpdateIsSound, IsFile, IInv, StoreIsSound
<1>4. \A k \in Keys : r.row[k] <= r.since
  <2>1. Pending(r) = {} => \A k \in Keys : r.row[k] <= r.since
    BY <1>3, EmptyBatchIsLast
  <2>2. QED
    BY <1>1, <1>2, <2>1 DEF UpdateIsSound, UpdateEnds
<1>5. \A k \in Keys : r.docs[k] # <<>> => r.idx.ids[k] = KeysOf(r.def, r.docs[k])
  BY <1>2, <1>4 DEF UpdateIsSound, IndexedTo
<1>6. /\ IsFile(idx) /\ idx.uuid = uuid /\ KeysMatchIds(idx)
      /\ idx.ids = r.idx.ids /\ idx.keys = r.idx.keys
      /\ \/ idx.seq = r.seq
         \/ idx.seq = r.since /\ r.since = r.idx.seq
  <2>1. CASE r.since > r.idx.seq
    <3>1. Max({r.since, r.seq}) = r.seq
      <4>1. {r.since, r.seq} \in SUBSET (0..r.seq) /\ {r.since, r.seq} # {}
        BY <1>3
      <4>2. /\ Max({r.since, r.seq}) \in {r.since, r.seq}
            /\ \A y \in {r.since, r.seq} : y <= Max({r.since, r.seq})
        BY <1>3, <4>1, MaxIsGreatest
      <4>3. QED
        BY <1>3, <4>2
    <3>2. idx = [r.idx EXCEPT !.seq = r.seq]
      BY <2>1, <3>1
    <3>3. DOMAIN r.idx = {"uuid", "seq", "keys", "ids"} /\ IsFile(r.idx)
          /\ r.idx.uuid = uuid /\ KeysMatchIds(r.idx)
      BY <1>2 DEF UpdateIsSound, IsFile
    <3> HIDE DEF r, idx
    <3>4. /\ DOMAIN idx = DOMAIN r.idx /\ idx.seq = r.seq /\ idx.uuid = r.idx.uuid
          /\ idx.ids = r.idx.ids /\ idx.keys = r.idx.keys
      BY <3>2, <3>3
    <3>5. QED
      BY <1>3, <3>3, <3>4 DEF IsFile, KeysMatchIds
  <2>2. CASE ~(r.since > r.idx.seq)
    BY <1>2, <1>3, <2>2 DEF UpdateIsSound
  <2>3. QED
    BY <2>1, <2>2
<1>7. IsCurrent(idx, r.def)
  <2>1. idx.seq <= seq
    BY <1>3, <1>6
  <2>2. ASSUME NEW k \in Keys, docs[k] # <<>>, row[k] <= idx.seq
        PROVE  idx.ids[k] = KeysOf(r.def, docs[k])
    <3>1. row[k] <= r.seq
      BY <1>3, <1>6, <2>2 DEF IInv, StoreIsSound
    <3>2. docs[k] = r.docs[k]
      BY <1>2, <2>2, <3>1 DEF UpdateIsSound
    <3>3. QED
      BY <1>5, <1>6, <2>2, <3>2
  <2>3. QED
    BY <2>1, <2>2 DEF IsCurrent, IndexedTo
<1>8. FilesAreSound'
  <2> HIDE DEF idx
  <2>1. ASSUME NEW e \in DOMAIN files'
        PROVE  /\ e \in Defs /\ IsFile(files'[e]) /\ KeysMatchIds(files'[e])
               /\ IsCurrent(files'[e], e)
    BY <1>1, <1>6, <1>7, FilesOfIInv DEF FilesAreSound
  <2>2. QED
    BY <1>1, <2>1 DEF FilesAreSound, IsFile, KeysMatchIds, IsCurrent
<1>9. q.pc = "scanning" /\ q.def = r.def /\ q.keys = r.idx.keys /\ q.docs = r.docs
  <2> HIDE DEF idx, r
  <2>1. QED
    BY <1>6
<1>10. \A k \in Keys : q.docs[k] # <<>> =>
          {e.cols : e \in {x \in q.keys : x.id = k}} = KeysOf(q.def, q.docs[k])
  <2>1. KeysMatchIds(r.idx)
    BY <1>2 DEF UpdateIsSound
  <2> HIDE DEF q, r
  <2>2. QED
    BY <1>5, <1>9, <2>1, ScanFindsIds
<1> HIDE DEF q
<1>11. /\ DOMAIN reqs' = Procs /\ reqs'[p] = q
       /\ \A o \in Procs \ {p} : reqs'[o] = reqs[o]
  BY <1>1, RequestBecomes
<1>12. RequestIsSound(p)' /\ ~(reqs'[p].pc \in Locked)
  BY <1>9, <1>10, <1>11 DEF RequestIsSound, Locked
<1>13. lock = p
  BY <1>2, LockOfRequest DEF Locked
<1>14. lock' # p /\ \A o \in Procs \ {p} : lock' = o <=> lock = o
  BY <1>1, <1>13, IndexAssumption DEF IndexAssumption
<1>15. StoreGrows
  BY <1>1, SameStoreGrows
<1>16. QED
  BY <1>1, <1>8, <1>11, <1>12, <1>13, <1>14, <1>15, RequestStepKeepsIInv

-----------------------------------------------------------------------------
(* Purges                                                                   *)

LEMMA RemoveAtIsTyped ==
    ASSUME NEW S, NEW s \in Seq(S), NEW i \in 1..Len(s)
    PROVE  RemoveAt(s, i) \in Seq(S)
<1>1. Len(s) \in Nat /\ i - 1 \in Int /\ i + 1 \in Int /\ i \in Int
  OBVIOUS
<1>2. \A j \in 1..i - 1 : s[j] \in S
  BY <1>1
<1>3. \A j \in i + 1..Len(s) : s[j] \in S
  BY <1>1
<1>4. SubSeq(s, 1, i - 1) \in Seq(S)
  BY <1>1, <1>2, SubSeqProperties
<1>5. SubSeq(s, i + 1, Len(s)) \in Seq(S)
  BY <1>1, <1>3, SubSeqProperties
<1>6. QED
  BY <1>4, <1>5, ConcatProperties DEF RemoveAt

\* The last leaf is gone and the document with it, or what is left is new.
LEMMA PurgeKeepsIInv ==
    ASSUME IInv, NEW p \in Procs, NEW id \in Ids, NEW i \in 1..2, Purge(p, id, i)
    PROVE  IInv'
<1> DEFINE left == RemoveAt(docs[id], i)
           q == [pc |-> "purging", id |-> id, todo |-> DOMAIN files]
<1>1. /\ lock = Free /\ lock' = p /\ reqs' = [reqs EXCEPT ![p] = q]
      /\ i \in DOMAIN docs[id] /\ UNCHANGED <<uuid, files>>
  BY DEF Purge
<1>2. id \in Keys /\ docs[id] \in Seq(Bodies \cup {Deleted})
  BY LeavesAreTyped DEF Keys
<1>3. StoreGrows /\ (docs'[id] # <<>> => row'[id] > seq)
  <2>1. CASE left = <<>>
    <3>1. /\ docs' = [docs EXCEPT ![id] = <<>>] /\ row' = [row EXCEPT ![id] = 0]
          /\ seq' = seq /\ uuid' = uuid
      BY <2>1 DEF Purge
    <3>2. /\ docs \in [Keys -> Seq(Bodies \cup {Deleted})] /\ seq \in Nat
          /\ row \in [Keys -> 0..seq] /\ RowsAreDistinct(row)
          /\ \A k \in Keys : row[k] = 0 <=> docs[k] = <<>>
      BY DEF IInv, TypeOK, StoreIsSound
    <3>3. docs' \in [Keys -> Seq(Bodies \cup {Deleted})]
      <4>1. <<>> \in Seq(Bodies \cup {Deleted})
        OBVIOUS
      <4>2. QED
        BY <3>1, <3>2, <4>1
    <3>4. row' \in [Keys -> 0..seq]
      <4>1. 0 \in 0..seq
        BY <3>2
      <4>2. QED
        BY <3>1, <3>2, <4>1
    <3>5. \A k \in Keys : /\ docs'[k] = IF k = id THEN <<>> ELSE docs[k]
                          /\ row'[k] = IF k = id THEN 0 ELSE row[k]
      BY <3>1, <3>2
    <3>6. RowsAreDistinct(row')
      BY <3>2, <3>5 DEF RowsAreDistinct
    <3>7. QED
      BY <1>2, <3>1, <3>2, <3>3, <3>4, <3>5, <3>6 DEF StoreGrows
  <2>2. CASE left # <<>>
    <3>1. left \in Seq(Bodies \cup {Deleted})
      BY <1>1, <1>2, RemoveAtIsTyped
    <3>2. Store(id, left)
      BY <2>2 DEF Purge
    <3> HIDE DEF left
    <3>3. QED
      BY <1>1, <1>2, <2>2, <3>1, <3>2, StoreStepGrows
  <2>3. QED
    BY <2>1, <2>2
<1>4. FilesAreSound'
  BY <1>1, <1>3, SameFilesAreSound
<1>5. q.pc = "purging" /\ q.id = id
  OBVIOUS
<1> HIDE DEF q
<1>6. /\ DOMAIN reqs' = Procs /\ reqs'[p] = q
      /\ \A o \in Procs \ {p} : reqs'[o] = reqs[o]
  BY <1>1, RequestBecomes
<1>7. PurgeIsSound(reqs[p])'
  <2> SUFFICES ASSUME NEW d \in DOMAIN files, files[d].uuid = uuid, docs'[id] # <<>>
               PROVE  files[d].seq < row'[id]
    BY <1>1, <1>5, <1>6 DEF PurgeIsSound
  <2>1. files[d].seq \in Nat /\ files[d].seq <= seq /\ seq \in Nat /\ row'[id] > seq
    BY <1>3 DEF IInv, FilesAreFiles, IsFile, RowsAreCurrent, StoreIsSound
  <2>2. row'[id] \in Nat
    BY <1>2, <1>3 DEF StoreGrows
  <2>3. QED
    BY <2>1, <2>2
<1>8. RequestIsSound(p)' /\ (reqs'[p].pc \in Locked <=> lock' = p)
  BY <1>1, <1>2, <1>5, <1>6, <1>7 DEF RequestIsSound, Locked
<1>9. \A o \in Procs \ {p} : lock' = o <=> lock = o
  BY <1>1, IndexAssumption DEF IndexAssumption
<1>10. QED
  BY <1>1, <1>3, <1>4, <1>6, <1>8, <1>9, RequestStepKeepsIInv

\* The rows of a purged document may go: the document is gone, or no file has seen
\* what is left of it.
LEMMA PurgeFileKeepsIInv ==
    ASSUME IInv, NEW p \in Procs, PurgeFile(p)
    PROVE  IInv'
<1> DEFINE r == reqs[p]
           d == CHOOSE d \in r.todo : \A e \in r.todo : Order[d] <= Order[e]
           g == Apply(files[d], d, {r.id}, [k \in Keys |-> <<>>])
           q == [r EXCEPT !.todo = @ \ {d}]
<1>1. /\ r.pc = "purging" /\ files' = [files EXCEPT ![d] = g]
      /\ reqs' = [reqs EXCEPT ![p] = q] /\ UNCHANGED <<docs, row, seq, uuid, lock>>
  BY DEF PurgeFile
<1>2. r.id \in Keys /\ PurgeIsSound(r)
  BY <1>1 DEF IInv, RequestsAreSound
<1>3. lock = p
  BY <1>1, LockOfRequest DEF Locked
<1>4. StoreGrows
  BY <1>1, SameStoreGrows
<1> HIDE DEF d
<1>5. q.pc = r.pc /\ q.id = r.id
  BY <1>1
<1>6. ASSUME d \in DOMAIN files
      PROVE  /\ IsFile(g) /\ KeysMatchIds(g) /\ IsCurrent(g, d)
             /\ g.uuid = files[d].uuid /\ g.seq = files[d].seq
  <2>1. IsFile(files[d]) /\ KeysMatchIds(files[d]) /\ IsCurrent(files[d], d)
    BY <1>6, FilesOfIInv DEF FilesAreSound
  <2> DEFINE changed == {r.id}
             leaves == [k \in Keys |-> <<>>]
  <2>2. changed \in SUBSET Keys
    BY <1>2
  <2> HIDE DEF r, changed, leaves
  <2>3. /\ IsFile(g) /\ KeysMatchIds(g)
        /\ g.uuid = files[d].uuid /\ g.seq = files[d].seq
        /\ \A k \in Keys : g.ids[k] = IF k \in changed THEN KeysOf(d, leaves[k])
                                                        ELSE files[d].ids[k]
    <3> DEFINE f == files[d]
               h == Apply(f, d, changed, leaves)
    <3>1. g = h
      BY DEF changed, leaves
    <3>2. IsFile(f) /\ KeysMatchIds(f)
      BY <2>1
    <3> HIDE DEF f, g
    <3>3. /\ IsFile(h) /\ KeysMatchIds(h)
          /\ h.uuid = f.uuid /\ h.seq = f.seq
          /\ \A k \in Keys : h.ids[k] = IF k \in changed THEN KeysOf(d, leaves[k])
                                                          ELSE f.ids[k]
      BY <2>2, <3>2, ApplyReplacesRows
    <3> HIDE DEF h
    <3>4. QED
      BY <3>1, <3>3 DEF f
  <2> HIDE DEF g
  <2>4. ASSUME g.uuid = uuid, NEW k \in Keys, docs[k] # <<>>, row[k] <= g.seq
        PROVE  g.ids[k] = KeysOf(d, docs[k])
    <3>1. k # r.id
      <4> SUFFICES ASSUME k = r.id
                   PROVE  FALSE
        OBVIOUS
      <4>1. files[d].seq < row[k]
        BY <1>2, <1>6, <2>3, <2>4 DEF PurgeIsSound
      <4>2. row[k] \in Nat /\ files[d].seq \in Nat
        BY <2>1 DEF IInv, StoreIsSound, IsFile
      <4>3. QED
        BY <2>3, <2>4, <4>1, <4>2
    <3>2. g.ids[k] = files[d].ids[k]
      BY <2>3, <3>1 DEF changed
    <3>3. QED
      BY <2>1, <2>3, <2>4, <3>2 DEF IsCurrent, IndexedTo
  <2>5. IsCurrent(g, d)
    BY <2>1, <2>3, <2>4 DEF IsCurrent, IndexedTo
  <2>6. QED
    BY <2>3, <2>5
<1> HIDE DEF g, q
<1>7. FilesAreSound'
  <2>1. ASSUME NEW e \in DOMAIN files'
        PROVE  /\ e \in Defs /\ IsFile(files'[e]) /\ KeysMatchIds(files'[e])
               /\ IsCurrent(files'[e], e)
    BY <1>1, <1>6, FilesOfIInv DEF FilesAreSound
  <2>2. QED
    BY <1>1, <2>1 DEF FilesAreSound, IsFile, KeysMatchIds, IsCurrent
<1>8. /\ DOMAIN reqs' = Procs /\ reqs'[p] = q
      /\ \A o \in Procs \ {p} : reqs'[o] = reqs[o]
  BY <1>1, RequestBecomes
<1>9. PurgeIsSound(reqs[p])'
  <2>1. ASSUME NEW e \in DOMAIN files'
        PROVE  /\ e \in DOMAIN files
               /\ files'[e].uuid = files[e].uuid /\ files'[e].seq = files[e].seq
    BY <1>1, <1>6
  <2>2. QED
    BY <1>1, <1>2, <1>5, <1>8, <2>1 DEF PurgeIsSound
<1>10. RequestIsSound(p)' /\ (reqs'[p].pc \in Locked <=> lock' = p)
  BY <1>1, <1>2, <1>3, <1>5, <1>8, <1>9 DEF RequestIsSound, Locked
<1>11. QED
  BY <1>1, <1>3, <1>4, <1>7, <1>8, <1>10, RequestStepKeepsIInv DEF IInv, TypeOK

-----------------------------------------------------------------------------
(* The specification                                                        *)

\* A crash forgets what was not published.
LEMMA CrashKeepsIInv ==
    ASSUME IInv, Crash
    PROVE  IInv'
<1>1. /\ lock' = Free /\ reqs' = [p \in Procs |-> Idle]
      /\ UNCHANGED <<docs, row, seq, uuid, files>>
  BY DEF Crash
<1>2. StoreGrows /\ FilesAreSound'
  BY <1>1, SameStoreGrows, SameFilesAreSound
<1>3. StoreIsSound'
  BY <1>1, <1>2 DEF StoreIsSound, StoreGrows, IInv
<1>4. \A o \in Procs : RequestIsSound(o)' /\ ~(reqs'[o].pc \in Locked) /\ lock' # o
  BY <1>1, IdleIsIdle, IndexAssumption DEF IndexAssumption, RequestIsSound, Locked
<1>5. QED
  BY <1>1, <1>2, <1>3, <1>4, PartsMakeIInv DEF StoreGrows

\* The files that stay behind are those of another database.
LEMMA RecreateKeepsIInv ==
    ASSUME IInv, Recreate
    PROVE  IInv'
<1>1. /\ docs' = [k \in Keys |-> <<>>] /\ row' = [k \in Keys |-> 0] /\ seq' = 0
      /\ uuid' = uuid + 1 /\ UNCHANGED <<lock, reqs>>
      /\ files' = <<>> \/ files' = files
      /\ \A p \in Procs : reqs[p] = Idle
  BY DEF Recreate
<1>2. uuid \in Nat \ {0} /\ DOMAIN reqs = Procs
  BY DEF IInv, StoreIsSound
<1>3. StoreIsSound'
  <2>1. docs' \in [Keys -> Seq(Bodies \cup {Deleted})]
    BY <1>1
  <2>2. row' \in [Keys -> 0..seq'] /\ seq' \in Nat /\ uuid' \in Nat \ {0}
    BY <1>1, <1>2
  <2>3. RowsAreDistinct(row')
    BY <1>1 DEF RowsAreDistinct
  <2>4. QED
    BY <1>1, <1>2, <2>1, <2>2, <2>3 DEF StoreIsSound
<1>4. FilesAreSound'
  <2>1. CASE files' = <<>>
    BY <2>1 DEF FilesAreSound
  <2>2. CASE files' = files
    <3>1. ASSUME NEW d \in DOMAIN files
          PROVE  /\ d \in Defs /\ IsFile(files[d]) /\ KeysMatchIds(files[d])
                 /\ files[d].uuid \in 1..uuid + 1 /\ files[d].uuid # uuid + 1
      BY <1>2, FilesOfIInv DEF FilesAreSound, IsFile
    <3>2. QED
      BY <1>1, <2>2, <3>1 DEF FilesAreSound, IsFile, KeysMatchIds, IsCurrent
  <2>3. QED
    BY <1>1, <2>1, <2>2
<1>5. \A o \in Procs : RequestIsSound(o)' /\ (reqs'[o].pc \in Locked <=> lock' = o)
  BY <1>1, IdleIsIdle, LockOfRequest DEF RequestIsSound, Locked
<1>6. \A k \in Keys : row'[k] \in 0..seq' /\ (row'[k] = 0 <=> docs'[k] = <<>>)
  BY <1>1
<1>7. QED
  BY <1>1, <1>3, <1>4, <1>5, <1>6, PartsMakeIInv DEF IInv, TypeOK

\* The design documents that a copied database starts with have a seq each.
LEMMA InitIInv ==
    Init => IInv
<1> SUFFICES ASSUME Init
             PROVE  IInv
  OBVIOUS
<1> DEFINE upTo(k) == {d \in Predefined : Order[d] <= Order[k]}
<1>1. /\ docs = [k \in Keys |-> IF k \in Predefined THEN <<Ddoc>> ELSE <<>>]
      /\ row = [k \in Keys |-> IF k \notin Predefined THEN 0 ELSE Cardinality(upTo(k))]
      /\ seq = Cardinality(Predefined) /\ uuid = 1 /\ files = <<>> /\ lock = Free
      /\ reqs = [p \in Procs |-> Idle]
  BY DEF Init
<1>2. /\ Predefined \subseteq Defs /\ Predefined \subseteq Keys
      /\ IsFiniteSet(Predefined) /\ Order \in [Defs -> Nat]
      /\ \A d, e \in Defs : Order[d] = Order[e] => d = e
  BY FS_Subset, IndexAssumption DEF IndexAssumption, Keys
<1>3. seq \in Nat
  BY <1>1, <1>2, FS_CardinalityType
<1>4. ASSUME NEW k \in Predefined
      PROVE  /\ upTo(k) \in SUBSET Predefined /\ IsFiniteSet(upTo(k)) /\ k \in upTo(k)
             /\ Cardinality(upTo(k)) \in 1..seq
  <2>1. upTo(k) \in SUBSET Predefined /\ k \in upTo(k)
    BY <1>2
  <2>2. IsFiniteSet(upTo(k)) /\ Cardinality(upTo(k)) <= seq /\ Cardinality(upTo(k)) \in Nat
    BY <1>1, <1>2, <2>1, FS_Subset, FS_CardinalityType
  <2>3. Cardinality(upTo(k)) # 0
    BY <2>1, <2>2, FS_EmptySet
  <2>4. QED
    BY <1>3, <2>1, <2>2, <2>3
<1>5. ASSUME NEW j \in Predefined, NEW k \in Predefined, Order[j] < Order[k]
      PROVE  Cardinality(upTo(j)) # Cardinality(upTo(k))
  <2>1. Order[j] \in Nat /\ Order[k] \in Nat
    BY <1>2
  <2>2. upTo(j) \in SUBSET upTo(k)
    BY <1>2, <1>5
  <2>3. k \notin upTo(j)
    BY <1>5, <2>1
  <2>4. upTo(j) # upTo(k)
    BY <1>4, <2>3
  <2> HIDE DEF upTo
  <2>5. QED
    BY <1>4, <2>2, <2>4, FS_Subset
<1> HIDE DEF upTo
<1>6. \A k \in Keys : /\ row[k] = IF k \in Predefined THEN Cardinality(upTo(k)) ELSE 0
                      /\ docs[k] = IF k \in Predefined THEN <<Ddoc>> ELSE <<>>
  BY <1>1
<1>7. RowsAreDistinct(row)
  <2> SUFFICES ASSUME NEW j \in Keys, NEW k \in Keys, row[j] = row[k], row[j] # 0, j # k
               PROVE  FALSE
    BY DEF RowsAreDistinct
  <2>1. j \in Predefined /\ k \in Predefined
    BY <1>6
  <2>2. Order[j] \in Nat /\ Order[k] \in Nat /\ Order[j] # Order[k]
    BY <1>2, <2>1
  <2>3. Order[j] < Order[k] \/ Order[k] < Order[j]
    BY <2>2
  <2>4. QED
    BY <1>5, <1>6, <2>1, <2>3
<1>8. docs \in [Keys -> Seq(Bodies \cup {Deleted})]
  <2>1. <<Ddoc>> \in Seq(Bodies \cup {Deleted}) /\ <<>> \in Seq(Bodies \cup {Deleted})
    BY IndexAssumption DEF IndexAssumption
  <2>2. QED
    BY <1>1, <2>1
<1>9. \A k \in Keys : row[k] \in 0..seq /\ (row[k] = 0 <=> docs[k] = <<>>)
  <2> TAKE k \in Keys
  <2>1. CASE k \in Predefined
    <3>1. <<Ddoc>> # <<>>
      OBVIOUS
    <3>2. QED
      BY <1>3, <1>4, <1>6, <2>1, <3>1
  <2>2. CASE k \notin Predefined
    BY <1>3, <1>6, <2>2
  <2>3. QED
    BY <2>1, <2>2
<1>10. row \in [Keys -> 0..seq]
  BY <1>1, <1>9
<1>11. StoreIsSound
  BY <1>1, <1>3, <1>7, <1>8, <1>10 DEF StoreIsSound
<1>12. \A p \in Procs : reqs[p].pc = "idle" /\ lock # p
  BY <1>1, IdleIsIdle, IndexAssumption DEF IndexAssumption
<1>13. DOMAIN files = {}
  BY <1>1
<1>14. QED
  BY <1>1, <1>9, <1>11, <1>12, <1>13
     DEF IInv, TypeOK, FilesAreFiles, RowsAreCurrent, RequestsAreSound, ScanSeesSnapshot

LEMMA NextKeepsIInv ==
    ASSUME IInv, [Next]_vars
    PROVE  IInv'
<1>1. CASE \E id \in Ids : \/ Delete(id)
                           \/ \E b \in Bodies \ {Ddoc} : Put(id, b) \/ AddConflict(id, b)
  BY <1>1, WritesKeepIInv
<1>2. CASE \E d \in Defs : IndexCreate(d)
  BY <1>2, IndexCreateKeepsIInv
<1>3. ASSUME NEW p \in Procs,
             \/ \E d \in Defs : IndexDelete(p, d) \/ FindStarts(p, d)
             \/ RemoveFile(p) \/ UpdateBatch(p) \/ UpdateEnds(p) \/ UpdateFails(p)
             \/ ScanEnds(p) \/ PurgeFile(p) \/ PurgeEnds(p)
             \/ \E id \in Ids, i \in 1..2 : Purge(p, id, i)
      PROVE  IInv'
  BY <1>3, IndexDeleteKeepsIInv, FindStartsKeepsIInv, RemoveFileKeepsIInv,
     UpdateBatchKeepsIInv, UpdateEndsKeepsIInv, FailureKeepsIInv, PurgeFileKeepsIInv,
     PurgeKeepsIInv
<1>4. CASE Crash \/ Recreate
  BY <1>4, CrashKeepsIInv, RecreateKeepsIInv
<1>5. CASE UNCHANGED vars
  BY <1>5, SameStoreGrows, StoreStepKeepsIInv DEF vars
<1>6. QED
  BY <1>1, <1>2, <1>3, <1>4, <1>5 DEF Next

\* What an index file, an update half way and a purge half way keep, in every state.
THEOREM Invariant ==
    Spec => []IInv
<1>1. QED
  BY InitIInv, NextKeepsIInv, PTL DEF Spec

\* An index never says of a document, whose change it claims to have seen, what the
\* document does not say: through batches, crashes, errors, purges that were cut
\* short and databases that were created again over old files.
THEOREM IndexIsCurrent ==
    Spec => []RowsAreCurrent
<1>1. IInv => RowsAreCurrent
  BY DEF IInv
<1>2. QED
  BY <1>1, Invariant, PTL

\* The index lock has one holder, and a query that has let go of it scans what its
\* snapshot of the database says.
THEOREM ScansSeeSnapshots ==
    Spec => []LockedOrScanning
<1>1. IInv => LockedOrScanning
  BY DEF IInv, LockedOrScanning
<1>2. QED
  BY <1>1, Invariant, PTL

=============================================================================
