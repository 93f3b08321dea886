---------------------------- MODULE ProtoDocsProofs ----------------------------
(***************************************************************************)
(* Where documents are checked the proto flag is heeded, and a request     *)
(* goes on with the whole registry of one state of _schemas, for any       *)
(* requests, schema documents and descriptor sets, refreshes and crashes.  *)
(***************************************************************************)
EXTENDS ProtoDocs, FiniteSetTheorems, SequenceTheorems, WellFoundedInduction, TLAPS

\* There are finitely many schema documents.
LEMMA SchemaDocsAreTyped ==
  /\ Len(SchemaDocs) \in Nat
  /\ Len(SchemaDocs) * Len(SchemaDocs) \in Nat
  BY ProtoAssumption, LenProperties DEF ProtoAssumption

\* Every set of naturals has a least: what the inductions below rest on.
LEMMA MinExists ==
  ASSUME NEW S \in SUBSET Nat, S # {}
  PROVE  \E x \in S : \A y \in S : x <= y
<1>1. PICK x \in S : \A y \in S : ~(<<y, x>> \in OpToRel(<, Nat))
  BY WFMin, NatLessThanWellFounded
<1>2. \A y \in S : ~(y < x)
  BY <1>1 DEF OpToRel
<1>3. QED
  BY <1>2

----------------------------------------------------------------------------
(* The registry                                                            *)

LastTry == Len(SchemaDocs) * Len(SchemaDocs)
Start(docs) == [pool |-> NoFiles, left |-> Attached(docs)]
Attempt(docs, state, i) == Try(docs, state, SchemaDocs[((i - 1) % Len(SchemaDocs)) + 1])

\* f is Rounds(docs) up to m.
IsTrace(docs, m, f) ==
  f = [i \in 0..m |-> IF i = 0 THEN Start(docs) ELSE Attempt(docs, f[i - 1], i)]

\* The recursive function Rounds exists: a trace of any length does.
LEMMA TraceExists ==
  ASSUME NEW docs
  PROVE  \A m \in Nat : \E f : IsTrace(docs, m, f)
<1> DEFINE S == {m \in Nat : ~\E f : IsTrace(docs, m, f)}
<1> SUFFICES ASSUME S # {} PROVE FALSE
  OBVIOUS
<1>1. PICK m \in S : \A y \in S : m <= y
  BY MinExists
<1>2. m # 0
  <2> DEFINE f == [i \in 0..0 |-> Start(docs)]
  <2>1. IsTrace(docs, 0, f)
    BY DEF IsTrace
  <2>2. QED
    BY <1>1, <2>1
<1>3. m - 1 \in Nat /\ m - 1 \notin S
  BY <1>1, <1>2
<1>4. PICK f : IsTrace(docs, m - 1, f)
  BY <1>3
<1> DEFINE g == [i \in 0..m |-> IF i = m THEN Attempt(docs, f[m - 1], m) ELSE f[i]]
<1>5. \A i \in 0..(m - 1) : g[i] = f[i] /\ (i # 0 => i - 1 \in 0..(m - 1))
  BY <1>1
<1>6. \A i \in 0..(m - 1) : f[i] = IF i = 0 THEN Start(docs) ELSE Attempt(docs, f[i - 1], i)
  BY <1>4 DEF IsTrace
<1>7. \A i \in 0..m : g[i] = IF i = 0 THEN Start(docs) ELSE Attempt(docs, g[i - 1], i)
  <2> TAKE i \in 0..m
  <2>1. CASE i = m
    <3>1. g[m - 1] = f[m - 1] /\ i # 0
      BY <1>2, <1>3, <1>5, <2>1
    <3>2. QED
      BY <2>1, <3>1
  <2>2. CASE i # m
    <3>1. i \in 0..(m - 1)
      BY <1>1, <2>2
    <3>2. QED
      BY <3>1, <1>5, <1>6
  <2>3. QED
    BY <2>1, <2>2
<1>8. IsTrace(docs, m, g)
  BY <1>7 DEF IsTrace
<1>9. QED
  BY <1>1, <1>8

\* The rounds of a build start with every set waiting and go on set by set.
LEMMA RoundsAreTrace ==
  ASSUME NEW docs
  PROVE  /\ Rounds(docs)[0] = Start(docs)
         /\ \A i \in 1..LastTry : Rounds(docs)[i] = Attempt(docs, Rounds(docs)[i - 1], i)
<1>1. LastTry \in Nat
  BY SchemaDocsAreTyped DEF LastTry
<1>2. Rounds(docs) = CHOOSE f : IsTrace(docs, LastTry, f)
  BY DEF Rounds, IsTrace, Attempt, Start, LastTry
<1>3. IsTrace(docs, LastTry, Rounds(docs))
  BY <1>1, <1>2, TraceExists
<1>4. \A i \in 0..LastTry : Rounds(docs)[i] = IF i = 0 THEN Start(docs) ELSE Attempt(docs, Rounds(docs)[i - 1], i)
  BY <1>3 DEF IsTrace
<1>5. QED
  BY <1>1, <1>4

\* What is pooled so far: closed under needs, and every set tried has its file there.
PoolIsSound(docs, state) ==
  LET pool == state.pool IN
  /\ DOMAIN pool \subseteq FilesOf(docs)
  /\ pool \in [DOMAIN pool -> Sets(docs)]
  /\ \A f \in DOMAIN pool : SetOf[pool[f]].file = f /\ SetOf[pool[f]].needs \subseteq DOMAIN pool
  /\ \A d \in Attached(docs) \ state.left : SetOf[docs[d]].file \in DOMAIN pool
  /\ state.left \subseteq Attached(docs)

\* A set joins the pool only when all it needs is there.
LEMMA TryIsSound ==
  ASSUME NEW docs, NEW state, NEW d, PoolIsSound(docs, state)
  PROVE  PoolIsSound(docs, Try(docs, state, d))
<1> DEFINE set == docs[d]
           file == SetOf[set].file
           known == DOMAIN state.pool
           more == [f \in known \cup {file} |-> IF f = file THEN set ELSE state.pool[f]]
<1>1. CASE d \notin state.left \/ (file \notin known /\ ~(SetOf[set].needs \subseteq known))
  BY <1>1 DEF Try
<1>2. CASE d \in state.left /\ file \in known
  <2>1. Try(docs, state, d) = [pool |-> state.pool, left |-> state.left \ {d}]
    BY <1>2 DEF Try
  <2>2. QED
    BY <1>2, <2>1 DEF PoolIsSound
<1>3. CASE d \in state.left /\ file \notin known /\ SetOf[set].needs \subseteq known
  <2>1. Try(docs, state, d) = [pool |-> more, left |-> state.left \ {d}]
    BY <1>3 DEF Try
  <2>2. d \in Attached(docs) /\ set \in Sets(docs) /\ file \in FilesOf(docs)
    BY <1>3 DEF PoolIsSound, Sets, FilesOf
  <2>3. DOMAIN more = known \cup {file} /\ more[file] = set /\ \A f \in known : more[f] = state.pool[f]
    BY <1>3
  <2>4. more \in [DOMAIN more -> Sets(docs)]
    BY <2>2 DEF PoolIsSound
  <2>5. \A f \in DOMAIN more : SetOf[more[f]].file = f /\ SetOf[more[f]].needs \subseteq DOMAIN more
    BY <1>3, <2>3 DEF PoolIsSound
  <2> HIDE DEF more
  <2>6. QED
    BY <2>1, <2>2, <2>3, <2>4, <2>5 DEF PoolIsSound
<1>4. QED
  BY <1>1, <1>2, <1>3

\* So the pool is closed after every round.
LEMMA RoundsAreSound ==
  ASSUME NEW docs
  PROVE  PoolIsSound(docs, Pooled(docs))
<1> DEFINE S == {i \in 0..LastTry : ~PoolIsSound(docs, Rounds(docs)[i])}
<1>1. LastTry \in Nat
  BY SchemaDocsAreTyped DEF LastTry
<1>2. S = {}
  <2> SUFFICES ASSUME S # {} PROVE FALSE
    OBVIOUS
  <2>1. PICK i \in S : \A y \in S : i <= y
    <3>1. S \in SUBSET Nat
      BY <1>1
    <3> HIDE DEF S
    <3>2. QED
      BY <3>1, MinExists
  <2>2. PoolIsSound(docs, Start(docs))
    BY DEF PoolIsSound, Start, NoFiles
  <2>3. i # 0
    BY <2>1, <2>2, RoundsAreTrace
  <2>4. i \in 1..LastTry /\ i - 1 \in 0..LastTry /\ i - 1 \notin S
    BY <1>1, <2>1, <2>3
  <2>5. PoolIsSound(docs, Rounds(docs)[i - 1])
    BY <2>4
  <2>6. Rounds(docs)[i] = Attempt(docs, Rounds(docs)[i - 1], i)
    BY <2>4, RoundsAreTrace
  <2>7. PoolIsSound(docs, Rounds(docs)[i])
    BY <2>5, <2>6, TryIsSound DEF Attempt
  <2>8. QED
    BY <2>1, <2>7
<1>3. LastTry \in 0..LastTry
  BY <1>1
<1>4. QED
  BY <1>2, <1>3 DEF Pooled, LastTry

\* A build that succeeds has the whole of its documents, or they are silent.
LEMMA BuildIsWhole ==
  ASSUME NEW docs, Build(docs) # Broken
  PROVE  Whole(Build(docs), docs)
<1> DEFINE pool == Pooled(docs).pool
<1>1. Pooled(docs).left = {}
  BY DEF Build
<1>2. DOMAIN pool = FilesOf(docs)
  <2>1. \A d \in Attached(docs) : SetOf[docs[d]].file \in DOMAIN pool
    BY <1>1, RoundsAreSound DEF PoolIsSound
  <2>2. FilesOf(docs) \subseteq DOMAIN pool
    BY <2>1 DEF FilesOf, Sets
  <2>3. QED
    BY <2>2, RoundsAreSound DEF PoolIsSound
<1>3. Complete(pool, docs)
  BY <1>2, RoundsAreSound DEF PoolIsSound, Complete
<1>4. CASE Silent(pool)
  <2>1. Build(docs).status = "none"
    BY <1>1, <1>4 DEF Build, NoRegistry
  <2>2. QED
    BY <1>3, <1>4, <2>1 DEF Whole, Complete
<1>5. CASE ~Silent(pool)
  <2>1. Build(docs) = [status |-> "some", pool |-> pool]
    BY <1>1, <1>5 DEF Build
  <2>2. QED
    BY <1>3, <2>1 DEF Whole
<1>6. QED
  BY <1>4, <1>5

----------------------------------------------------------------------------
(* Types                                                                   *)

\* The registry that is none.
LEMMA NoRegistryIsTyped ==
  NoRegistry \in Registry
<1>1. NoFiles \in [{} -> SetIds]
  BY DEF NoFiles
<1>2. NoFiles \in Pools
  BY <1>1 DEF Pools
<1>3. QED
  BY <1>2 DEF NoRegistry, Registry

\* What a build that succeeds returns is a registry.
LEMMA BuildIsTyped ==
  ASSUME NEW docs \in SchemaState, Build(docs) # Broken
  PROVE  Build(docs) \in Registry
<1> DEFINE pool == Pooled(docs).pool
<1>1. Sets(docs) \subseteq SetIds
  BY DEF Sets, Attached, SchemaState
<1>2. pool \in [DOMAIN pool -> SetIds] /\ DOMAIN pool \in SUBSET {SetOf[s].file : s \in SetIds}
  BY <1>1, RoundsAreSound DEF PoolIsSound, FilesOf
<1>3. pool \in Pools
  BY <1>2 DEF Pools
<1>4. [status |-> "some", pool |-> pool] \in Registry
  BY <1>3 DEF Registry
<1>5. Build(docs) \in {NoRegistry, [status |-> "some", pool |-> pool]}
  BY DEF Build
<1>6. QED
  BY <1>4, <1>5, NoRegistryIsTyped

\* A request that has read nothing.
LEMMA BlankIsTyped ==
  /\ NoSchemas \in SchemaState /\ NoLeaf \in Leaf /\ EmptyDb \in Db /\ Blank \in Reading
  /\ 0 \in 0..MaxSeq /\ 0 \in 0..MaxSchemaSeq
<1>1. 0 \in 0..MaxSeq /\ 0 \in 0..MaxSchemaSeq
  BY ProtoAssumption DEF ProtoAssumption
<1>2. NoSchemas \in SchemaState
  BY DEF NoSchemas, SchemaState
<1>3. NoLeaf \in Leaf
  BY <1>1 DEF NoLeaf, Leaf, NoRev, Messages
<1>4. EmptyDb \in Db
  BY <1>1 DEF EmptyDb, Db
<1>5. Blank \in Reading
  BY <1>1, <1>2, <1>3, <1>4, NoRegistryIsTyped DEF Blank, Reading, NoRev
<1>6. QED
  BY <1>1, <1>2, <1>3, <1>4, <1>5

\* Where a request can stand, by its kind: the kinds are disjoint.
LEMMA LabelsAre ==
  /\ LabelsOf(Creator) = {"new", "mark", "open", "install", "done"}
  /\ \A p \in JsonPuts \cup Envelopes \cup Unchecked : LabelsOf(p) = StoringLabels
  /\ \A p \in ProtoPuts : LabelsOf(p) = StoringLabels \cup {"look", "compare", "build", "use"}
  /\ \A p \in Deletes : LabelsOf(p) = StoringLabels \cup {"read", "look", "compare", "build", "use"}
  /\ \A p \in Gets : LabelsOf(p) = {"new", "look", "compare", "build", "use", "done"}
  BY ProtoAssumption DEF ProtoAssumption, LabelsOf

\* Every request comes and ends.
LEMMA NewAndDoneAreLabels ==
  \A p \in Requests : "new" \in LabelsOf(p) /\ "done" \in LabelsOf(p)
  BY LabelsAre DEF Requests, StoringLabels

\* What is blank is sound.
LEMMA BlankIsRead ==
  ASSUME IInv, NEW p, NEW label \in {"new", "open", "install", "done"}
  PROVE  HasRead(p, label, Blank)
<1>1. Blank.opened = EmptyDb /\ Blank.seen = 0 /\ ~IsEnvelope(Blank.cur) /\ Blank.began = 0
  BY DEF Blank, NoLeaf, IsEnvelope
<1>2. 0 <= header.seq /\ 0 <= markSeq /\ 0 <= served /\ 0 <= schemas.seq
  BY ProtoAssumption DEF ProtoAssumption, IInv, TypeOK, Db, Never
<1>3. WasHeader(EmptyDb)
  BY <1>2 DEF WasHeader, EmptyDb, Proto
<1>4. QED
  BY <1>1, <1>2, <1>3 DEF HasRead

----------------------------------------------------------------------------
(* Steps of requests that leave the database and _schemas alone            *)

\* A request that moves on leaves the others where they are.
LEMMA BecomesIsTyped ==
  ASSUME TypeOK, NEW p \in Requests, NEW label \in LabelsOf(p), NEW r \in Reading,
         Becomes(p, label, r)
  PROVE  /\ local' \in [Requests -> Reading]
         /\ DOMAIN pc' = Requests
         /\ \A q \in Requests : pc'[q] \in LabelsOf(q)
         /\ pc'[p] = label
         /\ local'[p] = IF label = "done" THEN Blank ELSE r
         /\ \A q \in Requests : q # p => pc'[q] = pc[q] /\ local'[q] = local[q]
<1> DEFINE known == IF label = "done" THEN Blank ELSE r
<1>1. known \in Reading
  BY BlankIsTyped
<1>2. local' = [local EXCEPT ![p] = known] /\ pc' = [pc EXCEPT ![p] = label]
  BY DEF Becomes, Goto
<1>3. local \in [Requests -> Reading] /\ DOMAIN pc = Requests
      /\ \A q \in Requests : pc[q] \in LabelsOf(q)
  BY DEF TypeOK
<1> HIDE DEF known
<1>4. local' \in [Requests -> Reading] /\ local'[p] = known
      /\ \A q \in Requests : q # p => local'[q] = local[q]
  BY <1>1, <1>2, <1>3
<1>5. DOMAIN pc' = Requests /\ pc'[p] = label /\ \A q \in Requests : q # p => pc'[q] = pc[q]
  BY <1>2, <1>3
<1>6. \A q \in Requests : pc'[q] \in LabelsOf(q)
  BY <1>3, <1>5
<1>7. QED
  BY <1>4, <1>5, <1>6 DEF known

\* What was read stays true while the database and _schemas stay.
LEMMA SameStateHasRead ==
  ASSUME UNCHANGED <<schemas, database, histories>>
  PROVE  /\ \A p, label, r : HasRead(p, label, r) => HasRead(p, label, r)'
         /\ DatabaseIsSound => DatabaseIsSound'
         /\ \A c : c.seq <= schemas.seq /\ Whole(c.reg, Held(c.seq)) =>
              (c.seq <= schemas.seq /\ Whole(c.reg, Held(c.seq)))'
<1>1. /\ schemas' = schemas /\ header' = header /\ snap' = snap /\ served' = served
      /\ past' = past /\ rewound' = rewound /\ markSeq' = markSeq
  BY DEF database, histories
<1>2. \A db : WasHeader(db) => WasHeader(db)'
  BY <1>1 DEF WasHeader
<1>3. \A s : Held(s)' = Held(s)
  BY <1>1 DEF Held
<1>4. QED
  BY <1>1, <1>2, <1>3 DEF HasRead, DatabaseIsSound, WasHeader

\* A step that only reads is sound if what it has read is.
LEMMA ReadingKeepsIInv ==
  ASSUME IInv, NEW p \in Requests, NEW label \in LabelsOf(p), NEW r \in Reading,
         Becomes(p, label, r), HasRead(p, label, r),
         UNCHANGED <<schemas, cache, database, histories>>
  PROVE  IInv'
<1>1. TypeOK'
  BY BecomesIsTyped DEF IInv, TypeOK, database, histories
<1>2. DatabaseIsSound'
  BY SameStateHasRead DEF IInv
<1>3. SchemasAreSound'
  BY DEF IInv, SchemasAreSound, Held, database, histories
<1>4. ASSUME NEW q \in Requests
      PROVE  HasRead(q, pc[q], local[q])'
  <2>1. HasRead(q, pc'[q], local'[q])
    <3>1. CASE q # p
      BY <3>1, BecomesIsTyped DEF IInv, RequestsAreSound
    <3>2. CASE q = p /\ label = "done"
      BY <3>2, BecomesIsTyped, BlankIsRead DEF IInv
    <3>3. CASE q = p /\ label # "done"
      BY <3>3, BecomesIsTyped DEF IInv
    <3>4. QED
      BY <3>1, <3>2, <3>3
  <2>2. QED
    BY <2>1, SameStateHasRead
<1>5. QED
  BY <1>1, <1>2, <1>3, <1>4 DEF IInv, RequestsAreSound

----------------------------------------------------------------------------
(* The winner                                                              *)

\* Among leaves one is the latest: their seqs are bounded.
LEMMA LatestExists ==
  ASSUME NEW L \in SUBSET Leaf, L # {}
  PROVE  \E l \in L : \A m \in L : m.rev <= l.rev
<1> DEFINE S == {MaxSeq - l.rev : l \in L}
<1>1. MaxSeq \in Nat
  BY ProtoAssumption DEF ProtoAssumption
<1>2. \A l \in L : l.rev \in 0..MaxSeq
  BY DEF Leaf
<1>3. S \in SUBSET Nat /\ S # {}
  BY <1>1, <1>2
<1>4. PICK x \in S : \A y \in S : x <= y
  <2> HIDE DEF S
  <2>1. QED
    BY <1>3, MinExists
<1>5. PICK l \in L : x = MaxSeq - l.rev
  BY <1>4
<1>6. ASSUME NEW m \in L
      PROVE  m.rev <= l.rev
  <2>1. MaxSeq - l.rev <= MaxSeq - m.rev
    BY <1>4, <1>5
  <2>2. QED
    BY <1>1, <1>2, <2>1
<1>7. QED
  BY <1>6

\* The winner is one of the leaves.
LEMMA WinnerIsLeaf ==
  ASSUME NEW leaves \in SUBSET Leaf, leaves # {}
  PROVE  Winner(leaves) \in leaves
<1> DEFINE live == {l \in leaves : ~l.deleted}
           Wins(l) == \A m \in leaves :
                         IF l.deleted # m.deleted THEN m.deleted ELSE m.rev <= l.rev
<1>1. \A l \in leaves : l.deleted \in BOOLEAN
  BY DEF Leaf
<1>2. \E l \in leaves : Wins(l)
  <2>1. CASE live = {}
    <3>1. PICK l \in leaves : \A m \in leaves : m.rev <= l.rev
      BY LatestExists
    <3>2. Wins(l)
      BY <1>1, <2>1, <3>1
    <3>3. QED
      BY <3>2
  <2>2. CASE live # {}
    <3>1. PICK l \in live : \A m \in live : m.rev <= l.rev
      BY <2>2, LatestExists
    <3>2. ASSUME NEW m \in leaves
          PROVE  IF l.deleted # m.deleted THEN m.deleted ELSE m.rev <= l.rev
      BY <1>1, <3>1, <3>2
    <3>3. QED
      BY <3>1, <3>2
  <2>3. QED
    BY <2>1, <2>2
<1>3. QED
  BY <1>2 DEF Winner

\* A leaf of the snapshot that reads as a proto document is one of a proto-native
\* database.
LEMMA LeafOfSnapshot ==
  ASSUME IInv, NEW l \in snap.leaves
  PROVE  l \in Leaf /\ (IsEnvelope(l) => header.native)
<1>1. snap.leaves \in SUBSET Leaf
  BY DEF IInv, TypeOK, Db
<1>2. IsEnvelope(l) => Proto(snap)
  BY DEF Proto
<1>3. QED
  BY <1>1, <1>2 DEF IInv, DatabaseIsSound, WasHeader

\* So is the winner.
LEMMA WinnerOfSnapshot ==
  ASSUME IInv, snap.leaves # {}
  PROVE  /\ Winner(snap.leaves) \in Leaf
         /\ IsEnvelope(Winner(snap.leaves)) => header.native
<1>1. snap.leaves \in SUBSET Leaf
  BY DEF IInv, TypeOK, Db
<1>2. QED
  BY <1>1, WinnerIsLeaf, LeafOfSnapshot

----------------------------------------------------------------------------
(* What requests read                                                      *)

\* A request that comes knows its rev and what is served.
LEMMA ArrivesKeepsIInv ==
  ASSUME IInv, NEW p \in Requests, NEW rev \in 0..MaxSeq, NEW label \in LabelsOf(p),
         Arrives(p, rev, label),
         label \in {"done", "write", "look", "read"},
         p \in ProtoPuts \cup Envelopes => label = "done" \/ snap.native,
         p \in JsonPuts => label = "done" \/ ~snap.native,
         p \in ProtoPuts => label # "write"
  PROVE  IInv'
<1> DEFINE r == [Blank EXCEPT !.rev = rev, !.seen = served, !.began = schemas.seq]
<1>1. r \in Reading
  BY BlankIsTyped DEF Reading, IInv, TypeOK
<1>2. /\ r.opened = Blank.opened /\ r.cur = Blank.cur
      /\ r.seen = served /\ r.began = schemas.seq
  BY BlankIsTyped DEF Reading
<1> HIDE DEF r
<1>3. HasRead(p, "new", Blank)
  BY BlankIsRead
<1>4. served \in 0..MaxSeq /\ schemas.seq \in 0..MaxSchemaSeq
  BY DEF IInv, TypeOK
<1>5. snap.native => header.native
  BY DEF IInv, DatabaseIsSound, WasHeader
<1>6. ~snap.native => served <= markSeq
  BY DEF IInv, DatabaseIsSound, WasHeader
<1>7. HasRead(p, label, r)
  BY <1>2, <1>3, <1>4, <1>5, <1>6 DEF HasRead
<1>8. Becomes(p, label, r) /\ UNCHANGED <<schemas, cache, database, histories>>
  BY DEF Arrives, r
<1>9. QED
  BY <1>1, <1>7, <1>8, ReadingKeepsIInv

\* Each check lets in only what its snapshot allows.
LEMMA CheckKeepsIInv ==
  ASSUME IInv, NEW p \in Requests, NEW rev \in 0..MaxSeq,
         \/ p \in JsonPuts /\ CheckJson(p, rev)
         \/ p \in ProtoPuts /\ CheckProto(p, rev)
         \/ p \in Deletes /\ CheckDelete(p, rev)
         \/ p \in Envelopes /\ CheckEnvelope(p)
  PROVE  IInv'
<1>1. CASE p \in JsonPuts /\ CheckJson(p, rev)
  <2>1. p \notin ProtoPuts \cup Envelopes
    BY <1>1, ProtoAssumption DEF ProtoAssumption
  <2>2. "done" \in LabelsOf(p) /\ "write" \in LabelsOf(p)
    BY <1>1, LabelsAre DEF StoringLabels
  <2>3. QED
    BY <1>1, <2>1, <2>2, ArrivesKeepsIInv DEF CheckJson
<1>2. CASE p \in ProtoPuts /\ CheckProto(p, rev)
  <2>1. p \notin JsonPuts
    BY <1>2, ProtoAssumption DEF ProtoAssumption
  <2>2. "done" \in LabelsOf(p) /\ "look" \in LabelsOf(p)
    BY <1>2, LabelsAre DEF StoringLabels
  <2>3. QED
    BY <1>2, <2>1, <2>2, ArrivesKeepsIInv DEF CheckProto
<1>3. CASE p \in Deletes /\ CheckDelete(p, rev)
  <2>1. p \notin JsonPuts \cup ProtoPuts \cup Envelopes
    BY <1>3, ProtoAssumption DEF ProtoAssumption
  <2>2. "read" \in LabelsOf(p) /\ "write" \in LabelsOf(p)
    BY <1>3, LabelsAre DEF StoringLabels
  <2>3. QED
    BY <1>3, <2>1, <2>2, ArrivesKeepsIInv DEF CheckDelete
<1>4. CASE p \in Envelopes /\ CheckEnvelope(p)
  <2>1. p \notin JsonPuts \cup ProtoPuts
    BY <1>4, ProtoAssumption DEF ProtoAssumption
  <2>2. "done" \in LabelsOf(p) /\ "write" \in LabelsOf(p)
    BY <1>4, LabelsAre DEF StoringLabels
  <2>3. NoRev \in 0..MaxSeq
    BY BlankIsTyped DEF NoRev
  <2>4. QED
    BY <1>4, <2>1, <2>2, <2>3, ArrivesKeepsIInv DEF CheckEnvelope
<1>5. QED
  BY <1>1, <1>2, <1>3, <1>4

\* The winner of a later snapshot is proto only in a proto-native database.
LEMMA ReadWinnerKeepsIInv ==
  ASSUME IInv, NEW p \in Requests, ReadWinner(p)
  PROVE  IInv'
<1> DEFINE won == Winner(snap.leaves)
           label == IF IsEnvelope(won) THEN "look" ELSE "done"
           r == [local[p] EXCEPT !.cur = won]
<1>1. p \in Deletes
  BY LabelsAre DEF ReadWinner, IInv, TypeOK, Requests, StoringLabels
<1>2. label \in LabelsOf(p) /\ p \notin JsonPuts \cup ProtoPuts \cup Envelopes
  BY <1>1, LabelsAre, ProtoAssumption DEF ProtoAssumption, StoringLabels
<1>3. won \in Leaf /\ (IsEnvelope(won) => header.native)
  BY WinnerOfSnapshot DEF ReadWinner
<1>4. local[p] \in Reading
  BY DEF IInv, TypeOK
<1>5. r \in Reading
  BY <1>3, <1>4 DEF Reading
<1>6. /\ r.cur = won /\ r.opened = local[p].opened /\ r.seen = local[p].seen
      /\ r.began = local[p].began
  BY <1>4 DEF Reading
<1>7. HasRead(p, pc[p], local[p])
  BY DEF IInv, RequestsAreSound
<1>8. Becomes(p, label, r) /\ UNCHANGED <<schemas, cache, database, histories>>
  BY DEF ReadWinner
<1>9. label \in {"look", "done"}
  OBVIOUS
<1> HIDE DEF r, won, label
<1>10. HasRead(p, label, r)
  BY <1>2, <1>3, <1>6, <1>7, <1>9 DEF HasRead
<1>11. QED
  BY <1>2, <1>5, <1>8, <1>10, ReadingKeepsIInv

\* So is the winner a read answers with.
LEMMA GetKeepsIInv ==
  ASSUME IInv, NEW p \in Gets, Get(p)
  PROVE  IInv'
<1> DEFINE won == Winner(snap.leaves)
           label == IF IsEnvelope(won) THEN "look" ELSE "done"
           r == [Blank EXCEPT !.cur = won, !.began = schemas.seq]
<1>1. p \in Requests /\ "done" \in LabelsOf(p) /\ "look" \in LabelsOf(p)
      /\ p \notin JsonPuts \cup ProtoPuts \cup Envelopes
  BY LabelsAre, ProtoAssumption DEF ProtoAssumption, Requests
<1>2. UNCHANGED <<schemas, cache, database, histories>>
  BY DEF Get
<1>3. CASE snap.leaves = {} \/ won.deleted
  <2>1. Becomes(p, "done", Blank)
    BY <1>3 DEF Get
  <2>2. QED
    BY <1>1, <1>2, <2>1, BlankIsTyped, BlankIsRead, ReadingKeepsIInv
<1>4. CASE ~(snap.leaves = {} \/ won.deleted)
  <2>1. won \in Leaf /\ (IsEnvelope(won) => header.native)
    BY <1>4, WinnerOfSnapshot
  <2>2. schemas.seq \in 0..MaxSchemaSeq
    BY DEF IInv, TypeOK
  <2>3. r \in Reading
    BY <2>1, <2>2, BlankIsTyped DEF Reading
  <2>4. /\ r.cur = won /\ r.opened = Blank.opened /\ r.seen = Blank.seen
        /\ r.began = schemas.seq
    BY BlankIsTyped DEF Reading
  <2>5. Becomes(p, label, r) /\ label \in {"look", "done"} /\ label \in LabelsOf(p)
    BY <1>1, <1>4 DEF Get
  <2> HIDE DEF won, label, r
  <2>6. HasRead(p, "new", Blank)
    BY BlankIsRead
  <2>7. HasRead(p, label, r)
    BY <1>1, <2>1, <2>2, <2>4, <2>5, <2>6 DEF HasRead
  <2>8. QED
    BY <1>1, <1>2, <2>3, <2>5, <2>7, ReadingKeepsIInv
<1>5. QED
  BY <1>3, <1>4

\* The leaf whose attachments are edited reads as a proto document only in a
\* proto-native database; nothing else of it is checked.
LEMMA ReadForAttsKeepsIInv ==
  ASSUME IInv, NEW p \in AttEdits, NEW rev \in 0..MaxSeq, ReadForAtts(p, rev)
  PROVE  IInv'
<1>1. /\ p \in Requests /\ "done" \in LabelsOf(p) /\ "write" \in LabelsOf(p)
      /\ p \notin JsonPuts \cup ProtoPuts \cup Envelopes
  BY LabelsAre, ProtoAssumption DEF ProtoAssumption, Requests, Unchecked, StoringLabels
<1>2. UNCHANGED <<schemas, cache, database, histories>>
  BY DEF ReadForAtts
<1>3. ASSUME NEW label \in {"write", "done"}, Becomes(p, label, Blank)
      PROVE  IInv'
  <2>1. HasRead(p, "new", Blank)
    BY BlankIsRead
  <2>2. HasRead(p, label, Blank)
    BY <1>1, <2>1 DEF HasRead
  <2>3. QED
    BY <1>1, <1>2, <1>3, <2>2, BlankIsTyped, ReadingKeepsIInv
<1>4. ASSUME NEW l \in snap.leaves, Becomes(p, "write", [Blank EXCEPT !.rev = l.rev, !.cur = l])
      PROVE  IInv'
  <2> DEFINE r == [Blank EXCEPT !.rev = l.rev, !.cur = l]
  <2>1. l \in Leaf /\ l.rev \in 0..MaxSeq /\ (IsEnvelope(l) => header.native)
    BY LeafOfSnapshot DEF Leaf
  <2>2. r \in Reading
    BY <2>1, BlankIsTyped DEF Reading
  <2>3. /\ r.cur = l /\ r.opened = Blank.opened /\ r.seen = Blank.seen
        /\ r.began = Blank.began
    BY BlankIsTyped DEF Reading
  <2>4. Becomes(p, "write", r)
    BY <1>4
  <2> HIDE DEF r
  <2>5. HasRead(p, "new", Blank)
    BY BlankIsRead
  <2>6. HasRead(p, "write", r)
    BY <1>1, <2>1, <2>3, <2>5 DEF HasRead
  <2>7. QED
    BY <1>1, <1>2, <2>2, <2>4, <2>6, ReadingKeepsIInv
<1>5. QED
  BY <1>3, <1>4 DEF ReadForAtts

\* A conflict ends the request.
LEMMA ConflictKeepsIInv ==
  ASSUME IInv, NEW p \in Requests, Conflict(p)
  PROVE  IInv'
<1>1. Becomes(p, "done", Blank) /\ UNCHANGED <<schemas, cache, database, histories>>
  BY DEF Conflict
<1>2. QED
  BY <1>1, NewAndDoneAreLabels, BlankIsTyped, BlankIsRead, ReadingKeepsIInv

----------------------------------------------------------------------------
(* The registry of a request                                               *)

\* JSON puts and envelopes never ask for a registry.
LEMMA LookersAre ==
  ASSUME TypeOK, NEW p \in Requests, pc[p] \in {"look", "compare", "build", "use"}
  PROVE  /\ p \in ProtoPuts \cup Deletes \cup Gets
         /\ p \notin JsonPuts \cup Envelopes
         /\ {"look", "compare", "build", "use", "done"} \subseteq LabelsOf(p)
<1>1. p \in ProtoPuts \cup Deletes \cup Gets
  BY LabelsAre DEF TypeOK, Requests, StoringLabels
<1>2. QED
  BY <1>1, LabelsAre, ProtoAssumption DEF ProtoAssumption, StoringLabels

\* The snapshot of _schemas is one of its states since the request came.
LEMMA LookKeepsIInv ==
  ASSUME IInv, NEW p \in Requests, Look(p)
  PROVE  IInv'
<1> DEFINE label == IF schemas.open THEN "compare" ELSE "use"
           r == [local[p] EXCEPT !.docs = schemas.docs, !.seq = schemas.seq]
<1>1. label \in LabelsOf(p) /\ p \notin JsonPuts /\ pc[p] = "look"
  BY LookersAre DEF Look, IInv
<1>2. local[p] \in Reading /\ schemas.docs \in SchemaState /\ schemas.seq \in 0..MaxSchemaSeq
  BY DEF IInv, TypeOK
<1>3. r \in Reading
  BY <1>2 DEF Reading
<1>4. /\ r.cur = local[p].cur /\ r.opened = local[p].opened /\ r.seen = local[p].seen
      /\ r.began = local[p].began /\ r.seq = schemas.seq /\ r.docs = schemas.docs
  BY <1>2 DEF Reading
<1>5. HasRead(p, "look", local[p])
  BY <1>1 DEF IInv, RequestsAreSound
<1>6. Becomes(p, label, r) /\ UNCHANGED <<schemas, cache, database, histories>>
  BY DEF Look
<1>7. label \in {"compare", "use"} /\ (~rewound => label = "compare" /\ schemas.docs = Held(schemas.seq))
  BY DEF IInv, SchemasAreSound
<1>8. local[p].began \in 0..MaxSchemaSeq
  BY <1>2 DEF Reading
<1> HIDE DEF r, label
<1>9. HasRead(p, label, r)
  BY <1>1, <1>2, <1>4, <1>5, <1>7, <1>8 DEF HasRead
<1>10. QED
  BY <1>1, <1>3, <1>6, <1>9, ReadingKeepsIInv

\* The cached registry is of the state that was looked up if it has its seq.
LEMMA CompareKeepsIInv ==
  ASSUME IInv, NEW p \in Requests, Compare(p)
  PROVE  IInv'
<1>1. {"build", "use"} \subseteq LabelsOf(p) /\ p \notin JsonPuts /\ pc[p] = "compare"
  BY LookersAre DEF Compare, IInv
<1>2. local[p] \in Reading /\ UNCHANGED <<schemas, cache, database, histories>>
  BY DEF IInv, TypeOK, Compare
<1>3. HasRead(p, "compare", local[p])
  BY <1>1 DEF IInv, RequestsAreSound
<1>4. CASE \E c \in cache : c.seq = local[p].seq /\ local' = [local EXCEPT ![p].reg = c.reg]
                            /\ Goto(p, "use")
  <2>1. PICK c \in cache : c.seq = local[p].seq /\ local' = [local EXCEPT ![p].reg = c.reg]
    BY <1>4
  <2> DEFINE r == [local[p] EXCEPT !.reg = c.reg]
  <2>2. c.reg \in Registry
    BY DEF IInv, TypeOK
  <2>3. r \in Reading
    BY <1>2, <2>2 DEF Reading
  <2>4. /\ r.cur = local[p].cur /\ r.opened = local[p].opened /\ r.seen = local[p].seen
        /\ r.began = local[p].began /\ r.reg = c.reg
    BY <1>2 DEF Reading
  <2>5. Becomes(p, "use", r)
    BY <1>4, <2>1 DEF Becomes, IInv, TypeOK
  <2>6. ~rewound => Whole(c.reg, Held(local[p].seq))
    BY <2>1 DEF IInv, SchemasAreSound
  <2> HIDE DEF r
  <2>7. HasRead(p, "use", r)
    BY <1>1, <1>3, <2>4, <2>6 DEF HasRead
  <2>8. QED
    BY <1>1, <1>2, <2>3, <2>5, <2>7, ReadingKeepsIInv
<1>5. CASE Goto(p, "build") /\ UNCHANGED local
  <2>1. local' = [local EXCEPT ![p] = local[p]]
    BY <1>5 DEF IInv, TypeOK
  <2>2. Becomes(p, "build", local[p])
    BY <1>5, <2>1 DEF Becomes
  <2>3. HasRead(p, "build", local[p])
    BY <1>1, <1>3 DEF HasRead
  <2>4. QED
    BY <1>1, <1>2, <2>2, <2>3, ReadingKeepsIInv
<1>6. QED
  BY <1>4, <1>5 DEF Compare

\* A new registry is of the state that was looked up, in the request and in the cache.
LEMMA BuildRegistryKeepsIInv ==
  ASSUME IInv, NEW p \in Requests, BuildRegistry(p)
  PROVE  IInv'
<1> DEFINE reg == Build(local[p].docs)
           r == [local[p] EXCEPT !.reg = reg]
<1>1. {"done", "use"} \subseteq LabelsOf(p) /\ p \notin JsonPuts /\ pc[p] = "build"
  BY LookersAre DEF BuildRegistry, IInv
<1>2. local[p] \in Reading /\ UNCHANGED <<schemas, database, histories>>
  BY DEF IInv, TypeOK, BuildRegistry
<1>3. HasRead(p, "build", local[p])
  BY <1>1 DEF IInv, RequestsAreSound
<1>4. CASE reg = Broken
  BY <1>1, <1>2, <1>4, BlankIsTyped, BlankIsRead, ReadingKeepsIInv DEF BuildRegistry
<1>5. CASE reg # Broken
  <2>1. local[p].docs \in SchemaState /\ local[p].seq \in 0..MaxSchemaSeq
    BY <1>2 DEF Reading
  <2>2. reg \in Registry /\ Whole(reg, local[p].docs)
    BY <1>5, <2>1, BuildIsTyped, BuildIsWhole
  <2>3. r \in Reading
    BY <1>2, <2>2 DEF Reading
  <2>4. /\ r.cur = local[p].cur /\ r.opened = local[p].opened /\ r.seen = local[p].seen
        /\ r.began = local[p].began /\ r.reg = reg
    BY <1>2 DEF Reading
  <2>5. cache' = {[seq |-> local[p].seq, reg |-> reg]} /\ Becomes(p, "use", r)
    BY <1>5 DEF BuildRegistry
  <2> HIDE DEF r, reg
  <2>6. ~rewound => local[p].seq \in local[p].began..schemas.seq /\ Whole(reg, Held(local[p].seq))
    BY <1>3, <2>2 DEF HasRead
  <2>7. HasRead(p, "use", r)
    BY <1>1, <1>3, <2>4, <2>6 DEF HasRead
  <2>8. cache' \in SUBSET [seq : 0..MaxSchemaSeq, reg : Registry] /\ Cardinality(cache') <= 1
    <3>1. [seq |-> local[p].seq, reg |-> reg] \in [seq : 0..MaxSchemaSeq, reg : Registry]
      BY <2>1, <2>2
    <3>2. Cardinality(cache') = 1
      BY <2>5, FS_Singleton
    <3>3. QED
      BY <2>5, <3>1, <3>2
  <2>9. TypeOK'
    BY <1>1, <1>2, <2>3, <2>5, <2>8, BecomesIsTyped DEF IInv, TypeOK, database, histories
  <2>10. DatabaseIsSound'
    BY <1>2, SameStateHasRead DEF IInv
  <2>11. SchemasAreSound'
    <3>1. ~rewound => local[p].seq <= schemas.seq
      BY <2>1, <2>6 DEF IInv, TypeOK
    <3>2. QED
      BY <1>2, <2>5, <2>6, <3>1 DEF IInv, SchemasAreSound, Held, database, histories
  <2>12. ASSUME NEW q \in Requests
         PROVE  HasRead(q, pc[q], local[q])'
    <3>1. HasRead(q, pc'[q], local'[q])
      BY <1>1, <2>3, <2>5, <2>7, BecomesIsTyped DEF IInv, RequestsAreSound
    <3>2. QED
      BY <1>2, <3>1, SameStateHasRead
  <2>13. QED
    BY <2>9, <2>10, <2>11, <2>12 DEF IInv, RequestsAreSound
<1>6. QED
  BY <1>4, <1>5

\* A put whose message decodes goes on with the registry it has.
LEMMA UseKeepsIInv ==
  ASSUME IInv, NEW p \in Requests, Use(p)
  PROVE  IInv'
<1> DEFINE r == [local[p] EXCEPT !.docs = NoSchemas, !.seq = 0]
<1>1. p \in ProtoPuts \cup Deletes \cup Gets /\ p \notin JsonPuts \cup Envelopes /\ pc[p] = "use"
  BY LookersAre DEF Use, IInv
<1>2. local[p] \in Reading /\ UNCHANGED <<schemas, cache, database, histories>>
  BY DEF IInv, TypeOK, Use
<1>3. HasRead(p, "use", local[p])
  BY <1>1 DEF IInv, RequestsAreSound
<1>4. PICK label \in {"write", "done"} : Becomes(p, label, r) /\ (p \in Gets => label = "done")
  BY <1>1, ProtoAssumption DEF Use, ProtoAssumption
<1>5. label \in LabelsOf(p)
  BY <1>1, <1>4, LabelsAre DEF StoringLabels
<1>6. r \in Reading
  BY <1>2, BlankIsTyped DEF Reading
<1>7. /\ r.cur = local[p].cur /\ r.opened = local[p].opened /\ r.seen = local[p].seen
      /\ r.began = local[p].began /\ r.reg = local[p].reg
  BY <1>2 DEF Reading
<1> HIDE DEF r
<1>8. HasRead(p, label, r)
  BY <1>1, <1>3, <1>4, <1>7 DEF HasRead
<1>9. QED
  BY <1>2, <1>4, <1>5, <1>6, <1>8, ReadingKeepsIInv

----------------------------------------------------------------------------
(* The database                                                            *)

\* Nothing but the header changes, and nothing that was the header is lost.
LEMMA StoreKeepsIInv ==
  ASSUME IInv, NEW p \in Requests, NEW parents, NEW kind \in {"json", "proto"},
         NEW body \in Messages, NEW deleted \in BOOLEAN,
         Store(p, parents, kind, body, deleted),
         "open" \in LabelsOf(p),
         kind = "proto" \/ body # Nothing => header.native
  PROVE  IInv'
<1> DEFINE leaf == [rev |-> header.seq + 1, kind |-> kind, body |-> body, deleted |-> deleted]
           leaves == (header.leaves \ parents) \cup {leaf}
<1>1. header \in Db /\ header.seq \in 0..MaxSeq /\ header.leaves \in SUBSET Leaf /\ MaxSeq \in Nat
  BY ProtoAssumption DEF ProtoAssumption, IInv, TypeOK, Db
<1>2. header.seq + 1 \in 0..MaxSeq
  BY <1>1 DEF Store
<1>3. leaf \in Leaf
  BY <1>2 DEF Leaf
<1>4. leaves \in SUBSET Leaf /\ leaves # {}
  BY <1>1, <1>3
<1>5. header' = [header EXCEPT !.leaves = leaves, !.seq = header.seq + 1]
  BY <1>1 DEF Store, Db
<1>6. /\ Becomes(p, "open", Blank) /\ schemas' = schemas /\ cache' = cache /\ made' = made
      /\ snap' = snap /\ served' = served /\ past' = past /\ rewound' = rewound
      /\ markSeq' = markSeq
  BY DEF Store, histories
<1>7. \A l \in leaves : l \in header.leaves \/ (l.kind = kind /\ l.body = body)
  OBVIOUS
<1> HIDE DEF leaf, leaves
<1>8. header' \in Db
  BY <1>1, <1>2, <1>4, <1>5 DEF Db
<1>9. header'.native = header.native /\ header'.seq = header.seq + 1 /\ header'.leaves = leaves
  BY <1>1, <1>5 DEF Db
<1>10. TypeOK'
  <2>1. header'.leaves = {} <=> header'.seq = 0
    BY <1>1, <1>4, <1>9
  <2>2. QED
    BY <1>6, <1>8, <2>1, BlankIsTyped, BecomesIsTyped DEF IInv, TypeOK
<1>11. \A db : db.seq \in Nat /\ WasHeader(db) => WasHeader(db)'
  BY <1>1, <1>6, <1>9 DEF WasHeader
<1>12. DatabaseIsSound'
  <2>1. WasHeader(snap)'
    BY <1>6, <1>11 DEF IInv, TypeOK, DatabaseIsSound, Db
  <2>2. Proto(header)' => header'.native
    BY <1>7, <1>9 DEF Proto, IsEnvelope, IInv, DatabaseIsSound
  <2>3. QED
    BY <1>6, <1>9, <2>1, <2>2 DEF IInv, DatabaseIsSound
<1>13. SchemasAreSound'
  BY <1>6 DEF IInv, SchemasAreSound, Held
<1>14. ASSUME NEW q \in Requests
       PROVE  HasRead(q, pc[q], local[q])'
  <2>1. HasRead(q, pc'[q], local'[q]) /\ local'[q] \in Reading
    BY <1>6, BlankIsTyped, BlankIsRead, BecomesIsTyped DEF IInv, RequestsAreSound
  <2>2. local'[q].opened.seq \in Nat
    BY <2>1 DEF Reading, Db
  <2>3. QED
    BY <1>6, <1>9, <1>11, <2>1, <2>2 DEF HasRead, Held
<1>15. QED
  BY <1>10, <1>12, <1>13, <1>14 DEF IInv, RequestsAreSound

\* Each write stores what its check let in, or what reads as what was there.
LEMMA WriteKeepsIInv ==
  ASSUME IInv, NEW p \in Requests,
         \/ WriteJson(p) \/ WriteProto(p) \/ WriteTombstone(p) \/ WriteEnvelope(p)
         \/ WriteAtts(p) \/ WriteWithoutId(p)
  PROVE  IInv'
<1>1. ~WriteWithoutId(p) => HasRead(p, "write", local[p])
  BY DEF IInv, RequestsAreSound, WriteJson, WriteProto, WriteTombstone, WriteEnvelope, WriteAtts
<1>2. \A q \in JsonPuts \cup ProtoPuts \cup Envelopes \cup Deletes \cup Unchecked :
        "open" \in LabelsOf(q)
  BY LabelsAre DEF StoringLabels
<1>3. CASE WriteJson(p)
  <2>1. Nothing \in Messages
    BY DEF Messages
  <2>2. QED
    BY <1>2, <1>3, <2>1, StoreKeepsIInv DEF WriteJson
<1>4. CASE WriteWithoutId(p)
  <2>1. Nothing \in Messages
    BY DEF Messages
  <2>2. QED
    BY <1>2, <1>4, <2>1, StoreKeepsIInv DEF WriteWithoutId, Unchecked
<1>5. ASSUME WriteProto(p) \/ WriteTombstone(p) \/ WriteEnvelope(p) \/ WriteAtts(p),
             ~WriteWithoutId(p)
      PROVE  IInv'
  <2>1. HasRead(p, "write", local[p])
    BY <1>1, <1>5
  <2>2. CASE WriteProto(p)
    <3>1. Payload[p] \in Messages /\ header.native
      BY <2>1, <2>2 DEF WriteProto, HasRead, Messages
    <3>2. QED
      BY <1>2, <2>2, <3>1, StoreKeepsIInv DEF WriteProto
  <2>3. /\ local[p].cur.body \in Messages
        /\ IsEnvelope(local[p].cur) => header.native
        /\ local[p].cur.body # Nothing => header.native
    BY <2>1 DEF IInv, TypeOK, Reading, Leaf, HasRead, IsEnvelope
  <2>4. CASE WriteTombstone(p)
    <3> DEFINE kind == IF IsEnvelope(local[p].cur) THEN "proto" ELSE "json"
    <3>1. PICK parents : Store(p, parents, kind, local[p].cur.body, TRUE)
      BY <2>4 DEF WriteTombstone
    <3>2. kind \in {"json", "proto"} /\ (kind = "proto" \/ local[p].cur.body # Nothing => header.native)
      BY <2>3
    <3>3. "open" \in LabelsOf(p)
      BY <1>2, <2>4 DEF WriteTombstone
    <3> HIDE DEF kind
    <3>4. QED
      BY <2>3, <3>1, <3>2, <3>3, StoreKeepsIInv
  <2>5. CASE WriteEnvelope(p)
    <3>1. Payload[p] \in Messages /\ header.native
      BY <2>1, <2>5 DEF WriteEnvelope, HasRead, Messages
    <3>2. QED
      BY <1>2, <2>5, <3>1, StoreKeepsIInv DEF WriteEnvelope
  <2>6. CASE WriteAtts(p)
    BY <1>2, <2>3, <2>6, StoreKeepsIInv DEF WriteAtts, Unchecked
  <2>7. QED
    BY <1>5, <2>2, <2>4, <2>5, <2>6
<1>6. QED
  BY <1>3, <1>4, <1>5

\* A new database is not proto-native yet.
LEMMA CreateDbKeepsIInv ==
  ASSUME IInv, CreateDb
  PROVE  IInv'
<1>1. Creator \in Requests /\ "mark" \in LabelsOf(Creator)
      /\ Creator \notin JsonPuts \cup ProtoPuts \cup Envelopes
  BY LabelsAre, ProtoAssumption DEF ProtoAssumption, Requests
<1>2. /\ pc' = [pc EXCEPT ![Creator] = "mark"] /\ local' = local /\ made' = TRUE
      /\ schemas' = schemas /\ cache' = cache /\ header' = header /\ snap' = snap
      /\ served' = served /\ past' = past /\ rewound' = rewound /\ markSeq' = markSeq
  BY DEF CreateDb, Goto, histories
<1>3. TypeOK'
  BY <1>1, <1>2 DEF IInv, TypeOK
<1>4. \A db : WasHeader(db) => WasHeader(db)'
  BY <1>2 DEF WasHeader
<1>5. DatabaseIsSound' /\ SchemasAreSound'
  BY <1>2, <1>4 DEF IInv, DatabaseIsSound, SchemasAreSound, Held, Proto
<1>6. ASSUME NEW q \in Requests
      PROVE  HasRead(q, pc[q], local[q])'
  <2>1. HasRead(q, pc[q], local[q])
    BY DEF IInv, RequestsAreSound
  <2>2. CASE q = Creator
    BY <1>1, <1>2, <1>4, <2>1, <2>2 DEF HasRead, Held, IInv, TypeOK
  <2>3. CASE q # Creator
    BY <1>2, <1>4, <2>1, <2>3 DEF HasRead, Held, IInv, TypeOK
  <2>4. QED
    BY <2>2, <2>3
<1>7. QED
  BY <1>3, <1>5, <1>6 DEF IInv, RequestsAreSound

\* Everything that was the header before is of before the mark.
LEMMA MarkNativeKeepsIInv ==
  ASSUME IInv, MarkNative
  PROVE  IInv'
<1>1. Creator \in Requests /\ "open" \in LabelsOf(Creator)
      /\ Creator \notin JsonPuts \cup ProtoPuts \cup Envelopes
  BY LabelsAre, ProtoAssumption DEF ProtoAssumption, Requests
<1>2. /\ pc' = [pc EXCEPT ![Creator] = "open"] /\ local' = local /\ made' = made
      /\ schemas' = schemas /\ cache' = cache /\ header' = [header EXCEPT !.native = TRUE]
      /\ snap' = snap /\ served' = served /\ past' = past /\ rewound' = rewound
      /\ markSeq' = header.seq
  BY DEF MarkNative, Goto
<1>3. /\ header \in Db /\ header.seq \in 0..MaxSeq /\ MaxSeq \in Nat
      /\ snap.seq \in 0..MaxSeq
  BY ProtoAssumption DEF ProtoAssumption, IInv, TypeOK, Db
<1>4. /\ header' \in Db /\ header'.seq = header.seq /\ header'.leaves = header.leaves
      /\ header'.native
  BY <1>2, <1>3 DEF Db
<1>5. markSeq' \in 0..Never /\ markSeq' # Never
  BY <1>2, <1>3 DEF Never
<1>6. TypeOK'
  BY <1>1, <1>2, <1>4, <1>5 DEF IInv, TypeOK
<1>7. \A db : WasHeader(db) => WasHeader(db)'
  BY <1>2, <1>4 DEF WasHeader
<1>8. DatabaseIsSound' /\ SchemasAreSound'
  BY <1>2, <1>4, <1>5, <1>7 DEF IInv, DatabaseIsSound, SchemasAreSound, Held, Proto
<1>9. served <= header.seq
  BY DEF IInv, DatabaseIsSound, WasHeader
<1>10. ASSUME NEW q \in Requests
       PROVE  HasRead(q, pc[q], local[q])'
  <2>1. HasRead(q, pc[q], local[q]) /\ local[q].seen \in 0..MaxSeq /\ served \in 0..MaxSeq
    BY DEF IInv, RequestsAreSound, TypeOK, Reading
  <2>2. local[q].seen <= markSeq'
    BY <1>2, <1>3, <1>9, <2>1 DEF HasRead
  <2>3. CASE q = Creator
    BY <1>1, <1>2, <1>4, <1>7, <2>1, <2>2, <2>3 DEF HasRead, Held, IInv, TypeOK
  <2>4. CASE q # Creator
    BY <1>2, <1>4, <1>7, <2>1, <2>2, <2>4 DEF HasRead, Held, IInv, TypeOK
  <2>5. QED
    BY <2>3, <2>4
<1>11. QED
  BY <1>6, <1>8, <1>10 DEF IInv, RequestsAreSound

\* What a refresh opens is the header.
LEMMA OpenKeepsIInv ==
  ASSUME IInv, NEW p \in Requests, Open(p)
  PROVE  IInv'
<1> DEFINE r == [Blank EXCEPT !.opened = header]
<1>1. header \in Db /\ pc[p] = "open" /\ pc[p] \in LabelsOf(p)
  BY DEF IInv, TypeOK, Open
<1>2. "install" \in LabelsOf(p)
  BY <1>1, LabelsAre DEF Requests, StoringLabels
<1>3. r \in Reading
  BY <1>1, BlankIsTyped DEF Reading
<1>4. /\ r.opened = header /\ r.cur = Blank.cur /\ r.seen = Blank.seen
      /\ r.began = Blank.began
  BY BlankIsTyped DEF Reading
<1>5. WasHeader(header)
  <2>1. header.seq \in 0..MaxSeq /\ header.native \in BOOLEAN /\ MaxSeq \in Nat
        /\ (header.leaves = {} <=> header.seq = 0)
    BY ProtoAssumption DEF ProtoAssumption, IInv, TypeOK, Db
  <2>2. ~header.native => header.seq <= markSeq
    BY <2>1 DEF IInv, DatabaseIsSound, Never
  <2>3. QED
    BY <2>1, <2>2 DEF IInv, DatabaseIsSound, WasHeader
<1>6. HasRead(p, "install", Blank)
  BY BlankIsRead
<1>7. Becomes(p, "install", r) /\ UNCHANGED <<schemas, cache, database, histories>>
  BY DEF Open
<1> HIDE DEF r
<1>8. HasRead(p, "install", r)
  BY <1>4, <1>5, <1>6 DEF HasRead
<1>9. QED
  BY <1>2, <1>3, <1>7, <1>8, ReadingKeepsIInv

\* A later snapshot is as sound as the one before.
LEMMA SnapshotMovesOn ==
  ASSUME IInv, NEW db \in Db, Serves(db), WasHeader(db), snap.seq <= db.seq,
         UNCHANGED <<schemas, made, header, past, rewound, markSeq>>
  PROVE  /\ served' \in 0..MaxSeq /\ snap' \in Db
         /\ DatabaseIsSound'
         /\ \A p, label, r : r \in Reading /\ HasRead(p, label, r) => HasRead(p, label, r)'
<1>1. snap' = db /\ db.seq \in 0..MaxSeq /\ served \in 0..MaxSeq /\ served = snap.seq
      /\ MaxSeq \in Nat
  BY ProtoAssumption DEF ProtoAssumption, Serves, Db, IInv, TypeOK, DatabaseIsSound
<1>2. served' = db.seq /\ served <= served'
  BY <1>1 DEF Serves
<1>3. \A d : WasHeader(d) => WasHeader(d)'
  BY DEF WasHeader
<1>4. DatabaseIsSound'
  BY <1>1, <1>2, <1>3 DEF IInv, DatabaseIsSound, Proto
<1>5. ASSUME NEW p, NEW label, NEW r \in Reading, HasRead(p, label, r)
      PROVE  HasRead(p, label, r)'
  <2>1. r.seen <= served'
    <3>1. r.seen \in 0..MaxSeq /\ r.seen <= served
      BY <1>5 DEF Reading, HasRead
    <3>2. QED
      BY <1>1, <1>2, <3>1
  <2>2. QED
    BY <1>3, <1>5, <2>1 DEF HasRead, Held
<1>6. QED
  BY <1>1, <1>2, <1>4, <1>5

\* What a refresh puts in is no older than what is served.
LEMMA InstallKeepsIInv ==
  ASSUME IInv, NEW p \in Requests, Install(p)
  PROVE  IInv'
<1> DEFINE db == IF local[p].opened.seq >= snap.seq THEN local[p].opened ELSE snap
<1>1. local[p] \in Reading /\ snap \in Db
  BY DEF IInv, TypeOK
<1>2. local[p].opened \in Db /\ local[p].opened.seq \in Nat /\ snap.seq \in Nat
  BY <1>1 DEF Reading, Db
<1>3. WasHeader(local[p].opened) /\ WasHeader(snap)
  BY DEF IInv, RequestsAreSound, HasRead, DatabaseIsSound
<1>4. db \in Db /\ WasHeader(db) /\ snap.seq <= db.seq
  BY <1>1, <1>2, <1>3
<1>5. /\ Serves(db) /\ Becomes(p, "done", Blank) /\ cache' = cache
      /\ UNCHANGED <<schemas, made, header, past, rewound, markSeq>>
  BY DEF Install
<1> HIDE DEF db
<1>6. TypeOK'
  <2>1. snap'.leaves = {} <=> snap'.seq = 0
    BY <1>4, <1>5 DEF WasHeader, Serves
  <2>2. served' \in 0..MaxSeq /\ snap' \in Db
    BY <1>4, <1>5, SnapshotMovesOn
  <2>3. QED
    BY <1>5, <2>1, <2>2, NewAndDoneAreLabels, BlankIsTyped, BecomesIsTyped DEF IInv, TypeOK
<1>7. DatabaseIsSound'
  BY <1>4, <1>5, SnapshotMovesOn
<1>8. SchemasAreSound'
  BY <1>5 DEF IInv, SchemasAreSound, Held
<1>9. ASSUME NEW q \in Requests
      PROVE  HasRead(q, pc[q], local[q])'
  <2>1. HasRead(q, pc'[q], local'[q]) /\ local'[q] \in Reading
    BY <1>5, NewAndDoneAreLabels, BlankIsTyped, BlankIsRead, BecomesIsTyped
       DEF IInv, RequestsAreSound
  <2>2. QED
    BY <1>4, <1>5, <2>1, SnapshotMovesOn
<1>10. QED
  BY <1>6, <1>7, <1>8, <1>9 DEF IInv, RequestsAreSound

\* Only what the header holds survives, and a crash puts it in.
LEMMA CrashKeepsIInv ==
  ASSUME IInv, Crash
  PROVE  IInv'
<1>1. header \in Db /\ header.seq \in 0..MaxSeq /\ header.native \in BOOLEAN /\ MaxSeq \in Nat
      /\ (header.leaves = {} <=> header.seq = 0)
  BY ProtoAssumption DEF ProtoAssumption, IInv, TypeOK, Db
<1>2. WasHeader(header) /\ snap.seq <= header.seq
  <2>1. ~header.native => header.seq <= markSeq
    BY <1>1 DEF IInv, DatabaseIsSound, Never
  <2>2. QED
    BY <1>1, <2>1 DEF IInv, DatabaseIsSound, WasHeader
<1>3. /\ Serves(header) /\ cache' = {}
      /\ pc' = [p \in Requests |-> IF pc[p] = "new" THEN pc[p] ELSE "done"]
      /\ local' = [p \in Requests |-> Blank]
      /\ UNCHANGED <<schemas, made, header, past, rewound, markSeq>>
  BY DEF Crash
<1>4. TypeOK'
  <2>1. Cardinality({}) = 0
    BY FS_EmptySet
  <2>2. served' \in 0..MaxSeq /\ snap' \in Db /\ snap' = header
    BY <1>1, <1>2, <1>3, SnapshotMovesOn DEF Serves
  <2>3. local' \in [Requests -> Reading]
    BY <1>3, BlankIsTyped
  <2>4. DOMAIN pc' = Requests /\ \A p \in Requests : pc'[p] \in LabelsOf(p)
    BY <1>3, NewAndDoneAreLabels
  <2>5. QED
    BY <1>3, <2>1, <2>2, <2>3, <2>4 DEF IInv, TypeOK
<1>5. DatabaseIsSound'
  BY <1>1, <1>2, <1>3, SnapshotMovesOn
<1>6. SchemasAreSound'
  BY <1>3 DEF IInv, SchemasAreSound, Held
<1>7. ASSUME NEW q \in Requests
      PROVE  HasRead(q, pc[q], local[q])'
  <2>1. pc'[q] \in {"new", "done"} /\ local'[q] = Blank
    BY <1>3
  <2>2. HasRead(q, pc'[q], local'[q]) /\ local'[q] \in Reading
    BY <2>1, BlankIsTyped, BlankIsRead
  <2>3. QED
    BY <1>1, <1>2, <1>3, <2>2, SnapshotMovesOn
<1>8. QED
  BY <1>4, <1>5, <1>6, <1>7 DEF IInv, RequestsAreSound

----------------------------------------------------------------------------
(* _schemas                                                                *)

\* A write to _schemas adds a state, and leaves those before as they were.
LEMMA SchemasHoldKeepsIInv ==
  ASSUME IInv, NEW docs \in SchemaState, SchemasHold(docs)
  PROVE  IInv'
<1>1. /\ schemas \in [open : BOOLEAN, docs : SchemaState, seq : 0..MaxSchemaSeq]
      /\ past \in Seq(SchemaState) /\ MaxSchemaSeq \in Nat
  BY ProtoAssumption DEF ProtoAssumption, IInv, TypeOK
<1>2. schemas.seq \in 0..MaxSchemaSeq
  BY <1>1
<1>3. schemas.seq + 1 \in 0..MaxSchemaSeq /\ schemas.open
  BY <1>1, <1>2 DEF SchemasHold
<1>4. schemas' = [schemas EXCEPT !.docs = docs, !.seq = schemas.seq + 1]
  BY <1>1 DEF SchemasHold
<1>5. /\ schemas' \in [open : BOOLEAN, docs : SchemaState, seq : 0..MaxSchemaSeq]
      /\ schemas'.open /\ schemas'.docs = docs /\ schemas'.seq = schemas.seq + 1
  BY <1>1, <1>3, <1>4
<1>6. /\ past' = Append(past, docs) /\ cache' = cache /\ made' = made /\ header' = header
      /\ snap' = snap /\ pc' = pc /\ local' = local /\ served' = served
      /\ rewound' = rewound /\ markSeq' = markSeq
  BY DEF SchemasHold, database
<1>7. /\ past' \in Seq(SchemaState) /\ Len(past') = Len(past) + 1
      /\ past'[Len(past) + 1] = docs
      /\ \A i \in 1..Len(past) : past'[i] = past[i]
  BY <1>1, <1>6, AppendProperties
<1>8. TypeOK'
  BY <1>5, <1>6, <1>7 DEF IInv, TypeOK
<1>9. \A db : WasHeader(db) => WasHeader(db)'
  BY <1>6 DEF WasHeader
<1>10. DatabaseIsSound'
  BY <1>6, <1>9 DEF IInv, DatabaseIsSound, Proto
<1>11. ASSUME ~rewound, NEW s \in 0..schemas.seq
       PROVE  past'[s + 1] = past[s + 1]
  <2>1. Len(past) = schemas.seq + 1
    BY <1>11 DEF IInv, SchemasAreSound
  <2>2. s + 1 \in 1..Len(past)
    BY <1>2, <2>1
  <2>3. QED
    BY <1>7, <2>2
<1>12. SchemasAreSound'
  <2> SUFFICES ASSUME ~rewound
               PROVE  /\ schemas'.open /\ Len(past') = schemas'.seq + 1
                      /\ past'[schemas'.seq + 1] = schemas'.docs
                      /\ \A c \in cache : c.seq <= schemas'.seq /\ Whole(c.reg, past'[c.seq + 1])
    BY <1>6 DEF SchemasAreSound, Held
  <2>1. Len(past) = schemas.seq + 1
    BY DEF IInv, SchemasAreSound
  <2>2. ASSUME NEW c \in cache
        PROVE  c.seq <= schemas'.seq /\ Whole(c.reg, past'[c.seq + 1])
    <3>1. c.seq \in 0..schemas.seq /\ Whole(c.reg, Held(c.seq))
      BY <1>2 DEF IInv, TypeOK, SchemasAreSound
    <3>2. Whole(c.reg, past'[c.seq + 1])
      BY <1>11, <3>1 DEF Held
    <3>3. QED
      BY <1>2, <1>5, <3>1, <3>2
  <2>3. QED
    BY <1>5, <1>7, <2>1, <2>2
<1>13. ASSUME NEW q \in Requests
       PROVE  HasRead(q, pc[q], local[q])'
  <2>1. HasRead(q, pc[q], local[q]) /\ local[q] \in Reading
    BY DEF IInv, RequestsAreSound, TypeOK
  <2>2. local[q].began \in Nat /\ local[q].seq \in Nat
    BY <2>1 DEF Reading
  <2>3. ~rewound => local[q].began <= schemas.seq
    BY <2>1 DEF HasRead
  <2>4. \A s \in local[q].began..schemas.seq :
          s \in 0..schemas.seq /\ s \in local[q].began..schemas'.seq
    BY <1>2, <1>5, <2>2
  <2>5. ~rewound /\ pc[q] \in {"compare", "build"} =>
          local[q].seq \in local[q].began..schemas'.seq /\ local[q].docs = past'[local[q].seq + 1]
    BY <1>11, <2>1, <2>4 DEF HasRead, Held
  <2>6. ASSUME ~rewound, pc[q] = "use" \/ (pc[q] = "write" /\ q \in ProtoPuts)
        PROVE  \E s \in local[q].began..schemas'.seq : Whole(local[q].reg, past'[s + 1])
    <3>1. PICK s \in local[q].began..schemas.seq : Whole(local[q].reg, Held(s))
      BY <2>1, <2>6 DEF HasRead
    <3>2. past'[s + 1] = Held(s) /\ s \in local[q].began..schemas'.seq
      BY <1>11, <2>4, <2>6 DEF Held
    <3>3. QED
      BY <3>1, <3>2
  <2>7. local[q].began <= schemas.seq => local[q].began <= schemas'.seq
    BY <1>2, <1>5, <2>2
  <2>8. QED
    BY <1>6, <1>9, <2>1, <2>3, <2>5, <2>6, <2>7 DEF HasRead, Held
<1>14. QED
  BY <1>8, <1>10, <1>12, <1>13 DEF IInv, RequestsAreSound

\* Once _schemas was purged or dropped its seqs say nothing more.
LEMMA RewindKeepsIInv ==
  ASSUME IInv, rewound' = TRUE,
         schemas' \in [open : BOOLEAN, docs : SchemaState, seq : 0..MaxSchemaSeq],
         UNCHANGED <<cache, database, pc, local, served, past, markSeq>>
  PROVE  IInv'
<1>1. /\ cache' = cache /\ made' = made /\ header' = header
      /\ snap' = snap /\ pc' = pc /\ local' = local /\ served' = served
      /\ past' = past /\ markSeq' = markSeq
  BY DEF database
<1>2. TypeOK'
  BY <1>1 DEF IInv, TypeOK
<1>3. \A db : WasHeader(db) => WasHeader(db)'
  BY <1>1 DEF WasHeader
<1>4. DatabaseIsSound' /\ SchemasAreSound'
  BY <1>1, <1>3 DEF IInv, DatabaseIsSound, SchemasAreSound, Proto
<1>5. RequestsAreSound'
  BY <1>1, <1>3 DEF IInv, RequestsAreSound, HasRead
<1>6. QED
  BY <1>2, <1>4, <1>5 DEF IInv

\* What requests do to _schemas.
LEMMA SchemasStepKeepsIInv ==
  ASSUME IInv,
         \/ \E d \in ToSet(SchemaDocs) : DeleteSchema(d) \/ PurgeSchema(d)
         \/ \E upload \in Uploads : PutSchema(upload[1], upload[2])
         \/ DropSchemas \/ CreateSchemas
  PROVE  IInv'
<1>1. /\ schemas \in [open : BOOLEAN, docs : SchemaState, seq : 0..MaxSchemaSeq]
      /\ schemas.docs \in SchemaState
  BY DEF IInv, TypeOK
<1>2. \A d : [schemas.docs EXCEPT ![d] = Nothing] \in SchemaState
  BY <1>1 DEF SchemaState
<1>3. ASSUME NEW d \in ToSet(SchemaDocs), DeleteSchema(d)
      PROVE  IInv'
  BY <1>2, <1>3, SchemasHoldKeepsIInv DEF DeleteSchema
<1>4. ASSUME NEW d \in ToSet(SchemaDocs), PurgeSchema(d)
      PROVE  IInv'
  <2>1. schemas' = [schemas EXCEPT !.docs = [schemas.docs EXCEPT ![d] = Nothing]]
    BY <1>1, <1>4 DEF PurgeSchema
  <2>2. schemas' \in [open : BOOLEAN, docs : SchemaState, seq : 0..MaxSchemaSeq]
    BY <1>1, <1>2, <2>1
  <2>3. QED
    BY <1>4, <2>2, RewindKeepsIInv DEF PurgeSchema
<1>5. ASSUME NEW upload \in Uploads, PutSchema(upload[1], upload[2])
      PROVE  IInv'
  <2>1. [schemas.docs EXCEPT ![upload[1]] = upload[2]] \in SchemaState
    BY <1>1 DEF SchemaState, SetIds
  <2>2. QED
    BY <1>5, <2>1, SchemasHoldKeepsIInv DEF PutSchema
<1>6. CASE DropSchemas
  <2>1. schemas' \in [open : BOOLEAN, docs : SchemaState, seq : 0..MaxSchemaSeq]
    BY <1>6, BlankIsTyped DEF DropSchemas
  <2>2. QED
    BY <1>6, <2>1, RewindKeepsIInv DEF DropSchemas
<1>7. CASE CreateSchemas
  <2>1. schemas' \in [open : BOOLEAN, docs : SchemaState, seq : 0..MaxSchemaSeq]
    BY <1>1, <1>7 DEF CreateSchemas
  <2>2. rewound /\ rewound' = rewound /\ rewound \in BOOLEAN
    BY <1>7 DEF CreateSchemas, IInv, SchemasAreSound, histories, TypeOK
  <2>3. QED
    BY <1>7, <2>1, <2>2, RewindKeepsIInv DEF CreateSchemas, histories
<1>8. QED
  BY <1>3, <1>4, <1>5, <1>6, <1>7

----------------------------------------------------------------------------
(* The theorems                                                            *)

\* The invariant holds initially,
LEMMA InitIInv ==
  Init => IInv
<1> SUFFICES ASSUME Init PROVE IInv
  OBVIOUS
<1>1. MaxSeq \in Nat /\ MaxSchemaSeq \in Nat /\ Never \in Nat /\ 0 # Never
  BY ProtoAssumption DEF ProtoAssumption, Never
<1>2. /\ schemas = [open |-> TRUE, docs |-> NoSchemas, seq |-> 0]
      /\ cache = {} /\ made = FALSE /\ header = EmptyDb /\ snap = EmptyDb
      /\ local = [p \in Requests |-> Blank] /\ served = 0 /\ past = <<NoSchemas>>
      /\ rewound = FALSE /\ markSeq = Never
  BY DEF Init
<1>3. DOMAIN pc = Requests /\ \A p \in Requests : pc[p] \in {"new", "done"}
  <2>1. PICK mix \in Mixes :
          pc = [p \in Requests |-> IF p \in mix \cup {Creator} THEN "new" ELSE "done"]
    BY DEF Init
  <2>2. QED
    BY <2>1
<1>4. EmptyDb.leaves = {} /\ EmptyDb.seq = 0 /\ ~EmptyDb.native
  BY DEF EmptyDb
<1>5. TypeOK
  <2>1. Cardinality({}) <= 1
    BY FS_EmptySet
  <2>2. schemas \in [open : BOOLEAN, docs : SchemaState, seq : 0..MaxSchemaSeq]
    BY <1>2, BlankIsTyped
  <2>3. past \in Seq(SchemaState) /\ markSeq \in 0..Never
    BY <1>1, <1>2, BlankIsTyped
  <2>4. \A p \in Requests : pc[p] \in LabelsOf(p)
    BY <1>3, NewAndDoneAreLabels
  <2>5. local \in [Requests -> Reading]
    BY <1>2, BlankIsTyped
  <2>6. cache \in SUBSET [seq : 0..MaxSchemaSeq, reg : Registry] /\ made \in BOOLEAN
        /\ rewound \in BOOLEAN
    BY <1>2
  <2>7. header \in Db /\ snap \in Db /\ served \in 0..MaxSeq
    BY <1>2, BlankIsTyped
  <2>8. \A db \in {header, snap} : db.leaves = {} <=> db.seq = 0
    BY <1>2, <1>4
  <2>9. QED
    BY <1>2, <1>3, <2>1, <2>2, <2>3, <2>4, <2>5, <2>6, <2>7, <2>8 DEF TypeOK
<1>6. WasHeader(EmptyDb)
  BY <1>1, <1>2, <1>4 DEF WasHeader, Proto
<1>7. DatabaseIsSound
  BY <1>1, <1>2, <1>4, <1>6 DEF DatabaseIsSound, Proto
<1>8. SchemasAreSound
  BY <1>2 DEF SchemasAreSound, Held
<1>9. ASSUME NEW p \in Requests
      PROVE  HasRead(p, pc[p], local[p])
  <2>1. Blank.opened = EmptyDb /\ Blank.seen = 0 /\ ~IsEnvelope(Blank.cur) /\ Blank.began = 0
    BY DEF Blank, NoLeaf, IsEnvelope
  <2>2. QED
    BY <1>1, <1>2, <1>3, <1>6, <2>1 DEF HasRead
<1>10. QED
  BY <1>5, <1>7, <1>8, <1>9 DEF IInv, RequestsAreSound

\* and every step keeps it.
LEMMA NextKeepsIInv ==
  IInv /\ [Next]_vars => IInv'
<1> SUFFICES ASSUME IInv, [Next]_vars PROVE IInv'
  OBVIOUS
<1>1. CASE CreateDb \/ MarkNative
  BY <1>1, CreateDbKeepsIInv, MarkNativeKeepsIInv
<1>2. ASSUME NEW p \in JsonPuts \cup ProtoPuts \cup Deletes, NEW rev \in 0..MaxSeq,
             \/ p \in JsonPuts /\ CheckJson(p, rev)
             \/ p \in ProtoPuts /\ CheckProto(p, rev)
             \/ p \in Deletes /\ CheckDelete(p, rev)
      PROVE  IInv'
  BY <1>2, CheckKeepsIInv DEF Requests
<1>3. ASSUME NEW p \in Envelopes, CheckEnvelope(p)
      PROVE  IInv'
  BY <1>3, BlankIsTyped, CheckKeepsIInv DEF Requests
<1>4. /\ \A p \in Gets : Get(p) => IInv'
      /\ \A p \in AttEdits : \A rev \in 0..MaxSeq : ReadForAtts(p, rev) => IInv'
  BY GetKeepsIInv, ReadForAttsKeepsIInv
<1>5. ASSUME NEW p \in Requests, Serve(p)
      PROVE  IInv'
  BY <1>5, ReadWinnerKeepsIInv, LookKeepsIInv, CompareKeepsIInv, BuildRegistryKeepsIInv,
     UseKeepsIInv, WriteKeepsIInv, ConflictKeepsIInv, OpenKeepsIInv, InstallKeepsIInv
     DEF Serve
<1>6. ASSUME \/ \E d \in ToSet(SchemaDocs) : DeleteSchema(d) \/ PurgeSchema(d)
             \/ \E upload \in Uploads : PutSchema(upload[1], upload[2])
             \/ DropSchemas \/ CreateSchemas
      PROVE  IInv'
  BY <1>6, SchemasStepKeepsIInv
<1>7. CASE Crash
  BY <1>7, CrashKeepsIInv
<1>8. CASE UNCHANGED vars
  <2>1. UNCHANGED <<schemas, cache, database, histories, pc, local>>
    BY <1>8 DEF vars
  <2>2. TypeOK'
    BY <2>1 DEF IInv, TypeOK, database, histories
  <2>3. DatabaseIsSound' /\ SchemasAreSound'
    BY <2>1, SameStateHasRead DEF IInv, SchemasAreSound, Held, database, histories
  <2>4. ASSUME NEW q \in Requests
        PROVE  HasRead(q, pc[q], local[q])'
    <3>1. HasRead(q, pc'[q], local'[q])
      BY <2>1 DEF IInv, RequestsAreSound
    <3>2. QED
      BY <2>1, <3>1, SameStateHasRead
  <2>5. QED
    BY <2>2, <2>3, <2>4 DEF IInv, RequestsAreSound
<1>9. QED
  BY <1>1, <1>2, <1>3, <1>4, <1>5, <1>6, <1>7, <1>8 DEF Next

\* What holds of a proto-native database and of the schemas in every state: what was
\* read is some header and some state of _schemas, no older than the request.
THEOREM Invariant ==
  Spec => []IInv
<1>1. QED
  BY InitIInv, NextKeepsIInv, PTL DEF Spec

\* Whatever races with the two commits that create a proto-native database and whatever
\* crash comes between them: nothing that reads as a proto document, stored as one or
\* with its attachments edited, is in a header or a snapshot that lacks the flag, and
\* no JSON write that is checked passes once a snapshot beyond the mark was served
\* (api_docs.rs:334-350).  Attachment edits and documents without _id, which are not
\* checked, take part in every behaviour this is proved of.
THEOREM FlagIsAlwaysHeeded ==
  Spec => []FlagIsHeeded
<1>1. IInv => FlagIsHeeded
  <2> SUFFICES ASSUME IInv PROVE FlagIsHeeded
    OBVIOUS
  <2>1. EnvelopesAreNative
    BY DEF IInv, DatabaseIsSound, RequestsAreSound, HasRead, WasHeader, EnvelopesAreNative
  <2>2. CheckedJsonIsOfBefore
    BY DEF IInv, RequestsAreSound, HasRead, CheckedJsonIsOfBefore, Requests
  <2>3. QED
    BY <2>1, <2>2 DEF IInv, FlagIsHeeded
<1>2. QED
  BY <1>1, Invariant, PTL

\* A request that goes on with a registry has the whole of what _schemas held at some
\* moment since it came, whatever the sets need of each other and whoever built it.
THEOREM RegistriesAreCurrent ==
  Spec => []RegistryIsCurrent
<1>1. IInv => RegistryIsCurrent
  BY DEF IInv, RequestsAreSound, HasRead, Held, RegistryIsCurrent, Answered
<1>2. QED
  BY <1>1, Invariant, PTL

=============================================================================
