------------------------- MODULE DatabaseLifeProofs -------------------------
(***************************************************************************)
(* A database name through deletions, creations and compactions: what is   *)
(* served and what a restart finds, for any number of requests, databases  *)
(* and compactions.                                                        *)
(***************************************************************************)
EXTENDS DatabaseLife, FiniteSetTheorems, TLAPS

\* Databases, files and requests are told apart, and every database has a path.
LEMMA NamesApart ==
    /\ 1 \in Dbs /\ Dbs \subseteq Nat /\ None \notin Dbs /\ None \notin Files /\ None \notin Requests
    /\ \A k \in Dbs : Path(k) \in Paths /\ (flat => Path(k) = 1) /\ (~flat => Path(k) = k)
    /\ Writes \subseteq Requests /\ Compactions \subseteq Requests /\ Deletes \subseteq Requests
    /\ Compactions \subseteq Files /\ Dbs \subseteq Files /\ Compactions \intersect Dbs = {}
    /\ Writes \intersect Compactions = {} /\ Writes \intersect Deletes = {}
    /\ Compactions \intersect Deletes = {}
  BY LifeAssumption DEF LifeAssumption, Dbs, Files, Requests, Paths, Path

\* Databases are numbered in the order of their creation.
LEMMA NumbersGrow ==
    /\ MaxDbs \in Nat
    /\ \A k \in Dbs : k \in 1..k /\ 1..k \subseteq Dbs
    /\ \A k \in Dbs : k < MaxDbs => k + 1 \in Dbs /\ 1..k \subseteq 1..(k + 1)
  BY LifeAssumption DEF LifeAssumption, Dbs

LEMMA TypesHold ==
    TypeOK /\ [Next]_vars => TypeOK'
<1> SUFFICES ASSUME TypeOK, [Next]_vars PROVE TypeOK'
  OBVIOUS
<1> USE NamesApart
<1>1. ASSUME Create PROVE TypeOK'
  <2>1. made' \in Dbs /\ dbs' \in {made', None} /\ 1..made \subseteq 1..(made')
    BY <1>1, NumbersGrow DEF TypeOK, Create
  <2>2. handle' \in [Requests -> (1..made') \union {None}]
    BY <1>1, <2>1 DEF TypeOK, Create
  <2>3. made + 1 \in Dbs /\ made + 1 \in Files /\ Path(made + 1) \in Paths
    BY <1>1, <2>1 DEF Create
  <2>4. QED
    BY <1>1, <2>1, <2>2, <2>3 DEF TypeOK, Create, disk, OptionalFile
<1>2. ASSUME NEW d \in Deletes, Delete(d) PROVE TypeOK'
  <2>1. dbs \in 1..made
    BY <1>2, NumbersGrow DEF TypeOK, Delete
  <2>2. handle' \in [Requests -> (1..made) \union {None}]
    BY <1>2, <2>1 DEF TypeOK, Delete
  <2>3. QED
    BY <1>2, <2>2 DEF TypeOK, Delete, Goto, disk, Labels
<1>3. ASSUME NEW d \in Deletes, Unlink(d) PROVE TypeOK'
  BY <1>3 DEF TypeOK, Unlink, Goto, disk, OptionalFile, Labels
<1>4. ASSUME NEW d \in Deletes, Sweep(d) PROVE TypeOK'
  BY <1>4 DEF TypeOK, Sweep, Goto, disk, OptionalFile, Labels
<1>5. ASSUME NEW p \in Writes \union Compactions, Lookup(p) PROVE TypeOK'
  <2>1. dbs \in 1..made
    BY <1>5, NumbersGrow DEF TypeOK, Lookup
  <2>2. handle' \in [Requests -> (1..made) \union {None}]
    BY <1>5, <2>1 DEF TypeOK, Lookup
  <2>3. QED
    BY <1>5, <2>2 DEF TypeOK, Lookup, Goto, disk, Labels
<1>6. ASSUME NEW p \in Writes \union Compactions, Refuse(p) PROVE TypeOK'
  BY <1>6 DEF TypeOK, Refuse, Goto, disk, OptionalFile, Labels, Locks
<1>7. ASSUME NEW p \in Writes \union Compactions, Refresh(p) PROVE TypeOK'
  BY <1>7 DEF TypeOK, Refresh, Goto, disk, OptionalFile, Labels, Readable
<1>8. ASSUME NEW p \in Writes \union Compactions, RefreshFails(p) PROVE TypeOK'
  BY <1>8 DEF TypeOK, RefreshFails, Goto, disk, OptionalFile, Labels, Readable
<1>9. ASSUME NEW w \in Writes, Commit(w) PROVE TypeOK'
  BY <1>9 DEF TypeOK, Commit, Goto, disk, OptionalFile, Labels, Locks
<1>10. ASSUME NEW c \in Compactions, CloseWriter(c) PROVE TypeOK'
  BY <1>10 DEF TypeOK, CloseWriter, Goto, disk, OptionalFile, Labels, Locks
<1>11. ASSUME NEW c \in Compactions, Copy(c) PROVE TypeOK'
  BY <1>11 DEF TypeOK, Copy, Goto, disk, OptionalFile, Labels, Readable
<1>12. ASSUME NEW c \in Compactions, CopyFails(c) PROVE TypeOK'
  BY <1>12 DEF TypeOK, CopyFails, Goto, disk, OptionalFile, Labels, Readable
<1>13. ASSUME NEW c \in Compactions, FinishCopy(c) PROVE TypeOK'
  BY <1>13 DEF TypeOK, FinishCopy, Goto, disk, OptionalFile, Labels
<1>14. ASSUME NEW c \in Compactions, Rename(c) PROVE TypeOK'
  BY <1>14 DEF TypeOK, Rename, Goto, disk, OptionalFile, Labels, Path
<1>15. ASSUME NEW c \in Compactions, RenameFails(c) PROVE TypeOK'
  BY <1>15 DEF TypeOK, RenameFails, Goto, disk, OptionalFile, Labels, Path
<1>16. ASSUME NEW c \in Compactions, Reopen(c) PROVE TypeOK'
  BY <1>16 DEF TypeOK, Reopen, Goto, disk, OptionalFile, Labels, Readable
<1>20. UNCHANGED vars => TypeOK'
  BY DEF TypeOK, vars, disk
<1>21. QED
  BY <1>1, <1>2, <1>3, <1>4, <1>5, <1>6, <1>7, <1>8, <1>9, <1>10, <1>11, <1>12, <1>13, <1>14, <1>15, <1>16, <1>20 DEF Next, Compact

-----------------------------------------------------------------------------
(* One lemma per action, while no compaction outlives its database          *)

LEMMA WholeFiles ==
    ASSUME TypeOK, NEW f \in whole
    PROVE  f \in Files /\ f # None
  BY NamesApart DEF TypeOK

\* A new database has a new file, and no write has been committed to it.
LEMMA CreateKeeps ==
    ASSUME TypeOK, TypeOK', LifeIsSound, outlived = {}, outlived' = {}, Create
    PROVE  LifeIsSound'
<1> USE NamesApart DEF TypeOK, OptionalFile, Labels
<1>1. HandlesAreKept' /\ ContentsOwn'
  BY DEF LifeIsSound, Create, HandlesAreKept, ContentsOwn, Owner
<1>2. NothingAhead'
  BY DEF LifeIsSound, Create, NothingAhead
<1>3. WritersOwn'
  BY DEF LifeIsSound, Create, WritersOwn, Owner
<1>4. CompactsTheOpen'
  BY DEF LifeIsSound, Create, CompactsTheOpen, AtWork, HandlesAreKept
<1>5. MutexHeld'
  BY DEF LifeIsSound, Create, MutexHeld, Holding, CompactsTheOpen, HandlesAreKept, AtWork
<1>6. CopiesAreWhole'
  BY DEF LifeIsSound, Create, CopiesAreWhole, CompactsTheOpen, AtWork, HandlesAreKept
<1>7. FileIsCurrent'
  <2> DEFINE k == made + 1
  <2>1. k \in Dbs /\ dbs' = k /\ dbs = None /\ k > made
    <3>1. made \in Nat /\ made < MaxDbs /\ dbs' = k /\ dbs = None
      BY DEF Create
    <3>2. k \in Dbs /\ k > made
      BY <3>1, NumbersGrow
    <3>3. QED
      BY <3>1, <3>2
  <2>2. \A p \in Requests : handle[p] # k
    BY <2>1
  <2>3. snap'[k] = {} /\ content'[k] = {}
    BY <2>1 DEF LifeIsSound, NothingAhead, Create
  <2>4. Kept' = {}
    BY <2>1, <2>2, <2>3 DEF Kept, Create
  <2>5. dir'[Path(k)] = k /\ writer'[k] = k /\ flat' = flat
    BY <2>1 DEF Create
  <2>6. Path(dbs)' = Path(k)
    BY <2>1, <2>5 DEF Path
  <2>7. QED
    BY <2>1, <2>4, <2>5, <2>6 DEF FileIsCurrent, Owner
<1>8. FlatIsOnePath'
  BY DEF LifeIsSound, Create, FlatIsOnePath
<1>9. LeftoversAreSwept'
  BY DEF Create, LeftoversAreSwept, Path
<1>10. ServesItsOwnWrites'
  <2> DEFINE k == made + 1
  <2>1. k \in Dbs /\ dbs' = k /\ dbs = None /\ k > made
    <3>1. made \in Nat /\ made < MaxDbs /\ dbs' = k /\ dbs = None
      BY DEF Create
    <3>2. k \in Dbs /\ k > made
      BY <3>1, NumbersGrow
    <3>3. QED
      BY <3>1, <3>2
  <2>2. \A p \in Requests : handle[p] # k
    BY <2>1
  <2>3. snap'[k] = {} /\ content'[k] = {}
    BY <2>1 DEF LifeIsSound, NothingAhead, Create
  <2>4. Acked' = {}
    BY <2>1, <2>2 DEF Acked, Create
  <2>5. QED
    BY <2>1, <2>3, <2>4 DEF ServesItsOwnWrites
<1>11. QED
  BY <1>1, <1>2, <1>3, <1>4, <1>5, <1>6, <1>7, <1>8, <1>9, <1>10 DEF LifeIsSound

\* The compactions at work on the database that leaves the map outlive it.
LEMMA DeleteKeeps ==
    ASSUME NEW d \in Deletes, TypeOK, TypeOK', LifeIsSound, outlived = {}, outlived' = {}, Delete(d)
    PROVE  LifeIsSound'
<1> USE NamesApart DEF TypeOK, OptionalFile, Labels
<1>1. NothingAhead'
  BY DEF LifeIsSound, Delete, disk, NothingAhead
<1>2. HandlesAreKept'
  BY DEF LifeIsSound, Delete, Goto, HandlesAreKept
<1>3. WritersOwn'
  BY DEF LifeIsSound, Delete, WritersOwn, Owner, HandlesAreKept
<1>4. ContentsOwn'
  BY DEF LifeIsSound, Delete, disk, ContentsOwn, Owner, HandlesAreKept
<1>5. CompactsTheOpen'
  BY DEF LifeIsSound, Delete, Goto, CompactsTheOpen, AtWork
<1>6. MutexHeld'
  BY DEF LifeIsSound, Delete, Goto, MutexHeld, AtWork, Holding, CompactsTheOpen
<1>7. CopiesAreWhole'
  BY DEF LifeIsSound, Delete, Goto, CopiesAreWhole, AtWork, CompactsTheOpen
<1>8. FileIsCurrent'
  BY DEF Delete, FileIsCurrent
<1>9. FlatIsOnePath'
  BY DEF LifeIsSound, Delete, Goto, disk, FlatIsOnePath
<1>10. LeftoversAreSwept'
  BY DEF LifeIsSound, Delete, Goto, disk, LeftoversAreSwept, Path
<1>11. ServesItsOwnWrites'
  BY DEF Delete, ServesItsOwnWrites
<1>12. QED
  BY <1>1, <1>2, <1>3, <1>4, <1>5, <1>6, <1>7, <1>8, <1>9, <1>10, <1>11 DEF LifeIsSound

\* The file at the path goes, and with CouchDb's layout the rest is swept next.
LEMMA UnlinkKeeps ==
    ASSUME NEW d \in Deletes, TypeOK, TypeOK', LifeIsSound, outlived = {}, outlived' = {}, Unlink(d)
    PROVE  LifeIsSound'
<1> USE NamesApart DEF TypeOK, OptionalFile, Labels
<1>1. NothingAhead' /\ WritersOwn' /\ ContentsOwn'
  BY DEF LifeIsSound, Unlink, NothingAhead, WritersOwn, ContentsOwn, Owner
<1>2. HandlesAreKept'
  BY DEF LifeIsSound, Unlink, Goto, HandlesAreKept
<1>3. CompactsTheOpen'
  BY DEF LifeIsSound, Unlink, Goto, CompactsTheOpen, AtWork
<1>4. MutexHeld'
  BY DEF LifeIsSound, Unlink, Goto, MutexHeld, Holding
<1>5. CopiesAreWhole'
  BY DEF LifeIsSound, Unlink, Goto, CopiesAreWhole, Kept, Path
<1>6. FileIsCurrent'
  BY DEF LifeIsSound, Unlink, Goto, FileIsCurrent, Owner, Kept, Path
<1>7. FlatIsOnePath'
  BY DEF LifeIsSound, Unlink, Goto, FlatIsOnePath
<1>8. LeftoversAreSwept'
  BY DEF LifeIsSound, Unlink, Goto, LeftoversAreSwept, Path, FlatIsOnePath
<1>9. ServesItsOwnWrites'
  BY DEF LifeIsSound, Unlink, Goto, ServesItsOwnWrites, Acked
<1>10. QED
  BY <1>1, <1>2, <1>3, <1>4, <1>5, <1>6, <1>7, <1>8, <1>9 DEF LifeIsSound

\* Nothing is left behind a sweep.
LEMMA SweepKeeps ==
    ASSUME NEW d \in Deletes, TypeOK, TypeOK', LifeIsSound, outlived = {}, outlived' = {}, Sweep(d)
    PROVE  LifeIsSound'
<1> USE NamesApart DEF TypeOK, OptionalFile, Labels
<1>1. NothingAhead' /\ WritersOwn' /\ ContentsOwn'
  BY DEF LifeIsSound, Sweep, NothingAhead, WritersOwn, ContentsOwn, Owner
<1>2. HandlesAreKept'
  BY DEF LifeIsSound, Sweep, Goto, HandlesAreKept
<1>3. CompactsTheOpen'
  BY DEF LifeIsSound, Sweep, Goto, CompactsTheOpen, AtWork
<1>4. MutexHeld'
  BY DEF LifeIsSound, Sweep, Goto, MutexHeld, Holding
<1>5. CopiesAreWhole'
  BY DEF LifeIsSound, Sweep, Goto, CopiesAreWhole, Kept, Path, CompactsTheOpen, AtWork, HandlesAreKept
<1>6. FileIsCurrent'
  BY DEF Sweep, FileIsCurrent, Path
<1>7. FlatIsOnePath'
  BY DEF LifeIsSound, Sweep, FlatIsOnePath
<1>8. LeftoversAreSwept'
  BY DEF Sweep, LeftoversAreSwept
<1>9. ServesItsOwnWrites'
  BY DEF LifeIsSound, Sweep, Goto, ServesItsOwnWrites, Acked
<1>10. QED
  BY <1>1, <1>2, <1>3, <1>4, <1>5, <1>6, <1>7, <1>8, <1>9 DEF LifeIsSound

\* A request that comes has the handle of the open database.
LEMMA LookupKeeps ==
    ASSUME NEW p \in Writes \union Compactions, TypeOK, TypeOK', LifeIsSound, outlived = {}, outlived' = {}, Lookup(p)
    PROVE  LifeIsSound'
<1> USE NamesApart DEF TypeOK, OptionalFile, Labels
<1>1. NothingAhead'
  BY DEF LifeIsSound, Lookup, disk, NothingAhead
<1>2. HandlesAreKept'
  BY DEF LifeIsSound, Lookup, Goto, HandlesAreKept
<1>3. WritersOwn'
  BY DEF LifeIsSound, Lookup, WritersOwn, Owner, HandlesAreKept
<1>4. ContentsOwn'
  BY DEF LifeIsSound, Lookup, disk, ContentsOwn, Owner, HandlesAreKept
<1>5. CompactsTheOpen'
  BY DEF LifeIsSound, Lookup, Goto, CompactsTheOpen, AtWork
<1>6. MutexHeld'
  BY DEF LifeIsSound, Lookup, Goto, MutexHeld, Holding
<1>7. CopiesAreWhole'
  BY DEF LifeIsSound, Lookup, Goto, disk, CopiesAreWhole, Kept, Path
<1>8. FileIsCurrent'
  BY DEF LifeIsSound, Lookup, Goto, disk, FileIsCurrent, Owner, Kept, Path
<1>9. FlatIsOnePath'
  BY DEF LifeIsSound, Lookup, Goto, disk, FlatIsOnePath
<1>10. LeftoversAreSwept'
  BY DEF LifeIsSound, Lookup, Goto, disk, LeftoversAreSwept, Path
<1>11. ServesItsOwnWrites'
  BY DEF LifeIsSound, Lookup, Goto, ServesItsOwnWrites, Acked
<1>12. QED
  BY <1>1, <1>2, <1>3, <1>4, <1>5, <1>6, <1>7, <1>8, <1>9, <1>10, <1>11 DEF LifeIsSound

\* A writer that is closed takes nothing.
LEMMA RefuseKeeps ==
    ASSUME NEW p \in Writes \union Compactions, TypeOK, TypeOK', LifeIsSound, outlived = {}, outlived' = {}, Refuse(p)
    PROVE  LifeIsSound'
<1> USE NamesApart DEF TypeOK, OptionalFile, Labels
<1>1. NothingAhead' /\ WritersOwn' /\ ContentsOwn'
  BY DEF LifeIsSound, Refuse, disk, NothingAhead, WritersOwn, ContentsOwn, Owner
<1>2. HandlesAreKept'
  BY DEF LifeIsSound, Refuse, Goto, HandlesAreKept, Locks
<1>3. CompactsTheOpen'
  BY DEF LifeIsSound, Refuse, Goto, CompactsTheOpen, AtWork
<1>4. MutexHeld'
  BY DEF LifeIsSound, Refuse, Goto, MutexHeld, Holding
<1>5. CopiesAreWhole'
  BY DEF LifeIsSound, Refuse, Goto, disk, CopiesAreWhole, Kept, Path
<1>6. FileIsCurrent'
  BY DEF LifeIsSound, Refuse, Goto, disk, FileIsCurrent, Owner, Kept, Path
<1>7. FlatIsOnePath'
  BY DEF LifeIsSound, Refuse, Goto, disk, FlatIsOnePath
<1>8. LeftoversAreSwept'
  BY DEF LifeIsSound, Refuse, Goto, disk, LeftoversAreSwept, Path
<1>9. ServesItsOwnWrites'
  BY DEF LifeIsSound, Refuse, Goto, ServesItsOwnWrites, Acked
<1>10. QED
  BY <1>1, <1>2, <1>3, <1>4, <1>5, <1>6, <1>7, <1>8, <1>9 DEF LifeIsSound

\* The snapshot is replaced unless it has more writes, and it never does: all it
\* has was committed to that file.
LEMMA FoundIsServed ==
    ASSUME NEW p \in Writes \union Compactions, TypeOK, LifeIsSound, Refresh(p),
           dbs # None, handle[p] = dbs
    PROVE  snap'[dbs] = content[dir[Path(dbs)]] /\ snap[dbs] \subseteq content[dir[Path(dbs)]]
<1> USE NamesApart DEF TypeOK, OptionalFile
<1>1. dbs \in Dbs /\ dir[Path(dbs)] \in Files
  BY DEF Refresh, Readable
<1>2. snap[dbs] \subseteq content[dir[Path(dbs)]]
  BY <1>1 DEF LifeIsSound, FileIsCurrent, Kept
<1>3. IsFiniteSet(content[dir[Path(dbs)]])
  BY <1>1, FS_Subset, LifeAssumption DEF LifeAssumption
<1>4. /\ Cardinality(snap[dbs]) \in Nat /\ Cardinality(content[dir[Path(dbs)]]) \in Nat
      /\ Cardinality(snap[dbs]) <= Cardinality(content[dir[Path(dbs)]])
  BY <1>2, <1>3, FS_Subset, FS_CardinalityType
<1>5. Cardinality(content[dir[Path(dbs)]]) >= Cardinality(snap[dbs])
  BY <1>4
<1>6. QED
  BY <1>1, <1>2, <1>5 DEF Refresh

\* A refresh puts in what is in the file, which has all that was served before.
LEMMA RefreshKeeps ==
    ASSUME NEW p \in Writes \union Compactions, TypeOK, TypeOK', LifeIsSound, outlived = {}, outlived' = {}, Refresh(p)
    PROVE  LifeIsSound'
<1> USE NamesApart DEF TypeOK, OptionalFile, Labels
<1>1. WritersOwn' /\ ContentsOwn'
  BY DEF LifeIsSound, Refresh, disk, WritersOwn, ContentsOwn, Owner
<1>2. HandlesAreKept'
  BY DEF LifeIsSound, Refresh, Goto, HandlesAreKept
<1>3. NothingAhead'
  BY DEF LifeIsSound, Refresh, disk, NothingAhead
<1>4. CompactsTheOpen'
  BY DEF LifeIsSound, Refresh, Goto, CompactsTheOpen, AtWork
<1>5. MutexHeld'
  BY DEF LifeIsSound, Refresh, Goto, MutexHeld, Holding
<1>6. CopiesAreWhole'
  <2>1. \A c \in Compactions : pc'[c] \in {"finish", "rename"} =>
            pc[c] = pc'[c] /\ dbs # None
    BY DEF LifeIsSound, Refresh, Goto, CompactsTheOpen, HandlesAreKept, AtWork
  <2>2. ASSUME NEW c \in Compactions, pc[c] \in {"finish", "rename"}, dbs # None
        PROVE  Kept' \subseteq content[c]
    <3>1. Kept' \subseteq Kept \union snap'[dbs] \union {w \in Writes : w = p /\ handle[p] = dbs}
      BY DEF Refresh, Goto, Kept
    <3>2. pc[p] = "refresh" /\ Kept \subseteq content[c]
      BY <2>2 DEF LifeIsSound, CopiesAreWhole, Refresh
    <3>3. snap'[dbs] \subseteq content[c]
      <4>1. CASE handle[p] = dbs
        <5>1. snap'[dbs] = content[dir[Path(dbs)]] /\ dir[Path(dbs)] # None
          <6>1. snap'[dbs] = content[dir[Path(dbs)]]
            BY <4>1, <2>2, FoundIsServed
          <6>2. dir[Path(dbs)] \in whole
            BY <4>1 DEF Refresh, Readable
          <6>3. QED
            BY <6>1, <6>2, WholeFiles
        <5>2. QED
          BY <5>1, <2>2 DEF LifeIsSound, CopiesAreWhole
      <4>2. CASE handle[p] # dbs
        BY <4>2, <3>2 DEF Refresh, Kept
      <4>3. QED
        BY <4>1, <4>2
    <3>4. QED
      BY <3>1, <3>2, <3>3 DEF Kept
  <2>3. QED
    BY <2>1, <2>2 DEF LifeIsSound, CopiesAreWhole, Refresh, disk, Path
<1>7. FileIsCurrent'
  <2> SUFFICES ASSUME dbs # None, dir[Path(dbs)] # None
                PROVE  Kept' \subseteq content[dir[Path(dbs)]]
    BY DEF LifeIsSound, FileIsCurrent, Refresh, disk, Owner, Path
  <2>1. snap'[dbs] \subseteq snap[dbs] \/ snap'[dbs] \subseteq content[dir[Path(dbs)]]
    BY FoundIsServed DEF Refresh
  <2>2. Kept' \subseteq Kept \union snap'[dbs]
    BY DEF Refresh, Goto, Kept
  <2>3. QED
    BY <2>1, <2>2 DEF LifeIsSound, FileIsCurrent, Kept
<1>8. FlatIsOnePath'
  BY DEF LifeIsSound, Refresh, Goto, disk, FlatIsOnePath
<1>9. LeftoversAreSwept'
  BY DEF LifeIsSound, Refresh, Goto, disk, LeftoversAreSwept, Path
<1>10. ServesItsOwnWrites'
  <2> SUFFICES ASSUME dbs # None
                PROVE  Acked' \subseteq snap'[dbs] /\ \A w \in snap'[dbs] : handle[w] = dbs
    BY DEF ServesItsOwnWrites, Refresh
  <2>1. CASE handle[p] # dbs
    <3>1. snap'[dbs] = snap[dbs] /\ Acked' \subseteq Acked
      BY <2>1 DEF Refresh, Goto, Acked
    <3>2. QED
      BY <3>1 DEF LifeIsSound, ServesItsOwnWrites
  <2>2. CASE handle[p] = dbs
    <3>1. dir[Path(dbs)] \in Files /\ snap'[dbs] = content[dir[Path(dbs)]]
      BY <2>2, FoundIsServed DEF Refresh, Readable
    <3>2. Acked' \subseteq Kept
      BY DEF Refresh, Goto, Acked, Kept
    <3>3. Kept \subseteq content[dir[Path(dbs)]] /\ Owner(dir[Path(dbs)]) = dbs
      BY <3>1 DEF LifeIsSound, FileIsCurrent
    <3>4. QED
      BY <3>1, <3>2, <3>3 DEF LifeIsSound, ContentsOwn
  <2>3. QED
    BY <2>1, <2>2
<1>11. QED
  BY <1>1, <1>2, <1>3, <1>4, <1>5, <1>6, <1>7, <1>8, <1>9, <1>10 DEF LifeIsSound

\* A refresh that fails leaves what is served.
LEMMA RefreshFailsKeeps ==
    ASSUME NEW p \in Writes \union Compactions, TypeOK, TypeOK', LifeIsSound, outlived = {}, outlived' = {}, RefreshFails(p)
    PROVE  LifeIsSound'
<1> USE NamesApart DEF TypeOK, OptionalFile, Labels
<1>1. NothingAhead' /\ WritersOwn' /\ ContentsOwn'
  BY DEF LifeIsSound, RefreshFails, disk, NothingAhead, WritersOwn, ContentsOwn, Owner
<1>2. HandlesAreKept'
  BY DEF LifeIsSound, RefreshFails, Goto, HandlesAreKept
<1>3. CompactsTheOpen'
  BY DEF LifeIsSound, RefreshFails, Goto, CompactsTheOpen, AtWork
<1>4. MutexHeld'
  BY DEF LifeIsSound, RefreshFails, Goto, MutexHeld, Holding
<1>5. CopiesAreWhole'
  BY DEF LifeIsSound, RefreshFails, Goto, disk, CopiesAreWhole, Kept, Path
<1>6. FileIsCurrent'
  BY DEF LifeIsSound, RefreshFails, Goto, disk, FileIsCurrent, Owner, Kept, Path
<1>7. FlatIsOnePath'
  BY DEF LifeIsSound, RefreshFails, Goto, disk, FlatIsOnePath
<1>8. LeftoversAreSwept'
  BY DEF LifeIsSound, RefreshFails, Goto, disk, LeftoversAreSwept, Path
<1>9. ServesItsOwnWrites'
  BY DEF LifeIsSound, RefreshFails, Goto, ServesItsOwnWrites, Acked
<1>10. QED
  BY <1>1, <1>2, <1>3, <1>4, <1>5, <1>6, <1>7, <1>8, <1>9 DEF LifeIsSound

\* A write goes to the file of its own database: while a compaction copies the open
\* one no write is let in, and a write with an older handle has a file of its own.
LEMMA CommitKeeps ==
    ASSUME NEW w \in Writes, TypeOK, TypeOK', LifeIsSound, outlived = {}, outlived' = {}, Commit(w)
    PROVE  LifeIsSound'
<1> USE NamesApart DEF TypeOK, OptionalFile, Labels
<1>1. WritersOwn'
  BY DEF LifeIsSound, Commit, WritersOwn, Owner
<1>2. HandlesAreKept'
  BY DEF LifeIsSound, Commit, Goto, HandlesAreKept, Locks
<1>3. NothingAhead'
  <2>1. \A k \in Dbs : k > made => writer[handle[w]] # k
    BY NumbersGrow DEF LifeIsSound, Commit, Locks, WritersOwn, Owner, HandlesAreKept
  <2>2. QED
    BY <2>1 DEF LifeIsSound, NothingAhead, Commit
<1>4. ContentsOwn'
  <2>1. handle[w] # None /\ handle[w] \in Dbs
    BY NumbersGrow DEF LifeIsSound, Commit, Locks, HandlesAreKept
  <2>2. writer[handle[w]] \in Files /\ Owner(writer[handle[w]]) = handle[w]
    BY <2>1 DEF LifeIsSound, Commit, WritersOwn
  <2>3. \A f \in Files : content'[f] \subseteq content[f] \/ (content'[f] = content[f] \union {w} /\ f = writer[handle[w]])
    BY <2>2 DEF Commit
  <2>4. handle' = handle /\ \A f : Owner(f)' = Owner(f)
    BY DEF Commit, Owner
  <2>5. QED
    BY <2>1, <2>2, <2>3, <2>4 DEF LifeIsSound, ContentsOwn
<1>5. CompactsTheOpen'
  BY DEF LifeIsSound, Commit, Goto, CompactsTheOpen, AtWork
<1>6. MutexHeld'
  BY DEF LifeIsSound, Commit, Goto, MutexHeld, Holding
<1>7. CopiesAreWhole'
  <2>1. handle[w] # None /\ handle[w] \in Dbs
    BY NumbersGrow DEF LifeIsSound, Commit, Locks, HandlesAreKept
  <2>2. ASSUME NEW c \in Compactions, pc[c] \in {"finish", "rename"}
        PROVE  dbs \in Dbs /\ handle[w] # dbs
    BY <2>1, <2>2 DEF LifeIsSound, Commit, Locks, CompactsTheOpen, AtWork, HandlesAreKept,
                      MutexHeld, Holding
  <2>3. ASSUME dbs \in Dbs, handle[w] # dbs
        PROVE  Kept' = Kept /\ Path(dbs)' = Path(dbs)
    BY <2>3 DEF Commit, Goto, disk, Kept, Path
  <2>4. ASSUME dbs \in Dbs, handle[w] # dbs, dir[Path(dbs)] # None
        PROVE  content'[dir[Path(dbs)]] = content[dir[Path(dbs)]]
    <3>1. dir[Path(dbs)] # writer[handle[w]]
      BY <2>1, <2>4 DEF LifeIsSound, FileIsCurrent, WritersOwn, Commit
    <3>2. QED
      BY <2>4, <3>1 DEF Commit
  <2>5. \A f \in Files : content[f] \subseteq content'[f]
    BY DEF Commit
  <2>6. pc' = [pc EXCEPT ![w] = "refresh"] /\ scratch' = scratch /\ dir' = dir /\ dbs' = dbs
    BY DEF Commit, Goto
  <2>7. \A c \in Compactions : pc'[c] = pc[c]
    BY <2>6
  <2>8. QED
    BY <2>2, <2>3, <2>4, <2>5, <2>6, <2>7 DEF LifeIsSound, CopiesAreWhole
<1>8. FileIsCurrent'
  BY DEF LifeIsSound, Commit, Goto, FileIsCurrent, Owner, Kept, Path
<1>9. FlatIsOnePath'
  BY DEF LifeIsSound, Commit, Goto, FlatIsOnePath
<1>10. LeftoversAreSwept'
  BY DEF LifeIsSound, Commit, Goto, LeftoversAreSwept, Path
<1>11. ServesItsOwnWrites'
  BY DEF LifeIsSound, Commit, Goto, ServesItsOwnWrites, Acked
<1>12. QED
  BY <1>1, <1>2, <1>3, <1>4, <1>5, <1>6, <1>7, <1>8, <1>9, <1>10, <1>11 DEF LifeIsSound

\* The mutex is held from here on, and the writer closed.
LEMMA CloseWriterKeeps ==
    ASSUME NEW c \in Compactions, TypeOK, TypeOK', LifeIsSound, outlived = {}, outlived' = {}, CloseWriter(c)
    PROVE  LifeIsSound'
<1> USE NamesApart DEF TypeOK, OptionalFile, Labels
<1>1. NothingAhead' /\ ContentsOwn'
  BY DEF LifeIsSound, CloseWriter, disk, NothingAhead, ContentsOwn, Owner
<1>2. HandlesAreKept'
  BY DEF LifeIsSound, CloseWriter, Goto, HandlesAreKept
<1>3. WritersOwn'
  BY DEF LifeIsSound, CloseWriter, WritersOwn, Owner
<1>4. CompactsTheOpen'
  BY DEF LifeIsSound, CloseWriter, Goto, CompactsTheOpen, Locks, AtWork
<1>5. MutexHeld'
  BY DEF LifeIsSound, CloseWriter, Goto, MutexHeld, Locks, Holding, CompactsTheOpen, AtWork
<1>6. CopiesAreWhole'
  BY DEF LifeIsSound, CloseWriter, Goto, disk, CopiesAreWhole, Kept, Path
<1>7. FileIsCurrent'
  BY DEF LifeIsSound, CloseWriter, Goto, disk, FileIsCurrent, Owner, Kept, Path
<1>8. FlatIsOnePath'
  BY DEF LifeIsSound, CloseWriter, Goto, disk, FlatIsOnePath
<1>9. LeftoversAreSwept'
  BY DEF LifeIsSound, CloseWriter, Goto, disk, LeftoversAreSwept, Path
<1>10. ServesItsOwnWrites'
  BY DEF LifeIsSound, CloseWriter, Goto, ServesItsOwnWrites, Acked
<1>11. QED
  BY <1>1, <1>2, <1>3, <1>4, <1>5, <1>6, <1>7, <1>8, <1>9, <1>10 DEF LifeIsSound

\* The copy has what the file has, and nobody writes to that.
LEMMA CopyKeeps ==
    ASSUME NEW c \in Compactions, TypeOK, TypeOK', LifeIsSound, outlived = {}, outlived' = {}, Copy(c)
    PROVE  LifeIsSound'
<1> USE NamesApart DEF TypeOK, OptionalFile, Labels
<1>1. WritersOwn'
  BY DEF LifeIsSound, Copy, WritersOwn, Owner
<1>2. HandlesAreKept'
  BY DEF LifeIsSound, Copy, Goto, HandlesAreKept
<1>3. NothingAhead'
  BY DEF LifeIsSound, Copy, NothingAhead
<1>4. ContentsOwn'
  <2>1. dbs \in Dbs /\ handle[c] = dbs /\ c \notin Dbs /\ c \in Files
    BY DEF LifeIsSound, Copy, CompactsTheOpen, AtWork, HandlesAreKept
  <2>2. dir[Path(dbs)] \in Files /\ content'[c] = content[dir[Path(dbs)]]
    <3>1. /\ dir[Path(dbs)] \in whole
          /\ content' = [content EXCEPT ![c] = content[dir[Path(dbs)]]]
      BY <2>1 DEF Copy, Readable
    <3>2. dir[Path(dbs)] \in Files
      BY <3>1, WholeFiles
    <3>3. content'[c] = content[dir[Path(dbs)]]
      BY <2>1, <3>1 DEF TypeOK
    <3>4. QED
      BY <3>2, <3>3
  <2>3. \A f \in Files : f # c => content'[f] = content[f]
    BY DEF Copy
  <2>4. Owner(dir[Path(dbs)]) = dbs /\ Owner(c) = dbs
    BY <2>1, <2>2 DEF LifeIsSound, FileIsCurrent, Owner
  <2>5. handle' = handle /\ \A f : Owner(f)' = Owner(f)
    BY DEF Copy, Owner
  <2>6. ASSUME NEW f \in Files, NEW w \in content'[f]
        PROVE  handle[w] # None /\ handle[w] = Owner(f)
    <3>1. w \in content[f] \/ (f = c /\ w \in content[dir[Path(dbs)]])
      BY <2>2, <2>3, <2>6
    <3>2. QED
      BY <2>2, <2>4, <3>1 DEF LifeIsSound, ContentsOwn
  <2>7. QED
    BY <2>5, <2>6 DEF ContentsOwn
<1>5. CompactsTheOpen'
  BY DEF LifeIsSound, Copy, Goto, CompactsTheOpen, AtWork
<1>6. MutexHeld'
  BY DEF LifeIsSound, Copy, Goto, MutexHeld, Holding
<1>7. CopiesAreWhole'
  <2>1. dbs \in Dbs /\ handle[c] = dbs /\ c \notin Dbs /\ c \in Files
    BY DEF LifeIsSound, Copy, CompactsTheOpen, AtWork, HandlesAreKept
  <2>2. dir[Path(dbs)] \in Files /\ content'[c] = content[dir[Path(dbs)]]
    <3>1. /\ dir[Path(dbs)] \in whole
          /\ content' = [content EXCEPT ![c] = content[dir[Path(dbs)]]]
      BY <2>1 DEF Copy, Readable
    <3>2. dir[Path(dbs)] \in Files
      BY <3>1, WholeFiles
    <3>3. content'[c] = content[dir[Path(dbs)]]
      BY <2>1, <3>1 DEF TypeOK
    <3>4. QED
      BY <3>2, <3>3
  <2>3. \A f \in Files : f # c => content'[f] = content[f]
    BY DEF Copy
  <2>4. Kept' = Kept /\ dbs' = dbs /\ Path(dbs)' = Path(dbs)
    BY DEF Copy, Goto, disk, Kept, Path
  <2>5. Kept \subseteq content[dir[Path(dbs)]]
    BY <2>1, <2>2 DEF LifeIsSound, FileIsCurrent
  <2>6. \A other \in Compactions : pc'[other] \in {"finish", "rename"} => other = c
    BY <2>1 DEF LifeIsSound, MutexHeld, Holding, Copy, Goto
  <2>7. scratch'[Path(dbs)] = c
    BY <2>1 DEF Copy
  <2>8. dir' = dir /\ content'[dir[Path(dbs)]] \subseteq content'[c]
    BY <2>2, <2>3 DEF Copy
  <2>9. QED
    BY <2>2, <2>4, <2>5, <2>6, <2>7, <2>8 DEF CopiesAreWhole
<1>8. FileIsCurrent'
  BY DEF LifeIsSound, Copy, Goto, FileIsCurrent, Owner, Kept, Path
<1>9. FlatIsOnePath'
  BY DEF LifeIsSound, Copy, Goto, FlatIsOnePath
<1>10. LeftoversAreSwept'
  BY DEF LifeIsSound, Copy, Goto, LeftoversAreSwept, Path
<1>11. ServesItsOwnWrites'
  BY DEF LifeIsSound, Copy, Goto, ServesItsOwnWrites, Acked
<1>12. QED
  BY <1>1, <1>2, <1>3, <1>4, <1>5, <1>6, <1>7, <1>8, <1>9, <1>10, <1>11 DEF LifeIsSound

\* Nothing was copied.
LEMMA CopyFailsKeeps ==
    ASSUME NEW c \in Compactions, TypeOK, TypeOK', LifeIsSound, outlived = {}, outlived' = {}, CopyFails(c)
    PROVE  LifeIsSound'
<1> USE NamesApart DEF TypeOK, OptionalFile, Labels
<1>1. NothingAhead' /\ WritersOwn' /\ ContentsOwn'
  BY DEF LifeIsSound, CopyFails, disk, NothingAhead, WritersOwn, ContentsOwn, Owner
<1>2. HandlesAreKept'
  BY DEF LifeIsSound, CopyFails, Goto, HandlesAreKept
<1>3. CompactsTheOpen'
  BY DEF LifeIsSound, CopyFails, Goto, CompactsTheOpen, AtWork
<1>4. MutexHeld'
  BY DEF LifeIsSound, CopyFails, Goto, MutexHeld, Holding
<1>5. CopiesAreWhole'
  BY DEF LifeIsSound, CopyFails, Goto, CopiesAreWhole, MutexHeld, Holding
<1>6. FileIsCurrent'
  BY DEF LifeIsSound, CopyFails, Goto, disk, FileIsCurrent, Owner, Kept, Path
<1>7. FlatIsOnePath'
  BY DEF LifeIsSound, CopyFails, Goto, disk, FlatIsOnePath
<1>8. LeftoversAreSwept'
  BY DEF LifeIsSound, CopyFails, Goto, disk, LeftoversAreSwept, Path
<1>9. ServesItsOwnWrites'
  BY DEF LifeIsSound, CopyFails, Goto, ServesItsOwnWrites, Acked
<1>10. QED
  BY <1>1, <1>2, <1>3, <1>4, <1>5, <1>6, <1>7, <1>8, <1>9 DEF LifeIsSound

\* The copy gets its header.
LEMMA FinishCopyKeeps ==
    ASSUME NEW c \in Compactions, TypeOK, TypeOK', LifeIsSound, outlived = {}, outlived' = {}, FinishCopy(c)
    PROVE  LifeIsSound'
<1> USE NamesApart DEF TypeOK, OptionalFile, Labels
<1>1. NothingAhead' /\ WritersOwn' /\ ContentsOwn'
  BY DEF LifeIsSound, FinishCopy, NothingAhead, WritersOwn, ContentsOwn, Owner
<1>2. HandlesAreKept'
  BY DEF LifeIsSound, FinishCopy, Goto, HandlesAreKept
<1>3. CompactsTheOpen'
  BY DEF LifeIsSound, FinishCopy, Goto, CompactsTheOpen, AtWork
<1>4. MutexHeld'
  BY DEF LifeIsSound, FinishCopy, Goto, MutexHeld, Holding
<1>5. CopiesAreWhole'
  BY DEF LifeIsSound, FinishCopy, Goto, CopiesAreWhole, Kept, Path
<1>6. FileIsCurrent'
  BY DEF LifeIsSound, FinishCopy, Goto, FileIsCurrent, Owner, Kept, Path
<1>7. FlatIsOnePath'
  BY DEF LifeIsSound, FinishCopy, Goto, FlatIsOnePath
<1>8. LeftoversAreSwept'
  BY DEF LifeIsSound, FinishCopy, Goto, LeftoversAreSwept, Path
<1>9. ServesItsOwnWrites'
  BY DEF LifeIsSound, FinishCopy, Goto, ServesItsOwnWrites, Acked
<1>10. QED
  BY <1>1, <1>2, <1>3, <1>4, <1>5, <1>6, <1>7, <1>8, <1>9 DEF LifeIsSound

\* The copy takes the place of the file, with all that was kept there.
LEMMA RenameKeeps ==
    ASSUME NEW c \in Compactions, TypeOK, TypeOK', LifeIsSound, outlived = {}, outlived' = {}, Rename(c)
    PROVE  LifeIsSound'
<1> USE NamesApart DEF TypeOK, OptionalFile, Labels
<1>1. NothingAhead' /\ WritersOwn' /\ ContentsOwn'
  BY DEF LifeIsSound, Rename, NothingAhead, WritersOwn, ContentsOwn, Owner
<1>2. HandlesAreKept'
  BY DEF LifeIsSound, Rename, Goto, HandlesAreKept
<1>3. CompactsTheOpen'
  BY DEF LifeIsSound, Rename, Goto, CompactsTheOpen, AtWork
<1>4. MutexHeld'
  BY DEF LifeIsSound, Rename, Goto, MutexHeld, Holding
<1>5. CopiesAreWhole'
  BY DEF LifeIsSound, Rename, Goto, CopiesAreWhole
<1>6. FileIsCurrent'
  BY DEF LifeIsSound, Rename, Goto, FileIsCurrent, Path, Owner, Kept, CompactsTheOpen, MutexHeld, AtWork, Holding, CopiesAreWhole
<1>7. FlatIsOnePath'
  BY DEF LifeIsSound, Rename, Goto, FlatIsOnePath, CompactsTheOpen, HandlesAreKept, AtWork
<1>8. LeftoversAreSwept'
  BY DEF LifeIsSound, Rename, LeftoversAreSwept, Path, CompactsTheOpen, HandlesAreKept, AtWork
<1>9. ServesItsOwnWrites'
  BY DEF LifeIsSound, Rename, Goto, ServesItsOwnWrites, Acked
<1>10. QED
  BY <1>1, <1>2, <1>3, <1>4, <1>5, <1>6, <1>7, <1>8, <1>9 DEF LifeIsSound

\* A rename that fails leaves the file.
LEMMA RenameFailsKeeps ==
    ASSUME NEW c \in Compactions, TypeOK, TypeOK', LifeIsSound, outlived = {}, outlived' = {}, RenameFails(c)
    PROVE  LifeIsSound'
<1> USE NamesApart DEF TypeOK, OptionalFile, Labels
<1>1. NothingAhead' /\ WritersOwn' /\ ContentsOwn'
  BY DEF LifeIsSound, RenameFails, disk, NothingAhead, WritersOwn, ContentsOwn, Owner
<1>2. HandlesAreKept'
  BY DEF LifeIsSound, RenameFails, Goto, HandlesAreKept
<1>3. CompactsTheOpen'
  BY DEF LifeIsSound, RenameFails, Goto, CompactsTheOpen, AtWork
<1>4. MutexHeld'
  BY DEF LifeIsSound, RenameFails, Goto, MutexHeld, Holding
<1>5. CopiesAreWhole'
  BY DEF LifeIsSound, RenameFails, Goto, CopiesAreWhole
<1>6. FileIsCurrent'
  BY DEF LifeIsSound, RenameFails, Goto, disk, FileIsCurrent, Path, Owner, Kept
<1>7. FlatIsOnePath'
  BY DEF LifeIsSound, RenameFails, Goto, disk, FlatIsOnePath
<1>8. LeftoversAreSwept'
  BY DEF LifeIsSound, RenameFails, Goto, disk, LeftoversAreSwept, Path
<1>9. ServesItsOwnWrites'
  BY DEF LifeIsSound, RenameFails, Goto, ServesItsOwnWrites, Acked
<1>10. QED
  BY <1>1, <1>2, <1>3, <1>4, <1>5, <1>6, <1>7, <1>8, <1>9 DEF LifeIsSound

\* The writer is the file at the path again.
LEMMA ReopenKeeps ==
    ASSUME NEW c \in Compactions, TypeOK, TypeOK', LifeIsSound, outlived = {}, outlived' = {}, Reopen(c)
    PROVE  LifeIsSound'
<1> USE NamesApart DEF TypeOK, OptionalFile, Labels
<1>1. NothingAhead' /\ ContentsOwn'
  BY DEF LifeIsSound, Reopen, disk, NothingAhead, ContentsOwn, Owner
<1>2. HandlesAreKept'
  BY DEF LifeIsSound, Reopen, Goto, HandlesAreKept
<1>3. WritersOwn'
  <2>1. dbs \in Dbs /\ handle[c] = dbs
    BY DEF LifeIsSound, Reopen, CompactsTheOpen, AtWork, HandlesAreKept
  <2>2. writer'[dbs] # None => Owner(writer'[dbs]) = dbs
    BY <2>1 DEF LifeIsSound, Reopen, Readable, FileIsCurrent
  <2>3. \A k \in Dbs : k # dbs => writer'[k] = writer[k]
    BY <2>1 DEF Reopen
  <2>4. handle' = handle /\ \A f : Owner(f)' = Owner(f)
    BY DEF Reopen, Owner
  <2>5. QED
    BY <2>1, <2>2, <2>3, <2>4 DEF LifeIsSound, WritersOwn
<1>4. CompactsTheOpen'
  BY DEF LifeIsSound, Reopen, Goto, CompactsTheOpen, AtWork
<1>5. MutexHeld'
  BY DEF LifeIsSound, Reopen, Goto, MutexHeld, Holding
<1>6. CopiesAreWhole'
  BY DEF LifeIsSound, Reopen, Goto, CopiesAreWhole, MutexHeld, Holding
<1>7. FileIsCurrent'
  BY DEF LifeIsSound, Reopen, Goto, disk, FileIsCurrent, Owner, Kept, Path
<1>8. FlatIsOnePath'
  BY DEF LifeIsSound, Reopen, Goto, disk, FlatIsOnePath
<1>9. LeftoversAreSwept'
  BY DEF LifeIsSound, Reopen, Goto, disk, LeftoversAreSwept, Path
<1>10. ServesItsOwnWrites'
  BY DEF LifeIsSound, Reopen, Goto, ServesItsOwnWrites, Acked
<1>11. QED
  BY <1>1, <1>2, <1>3, <1>4, <1>5, <1>6, <1>7, <1>8, <1>9, <1>10 DEF LifeIsSound

-----------------------------------------------------------------------------
(* The theorems                                                             *)

LEMMA InitIInv ==
    Init => IInv
<1> SUFFICES ASSUME Init PROVE IInv
  OBVIOUS
<1> USE NamesApart
<1>1. made \in Nat /\ made \in Dbs /\ made \in 1..made /\ 1..made \subseteq Dbs
  BY LifeAssumption, NumbersGrow DEF Init, LifeAssumption, Dbs
<1>2. TypeOK
  BY <1>1, LifeAssumption DEF LifeAssumption, Init, TypeOK, OptionalFile, Labels, Paths, Files
<1>3. HandlesAreKept /\ NothingAhead /\ ContentsOwn /\ CompactsTheOpen /\ MutexHeld /\ CopiesAreWhole
  BY <1>1 DEF Init, HandlesAreKept, NothingAhead, ContentsOwn, CompactsTheOpen, AtWork, MutexHeld,
      Holding, CopiesAreWhole
<1>4. WritersOwn
  BY <1>1 DEF Init, WritersOwn, Owner
<1>5. flat => made = 1
  BY DEF Init
<1>6. FileIsCurrent
  BY <1>1, <1>5 DEF Init, FileIsCurrent, Owner, Kept, Paths
<1>7. FlatIsOnePath
  BY <1>1, <1>5 DEF Init, FlatIsOnePath, Paths, Dbs
<1>8. LeftoversAreSwept
  <2>1. dbs # None /\ dir[Path(dbs)] # None
    BY <1>1, <1>5 DEF Init, Paths
  <2>2. QED
    BY <2>1 DEF LeftoversAreSwept
<1>9. ServesItsOwnWrites
  BY <1>1 DEF Init, ServesItsOwnWrites, Acked
<1>10. QED
  BY <1>2, <1>3, <1>4, <1>6, <1>7, <1>8, <1>9 DEF IInv, LifeIsSound

LEMMA NextKeepsIInv ==
    IInv /\ [Next]_vars => IInv'
<1> SUFFICES ASSUME IInv, [Next]_vars PROVE IInv'
  OBVIOUS
<1>1. TypeOK /\ TypeOK'
  BY TypesHold DEF IInv
<1>2. outlived \subseteq outlived'
  BY DEF Next, vars, Create, Delete, Unlink, Sweep, Lookup, Refuse, Refresh, RefreshFails,
         Commit, Compact, CloseWriter, Copy, CopyFails, FinishCopy, Rename, RenameFails, Reopen
<1> SUFFICES ASSUME outlived' = {} PROVE LifeIsSound'
  BY <1>1 DEF IInv
<1>3. outlived = {} /\ LifeIsSound
  BY <1>2 DEF IInv
<1>4. CASE Create
  BY <1>1, <1>3, <1>4, CreateKeeps
<1>5. ASSUME NEW d \in Deletes, Delete(d) \/ Unlink(d) \/ Sweep(d)
      PROVE  LifeIsSound'
  BY <1>1, <1>3, <1>5, DeleteKeeps, UnlinkKeeps, SweepKeeps
<1>6. ASSUME NEW p \in Writes \union Compactions,
             Lookup(p) \/ Refuse(p) \/ Refresh(p) \/ RefreshFails(p)
      PROVE  LifeIsSound'
  BY <1>1, <1>3, <1>6, LookupKeeps, RefuseKeeps, RefreshKeeps, RefreshFailsKeeps
<1>7. ASSUME NEW w \in Writes, Commit(w)
      PROVE  LifeIsSound'
  BY <1>1, <1>3, <1>7, CommitKeeps
<1>8. ASSUME NEW c \in Compactions, Compact(c)
      PROVE  LifeIsSound'
  BY <1>1, <1>3, <1>8, CloseWriterKeeps, CopyKeeps, CopyFailsKeeps, FinishCopyKeeps,
     RenameKeeps, RenameFailsKeeps, ReopenKeeps DEF Compact
<1>9. CASE UNCHANGED vars
  BY <1>3, <1>9 DEF vars, disk, LifeIsSound, HandlesAreKept, NothingAhead, WritersOwn,
      ContentsOwn, CompactsTheOpen, MutexHeld, CopiesAreWhole, FileIsCurrent, FlatIsOnePath,
      LeftoversAreSwept, ServesItsOwnWrites, Owner, AtWork, Holding, Kept, Path, Acked
<1>10. QED
  BY <1>4, <1>5, <1>6, <1>7, <1>8, <1>9 DEF Next

\* What holds of the databases of a name in every state until a compaction outlives
\* its database: whose the files are, and that none loses a write.
THEOREM Invariant ==
    Spec => []IInv
<1>1. QED
  BY InitIInv, NextKeepsIInv, PTL DEF Spec

\* A file a restart opens under Layout::Flat is the one at the only path.
LEMMA OneFileOpened ==
    ASSUME TypeOK, FlatIsOnePath, flat, dir[1] # None
    PROVE  OpenedAtStart = dir[1]
<1> DEFINE there == {path \in Paths : dir[path] # None}
<1>1. there = {1}
  <2>1. \A path \in Paths \ {1} : dir[path] = None
    BY DEF FlatIsOnePath
  <2>2. 1 \in Paths
    BY NamesApart DEF Paths
  <2>3. QED
    BY <2>1, <2>2
<1>2. (CHOOSE path \in there : \A other \in there : other <= path) = 1
  BY <1>1
<1>3. QED
  BY <1>1, <1>2 DEF OpenedAtStart

\* While requests, deletions, creations and compactions of a name are interleaved in any
\* way, the open database serves its own acknowledged writes and no others, unless a
\* compaction has outlived its database.
THEOREM ServesOwnWrites ==
    Spec => []KeepsToItsOwnWrites
<1>1. IInv => KeepsToItsOwnWrites
  BY DEF IInv, LifeIsSound, KeepsToItsOwnWrites
<1>2. QED
  BY <1>1, Invariant, PTL

\* A restart serves what was acknowledged: under Layout::Flat the writes to the open
\* database, and in both layouts the deletion of one.
THEOREM RestartsAreFaithful ==
    Spec => []RestartIsFaithful
<1>1. ASSUME IInv, flat, outlived = {}, Acked # {}
      PROVE  OpenedAtStart # None /\ Acked \subseteq content[OpenedAtStart]
  <2> USE <1>1 DEF IInv, LifeIsSound
  <2>1. dbs # None
    BY NamesApart DEF Acked, HandlesAreKept
  <2>2. dbs \in Dbs /\ Path(dbs) = 1 /\ dir[1] # None
    BY <2>1, NamesApart DEF TypeOK, FlatIsOnePath
  <2>3. Acked \subseteq Kept
    BY DEF Acked, Kept
  <2>4. Acked \subseteq content[dir[1]]
    BY <2>1, <2>2, <2>3 DEF FileIsCurrent
  <2>5. QED
    BY <2>2, <2>4, OneFileOpened
<1>2. ASSUME IInv, dbs = None, outlived = {},
             \A d \in Deletes : pc[d] \notin {"unlink", "sweep"}
      PROVE  OpenedAtStart = None
  <2>1. \A path \in Paths : dir[path] = None
    BY <1>2 DEF IInv, LifeIsSound, LeftoversAreSwept
  <2>2. QED
    BY <2>1 DEF OpenedAtStart
<1>3. IInv => RestartIsFaithful
  BY <1>1, <1>2 DEF RestartIsFaithful, AckedSurviveRestart, DeletedStaysDeleted
<1>4. QED
  BY <1>3, Invariant, PTL

=============================================================================
