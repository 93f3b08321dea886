--------------------------- MODULE DatabaseProofs ---------------------------
(***************************************************************************)
(* The database handle, and the feed that reads its snapshots: what a      *)
(* client was acknowledged is kept and served, and a feed sends every row  *)
(* once and in order, whatever is written, purged and compacted meanwhile, *)
(* for any requests, filter, limit and batch.                              *)
(***************************************************************************)
EXTENDS DatabaseProps, ChangesFeed, FiniteSetTheorems, SequenceTheorems, WellFoundedInduction,
        TLAPS

-----------------------------------------------------------------------------
(* Facts about contents                                                     *)

\* Every header, snapshot and writer state extends itself.
LEMMA WithinReflexive == \A a \in Contents : Within(a, a)
BY DEF Within, LogWithin, Contents

\* What extends an extension extends the original.
LEMMA WithinTransitive ==
    \A a, b, c \in Contents : Within(a, b) /\ Within(b, c) => Within(a, c)
BY DEF Within, LogWithin, Contents

\* A write added to the writer's state is in it, and nothing else is lost.
LEMMA WithKeeps ==
    ASSUME NEW c \in Contents, NEW w \in Writes
    PROVE  /\ With(c, w) \in Contents
           /\ Within(c, With(c, w))
           /\ Has(With(c, w), w)
<1>1. CASE w \in DocWrites
  <2>1. With(c, w) = [log |-> Append(c.log, w), quiet |-> c.quiet]
    BY <1>1 DEF With, Contents
  <2>2. /\ c.log \in Seq(DocWrites)
        /\ Append(c.log, w) \in Seq(DocWrites)
        /\ Len(Append(c.log, w)) = Len(c.log) + 1
        /\ \A i \in 1..Len(c.log) : Append(c.log, w)[i] = c.log[i]
        /\ Append(c.log, w)[Len(c.log) + 1] = w
    BY <1>1 DEF Contents
  <2> QED
    BY <2>1, <2>2 DEF Within, LogWithin, Has, Contents
<1>2. CASE w \notin DocWrites
  <2>1. w \in QuietWrites
    BY <1>2 DEF Writes
  <2>2. With(c, w) = [log |-> c.log, quiet |-> c.quiet \union {w}]
    BY <1>2 DEF With, Contents
  <2> QED
    BY <2>1, <2>2 DEF Within, LogWithin, Has, Contents
<1> QED
  BY <1>1, <1>2

\* A write that is in some contents is in every extension of them.
LEMMA HasIsKept ==
    ASSUME NEW a \in Contents, NEW b \in Contents, NEW w,
           Within(a, b), Has(a, w)
    PROVE  Has(b, w)
BY DEF Within, LogWithin, Has, Contents

\* Of two snapshots of one file's history, the one with the larger update seq
\* holds every document write of the other.
LEMMA LongerHoldsMore ==
    ASSUME NEW a \in Contents, NEW b \in Contents, NEW h \in Contents,
           Within(a, h), Within(b, h), UpdateSeq(a) <= UpdateSeq(b)
    PROVE  LogWithin(a.log, b.log)
BY DEF Within, LogWithin, UpdateSeq, Contents

\* Requests that write documents never show up among the quiet writes.
LEMMA DocWriteInLog ==
    ASSUME NEW a \in Contents, NEW b \in Contents, NEW w \in DocWrites,
           LogWithin(a.log, b.log), Has(a, w)
    PROVE  Has(b, w)
BY RequestsAssumption DEF LogWithin, Has, Contents

-----------------------------------------------------------------------------
(* One lemma per action: it preserves the invariant.                        *)

\* Arrive preserves the invariant: only the program counter moves.
LEMMA ArrivePreserves ==
    ASSUME IInv, NEW p \in Requests, Arrive(p)
    PROVE  IInv'
<1>1. TypeOK'
  BY DEF IInv, TypeOK, Arrive, Goto, files, reads
<1>2. MutexInv' /\ SlotInv'
  BY DEF IInv, MutexInv, SlotInv, Arrive, Goto, TypeOK, Critical
<1>3. ChainInv' /\ SnapshotInv'
  BY DEF IInv, ChainInv, SnapshotInv, Arrive, Goto, TypeOK, files, reads
<1>4. RefreshInv'
  BY DEF IInv, RefreshInv, Arrive, Goto, TypeOK, files, reads
<1>5. WrittenInv' /\ PublishedInv'
  BY DEF IInv, WrittenInv, PublishedInv, Arrive, Goto, TypeOK, files, reads
<1>6. WatchNeverAheadOfSnapshot'
  BY DEF IInv, WatchNeverAheadOfSnapshot, Arrive, Goto, files, reads
<1> QED
  BY <1>1, <1>2, <1>3, <1>4, <1>5, <1>6 DEF IInv

\* Lock preserves the invariant: the mutex was free, so nobody else is in
\* the critical section.
LEMMA LockPreserves ==
    ASSUME IInv, NEW p \in Requests, Lock(p)
    PROVE  IInv'
<1>1. TypeOK'
  BY DEF IInv, TypeOK, Lock, Goto, files, reads, Requests
<1>2. MutexInv' /\ SlotInv'
  BY RequestsAssumption DEF IInv, MutexInv, SlotInv, Lock, Goto, TypeOK,
     Critical, Requests, Writes
<1>3. ChainInv' /\ SnapshotInv'
  BY DEF IInv, ChainInv, SnapshotInv, Lock, Goto, TypeOK, files, reads
<1>4. RefreshInv'
  BY DEF IInv, RefreshInv, Lock, Goto, TypeOK, files, reads
<1>5. WrittenInv' /\ PublishedInv'
  BY DEF IInv, WrittenInv, PublishedInv, Lock, Goto, TypeOK, files, reads
<1>6. WatchNeverAheadOfSnapshot'
  BY DEF IInv, WatchNeverAheadOfSnapshot, Lock, Goto, files, reads
<1> QED
  BY <1>1, <1>2, <1>3, <1>4, <1>5, <1>6 DEF IInv

\* Refuse preserves the invariant: the mutex is given back and nothing was
\* written.
LEMMA RefusePreserves ==
    ASSUME IInv, NEW p \in Requests, p \in Writes, Refuse(p)
    PROVE  IInv'
<1>1. TypeOK'
  BY DEF IInv, TypeOK, Refuse, Goto, files, reads
<1>2. MutexInv' /\ SlotInv'
  BY DEF IInv, MutexInv, SlotInv, Refuse, Goto, TypeOK, Critical
<1>3. ChainInv' /\ SnapshotInv'
  BY DEF IInv, ChainInv, SnapshotInv, Refuse, Goto, TypeOK, files, reads
<1>4. RefreshInv'
  BY DEF IInv, RefreshInv, Refuse, Goto, TypeOK, files, reads
<1>5. WrittenInv' /\ PublishedInv'
  BY DEF IInv, WrittenInv, PublishedInv, Refuse, Goto, TypeOK, files, reads
<1>6. WatchNeverAheadOfSnapshot'
  BY DEF IInv, WatchNeverAheadOfSnapshot, Refuse, Goto, files, reads
<1> QED
  BY <1>1, <1>2, <1>3, <1>4, <1>5, <1>6 DEF IInv

\* Apply preserves the invariant: the writer only gains the write.
LEMMA ApplyPreserves ==
    ASSUME IInv, NEW p \in Requests, p \in Writes, Apply(p)
    PROVE  IInv'
<1>1. TypeOK'
  BY WithKeeps DEF IInv, TypeOK, Apply, Goto, files, reads
<1>2. MutexInv' /\ SlotInv'
  BY DEF IInv, MutexInv, SlotInv, Apply, Goto, TypeOK, Critical
<1>3. ChainInv' /\ SnapshotInv'
  BY WithKeeps, WithinTransitive DEF IInv, ChainInv, SnapshotInv, Apply, Goto,
     TypeOK, files, reads, MutexInv, SlotInv, Critical
<1>4. RefreshInv'
  BY DEF IInv, RefreshInv, Apply, Goto, TypeOK, files, reads
<1>5. WrittenInv' /\ PublishedInv'
  BY WithKeeps, HasIsKept DEF IInv, WrittenInv, PublishedInv, Apply, Goto,
     TypeOK, files, reads, MutexInv, Critical, Requests, Writes
<1>6. WatchNeverAheadOfSnapshot'
  BY DEF IInv, WatchNeverAheadOfSnapshot, Apply, Goto, files, reads
<1> QED
  BY <1>1, <1>2, <1>3, <1>4, <1>5, <1>6 DEF IInv

\* ApplyFails preserves the invariant: what the closure left behind only
\* adds to the writer.
LEMMA ApplyFailsPreserves ==
    ASSUME IInv, NEW p \in Requests, p \in Writes, ApplyFails(p)
    PROVE  IInv'
<1>1. TypeOK'
  BY WithKeeps DEF IInv, TypeOK, ApplyFails, Goto, files, reads
<1>2. MutexInv' /\ SlotInv'
  BY DEF IInv, MutexInv, SlotInv, ApplyFails, Goto, TypeOK, Critical
<1>3. ChainInv' /\ SnapshotInv'
  BY WithKeeps, WithinTransitive DEF IInv, ChainInv, SnapshotInv, ApplyFails,
     Goto, TypeOK, files, reads, MutexInv, SlotInv, Critical
<1>4. RefreshInv'
  BY DEF IInv, RefreshInv, ApplyFails, Goto, TypeOK, files, reads
<1>5. WrittenInv' /\ PublishedInv'
  BY WithKeeps, HasIsKept DEF IInv, WrittenInv, PublishedInv, ApplyFails, Goto,
     TypeOK, files, reads, MutexInv, Critical, Requests, Writes
<1>6. WatchNeverAheadOfSnapshot'
  BY DEF IInv, WatchNeverAheadOfSnapshot, ApplyFails, Goto, files, reads
<1> QED
  BY <1>1, <1>2, <1>3, <1>4, <1>5, <1>6 DEF IInv

\* WriteHeader preserves the invariant: the new header extends the old one,
\* which the first fsync made durable.
LEMMA WriteHeaderPreserves ==
    ASSUME IInv, NEW p \in Requests, p \in Writes, WriteHeader(p)
    PROVE  IInv'
<1>1. TypeOK'
  BY DEF IInv, TypeOK, WriteHeader, Goto, files, reads
<1>2. MutexInv' /\ SlotInv'
  BY DEF IInv, MutexInv, SlotInv, WriteHeader, Goto, TypeOK, Critical
<1>3. ChainInv' /\ SnapshotInv'
  BY WithinTransitive, WithinReflexive DEF IInv, ChainInv, SnapshotInv,
     WriteHeader, Goto, TypeOK, files, reads, MutexInv, SlotInv, Critical
<1>4. RefreshInv'
  <2>1. UpdateSeq(header) <= UpdateSeq(mem)
    BY DEF IInv, SlotInv, ChainInv, WriteHeader, Within, LogWithin, UpdateSeq
  <2> QED
    BY <2>1 DEF IInv, TypeOK, RefreshInv, WriteHeader, Goto, UpdateSeq, Contents, reads
<1>5. WrittenInv' /\ PublishedInv'
  BY HasIsKept DEF IInv, WrittenInv, PublishedInv, WriteHeader, Goto, TypeOK,
     files, reads, ChainInv, SlotInv, MutexInv, Critical, Requests, Writes
<1>6. WatchNeverAheadOfSnapshot'
  BY DEF IInv, WatchNeverAheadOfSnapshot, WriteHeader, Goto, files, reads
<1> QED
  BY <1>1, <1>2, <1>3, <1>4, <1>5, <1>6 DEF IInv

\* SyncHeader preserves the invariant: disk and file now hold the same
\* header.
LEMMA SyncHeaderPreserves ==
    ASSUME IInv, NEW p \in Requests, p \in Writes, SyncHeader(p)
    PROVE  IInv'
<1>1. TypeOK'
  BY DEF IInv, TypeOK, SyncHeader, Goto, files, reads
<1>2. MutexInv' /\ SlotInv'
  BY DEF IInv, MutexInv, SlotInv, SyncHeader, Goto, TypeOK, Critical
<1>3. ChainInv' /\ SnapshotInv'
  BY WithinReflexive DEF IInv, ChainInv, SnapshotInv, SyncHeader, Goto, TypeOK,
     files, reads, MutexInv, Critical
<1>4. RefreshInv'
  BY DEF IInv, RefreshInv, SyncHeader, Goto, TypeOK, files, reads
<1>5. WrittenInv' /\ PublishedInv'
  BY HasIsKept DEF IInv, WrittenInv, PublishedInv, SyncHeader, Goto, TypeOK,
     files, reads, ChainInv, Requests, Writes
<1>6. WatchNeverAheadOfSnapshot'
  BY DEF IInv, WatchNeverAheadOfSnapshot, SyncHeader, Goto, files, reads
<1> QED
  BY <1>1, <1>2, <1>3, <1>4, <1>5, <1>6 DEF IInv

\* CommitFails preserves the invariant: nothing is acknowledged.
LEMMA CommitFailsPreserves ==
    ASSUME IInv, NEW p \in Requests, p \in Writes, CommitFails(p)
    PROVE  IInv'
<1>1. TypeOK'
  BY DEF IInv, TypeOK, CommitFails, Goto, files, reads
<1>2. MutexInv' /\ SlotInv'
  BY DEF IInv, MutexInv, SlotInv, CommitFails, Goto, TypeOK, Critical
<1>3. ChainInv' /\ SnapshotInv'
  BY DEF IInv, ChainInv, SnapshotInv, CommitFails, Goto, TypeOK, files, reads
<1>4. RefreshInv'
  BY DEF IInv, RefreshInv, CommitFails, Goto, TypeOK, files, reads
<1>5. WrittenInv' /\ PublishedInv'
  BY DEF IInv, WrittenInv, PublishedInv, CommitFails, Goto, TypeOK, files,
     reads
<1>6. WatchNeverAheadOfSnapshot'
  BY DEF IInv, WatchNeverAheadOfSnapshot, CommitFails, Goto, files, reads
<1> QED
  BY <1>1, <1>2, <1>3, <1>4, <1>5, <1>6 DEF IInv

\* Unlock preserves the invariant: the seq taken is that of the header just
\* written.
LEMMA UnlockPreserves ==
    ASSUME IInv, NEW p \in Requests, Unlock(p)
    PROVE  IInv'
<1>1. TypeOK'
  BY DEF IInv, TypeOK, Unlock, Goto, files, reads, UpdateSeq, Contents
<1>2. MutexInv' /\ SlotInv'
  BY DEF IInv, MutexInv, SlotInv, Unlock, Goto, TypeOK, Critical
<1>3. ChainInv' /\ SnapshotInv'
  BY DEF IInv, ChainInv, SnapshotInv, Unlock, Goto, TypeOK, files, reads
<1>4. RefreshInv'
  <2>1. mem = header
    BY DEF IInv, ChainInv, Unlock
  <2>2. UpdateSeq(mem) \in Nat
    BY DEF IInv, TypeOK, Contents, UpdateSeq
  <2> QED
    BY <2>1, <2>2 DEF IInv, TypeOK, RefreshInv, Unlock, Goto, files, reads
<1>5. WrittenInv' /\ PublishedInv'
  BY DEF IInv, WrittenInv, PublishedInv, Unlock, Goto, TypeOK, files, reads,
     Requests, Writes
<1>6. WatchNeverAheadOfSnapshot'
  BY DEF IInv, WatchNeverAheadOfSnapshot, Unlock, Goto, files, reads
<1> QED
  BY <1>1, <1>2, <1>3, <1>4, <1>5, <1>6 DEF IInv

\* OpenSnapshot preserves the invariant: the snapshot holds at least what
\* its opener committed.
LEMMA OpenSnapshotPreserves ==
    ASSUME IInv, NEW p \in Requests, OpenSnapshot(p)
    PROVE  IInv'
<1>1. TypeOK'
  BY DEF IInv, TypeOK, OpenSnapshot, Goto, files, reads
<1>2. MutexInv' /\ SlotInv'
  BY DEF IInv, MutexInv, SlotInv, OpenSnapshot, Goto, TypeOK, Critical
<1>3. ChainInv' /\ SnapshotInv'
  BY WithinReflexive DEF IInv, ChainInv, SnapshotInv, OpenSnapshot, Goto,
     TypeOK, files, reads
<1>4. RefreshInv'
  BY DEF IInv, RefreshInv, OpenSnapshot, Goto, TypeOK, files, reads
<1>5. WrittenInv' /\ PublishedInv'
  BY DEF IInv, WrittenInv, PublishedInv, OpenSnapshot, Goto, TypeOK, files,
     reads, Requests, Writes
<1>6. WatchNeverAheadOfSnapshot'
  BY DEF IInv, WatchNeverAheadOfSnapshot, OpenSnapshot, Goto, files, reads
<1> QED
  BY <1>1, <1>2, <1>3, <1>4, <1>5, <1>6 DEF IInv

\* OpenFails preserves the invariant: nothing is acknowledged.
LEMMA OpenFailsPreserves ==
    ASSUME IInv, NEW p \in Requests, OpenFails(p)
    PROVE  IInv'
<1>1. TypeOK'
  BY DEF IInv, TypeOK, OpenFails, Goto, files, reads
<1>2. MutexInv' /\ SlotInv'
  BY DEF IInv, MutexInv, SlotInv, OpenFails, Goto, TypeOK, Critical
<1>3. ChainInv' /\ SnapshotInv'
  BY DEF IInv, ChainInv, SnapshotInv, OpenFails, Goto, TypeOK, files, reads
<1>4. RefreshInv'
  BY DEF IInv, RefreshInv, OpenFails, Goto, TypeOK, files, reads
<1>5. WrittenInv' /\ PublishedInv'
  BY DEF IInv, WrittenInv, PublishedInv, OpenFails, Goto, TypeOK, files, reads
<1>6. WatchNeverAheadOfSnapshot'
  BY DEF IInv, WatchNeverAheadOfSnapshot, OpenFails, Goto, files, reads
<1> QED
  BY <1>1, <1>2, <1>3, <1>4, <1>5, <1>6 DEF IInv

\* What refresh installs holds everything the snapshot it replaces and the
\* one it opened hold of the log.
LEMMA InstallExtends ==
    ASSUME IInv, NEW p \in Requests, Install(p)
    PROVE  LogWithin(snap.log, snap'.log) /\ LogWithin(opened[p].log, snap'.log)
<1>1. /\ snap \in Contents /\ opened[p] \in Contents /\ header \in Contents
      /\ Within(snap, header) /\ Within(opened[p], header)
  BY DEF IInv, TypeOK, SnapshotInv, Install
<1>2. UpdateSeq(snap) \in Nat /\ UpdateSeq(opened[p]) \in Nat
  BY <1>1 DEF UpdateSeq, Contents
<1>3. CASE UpdateSeq(opened[p]) >= UpdateSeq(snap)
  <2>1. snap' = opened[p]
    BY <1>3 DEF Install
  <2>2. LogWithin(snap.log, opened[p].log)
    BY <1>1, <1>2, <1>3, LongerHoldsMore
  <2>3. LogWithin(opened[p].log, opened[p].log)
    BY <1>1, WithinReflexive DEF Within
  <2> QED
    BY <2>1, <2>2, <2>3
<1>4. CASE ~(UpdateSeq(opened[p]) >= UpdateSeq(snap))
  <2>1. snap' = snap
    BY <1>4 DEF Install
  <2>2. LogWithin(opened[p].log, snap.log)
    BY <1>1, <1>2, <1>4, LongerHoldsMore
  <2>3. LogWithin(snap.log, snap.log)
    BY <1>1, WithinReflexive DEF Within
  <2> QED
    BY <2>1, <2>2, <2>3
<1> QED
  BY <1>3, <1>4

\* Install preserves the invariant: of two prefixes of one log the longer
\* one is kept.
LEMMA InstallPreserves ==
    ASSUME IInv, NEW p \in Requests, Install(p)
    PROVE  IInv'
<1>a. /\ UpdateSeq(snap) <= UpdateSeq(snap')
      /\ UpdateSeq(opened[p]) <= UpdateSeq(snap')
  BY DEF IInv, TypeOK, Contents, Install, UpdateSeq
<1>1. TypeOK'
  BY DEF IInv, TypeOK, Install, Goto, files, reads
<1>2. MutexInv' /\ SlotInv'
  BY DEF IInv, MutexInv, SlotInv, Install, Goto, TypeOK, Critical
<1>3. ChainInv' /\ SnapshotInv'
  BY DEF IInv, ChainInv, SnapshotInv, Install, Goto, TypeOK, files, reads,
     UpdateSeq
<1>4. RefreshInv'
  BY <1>a DEF IInv, TypeOK, RefreshInv, Install, Goto, UpdateSeq, Contents, files
<1>5. WrittenInv' /\ PublishedInv'
  BY InstallExtends, DocWriteInLog DEF IInv, WrittenInv, PublishedInv, Install,
     Goto, TypeOK, files, reads, Requests, Writes
<1>6. WatchNeverAheadOfSnapshot'
  BY <1>a DEF IInv, TypeOK, WatchNeverAheadOfSnapshot, Install, UpdateSeq, Contents
<1> QED
  BY <1>1, <1>2, <1>3, <1>4, <1>5, <1>6 DEF IInv

\* Notify preserves the invariant: the snapshot has been installed by then.
LEMMA NotifyPreserves ==
    ASSUME IInv, NEW p \in Requests, Notify(p)
    PROVE  IInv'
<1>1. TypeOK'
  BY DEF IInv, TypeOK, Notify, Goto, files, reads
<1>2. MutexInv' /\ SlotInv'
  BY DEF IInv, MutexInv, SlotInv, Notify, Goto, TypeOK, Critical
<1>3. ChainInv' /\ SnapshotInv'
  BY DEF IInv, ChainInv, SnapshotInv, Notify, Goto, TypeOK, files, reads
<1>4. RefreshInv'
  BY DEF IInv, RefreshInv, Notify, Goto, TypeOK, files, reads
<1>5. WrittenInv' /\ PublishedInv'
  BY DEF IInv, WrittenInv, PublishedInv, Notify, Goto, TypeOK, files, reads
<1>6. WatchNeverAheadOfSnapshot'
  BY DEF IInv, WatchNeverAheadOfSnapshot, Notify, Goto, files, reads, TypeOK,
     RefreshInv, UpdateSeq, Contents
<1> QED
  BY <1>1, <1>2, <1>3, <1>4, <1>5, <1>6 DEF IInv

\* SkipCompaction preserves the invariant: the mutex is given back and
\* nothing changed.
LEMMA SkipCompactionPreserves ==
    ASSUME IInv, NEW p \in Requests, p \in Compactions, SkipCompaction(p)
    PROVE  IInv'
<1>1. TypeOK'
  BY DEF IInv, TypeOK, SkipCompaction, Goto, files, reads
<1>2. MutexInv' /\ SlotInv'
  BY DEF IInv, MutexInv, SlotInv, SkipCompaction, Goto, TypeOK, Critical
<1>3. ChainInv' /\ SnapshotInv'
  BY DEF IInv, ChainInv, SnapshotInv, SkipCompaction, Goto, TypeOK, files,
     reads
<1>4. RefreshInv'
  BY DEF IInv, RefreshInv, SkipCompaction, Goto, TypeOK, files, reads
<1>5. WrittenInv' /\ PublishedInv'
  BY RequestsAssumption DEF IInv, WrittenInv, PublishedInv, SkipCompaction,
     Goto, TypeOK, files, reads, Requests, Writes
<1>6. WatchNeverAheadOfSnapshot'
  BY DEF IInv, WatchNeverAheadOfSnapshot, SkipCompaction, Goto, files, reads
<1> QED
  BY <1>1, <1>2, <1>3, <1>4, <1>5, <1>6 DEF IInv

\* CloseWriter preserves the invariant: only the holder may empty the slot.
LEMMA CloseWriterPreserves ==
    ASSUME IInv, NEW p \in Requests, p \in Compactions, CloseWriter(p)
    PROVE  IInv'
<1>1. TypeOK'
  BY DEF IInv, TypeOK, CloseWriter, Goto, files, reads
<1>2. MutexInv' /\ SlotInv'
  BY DEF IInv, MutexInv, SlotInv, CloseWriter, Goto, TypeOK, Critical
<1>3. ChainInv' /\ SnapshotInv'
  BY DEF IInv, ChainInv, SnapshotInv, CloseWriter, Goto, TypeOK, files, reads,
     MutexInv, Critical
<1>4. RefreshInv'
  BY DEF IInv, RefreshInv, CloseWriter, Goto, TypeOK, files, reads
<1>5. WrittenInv' /\ PublishedInv'
  BY DEF IInv, WrittenInv, PublishedInv, CloseWriter, Goto, TypeOK, files,
     reads
<1>6. WatchNeverAheadOfSnapshot'
  BY DEF IInv, WatchNeverAheadOfSnapshot, CloseWriter, Goto, files, reads
<1> QED
  BY <1>1, <1>2, <1>3, <1>4, <1>5, <1>6 DEF IInv

\* Swap preserves the invariant: the copy holds what the header holds.
LEMMA SwapPreserves ==
    ASSUME IInv, NEW p \in Requests, p \in Compactions, Swap(p)
    PROVE  IInv'
<1>1. TypeOK'
  BY DEF IInv, TypeOK, Swap, Goto, files, reads
<1>2. MutexInv' /\ SlotInv'
  BY DEF IInv, MutexInv, SlotInv, Swap, Goto, TypeOK, Critical
<1>3. ChainInv' /\ SnapshotInv'
  BY WithinReflexive DEF IInv, ChainInv, SnapshotInv, Swap, Goto, TypeOK,
     files, reads, SlotInv, MutexInv, Critical
<1>4. RefreshInv'
  BY DEF IInv, RefreshInv, Swap, Goto, TypeOK, files, reads
<1>5. WrittenInv' /\ PublishedInv'
  BY HasIsKept DEF IInv, WrittenInv, PublishedInv, Swap, Goto, TypeOK, files,
     reads, ChainInv, Requests, Writes
<1>6. WatchNeverAheadOfSnapshot'
  BY DEF IInv, WatchNeverAheadOfSnapshot, Swap, Goto, files, reads
<1> QED
  BY <1>1, <1>2, <1>3, <1>4, <1>5, <1>6 DEF IInv

\* Reopen preserves the invariant: the writer restarts from the header.
LEMMA ReopenPreserves ==
    ASSUME IInv, NEW p \in Requests, p \in Compactions, Reopen(p)
    PROVE  IInv'
<1>1. TypeOK'
  BY DEF IInv, TypeOK, Reopen, Goto, files, reads
<1>2. MutexInv' /\ SlotInv'
  BY RequestsAssumption DEF IInv, MutexInv, SlotInv, Reopen, Goto, TypeOK,
     Critical
<1>3. ChainInv' /\ SnapshotInv'
  BY WithinReflexive DEF IInv, ChainInv, SnapshotInv, Reopen, Goto, TypeOK,
     files, reads, MutexInv, Critical
<1>4. RefreshInv'
  BY DEF IInv, RefreshInv, Reopen, Goto, TypeOK, files, reads
<1>5. WrittenInv' /\ PublishedInv'
  BY RequestsAssumption DEF IInv, WrittenInv, PublishedInv, Reopen, Goto,
     TypeOK, files, reads, MutexInv, Critical, Requests, Writes
<1>6. WatchNeverAheadOfSnapshot'
  BY DEF IInv, WatchNeverAheadOfSnapshot, Reopen, Goto, files, reads
<1> QED
  BY <1>1, <1>2, <1>3, <1>4, <1>5, <1>6 DEF IInv

\* CopyFails preserves the invariant: the writer restarts from the header.
LEMMA CopyFailsPreserves ==
    ASSUME IInv, NEW p \in Requests, p \in Compactions, CopyFails(p)
    PROVE  IInv'
<1>1. TypeOK'
  BY DEF IInv, TypeOK, CopyFails, Goto, files, reads
<1>2. MutexInv' /\ SlotInv'
  BY DEF IInv, MutexInv, SlotInv, CopyFails, Goto, TypeOK, Critical
<1>3. ChainInv' /\ SnapshotInv'
  BY WithinReflexive DEF IInv, ChainInv, SnapshotInv, CopyFails, Goto, TypeOK,
     files, reads, MutexInv, Critical
<1>4. RefreshInv'
  BY DEF IInv, RefreshInv, CopyFails, Goto, TypeOK, files, reads
<1>5. WrittenInv' /\ PublishedInv'
  BY DEF IInv, WrittenInv, PublishedInv, CopyFails, Goto, TypeOK, files, reads,
     MutexInv, Critical, Requests, Writes
<1>6. WatchNeverAheadOfSnapshot'
  BY DEF IInv, WatchNeverAheadOfSnapshot, CopyFails, Goto, files, reads
<1> QED
  BY <1>1, <1>2, <1>3, <1>4, <1>5, <1>6 DEF IInv

\* ReopenFails preserves the invariant: the slot stays empty and the mutex
\* is given back.
LEMMA ReopenFailsPreserves ==
    ASSUME IInv, NEW p \in Requests, p \in Compactions, ReopenFails(p)
    PROVE  IInv'
<1>1. TypeOK'
  BY DEF IInv, TypeOK, ReopenFails, Goto, files, reads
<1>2. MutexInv' /\ SlotInv'
  BY DEF IInv, MutexInv, SlotInv, ReopenFails, Goto, TypeOK, Critical
<1>3. ChainInv' /\ SnapshotInv'
  BY DEF IInv, ChainInv, SnapshotInv, ReopenFails, Goto, TypeOK, files, reads
<1>4. RefreshInv'
  BY DEF IInv, RefreshInv, ReopenFails, Goto, TypeOK, files, reads
<1>5. WrittenInv' /\ PublishedInv'
  BY DEF IInv, WrittenInv, PublishedInv, ReopenFails, Goto, TypeOK, files,
     reads
<1>6. WatchNeverAheadOfSnapshot'
  BY DEF IInv, WatchNeverAheadOfSnapshot, ReopenFails, Goto, files, reads
<1> QED
  BY <1>1, <1>2, <1>3, <1>4, <1>5, <1>6 DEF IInv


\* Crash preserves the invariant: the file restarts at a header it can hold.
LEMMA CrashPreserves ==
    ASSUME IInv, Crash
    PROVE  IInv'
<1>1. PICK h \in {durable, header} :
         /\ header' = h /\ durable' = h /\ mem' = h /\ snap' = h
         /\ watch' = UpdateSeq(h)
  BY DEF Crash
<1>2. h \in Contents /\ Within(h, h)
  BY <1>1, WithinReflexive DEF IInv, TypeOK
<1>3. \A p \in Requests : pc'[p] \in {"new", "done", "failed"}
                          /\ (pc'[p] = "done" => pc[p] = "done")
  BY DEF Crash, IInv, TypeOK
<1>4. TypeOK'
  BY <1>1, <1>2 DEF Crash, IInv, TypeOK, UpdateSeq, Contents
<1>5. MutexInv' /\ SlotInv' /\ RefreshInv'
  BY <1>3, <1>2 DEF MutexInv, SlotInv, RefreshInv, Critical, Requests
<1>6. ChainInv' /\ SnapshotInv' /\ WatchNeverAheadOfSnapshot'
  BY <1>1, <1>2, <1>3 DEF ChainInv, SnapshotInv, WatchNeverAheadOfSnapshot,
     UpdateSeq, Contents
<1>7. WrittenInv'
  BY <1>1, <1>3 DEF IInv, WrittenInv, Requests
<1>8. PublishedInv'
  BY <1>1, <1>3 DEF IInv, PublishedInv, WrittenInv, Requests, Writes
<1> QED
  BY <1>4, <1>5, <1>6, <1>7, <1>8 DEF IInv

\* A step that leaves every variable alone preserves the invariant.
LEMMA StutterPreserves ==
    ASSUME IInv, UNCHANGED vars
    PROVE  IInv'
BY DEF IInv, TypeOK, MutexInv, SlotInv, ChainInv, SnapshotInv, RefreshInv,
   WrittenInv, PublishedInv, WatchNeverAheadOfSnapshot, vars, files, reads

\* The database as it is opened first satisfies the invariant.
LEMMA InitInvariant == Init => IInv
BY RequestsAssumption DEF Init, IInv, TypeOK, MutexInv, SlotInv, ChainInv,
   SnapshotInv, RefreshInv, WrittenInv, PublishedInv,
   WatchNeverAheadOfSnapshot, Critical, NoContents, Contents, UpdateSeq,
   Within, LogWithin, Requests, Writes

\* Every step of the system preserves the invariant.
LEMMA NextPreserves == IInv /\ [Next]_vars => IInv'
<1> SUFFICES ASSUME IInv, [Next]_vars PROVE IInv'
  OBVIOUS
<1>1. CASE Crash
  BY <1>1, CrashPreserves
<1>2. CASE \E p \in Requests : Arrive(p) \/ Step(p)
  <2> PICK p \in Requests : Arrive(p) \/ Step(p)
    BY <1>2
  <2>1. CASE Arrive(p)
    BY <2>1, ArrivePreserves
  <2>2. CASE Lock(p) \/ Unlock(p)
    BY <2>2, LockPreserves, UnlockPreserves
  <2>3. CASE p \in Writes /\ WithWriter(p)
    BY <2>3, RefusePreserves, ApplyPreserves, ApplyFailsPreserves,
       WriteHeaderPreserves, SyncHeaderPreserves, CommitFailsPreserves DEF WithWriter
  <2>4. CASE p \in Compactions /\ RunCompaction(p)
    BY <2>4, SkipCompactionPreserves, CloseWriterPreserves, SwapPreserves,
       ReopenPreserves, CopyFailsPreserves, ReopenFailsPreserves DEF RunCompaction
  <2>5. CASE Refresh(p)
    BY <2>5, OpenSnapshotPreserves, OpenFailsPreserves, InstallPreserves,
       NotifyPreserves DEF Refresh
  <2> QED
    BY <2>1, <2>2, <2>3, <2>4, <2>5 DEF Step
<1>3. CASE UNCHANGED vars
  BY <1>3, StutterPreserves
<1> QED
  BY <1>1, <1>2, <1>3 DEF Next

\* No request takes anything back that a snapshot or the file has.
LEMMA RequestsExtend ==
    ASSUME IInv, NEW p \in Requests, Arrive(p) \/ Step(p)
    PROVE  LogWithin(snap.log, snap'.log) /\ Within(header, header')
<1>1. snap' = snap \/ Install(p)
  BY DEF Arrive, Step, Lock, WithWriter, Refuse, Apply, ApplyFails,
     WriteHeader, SyncHeader, CommitFails, RunCompaction, SkipCompaction,
     CloseWriter, Swap, Reopen, CopyFails, ReopenFails, Unlock, Refresh,
     OpenSnapshot, OpenFails, Notify, reads
<1>2. header' = header \/ WriteHeader(p)
  BY DEF Arrive, Step, Lock, WithWriter, Refuse, Apply, ApplyFails,
     SyncHeader, CommitFails, RunCompaction, SkipCompaction,
     CloseWriter, Swap, Reopen, CopyFails, ReopenFails, Unlock, Refresh,
     OpenSnapshot, OpenFails, Install, Notify, files
<1>3. LogWithin(snap.log, snap.log) /\ Within(header, header)
  BY WithinReflexive DEF IInv, TypeOK, Within
<1>4. CASE WriteHeader(p)
  BY <1>1, <1>3, <1>4, InstallExtends DEF IInv, ChainInv, SlotInv, WriteHeader
<1>5. QED
  BY <1>1, <1>2, <1>3, <1>4, InstallExtends

-----------------------------------------------------------------------------
(* The theorems                                                             *)

\* The inductive invariant holds in every state of every execution.
THEOREM Invariant == Spec => []IInv
BY InitInvariant, NextPreserves, PTL DEF Spec

\* with_writer and compact keep every field within its type.
THEOREM TypeCorrect == Spec => []TypeOK
<1>1. IInv => TypeOK
  BY DEF IInv
<1> QED
  BY <1>1, Invariant, PTL

\* A feed woken by refresh finds the rows it was woken for, whatever writers,
\* compactions, failures and crashes race with it.
THEOREM WatchIsServed == Spec => []WatchNeverAheadOfSnapshot
<1>1. IInv => WatchNeverAheadOfSnapshot
  BY DEF IInv
<1> QED
  BY <1>1, Invariant, PTL

\* The seq comparison in refresh is enough for document writes: once one is
\* acknowledged, no racing refresh takes it out of the snapshot again.
THEOREM DocWritesStayVisible == Spec => []ReadYourDocWrites
<1>1. IInv => ReadYourDocWrites
  BY DEF IInv, PublishedInv, ReadYourDocWrites
<1> QED
  BY <1>1, Invariant, PTL

\* Nobody is told of a write, by an answer or by a wake-up, that a reader would not
\* find (state.rs with_writer, refresh).
THEOREM ToldIsAlwaysServed == Spec => []ToldIsServed
BY WatchIsServed, DocWritesStayVisible, PTL DEF ToldIsServed

\* commit's order of fsync, header and fsync makes every acknowledged write
\* survive a crash at any point, racing or failed commits included.
THEOREM AcknowledgedIsDurable == Spec => []AckedIsDurable
<1>1. IInv => AckedIsDurable
  BY DEF IInv, WrittenInv, AckedIsDurable
<1> QED
  BY <1>1, Invariant, PTL

\* Outside a crash the log of the snapshot readers are given only grows.
THEOREM SnapshotsOnlyExtend == Spec => SnapshotsExtend
<1>1. IInv /\ [Next]_vars => [Crash \/ LogWithin(snap.log, snap'.log)]_vars
  BY RequestsExtend DEF Next
<1> QED
  BY <1>1, Invariant, PTL DEF Spec, SnapshotsExtend

-----------------------------------------------------------------------------
(* Quiet writes: an acknowledged one is only ever missing from a snapshot   *)
(* taken at the very seq it was committed at, whatever races and fails.     *)

\* Quiet writes are never found in a log.
LEMMA QuietWriteInQuiet ==
    ASSUME NEW c \in Contents, NEW w \in QuietWrites, Has(c, w)
    PROVE  w \in c.quiet
BY RequestsAssumption DEF Has, Contents

\* What extends contents has at least their seq.
LEMMA WithinGrows ==
    ASSUME NEW a \in Contents, NEW b \in Contents, Within(a, b)
    PROVE  UpdateSeq(a) \in Nat /\ UpdateSeq(b) \in Nat /\ UpdateSeq(a) <= UpdateSeq(b)
BY DEF Within, LogWithin, UpdateSeq, Contents

\* Every quiet write that has released its lock is in file and disk.
LEMMA ReleasedIsWritten ==
    ASSUME IInv, NEW w \in QuietWrites, Released(w)
    PROVE  w \in header.quiet /\ w \in durable.quiet
<1>1. w \in Writes
  BY DEF Writes
<1>2. Has(header, w) /\ Has(durable, w)
  BY <1>1 DEF IInv, WrittenInv, Released
<1> QED
  BY <1>2, QuietWriteInQuiet DEF IInv, TypeOK

\* Of two requests in the critical section there is one.
LEMMA OneHolder ==
    ASSUME IInv, NEW p \in Requests, NEW q \in Requests,
           pc[p] \in Critical, pc[q] \in Critical
    PROVE  p = q
BY DEF IInv, MutexInv

-----------------------------------------------------------------------------
(* The steps                                                                *)

\* A step that changes neither file nor snapshots, and by which no request
\* comes to release its lock, to install or to be done, preserves QuietInv.
LEMMA StillPreservesQuiet ==
    ASSUME IInv, QuietInv, NEW p \in Requests, NEW l,
           UNCHANGED <<header, durable, opened, seqOf, snap>>,
           Goto(p, l),
           \/ l \in {"lock", "apply", "copy", "failed", "header", "swap"}
           \/ l = "done" /\ p \in Compactions
    PROVE  QuietInv'
<1>1. ASSUME NEW q \in Requests, pc'[q] \in {"reopen", "unlock", "install"}
      PROVE  pc'[q] = pc[q]
  BY <1>1, RequestsAssumption DEF Goto, IInv, TypeOK
<1>2. ASSUME NEW w \in QuietWrites, Released(w)'
      PROVE  pc'[w] = pc[w] /\ Released(w)
  BY <1>2, RequestsAssumption DEF Goto, IInv, TypeOK, Released, Requests, Writes
<1>3. QED
  BY <1>1, <1>2 DEF QuietInv, PastHas, Released

\* The steps of with_writer before the header, and those that fail.
LEMMA QuietStepsPreserve ==
    ASSUME IInv, QuietInv, NEW p \in Requests,
           \/ Arrive(p) \/ Lock(p) \/ OpenFails(p)
           \/ Refuse(p) \/ Apply(p) \/ ApplyFails(p) \/ CommitFails(p)
           \/ CloseWriter(p) \/ CopyFails(p) \/ ReopenFails(p)
           \/ p \in Compactions /\ SkipCompaction(p)
    PROVE  QuietInv'
<1>1. UNCHANGED <<header, durable, opened, seqOf, snap>>
  BY DEF Arrive, Lock, OpenFails, Refuse, Apply, ApplyFails, CommitFails,
     CloseWriter, CopyFails, ReopenFails, SkipCompaction, files, reads
<1>2. \/ \E l \in {"lock", "apply", "copy", "failed", "header", "swap"} : Goto(p, l)
      \/ p \in Compactions /\ Goto(p, "done")
  BY DEF Arrive, Lock, OpenFails, Refuse, Apply, ApplyFails, CommitFails,
     CloseWriter, CopyFails, ReopenFails, SkipCompaction
<1>3. QED
  BY <1>1, <1>2, StillPreservesQuiet

\* The header moves on: the disk gets what the file had, which is no less.
LEMMA HeaderPreservesQuiet ==
    ASSUME IInv, QuietInv, NEW p \in Requests,
           (p \in Writes /\ (WriteHeader(p) \/ SyncHeader(p))) \/ Swap(p)
    PROVE  QuietInv'
<1>1. /\ durable' = header
      /\ UNCHANGED <<opened, seqOf, snap>>
      /\ SyncHeader(p) \/ Swap(p) => header' = header
      /\ pc[p] \in Critical
  BY DEF WriteHeader, SyncHeader, Swap, reads, Critical
<1>2. \E l \in {"sync", "unlock", "reopen"} : Goto(p, l) /\ (WriteHeader(p) => l = "sync")
  BY DEF WriteHeader, SyncHeader, Swap
<1>3. ASSUME NEW q \in Requests, pc'[q] \in {"reopen", "unlock"}
      PROVE  durable' = header'
  <2>1. CASE q = p
    BY <1>1, <1>2, <1>3, <2>1 DEF Goto, IInv, TypeOK
  <2>2. CASE q # p
    <3>1. pc[q] \in Critical
      BY <1>2, <1>3, <2>2 DEF Goto, IInv, TypeOK, Critical
    <3>2. QED
      BY <1>1, <2>2, <3>1, OneHolder
  <2>3. QED
    BY <2>1, <2>2
<1>4. ASSUME NEW w \in QuietWrites, Released(w)'
      PROVE  /\ seqOf'[w] <= UpdateSeq(durable')
             /\ PastHas(snap, w)'
             /\ \A q \in Requests : pc'[q] = "install" => PastHas(opened[q], w)'
             /\ pc'[w] = "done" => seqOf'[w] <= UpdateSeq(snap')
  <2>1. pc'[w] = pc[w] /\ Released(w)
    BY <1>2, <1>4 DEF Goto, IInv, TypeOK, Released, Requests, Writes
  <2>2. \A q \in Requests : pc'[q] = "install" => pc[q] = "install"
    BY <1>2 DEF Goto, IInv, TypeOK
  <2>3. /\ seqOf[w] \in Nat /\ UpdateSeq(durable) \in Nat /\ UpdateSeq(header) \in Nat
        /\ UpdateSeq(durable) <= UpdateSeq(header)
    BY WithinGrows DEF IInv, TypeOK, ChainInv, Requests, Writes
  <2>4. QED
    BY <1>1, <2>1, <2>2, <2>3 DEF QuietInv, PastHas
<1>5. QED
  BY <1>3, <1>4 DEF QuietInv

\* The writer is opened on the copy, which is synced.
LEMMA ReopenPreservesQuiet ==
    ASSUME IInv, QuietInv, NEW p \in Requests, p \in Compactions, Reopen(p)
    PROVE  QuietInv'
<1>1. UNCHANGED <<header, durable, opened, seqOf, snap>> /\ Goto(p, "unlock")
  BY DEF Reopen, files, reads
<1>2. durable = header
  BY DEF Reopen, QuietInv
<1>3. \A q \in Requests : pc'[q] = "install" => pc[q] = "install"
  BY <1>1 DEF Goto, IInv, TypeOK
<1>4. \A w \in QuietWrites : Released(w)' => pc'[w] = pc[w] /\ Released(w)
  BY <1>1 DEF Goto, IInv, TypeOK, Released, Requests, Writes
<1>5. QED
  BY <1>1, <1>2, <1>3, <1>4 DEF QuietInv, PastHas

\* The seq a quiet write takes with it is the file's own, and no snapshot is
\* beyond it yet.
LEMMA UnlockPreservesQuiet ==
    ASSUME IInv, QuietInv, NEW p \in Requests, Unlock(p)
    PROVE  QuietInv'
<1>1. /\ UNCHANGED <<header, durable, opened, snap>> /\ Goto(p, "open")
      /\ seqOf' = [seqOf EXCEPT ![p] = UpdateSeq(header)]
      /\ durable = header
  BY DEF Unlock, files, reads, QuietInv, IInv, ChainInv
<1>2. \A q \in Requests : pc'[q] \in {"install", "reopen", "unlock", "done"} => pc'[q] = pc[q]
  BY <1>1 DEF Goto, IInv, TypeOK
<1>3. UpdateSeq(header) \in Nat /\ UpdateSeq(snap) \in Nat /\ UpdateSeq(snap) <= UpdateSeq(header)
  BY WithinGrows DEF IInv, TypeOK, SnapshotInv
<1>4. ASSUME NEW q \in Requests, pc[q] = "install"
      PROVE  /\ UpdateSeq(opened[q]) \in Nat
             /\ UpdateSeq(opened[q]) <= UpdateSeq(header)
  BY <1>4, WithinGrows DEF IInv, TypeOK, SnapshotInv
<1>5. ASSUME NEW w \in QuietWrites, Released(w)'
      PROVE  /\ seqOf'[w] <= UpdateSeq(durable')
             /\ PastHas(snap, w)'
             /\ \A q \in Requests : pc'[q] = "install" => PastHas(opened[q], w)'
             /\ pc'[w] = "done" => seqOf'[w] <= UpdateSeq(snap')
  <2>1. CASE w = p
    <3>1. w \in Requests /\ seqOf'[w] = UpdateSeq(header) /\ pc'[w] = "open"
      BY <1>1, <2>1 DEF Goto, IInv, TypeOK
    <3>2. QED
      BY <1>1, <1>2, <1>3, <1>4, <3>1 DEF PastHas
  <2>2. CASE w # p
    <3>1. Released(w) /\ pc'[w] = pc[w] /\ seqOf'[w] = seqOf[w]
      BY <1>1, <1>5, <2>2 DEF Goto, IInv, TypeOK, Released, Requests, Writes
    <3>2. QED
      BY <1>1, <1>2, <3>1 DEF QuietInv, PastHas
  <2>3. QED
    BY <2>1, <2>2
<1>6. \A q \in Requests : pc'[q] \in {"reopen", "unlock"} => durable' = header'
  BY <1>1
<1>7. QED
  BY <1>5, <1>6 DEF QuietInv

\* What is opened is the file, which has every quiet write released so far.
LEMMA OpenSnapshotPreservesQuiet ==
    ASSUME IInv, QuietInv, NEW p \in Requests, OpenSnapshot(p)
    PROVE  QuietInv'
<1>1. /\ UNCHANGED <<header, durable, seqOf, snap>> /\ Goto(p, "install")
      /\ opened' = [opened EXCEPT ![p] = header]
      /\ pc[p] = "open"
  BY DEF OpenSnapshot, files, reads
<1>2. \A q \in Requests : q # p => pc'[q] = pc[q] /\ opened'[q] = opened[q]
  BY <1>1 DEF Goto, IInv, TypeOK
<1>3. opened'[p] = header /\ pc'[p] = "install"
  BY <1>1 DEF Goto, IInv, TypeOK
<1>4. ASSUME NEW w \in QuietWrites, Released(w)'
      PROVE  Released(w) /\ (pc'[w] = "done" => pc[w] = "done")
  BY <1>1, <1>2, <1>3, <1>4 DEF Released, Requests, Writes
<1>5. \A w \in QuietWrites : Released(w) => w \in header.quiet
  BY ReleasedIsWritten
<1>6. \A q \in Requests : pc'[q] \in {"reopen", "unlock"} => durable' = header'
  BY <1>1, <1>2, <1>3 DEF QuietInv
<1>7. QED
  BY <1>1, <1>2, <1>3, <1>4, <1>5, <1>6 DEF QuietInv, PastHas

\* The snapshot installed is the one there or the one opened, and not an
\* older one.
LEMMA InstallPreservesQuiet ==
    ASSUME IInv, QuietInv, NEW p \in Requests, Install(p)
    PROVE  QuietInv'
<1>1. /\ UNCHANGED <<header, durable, opened, seqOf>> /\ Goto(p, "notify")
      /\ pc[p] = "install"
  BY DEF Install, files
<1>2. /\ snap' \in {snap, opened[p]}
      /\ UpdateSeq(snap) \in Nat /\ UpdateSeq(snap') \in Nat
      /\ UpdateSeq(snap) <= UpdateSeq(snap')
  BY DEF Install, IInv, TypeOK, UpdateSeq, Contents
<1>3. \A q \in Requests : pc'[q] # "notify" => pc'[q] = pc[q]
  BY <1>1 DEF Goto, IInv, TypeOK
<1>4. ASSUME NEW w \in QuietWrites, Released(w)'
      PROVE  Released(w) /\ (pc'[w] = "done" => pc[w] = "done")
  BY <1>1, <1>3, <1>4 DEF Goto, IInv, TypeOK, Released, Requests, Writes
<1>5. \A w \in QuietWrites : seqOf[w] \in Nat
  BY DEF IInv, TypeOK, Requests, Writes
<1>6. QED
  BY <1>1, <1>2, <1>3, <1>4, <1>5 DEF QuietInv, PastHas

\* What is acknowledged has been installed.
LEMMA NotifyPreservesQuiet ==
    ASSUME IInv, QuietInv, NEW p \in Requests, Notify(p)
    PROVE  QuietInv'
<1>1. UNCHANGED <<header, durable, opened, seqOf, snap>> /\ Goto(p, "done")
      /\ pc[p] = "notify" /\ seqOf[p] <= UpdateSeq(snap)
  BY DEF Notify, files, IInv, RefreshInv
<1>2. \A q \in Requests : q # p => pc'[q] = pc[q]
  BY <1>1 DEF Goto, IInv, TypeOK
<1>3. pc'[p] = "done"
  BY <1>1 DEF Goto, IInv, TypeOK
<1>4. QED
  BY <1>1, <1>2, <1>3 DEF QuietInv, PastHas, Released, Requests, Writes

\* A restart serves a header that has every write it acknowledged.
LEMMA CrashPreservesQuiet ==
    ASSUME IInv, QuietInv, Crash
    PROVE  QuietInv'
<1>1. PICK h \in {durable, header} : header' = h /\ durable' = h /\ snap' = h
  BY DEF Crash
<1>2. UNCHANGED <<opened, seqOf>>
      /\ \A q \in Requests : pc'[q] \in {"new", "done", "failed"} /\ (pc'[q] = "done" => pc[q] = "done")
  BY DEF Crash, IInv, TypeOK
<1>3. ASSUME NEW w \in QuietWrites, Released(w)'
      PROVE  /\ Released(w) /\ w \in h.quiet /\ seqOf[w] <= UpdateSeq(h)
  <2>1. pc[w] = "done" /\ Released(w)
    BY <1>2, <1>3 DEF Released, Requests, Writes
  <2>2. /\ seqOf[w] \in Nat /\ UpdateSeq(durable) \in Nat /\ UpdateSeq(header) \in Nat
        /\ UpdateSeq(durable) <= UpdateSeq(header)
    BY WithinGrows DEF IInv, TypeOK, ChainInv, Requests, Writes
  <2>3. QED
    BY <1>1, <2>1, <2>2, ReleasedIsWritten DEF QuietInv
<1>4. QED
  BY <1>1, <1>2, <1>3 DEF QuietInv, PastHas

-----------------------------------------------------------------------------

\* Every step of the system preserves QuietInv.
LEMMA NextPreservesQuiet == IInv /\ QuietInv /\ [Next]_vars => QuietInv'
<1> SUFFICES ASSUME IInv, QuietInv, [Next]_vars PROVE QuietInv'
  OBVIOUS
<1>1. CASE Crash
  BY <1>1, CrashPreservesQuiet
<1>2. CASE \E p \in Requests : Arrive(p) \/ Step(p)
  <2> PICK p \in Requests : Arrive(p) \/ Step(p)
    BY <1>2
  <2>1. CASE Arrive(p) \/ Lock(p)
    BY <2>1, QuietStepsPreserve
  <2>2. CASE p \in Writes /\ WithWriter(p)
    BY <2>2, QuietStepsPreserve, HeaderPreservesQuiet DEF WithWriter
  <2>3. CASE p \in Compactions /\ RunCompaction(p)
    BY <2>3, QuietStepsPreserve, HeaderPreservesQuiet, ReopenPreservesQuiet DEF RunCompaction
  <2>4. CASE Unlock(p)
    BY <2>4, UnlockPreservesQuiet
  <2>5. CASE Refresh(p)
    BY <2>5, QuietStepsPreserve, OpenSnapshotPreservesQuiet, InstallPreservesQuiet,
       NotifyPreservesQuiet DEF Refresh
  <2>6. QED
    BY <2>1, <2>2, <2>3, <2>4, <2>5 DEF Step
<1>3. CASE UNCHANGED vars
  BY <1>3 DEF vars, files, reads, QuietInv, PastHas, Released
<1> QED
  BY <1>1, <1>2, <1>3 DEF Next

\* Nothing is written when a database is opened first.
LEMMA InitQuiet == Init => QuietInv
BY DEF Init, QuietInv, Released, Requests, Writes

\* state.rs:96 compares update seqs only, so a racing refresh may put back the
\* snapshot from before an acknowledged _local, _security or purge write; it is
\* gone at most until a snapshot of a later seq is read.
THEOREM QuietWritesDoReturn == Spec => []QuietWritesReturn
<1>1. IInv /\ QuietInv => QuietWritesReturn
  <2> SUFFICES ASSUME IInv, QuietInv, NEW w \in QuietWrites, pc[w] = "done", ~Has(snap, w)
               PROVE  UpdateSeq(snap) = seqOf[w]
    BY DEF QuietWritesReturn
  <2>1. seqOf[w] <= UpdateSeq(snap) /\ PastHas(snap, w)
    BY DEF QuietInv, Released
  <2>2. w \notin snap.quiet
    BY DEF Has
  <2>3. seqOf[w] \in Nat /\ UpdateSeq(snap) \in Nat
    BY DEF IInv, TypeOK, UpdateSeq, Contents, Requests, Writes
  <2>4. QED
    BY <2>1, <2>2, <2>3 DEF PastHas
<1>2. Spec => []QuietInv
  BY InitQuiet, NextPreservesQuiet, Invariant, PTL DEF Spec
<1>3. QED
  BY <1>1, <1>2, Invariant, PTL

-----------------------------------------------------------------------------
(* Numbers                                                                  *)

\* Every set of naturals has a least.
LEMMA MinExists ==
    ASSUME NEW S \in SUBSET Nat, S # {}
    PROVE  \E x \in S : \A y \in S : x <= y
<1>1. PICK x \in S : \A y \in S : ~(<<y, x>> \in OpToRel(<, Nat))
  BY WFMin, NatLessThanWellFounded
<1>2. \A y \in S : ~(y < x)
  BY <1>1 DEF OpToRel
<1>3. QED
  BY <1>2

\* So what follows for a number from all those below holds of every number.
LEMMA Inductive ==
    ASSUME NEW n \in Nat, NEW S,
           \A i \in 0..n : (\A j \in 0..n : j < i => j \in S) => i \in S
    PROVE  \A i \in 0..n : i \in S
<1> DEFINE T == {i \in 0..n : i \notin S}
<1> SUFFICES ASSUME T # {} PROVE FALSE
  OBVIOUS
<1>1. PICK i \in T : \A j \in T : i <= j
  <2>1. T \in SUBSET Nat
    OBVIOUS
  <2> HIDE DEF T
  <2>2. QED
    BY <2>1, MinExists
<1>2. \A j \in 0..n : j < i => j \in S
  BY <1>1
<1>3. QED
  BY <1>1, <1>2

\* A bounded set of naturals has a greatest.
LEMMA MaxIsGreatest ==
    ASSUME NEW n \in Nat, NEW S \in SUBSET (0..n), S # {}
    PROVE  Max(S) \in S /\ \A y \in S : y <= Max(S)
<1> DEFINE T == {n - x : x \in S}
<1>0. \A x \in S : n - x \in Nat
  OBVIOUS
<1>1. T \in SUBSET Nat /\ T # {}
  BY <1>0
<1>2. PICK t \in T : \A y \in T : t <= y
  BY <1>1, MinExists
<1>3. PICK x \in S : t = n - x
  BY <1>2
<1>4. \A y \in S : y <= x
  <2> TAKE y \in S
  <2>1. n - x <= n - y
    BY <1>2, <1>3
  <2>2. QED
    BY <2>1
<1>5. QED
  BY <1>4 DEF Max

\* q lists S in ascending order: what InOrder picks.
Orders(S, q) ==
    /\ q \in [1..Cardinality(S) -> S]
    /\ \A i, j \in 1..Cardinality(S) : i < j => q[i] < q[j]
    /\ \A x \in S : \E i \in 1..Cardinality(S) : q[i] = x

\* Every finite set of numbers has an order.
LEMMA InOrderOrders ==
    ASSUME NEW n \in Nat, NEW S \in SUBSET (1..n)
    PROVE  Orders(S, InOrder(S))
<1> DEFINE Orderly == {m \in 0..n : \A T \in SUBSET (1..m) : \E q : Orders(T, q)}
<1>1. ASSUME NEW m \in 0..n, \A j \in 0..n : j < m => j \in Orderly
      PROVE  m \in Orderly
  <2> SUFFICES ASSUME NEW T \in SUBSET (1..m) PROVE \E q : Orders(T, q)
    OBVIOUS
  <2>1. IsFiniteSet(T)
    <3>1. IsFiniteSet(1..m)
      BY FS_Interval
    <3>2. QED
      BY <3>1, FS_Subset
  <2>2. CASE T = {}
    <3>1. Cardinality(T) = 0
      BY <2>2, FS_EmptySet
    <3>2. Orders(T, [i \in 1..0 |-> 0])
      BY <2>2, <3>1 DEF Orders
    <3>3. QED
      BY <3>2
  <2>3. CASE m \notin T /\ T # {}
    <3>0. PICK x \in T : x \in 1..m
      BY <2>3
    <3>1. m - 1 \in 0..n /\ m - 1 < m /\ \A y \in T : y \in 1..(m - 1)
      BY <2>3, <3>0
    <3>2. m - 1 \in Orderly
      BY <1>1, <3>1
    <3>3. QED
      BY <3>1, <3>2
  <2>4. CASE m \in T
    <3> DEFINE U == T \ {m}
    <3>1. m - 1 \in 0..n /\ m - 1 < m /\ U \in SUBSET (1..(m - 1))
      BY <2>4
    <3>2. m - 1 \in Orderly
      BY <1>1, <3>1
    <3>3. PICK p : Orders(U, p)
      BY <3>1, <3>2
    <3>4. Cardinality(T) \in Nat /\ Cardinality(U) = Cardinality(T) - 1
          /\ Cardinality(U) \in Nat
      BY <2>1, <2>4, FS_RemoveElement, FS_CardinalityType, FS_Subset
    <3> DEFINE k == Cardinality(T)
               q == [i \in 1..k |-> IF i = k THEN m ELSE p[i]]
    <3>5. \A i \in 1..(k - 1) : p[i] \in U /\ p[i] < m
      <4>1. \A x \in U : x < m
        BY <3>1
      <4>2. p \in [1..(k - 1) -> U]
        BY <3>3, <3>4 DEF Orders
      <4>3. QED
        BY <4>1, <4>2
    <3>6. q \in [1..k -> T]
      BY <2>4, <3>4, <3>5
    <3>7. \A i, j \in 1..k : i < j => q[i] < q[j]
      <4> SUFFICES ASSUME NEW i \in 1..k, NEW j \in 1..k, i < j PROVE q[i] < q[j]
        OBVIOUS
      <4>1. i \in 1..(k - 1) /\ q[i] = p[i] /\ p[i] < m
        BY <3>4, <3>5
      <4>2. CASE j = k
        BY <4>1, <4>2
      <4>3. CASE j # k
        <5>1. j \in 1..(k - 1) /\ q[j] = p[j]
          BY <3>4, <4>3
        <5>2. QED
          BY <3>3, <3>4, <4>1, <5>1 DEF Orders
      <4>4. QED
        BY <4>2, <4>3
    <3>8. \A x \in T : \E i \in 1..k : q[i] = x
      <4> TAKE x \in T
      <4>1. CASE x = m
        <5>1. k \in 1..k /\ q[k] = m
          BY <3>4
        <5>2. QED
          BY <4>1, <5>1
      <4>2. CASE x # m
        <5>1. PICK i \in 1..(k - 1) : p[i] = x
          BY <4>2, <3>3, <3>4 DEF Orders
        <5>2. i \in 1..k /\ q[i] = x
          BY <3>4, <5>1
        <5>3. QED
          BY <5>2
      <4>3. QED
        BY <4>1, <4>2
    <3>9. Orders(T, q)
      BY <3>6, <3>7, <3>8 DEF Orders
    <3>10. QED
      BY <3>9
  <2>5. QED
    BY <2>2, <2>3, <2>4
<1>2. n \in Orderly
  <2> HIDE DEF Orderly
  <2>1. QED
    BY <1>1, Inductive
<1>3. \E q : Orders(S, q)
  BY <1>2
<1>4. QED
  BY <1>3 DEF Orders, InOrder

\* A function on 1..k is a sequence of length k.
LEMMA IsSequence ==
    ASSUME NEW T, NEW k \in Nat, NEW f \in [1..k -> T]
    PROVE  f \in Seq(T) /\ Len(f) = k
<1>1. f = [i \in 1..k |-> f[i]] /\ \A i \in 1..k : f[i] \in T
  OBVIOUS
<1>2. [i \in 1..k |-> f[i]] \in Seq(T)
  BY <1>1
<1>3. QED
  BY <1>1, <1>2

-----------------------------------------------------------------------------
(* Rows of a database                                                       *)

\* What a database wanted in a later state was wanted before, or is newer.
LEMMA WantedShrinks ==
    ASSUME NEW c \in Contents, NEW d \in Contents, Within(c, d),
           NEW i \in Wanted(d), i <= UpdateSeq(c)
    PROVE  i \in Wanted(c)
<1>1. /\ i \in 1..Len(d.log) /\ i \in 1..Len(c.log) /\ Len(c.log) <= Len(d.log)
      /\ \A j \in 1..Len(c.log) : c.log[j] = d.log[j]
      /\ Len(c.log) \in Nat /\ Len(d.log) \in Nat
  BY DEF Wanted, Rows, UpdateSeq, Within, LogWithin, Contents
<1>2. PurgedIn(c) \subseteq PurgedIn(d)
  BY DEF PurgedIn, Within
<1>3. c.log[i] \notin PurgedIn(c) /\ DocOf[c.log[i]] \notin Filtered
  BY <1>1, <1>2 DEF Wanted, Rows
<1>4. ASSUME NEW j \in (i + 1)..Len(c.log)
      PROVE  DocOf[c.log[j]] # DocOf[c.log[i]]
  <2>1. j \in 1..Len(c.log) /\ j \in (i + 1)..Len(d.log)
    BY <1>1
  <2>2. DocOf[d.log[j]] # DocOf[d.log[i]]
    BY <2>1 DEF Wanted, Rows, UpdateSeq
  <2>3. QED
    BY <1>1, <2>1, <2>2
<1>5. i \in Rows(c)
  <2>1. i \in 1..UpdateSeq(c)
    BY <1>1 DEF UpdateSeq
  <2>2. \A j \in (i + 1)..UpdateSeq(c) : DocOf[c.log[j]] # DocOf[c.log[i]]
    BY <1>4 DEF UpdateSeq
  <2>3. QED
    BY <1>3, <2>1, <2>2 DEF Rows
<1>6. QED
  BY <1>3, <1>5 DEF Wanted

\* Where a scan gets to: no further than the database goes, and past all it took.
LEMMA ScanEnds ==
    ASSUME NEW c \in Contents, NEW s \in Nat, s <= UpdateSeq(c), NEW n
    PROVE  /\ LastSeq(c, s, n) \in Nat /\ s <= LastSeq(c, s, n)
           /\ LastSeq(c, s, n) <= UpdateSeq(c)
           /\ Visited(c, s, n) \subseteq (s + 1)..LastSeq(c, s, n)
           /\ LastSeq(c, s, n) # s => LastSeq(c, s, n) \in Visited(c, s, n)
<1> DEFINE V == {s} \union Visited(c, s, n)
           u == UpdateSeq(c)
<1>1. u \in Nat
  BY DEF Contents, UpdateSeq
<1>2. Visited(c, s, n) \subseteq (s + 1)..u
  BY <1>1 DEF Visited, Rows
<1>3. V \in SUBSET (0..u) /\ V # {} /\ s \in V
  BY <1>1, <1>2
<1> HIDE DEF u, V
<1>4. Max(V) \in V /\ \A y \in V : y <= Max(V)
  BY <1>1, <1>3, MaxIsGreatest
<1>5. LastSeq(c, s, n) = Max(V)
  BY DEF LastSeq, V
<1>6. Max(V) \in Nat /\ Max(V) <= u /\ s <= Max(V)
  <2>1. Max(V) \in 0..u
    BY <1>3, <1>4
  <2>2. s <= Max(V)
    BY <1>3, <1>4
  <2> HIDE DEF V
  <2>3. QED
    BY <1>1, <2>1, <2>2
<1>7. \A y \in Visited(c, s, n) : y \in Nat /\ s < y /\ y <= Max(V)
  BY <1>1, <1>2, <1>4 DEF V
<1>8. Max(V) # s => Max(V) \in Visited(c, s, n)
  BY <1>4 DEF V
<1>9. QED
  BY <1>5, <1>6, <1>7, <1>8 DEF u

\* A scan leaves nothing out on its way.
LEMMA ScanIsComplete ==
    ASSUME NEW c \in Contents, NEW s \in Nat, s <= UpdateSeq(c), NEW n \in Int,
           NEW i \in Wanted(c), s < i, i <= LastSeq(c, s, n)
    PROVE  i \in Visited(c, s, n) \intersect Wanted(c)
<1> DEFINE m == LastSeq(c, s, n)
           Before(k) == {j \in Wanted(c) : s < j /\ j < k}
<1>1. m \in Nat /\ i \in Nat /\ i \in Rows(c) /\ UpdateSeq(c) \in Nat
  BY ScanEnds DEF Wanted, Rows, UpdateSeq, Contents
<1>2. m \in Visited(c, s, n)
  BY <1>1, ScanEnds
<1>3. Cardinality(Before(m)) < n
  BY <1>2 DEF Visited
<1>4. Before(i) \subseteq Before(m) /\ Before(m) \subseteq 1..UpdateSeq(c)
  BY <1>1 DEF Wanted, Rows
<1> HIDE DEF Before
<1>5. IsFiniteSet(1..UpdateSeq(c))
  BY <1>1, FS_Interval
<1>6. IsFiniteSet(Before(m))
  BY <1>4, <1>5, FS_Subset
<1>7. IsFiniteSet(Before(i)) /\ Cardinality(Before(i)) <= Cardinality(Before(m))
  BY <1>4, <1>6, FS_Subset
<1>8. Cardinality(Before(i)) \in Nat /\ Cardinality(Before(m)) \in Nat
  BY <1>6, <1>7, FS_CardinalityType
<1>9. Cardinality(Before(i)) < n
  BY <1>3, <1>7, <1>8
<1>10. QED
  BY <1>1, <1>9 DEF Visited, Before

\* The rows of s \o b go up from lo to hi.
Ascend(rows, lo, hi) ==
    /\ rows \in Seq(Nat)
    /\ \A k \in 1..Len(rows) : lo < rows[k] /\ rows[k] <= hi
    /\ \A j, k \in 1..Len(rows) : j < k => rows[j] < rows[k]

\* What a scan returns: what it visited and the client wants, in order.
LEMMA ScanIs ==
    ASSUME NEW c \in Contents, NEW s \in Nat, s <= UpdateSeq(c), NEW n
    PROVE  /\ Ascend(Scanned(c, s, n), s, LastSeq(c, s, n))
           /\ Range(Scanned(c, s, n)) = Visited(c, s, n) \intersect Wanted(c)
<1> DEFINE W == Visited(c, s, n) \intersect Wanted(c)
           u == UpdateSeq(c)
           q == InOrder(W)
           k == Cardinality(W)
<1>1. u \in Nat /\ W \in SUBSET (1..u) /\ W \subseteq (s + 1)..LastSeq(c, s, n)
      /\ LastSeq(c, s, n) \in Nat
  BY ScanEnds DEF Wanted, Rows, Contents, UpdateSeq
<1>2. Scanned(c, s, n) = q
  BY DEF Scanned
<1> HIDE DEF u, W
<1>3. Orders(W, q)
  BY <1>1, InOrderOrders
<1>4. IsFiniteSet(1..u)
  BY <1>1, FS_Interval
<1>5. k \in Nat
  BY <1>1, <1>4, FS_Subset, FS_CardinalityType
<1> HIDE DEF q, k
<1>6. q \in [1..k -> W] /\ (\A i, j \in 1..k : i < j => q[i] < q[j])
      /\ \A x \in W : \E i \in 1..k : q[i] = x
  BY <1>3 DEF Orders, k
<1>7. \A x \in W : x \in Nat /\ s < x /\ x <= LastSeq(c, s, n)
  BY <1>1
<1>8. q \in [1..k -> Nat]
  BY <1>6, <1>7
<1>9. q \in Seq(Nat) /\ Len(q) = k
  BY <1>5, <1>8, IsSequence
<1>10. Ascend(q, s, LastSeq(c, s, n))
  BY <1>6, <1>7, <1>9 DEF Ascend
<1>11. Range(q) = W
  BY <1>6 DEF Range
<1>12. QED
  BY <1>2, <1>10, <1>11 DEF W

-----------------------------------------------------------------------------
(* What has been sent and what is about to be                               *)

\* More rows after the last.
LEMMA Continues ==
    ASSUME NEW r, NEW b, NEW lo \in Nat, NEW mid \in Nat, NEW hi \in Nat,
           lo <= mid, mid <= hi, Ascend(r, lo, mid), Ascend(b, mid, hi)
    PROVE  Ascend(r \o b, lo, hi)
<1> DEFINE s == r \o b
<1>1. /\ r \in Seq(Nat) /\ b \in Seq(Nat) /\ Len(r) \in Nat /\ Len(b) \in Nat
      /\ s \in Seq(Nat) /\ Len(s) = Len(r) + Len(b)
      /\ \A k \in 1..Len(s) : s[k] = IF k <= Len(r) THEN r[k] ELSE b[k - Len(r)]
  BY DEF Ascend
<1> HIDE DEF s
<1>2. ASSUME NEW k \in 1..Len(s)
      PROVE  \/ k \in 1..Len(r) /\ s[k] = r[k]
             \/ k - Len(r) \in 1..Len(b) /\ s[k] = b[k - Len(r)]
  <2>1. s[k] = IF k <= Len(r) THEN r[k] ELSE b[k - Len(r)]
    BY <1>1
  <2>2. k \in Nat /\ 1 <= k /\ k <= Len(r) + Len(b) /\ Len(r) \in Nat /\ Len(b) \in Nat
    BY <1>1
  <2>3. CASE k <= Len(r)
    BY <2>1, <2>2, <2>3
  <2>4. CASE ~(k <= Len(r))
    <3>1. k - Len(r) \in 1..Len(b)
      BY <2>2, <2>4
    <3>2. QED
      BY <2>1, <2>4, <3>1
  <2>5. QED
    BY <2>3, <2>4
<1>3. /\ \A k \in 1..Len(r) : r[k] \in Nat /\ lo < r[k] /\ r[k] <= mid
      /\ \A k \in 1..Len(b) : b[k] \in Nat /\ mid < b[k] /\ b[k] <= hi
      /\ \A j, k \in 1..Len(r) : j < k => r[j] < r[k]
      /\ \A j, k \in 1..Len(b) : j < k => b[j] < b[k]
  BY DEF Ascend
<1>4. ASSUME NEW k \in 1..Len(s)
      PROVE  lo < s[k] /\ s[k] <= hi
  <2>1. CASE k \in 1..Len(r) /\ s[k] = r[k]
    BY <1>3, <2>1
  <2>2. CASE k - Len(r) \in 1..Len(b) /\ s[k] = b[k - Len(r)]
    BY <1>3, <2>2
  <2>3. QED
    BY <1>2, <2>1, <2>2
<1>5. ASSUME NEW j \in 1..Len(s), NEW k \in 1..Len(s), j < k
      PROVE  s[j] < s[k]
  <2>0. j \in Nat /\ k \in Nat /\ Len(r) \in Nat
    BY <1>1
  <2>1. CASE k <= Len(r)
    <3>1. j \in 1..Len(r) /\ k \in 1..Len(r) /\ s[j] = r[j] /\ s[k] = r[k]
      BY <1>1, <1>5, <2>0, <2>1
    <3>2. QED
      BY <1>3, <1>5, <3>1
  <2>2. CASE j <= Len(r) /\ k > Len(r)
    <3>1. j \in 1..Len(r) /\ s[j] = r[j] /\ k - Len(r) \in 1..Len(b) /\ s[k] = b[k - Len(r)]
      BY <1>1, <2>0, <2>2
    <3>2. s[j] \in Nat /\ s[k] \in Nat /\ s[j] <= mid /\ mid < s[k]
      BY <1>3, <3>1
    <3>3. QED
      BY <3>2
  <2>3. CASE j > Len(r)
    <3>1. ~(j <= Len(r)) /\ ~(k <= Len(r))
      BY <1>5, <2>0, <2>3
    <3>2. s[j] = b[j - Len(r)] /\ s[k] = b[k - Len(r)]
      BY <1>1, <3>1
    <3>3. j <= Len(r) + Len(b) /\ k <= Len(r) + Len(b) /\ Len(b) \in Nat
      BY <1>1
    <3>4. j - Len(r) \in 1..Len(b) /\ k - Len(r) \in 1..Len(b) /\ j - Len(r) < k - Len(r)
      BY <1>5, <2>0, <3>1, <3>3
    <3>5. QED
      BY <1>3, <3>2, <3>4
  <2>4. QED
    BY <2>0, <2>1, <2>2, <2>3
<1>6. QED
  BY <1>1, <1>4, <1>5 DEF Ascend, s

\* A longer way holds the rows of a shorter one.
LEMMA GoesFurther ==
    ASSUME NEW r, NEW lo \in Nat, NEW mid \in Nat, NEW hi \in Nat, mid <= hi, Ascend(r, lo, mid)
    PROVE  Ascend(r, lo, hi)
<1>1. \A k \in 1..Len(r) : r[k] \in Nat
  BY DEF Ascend
<1>2. QED
  BY <1>1 DEF Ascend

\* Sending a row moves it from the batch to what was sent.
LEMMA SendingMoves ==
    ASSUME NEW r \in Seq(Nat), NEW b \in Seq(Nat), b # <<>>
    PROVE  /\ Append(r, Head(b)) \in Seq(Nat) /\ Tail(b) \in Seq(Nat)
           /\ Append(r, Head(b)) \o Tail(b) = r \o b
           /\ Range(Append(r, Head(b))) \union Range(Tail(b)) = Range(r) \union Range(b)
<1>1. /\ Head(b) \in Nat /\ Tail(b) \in Seq(Nat) /\ Append(r, Head(b)) \in Seq(Nat)
      /\ Len(r) \in Nat /\ Len(b) \in Nat /\ Len(b) >= 1
      /\ Len(Tail(b)) = Len(b) - 1 /\ Head(b) = b[1]
      /\ \A k \in 1..(Len(b) - 1) : Tail(b)[k] = b[k + 1]
      /\ Len(Append(r, Head(b))) = Len(r) + 1
      /\ \A k \in 1..Len(r) : Append(r, Head(b))[k] = r[k]
      /\ Append(r, Head(b))[Len(r) + 1] = b[1]
  OBVIOUS
<1>2. Append(r, Head(b)) \o Tail(b) = r \o b
  <2> DEFINE x == Append(r, Head(b)) \o Tail(b)
             y == r \o b
  <2>1. x \in Seq(Nat) /\ y \in Seq(Nat) /\ Len(x) = Len(r) + Len(b) /\ Len(y) = Len(r) + Len(b)
    BY <1>1
  <2>2. ASSUME NEW k \in 1..(Len(r) + Len(b))
        PROVE  x[k] = y[k]
    <3>1. CASE k \in 1..Len(r)
      BY <1>1, <3>1
    <3>2. CASE k = Len(r) + 1
      BY <1>1, <3>2
    <3>3. CASE k > Len(r) + 1
      <4>1. k - (Len(r) + 1) \in 1..(Len(b) - 1) /\ k - Len(r) \in 1..Len(b)
        BY <1>1, <3>3
      <4>2. x[k] = Tail(b)[k - (Len(r) + 1)] /\ y[k] = b[k - Len(r)]
        BY <1>1, <3>3, <4>1
      <4>3. QED
        BY <1>1, <4>1, <4>2
    <3>4. QED
      BY <1>1, <3>1, <3>2, <3>3
  <2> HIDE DEF x, y
  <2>3. x = y
    BY <2>1, <2>2
  <2>4. QED
    BY <2>3 DEF x, y
<1>3. Range(Append(r, Head(b))) = Range(r) \union {b[1]}
  <2>1. DOMAIN Append(r, Head(b)) = 1..(Len(r) + 1) /\ DOMAIN r = 1..Len(r)
    BY <1>1
  <2>2. QED
    BY <1>1, <2>1 DEF Range
<1>4. Range(Tail(b)) \union {b[1]} = Range(b)
  <2>1. DOMAIN Tail(b) = 1..(Len(b) - 1) /\ DOMAIN b = 1..Len(b)
    BY <1>1
  <2>2. \A k \in 1..Len(b) : k = 1 \/ (k - 1 \in 1..(Len(b) - 1) /\ b[k] = Tail(b)[k - 1])
    BY <1>1
  <2>3. \A k \in 1..(Len(b) - 1) : k + 1 \in 1..Len(b) /\ Tail(b)[k] = b[k + 1]
    BY <1>1
  <2>4. Range(Tail(b)) = {Tail(b)[k] : k \in 1..(Len(b) - 1)} /\ Range(b) = {b[k] : k \in 1..Len(b)}
    BY <2>1 DEF Range
  <2>5. \A x \in Range(Tail(b)) : x \in Range(b)
    BY <2>3, <2>4
  <2>6. \A x \in Range(b) : x \in Range(Tail(b)) \/ x = b[1]
    BY <2>2, <2>4
  <2>7. b[1] \in Range(b)
    BY <1>1, <2>4
  <2>8. QED
    BY <2>5, <2>6, <2>7
<1>5. QED
  BY <1>1, <1>2, <1>3, <1>4

\* Nothing is in an empty batch.
LEMMA EmptyBatch ==
    Range(<<>>) = {} /\ <<>> \in Seq(Nat) /\ \A r \in Seq(Nat) : r \o <<>> = r /\ <<>> \o r = r
  BY DEF Range

\* A wanted row that lies ahead is not far from one that a scan returns.
LEMMA ScanFindsNews ==
    ASSUME NEW c \in Contents, NEW s \in Nat, NEW n \in Nat \ {0},
           NEW i \in Wanted(c), s < i
    PROVE  \E j \in Wanted(c) : j \in Visited(c, s, n)
<1> DEFINE Ahead == {j \in Wanted(c) : s < j}
<1>1. \A j \in Wanted(c) : j \in Nat /\ j \in Rows(c)
  BY DEF Wanted, Rows
<1>2. Ahead \in SUBSET Nat /\ Ahead # {}
  BY <1>1
<1>3. PICK m \in Ahead : \A j \in Ahead : m <= j
  <2> HIDE DEF Ahead
  <2>1. QED
    BY <1>2, MinExists
<1>4. m \in Wanted(c) /\ m \in Rows(c) /\ m \in Nat /\ m > s
  BY <1>1
<1>5. {j \in Wanted(c) : s < j /\ j < m} = {}
  <2> SUFFICES ASSUME NEW j \in Wanted(c), s < j, j < m PROVE FALSE
    OBVIOUS
  <2>1. m <= j /\ j \in Nat
    BY <1>1, <1>3
  <2>2. QED
    BY <1>4, <2>1
<1>6. Cardinality({j \in Wanted(c) : s < j /\ j < m}) = 0
  BY <1>5, FS_EmptySet
<1>7. Cardinality({j \in Wanted(c) : s < j /\ j < m}) < n
  BY <1>6
<1>8. QED
  BY <1>4, <1>7 DEF Visited

-----------------------------------------------------------------------------
(* A feed and the database under it                                         *)

\* What the feed reads is behind the file, and the watch behind what it reads.
LEMMA Behind ==
    ASSUME IInv
    PROVE  /\ header \in Contents /\ snap \in Contents /\ Within(snap, header)
           /\ UpdateSeq(snap) \in Nat /\ UpdateSeq(header) \in Nat
           /\ UpdateSeq(snap) <= UpdateSeq(header)
           /\ watch \in Nat /\ watch <= UpdateSeq(snap)
<1>1. header \in Contents /\ snap \in Contents /\ Within(snap, header)
      /\ watch \in Nat /\ watch <= UpdateSeq(snap)
  BY DEF IInv, TypeOK, SnapshotInv, WatchNeverAheadOfSnapshot
<1>2. QED
  BY <1>1, WithinGrows

\* The rows taken and the way they are of, in one.
LEMMA RowsAscend ==
    ASSUME FeedInv
    PROVE  Ascend(sent \o batch, start, since)
<1>1. sent \in Seq(Nat) /\ batch \in Seq(Nat)
  BY DEF FeedInv, FeedTypeOK
<1>2. sent \o batch \in Seq(Nat)
  BY <1>1
<1>3. QED
  BY <1>2 DEF FeedInv, FeedIsBehind, RowsExactlyOnce, RowsInOrder, Ascend

\* And back again.
LEMMA AscendingRows ==
    ASSUME Ascend(sent \o batch, start, since),
           start <= since, since <= UpdateSeq(snap), seen <= UpdateSeq(snap)
    PROVE  FeedIsBehind /\ RowsInOrder
BY DEF FeedIsBehind, RowsInOrder, Ascend

\* Whatever is written, purged or compacted under a feed leaves it right.
LEMMA DatabaseMovesOn ==
    ASSUME IInv, IInv', FeedInv, UNCHANGED feed,
           Within(header, header'), LogWithin(snap.log, snap'.log)
    PROVE  FeedInv'
<1>1. /\ UNCHANGED <<fpc, kind, start, since, batch, sent, seen>>
      /\ start \in Nat /\ since \in Nat /\ seen \in Nat
  BY DEF feed, FeedInv, FeedTypeOK
<1>2. /\ header \in Contents /\ header' \in Contents /\ UpdateSeq(header) \in Nat
      /\ UpdateSeq(snap) \in Nat /\ UpdateSeq(snap) <= UpdateSeq(header)
      /\ UpdateSeq(snap') \in Nat /\ UpdateSeq(snap) <= UpdateSeq(snap')
  <2>1. header' \in Contents /\ snap' \in Contents
    BY DEF IInv, TypeOK
  <2>2. UpdateSeq(snap') \in Nat
    BY <2>1 DEF Contents, UpdateSeq
  <2>3. QED
    BY <2>1, <2>2, Behind DEF LogWithin, UpdateSeq
<1>3. since <= UpdateSeq(snap) /\ seen <= UpdateSeq(snap)
  BY DEF FeedInv, FeedIsBehind
<1>4. \A i \in Wanted(header') : i <= since \/ i <= seen => i \in Wanted(header)
  <2> SUFFICES ASSUME NEW i \in Wanted(header'), i <= since \/ i <= seen
               PROVE  i \in Wanted(header)
    OBVIOUS
  <2>1. i \in Nat
    BY DEF Wanted, Rows
  <2>2. i <= UpdateSeq(header)
    BY <1>1, <1>2, <1>3, <2>1
  <2>3. QED
    BY <1>2, <2>2, WantedShrinks
<1>5. FeedTypeOK' /\ StepsOfItsKind'
  BY <1>1 DEF FeedInv, FeedTypeOK, StepsOfItsKind
<1>6. FeedIsBehind'
  BY <1>1, <1>2, <1>3 DEF FeedInv, FeedIsBehind
<1>7. RowsInOrder'
  BY <1>1 DEF FeedInv, RowsExactlyOnce, RowsInOrder
<1>8. NoRowSkipped'
  BY <1>1, <1>4 DEF FeedInv, RowsExactlyOnce, NoRowSkipped
<1>9. LongpollHasNews'
  BY <1>1, <1>4 DEF FeedInv, LongpollHasNews
<1>10. QED
  BY <1>5, <1>6, <1>7, <1>8, <1>9 DEF FeedInv, RowsExactlyOnce

\* A step by which the feed neither takes nor sends a row.
LEMMA FeedTurns ==
    ASSUME FeedInv, UNCHANGED <<vars, kind, start, since, batch, sent>>,
           fpc # "gone", FeedTypeOK', StepsOfItsKind', LongpollHasNews',
           seen' <= UpdateSeq(snap)
    PROVE  FeedInv'
<1>1. UNCHANGED <<header, snap>>
  BY DEF vars, files, reads
<1>2. FeedIsBehind'
  BY <1>1 DEF FeedInv, FeedIsBehind
<1>3. RowsInOrder'
  BY DEF FeedInv, RowsExactlyOnce, RowsInOrder
<1>4. NoRowSkipped'
  BY <1>1 DEF FeedInv, RowsExactlyOnce, NoRowSkipped
<1>5. QED
  BY <1>2, <1>3, <1>4 DEF FeedInv, RowsExactlyOnce

-----------------------------------------------------------------------------
(* The steps of a feed                                                      *)

\* A connection starts at a seq that its snapshot has.
LEMMA ConnectPreserves ==
    ASSUME IInv, FeedInv, Connect
    PROVE  FeedInv'
<1>1. /\ fpc = "off" /\ start' \in 0..UpdateSeq(snap) /\ since' = start' /\ kind' \in Kinds
      /\ UNCHANGED <<header, snap, batch, sent, seen>>
      /\ fpc' \in {"scan", "probe", "respond"}
      /\ fpc' = "scan" <=> kind' = "continuous"
      /\ fpc' = "probe" <=> kind' = "longpoll"
  BY FeedAssumption DEF Connect, vars, files, reads
<1>2. /\ sent = <<>> /\ batch = <<>> /\ seen \in Nat /\ seen <= UpdateSeq(snap)
      /\ UpdateSeq(snap) \in Nat
  BY <1>1, Behind DEF FeedInv, FeedTypeOK, StepsOfItsKind, FeedIsBehind
<1>3. FeedTypeOK'
  BY <1>1, <1>2, EmptyBatch DEF FeedTypeOK
<1>4. StepsOfItsKind'
  BY <1>1, <1>2 DEF StepsOfItsKind
<1>5. sent' \o batch' = <<>> /\ Len(sent' \o batch') = 0
  BY <1>1, <1>2
<1>6. FeedIsBehind' /\ RowsInOrder'
  BY <1>1, <1>2, <1>5 DEF FeedIsBehind, RowsInOrder
<1>7. NoRowSkipped'
  <2>1. \A i \in Wanted(header) : i \in Nat
    BY DEF Wanted, Rows
  <2>2. \A i \in Wanted(header) : ~(start' < i /\ i <= since')
    BY <1>1, <1>2, <2>1
  <2>3. QED
    BY <1>1, <2>2 DEF NoRowSkipped
<1>8. LongpollHasNews'
  BY <1>1 DEF LongpollHasNews
<1>9. QED
  BY <1>3, <1>4, <1>6, <1>7, <1>8 DEF FeedInv, RowsExactlyOnce

\* A scan takes up where the last one ended and passes no row by.
LEMMA ScanPreserves ==
    ASSUME IInv, FeedInv, Scan
    PROVE  FeedInv'
<1> DEFINE n == Least(Remaining, DrainBatch)
<1>1. /\ fpc = "scan" /\ fpc' = "send"
      /\ batch' = Scanned(snap, since, n) /\ since' = LastSeq(snap, since, n)
      /\ UNCHANGED <<header, snap, kind, start, sent, seen>>
  BY DEF Scan, vars, files, reads
<1>2. /\ batch = <<>> /\ kind = "continuous" /\ kind \in Kinds \union {"normal"}
      /\ sent \in Seq(Nat) /\ start \in Nat /\ since \in Nat /\ seen \in Nat
      /\ start <= since /\ since <= UpdateSeq(snap) /\ seen <= UpdateSeq(snap)
  BY <1>1 DEF FeedInv, FeedTypeOK, StepsOfItsKind, FeedIsBehind
<1>3. n \in Int
  <2>1. Len(sent) \in Nat
    BY <1>2
  <2>2. QED
    BY <2>1, FeedAssumption DEF Least, Remaining
<1> HIDE DEF n
<1>4. /\ header \in Contents /\ snap \in Contents /\ Within(snap, header)
      /\ UpdateSeq(snap) \in Nat
  BY Behind
<1>5. /\ since' \in Nat /\ since <= since' /\ since' <= UpdateSeq(snap)
  BY <1>1, <1>2, <1>4, ScanEnds
<1>6. Ascend(batch', since, since') /\ Range(batch') = Visited(snap, since, n) \intersect Wanted(snap)
  BY <1>1, <1>2, <1>4, ScanIs
<1>7. Ascend(sent, start, since)
  BY <1>2, RowsAscend, EmptyBatch
<1>8. Ascend(sent \o batch', start, since')
  BY <1>2, <1>5, <1>6, <1>7, Continues
<1>9. FeedTypeOK'
  BY <1>1, <1>2, <1>5, <1>6 DEF FeedTypeOK, Ascend
<1>10. StepsOfItsKind'
  BY <1>1, <1>2 DEF StepsOfItsKind
<1>11. FeedIsBehind' /\ RowsInOrder'
  <2>1. Ascend(sent' \o batch', start', since')
    BY <1>1, <1>8
  <2>2. start' <= since' /\ since' <= UpdateSeq(snap') /\ seen' <= UpdateSeq(snap')
    BY <1>1, <1>2, <1>5
  <2>3. QED
    BY <2>1, <2>2 DEF FeedIsBehind, RowsInOrder, Ascend
<1>12. NoRowSkipped'
  <2> SUFFICES ASSUME NEW i \in Wanted(header), start < i, i <= since'
               PROVE  i \in Range(sent) \union Range(batch')
    BY <1>1 DEF NoRowSkipped
  <2>1. i \in Nat
    BY DEF Wanted, Rows
  <2>2. CASE i <= since
    <3>1. i \in Range(sent) \union Range(batch)
      BY <1>1, <2>2 DEF FeedInv, RowsExactlyOnce, NoRowSkipped
    <3>2. QED
      BY <1>2, <3>1, EmptyBatch
  <2>3. CASE since < i
    <3>1. i <= UpdateSeq(snap)
      BY <1>4, <1>5, <2>1
    <3>2. i \in Wanted(snap)
      BY <1>4, <3>1, WantedShrinks
    <3>3. i \in Visited(snap, since, n) \intersect Wanted(snap)
      BY <1>1, <1>2, <1>3, <1>4, <2>3, <3>2, ScanIsComplete
    <3>4. QED
      BY <1>6, <3>3
  <2>4. QED
    BY <1>2, <2>1, <2>2, <2>3
<1>13. LongpollHasNews'
  BY <1>1 DEF LongpollHasNews
<1>14. QED
  BY <1>9, <1>10, <1>11, <1>12, <1>13 DEF FeedInv, RowsExactlyOnce

\* The rows of a batch are sent one by one.
LEMMA SendRowPreserves ==
    ASSUME IInv, FeedInv, SendRow
    PROVE  FeedInv'
<1>1. /\ fpc = "send" /\ batch # <<>>
      /\ sent' = Append(sent, Head(batch)) /\ batch' = Tail(batch)
      /\ UNCHANGED <<header, snap, fpc, kind, start, since, seen>>
  BY DEF SendRow, vars, files, reads
<1>2. sent \in Seq(Nat) /\ batch \in Seq(Nat) /\ kind = "continuous"
  BY <1>1 DEF FeedInv, FeedTypeOK, StepsOfItsKind
<1>3. /\ sent' \in Seq(Nat) /\ batch' \in Seq(Nat)
      /\ sent' \o batch' = sent \o batch
      /\ Range(sent') \union Range(batch') = Range(sent) \union Range(batch)
  BY <1>1, <1>2, SendingMoves
<1>4. FeedTypeOK'
  BY <1>1, <1>3 DEF FeedInv, FeedTypeOK
<1>5. StepsOfItsKind'
  BY <1>1, <1>2 DEF FeedInv, StepsOfItsKind
<1>6. FeedIsBehind'
  BY <1>1, <1>3 DEF FeedInv, FeedIsBehind
<1>7. RowsInOrder'
  BY <1>3 DEF FeedInv, RowsExactlyOnce, RowsInOrder
<1>8. NoRowSkipped'
  BY <1>1, <1>3 DEF FeedInv, RowsExactlyOnce, NoRowSkipped
<1>9. LongpollHasNews'
  BY <1>1 DEF LongpollHasNews
<1>10. QED
  BY <1>4, <1>5, <1>6, <1>7, <1>8, <1>9 DEF FeedInv, RowsExactlyOnce

\* The batch is empty: to the end, to the next scan or to the watch.
LEMMA DrainedPreserves ==
    ASSUME IInv, FeedInv, Drained
    PROVE  FeedInv'
<1>1. /\ fpc = "send" /\ batch = <<>> /\ fpc' \in {"ended", "scan", "check"}
      /\ UNCHANGED <<vars, kind, start, since, batch, sent, seen>>
  BY DEF Drained
<1>2. kind = "continuous" /\ seen <= UpdateSeq(snap)
  BY <1>1 DEF FeedInv, StepsOfItsKind, FeedIsBehind
<1>3. FeedTypeOK'
  BY <1>1 DEF FeedInv, FeedTypeOK
<1>4. StepsOfItsKind'
  BY <1>1, <1>2 DEF FeedInv, StepsOfItsKind
<1>5. LongpollHasNews'
  BY <1>1, <1>2 DEF LongpollHasNews
<1>6. QED
  BY <1>1, <1>2, <1>3, <1>4, <1>5, FeedTurns

\* The watch is never ahead of the snapshot that the feed will read.
LEMMA CheckPreserves ==
    ASSUME IInv, FeedInv, Check
    PROVE  FeedInv'
<1>1. /\ fpc = "check" /\ seen' = watch /\ fpc' \in {"wait", "scan", "respond"}
      /\ fpc' = "scan" => kind = "continuous"
      /\ fpc' = "respond" => kind # "continuous"
      /\ UNCHANGED <<vars, kind, start, since, batch, sent>>
  BY DEF Check
<1>2. watch \in Nat /\ watch <= UpdateSeq(snap)
  BY Behind
<1>3. FeedTypeOK'
  BY <1>1, <1>2 DEF FeedInv, FeedTypeOK
<1>4. StepsOfItsKind'
  BY <1>1 DEF FeedInv, StepsOfItsKind
<1>5. LongpollHasNews'
  BY <1>1 DEF LongpollHasNews
<1>6. QED
  BY <1>1, <1>2, <1>3, <1>4, <1>5, FeedTurns

\* A change or the timer wakes a feed.
LEMMA WakePreserves ==
    ASSUME IInv, FeedInv, Wake \/ Timeout
    PROVE  FeedInv'
<1>1. /\ fpc = "wait" /\ fpc' \in {"scan", "check", "respond", "ended"}
      /\ kind \in {"continuous", "longpoll"}
      /\ fpc' = "scan" => kind = "continuous"
      /\ fpc' \in {"check", "respond"} => kind = "longpoll"
      /\ fpc' = "ended" => kind = "continuous"
      /\ UNCHANGED <<vars, kind, start, since, batch, sent, seen>>
  BY FeedAssumption DEF Wake, Timeout, FeedInv, FeedTypeOK, StepsOfItsKind
<1>2. seen <= UpdateSeq(snap)
  BY DEF FeedInv, FeedIsBehind
<1>3. FeedTypeOK'
  BY <1>1 DEF FeedInv, FeedTypeOK
<1>4. StepsOfItsKind'
  BY <1>1 DEF FeedInv, StepsOfItsKind
<1>5. LongpollHasNews'
  BY <1>1 DEF LongpollHasNews
<1>6. QED
  BY <1>1, <1>2, <1>3, <1>4, <1>5, FeedTurns

\* The client goes, a scan fails, or a longpoll has looked for rows.
LEMMA LeavesPreserve ==
    ASSUME IInv, FeedInv, ClientGone \/ ScanFails \/ Probe
    PROVE  FeedInv'
<1>1. /\ fpc \in {"send", "wait", "respond", "scan", "probe"}
      /\ fpc' \in {"gone", "ended", "check", "respond"}
      /\ fpc' = "ended" => fpc = "scan"
      /\ fpc' \in {"check", "respond"} => fpc = "probe"
      /\ UNCHANGED <<vars, kind, start, since, batch, sent, seen>>
  BY DEF ClientGone, ScanFails, Probe
<1>2. seen <= UpdateSeq(snap)
  BY DEF FeedInv, FeedIsBehind
<1>3. fpc = "scan" => kind = "continuous"
  BY DEF FeedInv, StepsOfItsKind
<1>4. FeedTypeOK'
  BY <1>1 DEF FeedInv, FeedTypeOK
<1>5. StepsOfItsKind'
  BY <1>1 DEF FeedInv, StepsOfItsKind
<1>6. LongpollHasNews'
  BY <1>1, <1>3 DEF LongpollHasNews
<1>7. QED
  BY <1>1, <1>2, <1>4, <1>5, <1>6, FeedTurns

\* The answer of a normal feed or a longpoll is one scan of a snapshot that has
\* what the longpoll was woken for.
LEMMA RespondPreserves ==
    ASSUME IInv, FeedInv, Respond
    PROVE  FeedInv'
<1>1. /\ fpc = "respond" /\ fpc' = "ended"
      /\ sent' = Scanned(snap, since, Limit) /\ since' = LastSeq(snap, since, Limit)
      /\ UNCHANGED <<header, snap, kind, start, batch, seen>>
  BY DEF Respond, vars, files, reads
<1>2. /\ batch = <<>> /\ kind \in Kinds \union {"normal"}
      /\ start \in Nat /\ since = start /\ seen \in Nat
      /\ since <= UpdateSeq(snap) /\ seen <= UpdateSeq(snap)
  BY <1>1 DEF FeedInv, FeedTypeOK, StepsOfItsKind, FeedIsBehind
<1>3. /\ header \in Contents /\ snap \in Contents /\ Within(snap, header)
      /\ UpdateSeq(snap) \in Nat
  BY Behind
<1>4. Limit \in Nat \ {0} /\ Limit \in Int
  BY FeedAssumption
<1>5. since' \in Nat /\ start <= since' /\ since' <= UpdateSeq(snap)
  BY <1>1, <1>2, <1>3, ScanEnds
<1>6. Ascend(sent', start, since') /\ Range(sent') = Visited(snap, start, Limit) \intersect Wanted(snap)
  BY <1>1, <1>2, <1>3, ScanIs
<1>7. \A i \in Wanted(header) : i \in Nat /\ (i <= UpdateSeq(snap) => i \in Wanted(snap))
  <2>1. \A i \in Wanted(header) : i \in Nat
    BY DEF Wanted, Rows
  <2>2. QED
    BY <1>3, <2>1, WantedShrinks
<1>8. FeedTypeOK'
  BY <1>1, <1>2, <1>5, <1>6, EmptyBatch DEF FeedTypeOK, Ascend
<1>9. StepsOfItsKind'
  BY <1>1, <1>2 DEF StepsOfItsKind
<1>10. FeedIsBehind' /\ RowsInOrder'
  <2>1. sent' \o batch' = sent'
    BY <1>1, <1>2, <1>6, EmptyBatch DEF Ascend
  <2>2. Ascend(sent' \o batch', start', since')
    BY <1>1, <1>6, <2>1
  <2>3. start' <= since' /\ since' <= UpdateSeq(snap') /\ seen' <= UpdateSeq(snap')
    BY <1>1, <1>2, <1>5
  <2>4. QED
    BY <2>2, <2>3 DEF FeedIsBehind, RowsInOrder, Ascend
<1>11. NoRowSkipped'
  <2> SUFFICES ASSUME NEW i \in Wanted(header), start < i, i <= since'
               PROVE  i \in Range(sent')
    BY <1>1 DEF NoRowSkipped
  <2>1. i \in Wanted(snap)
    BY <1>3, <1>5, <1>7
  <2>2. i \in Visited(snap, start, Limit) \intersect Wanted(snap)
    BY <1>1, <1>2, <1>3, <1>4, <2>1, ScanIsComplete
  <2>3. QED
    BY <1>6, <2>2
<1>12. LongpollHasNews'
  <2> SUFFICES ASSUME sent' = <<>>, NEW i \in Wanted(header), start < i, i <= seen PROVE FALSE
    BY <1>1 DEF LongpollHasNews
  <2>1. i \in Wanted(snap)
    BY <1>2, <1>3, <1>7
  <2>2. \E j \in Wanted(snap) : j \in Visited(snap, start, Limit)
    BY <1>2, <1>3, <1>4, <2>1, ScanFindsNews
  <2>3. Range(sent') # {}
    BY <1>6, <2>2
  <2>4. QED
    BY <2>3, EmptyBatch
<1>13. QED
  BY <1>8, <1>9, <1>10, <1>11, <1>12 DEF FeedInv, RowsExactlyOnce

-----------------------------------------------------------------------------
(* The theorems                                                             *)

\* A feed starts with nothing sent and nothing to send.
LEMMA FeedStarts == FeedInit => IInv /\ FeedInv
<1> SUFFICES ASSUME FeedInit PROVE IInv /\ FeedInv
  OBVIOUS
<1>1. IInv
  BY InitInvariant DEF FeedInit
<1>2. /\ fpc = "off" /\ kind = "normal" /\ start = 0 /\ since = 0 /\ seen = 0
      /\ batch = <<>> /\ sent = <<>>
  BY DEF FeedInit
<1>3. UpdateSeq(snap) \in Nat
  BY <1>1, Behind
<1>4. FeedTypeOK /\ StepsOfItsKind
  BY <1>2, EmptyBatch DEF FeedTypeOK, StepsOfItsKind
<1>5. sent \o batch = <<>> /\ Len(sent \o batch) = 0
  BY <1>2
<1>6. FeedIsBehind /\ RowsInOrder
  BY <1>2, <1>3, <1>5 DEF FeedIsBehind, RowsInOrder
<1>7. NoRowSkipped
  <2>1. \A i \in Wanted(header) : i \in Nat
    BY DEF Wanted, Rows
  <2>2. QED
    BY <1>2, <2>1 DEF NoRowSkipped
<1>8. LongpollHasNews
  BY <1>2 DEF LongpollHasNews
<1>9. QED
  BY <1>1, <1>4, <1>6, <1>7, <1>8 DEF FeedInv, RowsExactlyOnce

\* Every step of the database, of the feed and of its client preserves both.
LEMMA FeedStepsPreserve == IInv /\ FeedInv /\ [FeedNext]_feedVars => IInv' /\ FeedInv'
<1> SUFFICES ASSUME IInv, FeedInv, [FeedNext]_feedVars PROVE IInv' /\ FeedInv'
  OBVIOUS
<1>1. ASSUME NEW p \in Requests, (MayArrive(p) /\ Arrive(p)) \/ Step(p), UNCHANGED feed
      PROVE  IInv' /\ FeedInv'
  <2>1. Arrive(p) \/ Step(p)
    BY <1>1
  <2>2. Next
    BY <2>1 DEF Next
  <2>3. IInv'
    BY <2>2, NextPreserves
  <2>4. LogWithin(snap.log, snap'.log) /\ Within(header, header')
    BY <2>1, RequestsExtend
  <2>5. QED
    BY <1>1, <2>3, <2>4, DatabaseMovesOn
<1>2. ASSUME UNCHANGED vars
      PROVE  IInv'
  BY <1>2, NextPreserves
<1>3. CASE UNCHANGED feedVars
  <2>1. UNCHANGED vars /\ UNCHANGED <<fpc, kind, start, since, batch, sent, seen>>
    BY <1>3 DEF feedVars, feed
  <2>2. UNCHANGED <<header, snap>>
    BY <2>1 DEF vars, files, reads
  <2>3. FeedInv'
    BY <2>1, <2>2 DEF FeedInv, FeedTypeOK, StepsOfItsKind, FeedIsBehind, RowsExactlyOnce,
          RowsInOrder, NoRowSkipped, LongpollHasNews
  <2>4. QED
    BY <1>2, <2>1, <2>3
<1>4. CASE DeleteDb
  <2>1. UNCHANGED vars /\ UNCHANGED <<fpc, kind, start, since, batch, sent, seen>>
    BY <1>4 DEF DeleteDb
  <2>2. UNCHANGED <<header, snap>>
    BY <2>1 DEF vars, files, reads
  <2>3. FeedInv'
    BY <2>1, <2>2 DEF FeedInv, FeedTypeOK, StepsOfItsKind, FeedIsBehind, RowsExactlyOnce,
          RowsInOrder, NoRowSkipped, LongpollHasNews
  <2>4. QED
    BY <1>2, <2>1, <2>3
<1>5. CASE Connect \/ FeedStep \/ Timeout \/ ClientGone \/ ScanFails
  <2>1. UNCHANGED vars
    BY <1>5 DEF Connect, FeedStep, Scan, SendRow, Drained, Check, Wake, Probe, Respond,
          Timeout, ClientGone, ScanFails
  <2>2. FeedInv'
    BY <1>5, ConnectPreserves, ScanPreserves, SendRowPreserves, DrainedPreserves, CheckPreserves,
       WakePreserves, LeavesPreserve, RespondPreserves DEF FeedStep
  <2>3. QED
    BY <1>2, <2>1, <2>2
<1>6. QED
  BY <1>1, <1>3, <1>4, <1>5 DEF FeedNext

\* What holds between a feed and the database it reads holds at all times.
THEOREM FeedInvariant == FeedSpec => [](IInv /\ FeedInv)
BY FeedStarts, FeedStepsPreserve, PTL DEF FeedSpec

\* Whatever is written, purged and compacted while a feed runs, it sends every
\* row from its start to where it has got, each once and in the order of the
\* seqs: it can be resumed from any seq that it gave out.
THEOREM EveryRowIsSentOnce == FeedSpec => []RowsExactlyOnce
<1>1. FeedInv => RowsExactlyOnce
  BY DEF FeedInv
<1>2. QED
  BY <1>1, FeedInvariant, PTL

\* A longpoll that was woken never answers that nothing happened.
THEOREM LongpollsHaveNews == FeedSpec => []LongpollHasNews
<1>1. FeedInv => LongpollHasNews
  BY DEF FeedInv
<1>2. QED
  BY <1>1, FeedInvariant, PTL

\* A feed of any kind sends all there is, once and in order, and something when it
\* was woken for it (api_changes.rs continuous, scan, stream_normal).
THEOREM FeedsAreRight == FeedSpec => []FeedIsRight
BY EveryRowIsSentOnce, LongpollsHaveNews, PTL DEF FeedIsRight
==============================================================================
