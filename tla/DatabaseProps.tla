--------------------------- MODULE DatabaseProps ---------------------------
(* What a database promises its clients, stated over Database.              *)
EXTENDS Database

\* Every variable holds what the server's types allow.
TypeOK ==
    /\ pc \in [Requests -> {"new", "lock", "apply", "header", "sync", "unlock",
                            "open", "install", "notify", "copy", "swap",
                            "reopen", "done", "failed"}]
    /\ holder \in Requests \union {Nobody}
    /\ writer \in BOOLEAN
    /\ mem \in Contents /\ header \in Contents /\ durable \in Contents
    /\ opened \in [Requests -> Contents]
    /\ seqOf \in [Requests -> Nat]
    /\ snap \in Contents
    /\ watch \in Nat

\* The log l is a beginning of the log m.
LogWithin(l, m) == Len(l) <= Len(m) /\ \A i \in 1..Len(l) : l[i] = m[i]

\* A changes feed woken for seq s (api_changes.rs waits on seq_rx and then
\* reads the snapshot) finds everything up to s in the snapshot: it is never
\* woken to an old snapshot and put back to sleep.
WatchNeverAheadOfSnapshot == watch <= UpdateSeq(snap)

\* An acknowledged document write is in every snapshot served from then on.
ReadYourDocWrites ==
    \A w \in DocWrites : pc[w] = "done" => Has(snap, w)

\* What was told of, to a client or to a feed, can be read from then on: an Ok or a
\* wake-up comes after the snapshot it is about (state.rs refresh).
ToldIsServed == WatchNeverAheadOfSnapshot /\ ReadYourDocWrites

\* An acknowledged write of either kind survives a crash at any moment.
AckedIsDurable ==
    \A w \in Writes : pc[w] = "done" => Has(durable, w) /\ Has(header, w)

\* A write whose caller got an error is never read.  No run checks it, for TLC
\* refutes it: what it did to the writer before it failed (state.rs:80) is
\* published by the next write that commits.
FailedWritesStayUnread ==
    \A w \in Writes : pc[w] = "failed" => ~Has(snap, w)

\* A consumer that has read the log up to a seq never has to read it again:
\* outside a crash, every later snapshot extends the ones before.
SnapshotsExtend ==
    [][Crash \/ LogWithin(snap.log, snap'.log)]_vars

\* state.rs:90: "only ever install a NEWER snapshot, or an acknowledged write
\* would disappear from reads until the next write lands".
ReadYourWrites ==
    \A w \in Writes : pc[w] = "done" => Has(snap, w)

\* What does hold of the quiet writes, which leave the update seq alone: one
\* that was acknowledged is missing only from a snapshot taken at the very seq
\* it was committed at, that is until the next document write is read.
QuietWritesReturn ==
    \A w \in QuietWrites :
        pc[w] = "done" /\ ~Has(snap, w) => UpdateSeq(snap) = seqOf[w]

-----------------------------------------------------------------------------
(* The inductive invariant behind WatchNeverAheadOfSnapshot,                *)
(* ReadYourDocWrites and AckedIsDurable.                                    *)

\* Later contents keep what earlier ones hold.
Within(a, b) == LogWithin(a.log, b.log) /\ a.quiet \subseteq b.quiet

Critical == {"apply", "header", "sync", "unlock", "copy", "swap", "reopen"}

\* Whoever is between Lock and its release holds the mutex.
MutexInv == \A p \in Requests : pc[p] \in Critical => holder = p

\* The slot is empty only for the holder that emptied it, or for everybody
\* after a failed reopen.
SlotInv ==
    \A p \in Requests :
        /\ pc[p] \in {"header", "sync", "unlock"} => writer
        /\ pc[p] \in {"swap", "reopen"} => ~writer
        /\ p \in Compactions => pc[p] \notin {"apply", "header", "sync"}

\* The disk, the file and the writer each hold what the one before holds.
ChainInv ==
    /\ Within(durable, header)
    /\ writer => Within(header, mem)
    /\ \A p \in Requests : pc[p] \in {"sync", "unlock"} => mem = header

\* The snapshots are contents of earlier headers.
SnapshotInv ==
    /\ Within(snap, header)
    /\ \A p \in Requests : pc[p] = "install" => Within(opened[p], header)

\* What a request that has released the lock still has to publish.
RefreshInv ==
    \A p \in Requests :
        /\ pc[p] = "open" => seqOf[p] <= UpdateSeq(header)
        /\ pc[p] = "install" => seqOf[p] <= UpdateSeq(opened[p])
        /\ pc[p] = "notify" => seqOf[p] <= UpdateSeq(snap)

\* Where a write is while its request advances.
WrittenInv ==
    \A w \in Writes :
        /\ pc[w] = "header" => Has(mem, w)
        /\ pc[w] \in {"sync", "unlock", "open", "install", "notify", "done"} => Has(header, w)
        /\ pc[w] \in {"unlock", "open", "install", "notify", "done"} => Has(durable, w)

PublishedInv ==
    \A w \in DocWrites :
        /\ pc[w] = "install" => Has(opened[w], w)
        /\ pc[w] \in {"notify", "done"} => Has(snap, w)

IInv ==
    /\ TypeOK /\ MutexInv /\ SlotInv /\ ChainInv /\ SnapshotInv /\ RefreshInv
    /\ WrittenInv /\ PublishedInv /\ WatchNeverAheadOfSnapshot

-----------------------------------------------------------------------------
(* What QuietWritesReturn needs beyond it.                                  *)

\* Contents of a later seq than a quiet write was committed at have the write.
PastHas(c, w) == UpdateSeq(c) > seqOf[w] => w \in c.quiet

\* A quiet write that is committed, from the moment its lock is released.
Released(w) == pc[w] \in {"open", "install", "notify", "done"}

QuietInv ==
    /\ \A p \in Requests : pc[p] \in {"reopen", "unlock"} => durable = header
    /\ \A w \in QuietWrites : Released(w) =>
          /\ seqOf[w] <= UpdateSeq(durable)
          /\ PastHas(snap, w)
          /\ \A p \in Requests : pc[p] = "install" => PastHas(opened[p], w)
          /\ pc[w] = "done" => seqOf[w] <= UpdateSeq(snap)
=============================================================================
