--------------------------- MODULE DocStoreProps ---------------------------
(* What the store promises its callers, stated over DocStore.               *)
EXTENDS DocStore

\* Every variable holds what the writer's types allow.
TypeOK ==
    /\ IsImage(work) /\ IsImage(written) /\ IsImage(disk) /\ IsImage(acked)
    /\ synced \in BOOLEAN /\ sound \in BOOLEAN /\ torn \in BOOLEAN
    /\ pc \in {"ready", "merging", "numbering", "purging", "idTree", "seqTree",
               "header", "sync"}
    /\ DOMAIN batch \subseteq Docs /\ batch = [d \in DOMAIN batch |-> batch[d]]
    /\ \A d \in DOMAIN batch : IsTree(batch[d])
    /\ order \in Seq(Docs)
    /\ touched \subseteq Docs
    /\ DOMAIN plan \subseteq Docs /\ plan = [d \in DOMAIN plan |-> plan[d]]
    /\ \A d \in DOMAIN plan :
          plan[d] = [tree |-> plan[d].tree, old |-> plan[d].old] /\ IsTree(plan[d].tree)
    /\ purged \subseteq Docs \X Revs

Images == {work, written, disk, acked}

\* The by-seq tree lists exactly the documents of the by-id tree, each once,
\* under its update seq and with the same revision tree.
Mirrors(h) ==
    /\ \A d \in Docs : Exists(h.ids[d]) =>
          LET s == DocSeq(h.ids[d])
          IN  s \in DOMAIN h.rows /\ h.rows[s] = [doc |-> d, tree |-> h.ids[d]]
    /\ \A s \in DOMAIN h.rows :
          Exists(h.ids[h.rows[s].doc]) /\ DocSeq(h.ids[h.rows[s].doc]) = s

\* Whatever header a reader opens, the changes feed and the documents agree:
\* no document is missing from the feed, listed twice or listed stale.  Only an
\* append that fails between the two trees (writer.rs:546) breaks this, and
\* compaction, which lists the by-id tree again, mends it.  (acked is no header:
\* it remembers what was acknowledged, torn or not.)
FeedMatchesDocs ==
    ~torn =>
        /\ Mirrors(written) /\ Mirrors(disk)
        /\ pc = "ready" => Mirrors(work)

\* No feed row lies beyond the update seq of its header, so a consumer that
\* reached update_seq has seen every row.
NoRowBeyondUpdateSeq ==
    \A h \in Images : \A s \in DOMAIN h.rows : s <= h.seq

\* A consumer of the feed, whichever header it reads, sees each document once and
\* has seen them all when it reaches update_seq (writer.rs run_batch, purge).
FeedIsExact == FeedMatchesDocs /\ NoRowBeyondUpdateSeq

\* A placeholder seq never reaches a btree.
NoPlaceholderWritten ==
    \A h \in Images : \A d \in Docs : \A r \in DOMAIN h.ids[d] :
        h.ids[d][r].seq # Pending /\ h.ids[d][r].seq <= h.seq

\* A leaf of the last image a commit acknowledged that was not purged is, in
\* every later image a reader or a restart can see, still a leaf or covered by an
\* edit made on it: no update, stemming, compaction or crash loses a revision.
\* Only a commit acknowledges: acked is what it was before a compaction, so what
\* the compaction leaves out is missed in the state it ends in.
Covers(t, l) == \E m \in Leaves(t) : l \in Path(m, Pos(m))

AckedRevisionsSurvive ==
    \A d \in Docs : \A l \in Leaves(acked.ids[d]) :
        \/ <<d, l>> \in purged
        \/ Covers(disk.ids[d], l) /\ Covers(written.ids[d], l)

\* Every leaf of every header stores a body to serve, compaction included.
LeafBodiesKept ==
    \A h \in Images : \A d \in Docs : WellFormed(h.ids[d])

\* Every tree of every header can be served and numbered: it has its bodies and
\* its seqs, whatever merged, stemmed, numbered or compacted it.
HeadersAreSound == TypeOK /\ LeafBodiesKept /\ NoPlaceholderWritten

\* An interactive save ends with no more leaves than it found (writer.rs:567:
\* "Never creates conflicts").
SaveNeverBranches ==
    [][\A d \in Docs, rev \in Revs \union {NoRev}, r \in Revs : \A n \in 1..Pos(r) :
         SaveDoc(d, rev, r, n) =>
            Cardinality(Leaves(batch'[d]))
               <= IF Exists(work.ids[d]) THEN Cardinality(Leaves(work.ids[d])) ELSE 1]_vars

\* The update seq only moves forward, except that a restart or a compaction
\* returns it to the newest header's: never below an acknowledged one.
AckedSeqNeverReused ==
    [][work'.seq >= work.seq \/ work'.seq >= acked.seq]_vars

\* A proto-native database stays one: "the flag lives in the header's props
\* slot and survives compaction" (writer.rs:910), and survives a crash.
NativeIsKept ==
    [][acked.native => \A h \in Images' : h.native]_vars

\* What a commit acknowledged of the header itself is kept by restarts and
\* compactions: a seq handed out is not handed out again, and proto stays proto.
AckedStateIsKept == AckedSeqNeverReused /\ NativeIsKept

-----------------------------------------------------------------------------
(* The inductive invariant.                                                 *)

SoundTree(t) == IsTree(t) /\ IsFiniteSet(DOMAIN t) /\ WellFormed(t)

SeqsOf(t) == {t[r].seq : r \in DOMAIN t} \ {Missing}

\* An image by itself: its bodies were stored under seqs it has handed out, each
\* to one document.
ImageIsSound(h) ==
    /\ \A d \in Docs : SoundTree(h.ids[d]) /\ SeqsOf(h.ids[d]) \subseteq 1..h.seq
    /\ \A d, e \in Docs : d # e => SeqsOf(h.ids[d]) \intersect SeqsOf(h.ids[e]) = {}
    /\ \A s \in DOMAIN h.rows : s <= h.seq

\* No leaf of a document's tree t is lost in its later tree u.
Outlived(d, t, u) == \A l \in Leaves(t) : <<d, l>> \in purged \/ Covers(u, l)

Succeeds(g, h) ==
    /\ g.seq <= h.seq /\ (g.native => h.native)
    /\ \A d \in Docs : Outlived(d, g.ids[d], h.ids[d])

\* Whatever is on the disk holds the last commit, whatever is in the file what is
\* on the disk, and the writer what is in the file.
ImagesSucceed == Succeeds(acked, disk) /\ Succeeds(disk, written) /\ Succeeds(written, work)

\* A header is only written over chunks that are on the disk.
HeadersReachDisk == sound /\ (pc = "header" => synced) /\ (pc = "sync" => written = work)

PurgedIsWhole == \A p \in purged : {p[1]} \X Path(p[2], Pos(p[2])) \subseteq purged

\* What a call has in hand.
CallIsSound ==
    /\ pc \notin {"merging", "numbering", "purging", "idTree", "seqTree"} => batch = NoBatch
    /\ pc \notin {"numbering", "purging", "idTree", "seqTree"} => plan = NoPlan
    /\ touched \subseteq DOMAIN batch
    /\ \A d \in DOMAIN batch : SoundTree(batch[d])
    /\ \A d \in DOMAIN plan :
          SoundTree(plan[d].tree) /\ SeqsOf(plan[d].tree) \subseteq 1..work.seq
    /\ pc \in {"merging", "numbering"} =>
          \A d \in DOMAIN batch : Outlived(d, work.ids[d], batch[d])
    /\ pc \in {"numbering", "purging", "idTree"} =>
          \A d \in DOMAIN plan :
             plan[d].old = OldSeq(d) /\ Outlived(d, work.ids[d], plan[d].tree)
    /\ pc = "seqTree" => \A d \in DOMAIN plan : work.ids[d] = plan[d].tree

\* The seqs a document has, or had before the call that is running.
Used(d) ==
    SeqsOf(work.ids[d])
      \union (IF d \in DOMAIN batch THEN SeqsOf(batch[d]) \ {Pending} ELSE {})
      \union (IF d \in DOMAIN plan THEN SeqsOf(plan[d].tree) \union ({plan[d].old} \ {NoOldSeq})
             ELSE {})

SeqsAreUsedOnce ==
    /\ \A d \in Docs : Used(d) \subseteq 1..work.seq
    /\ \A d, e \in Docs : d # e => Used(d) \intersect Used(e) = {}

\* The by-seq tree without the batch that the by-id tree already has.
MirrorsAround ==
    /\ \A d \in Docs \ DOMAIN plan : Exists(work.ids[d]) =>
          LET s == DocSeq(work.ids[d])
          IN  s \in DOMAIN work.rows /\ work.rows[s] = [doc |-> d, tree |-> work.ids[d]]
    /\ \A s \in DOMAIN work.rows :
          LET d == work.rows[s].doc
          IN  IF d \in DOMAIN plan THEN s = plan[d].old
              ELSE Exists(work.ids[d]) /\ DocSeq(work.ids[d]) = s

FeedIsKept ==
    ~torn =>
        /\ Mirrors(written) /\ Mirrors(disk)
        /\ IF pc = "seqTree" THEN MirrorsAround ELSE Mirrors(work)

IInv ==
    /\ TypeOK
    /\ \A h \in Images : ImageIsSound(h)
    /\ ImagesSucceed /\ HeadersReachDisk /\ PurgedIsWhole
    /\ CallIsSound /\ SeqsAreUsedOnce /\ FeedIsKept
=============================================================================
