------------------------------ MODULE DocStore ------------------------------
(***************************************************************************)
(* The writer of one .couch file (couch-store writer.rs) with the commit   *)
(* protocol, crashes and compaction.                                       *)
(*                                                                         *)
(* An Image is what a header reaches: the by-id tree, the by-seq tree, the *)
(* update seq, the local documents and the header's pointers.  work is the *)
(* DbWriter's in-memory image, written the newest header in the file, disk *)
(* the newest header that has certainly reached the disk.                  *)
(*                                                                         *)
(* One process drives the writer (the Database's mutex), so calls do not   *)
(* overlap; what interleaves with them is I/O failure, crash and restart.  *)
(***************************************************************************)
EXTENDS RevTree

CONSTANTS
    Docs,        \* document ids
    LocalIds,    \* ids of _local documents
    Securities,  \* _security objects
    NoSecurity,  \* the absent one
    IoErrors,    \* whether appends to a btree and fsync may fail
    MaxSeq,      \* bound on the update seq
    MaxBatch,    \* bound on the updates of one batch
    MaxLocalRev  \* bound on the revs of local documents

ASSUME BoundsAssumption ==
    /\ MaxSeq \in Nat
    /\ MaxBatch \in Nat \ {0}
    /\ MaxLocalRev \in Nat
    /\ IoErrors \in BOOLEAN
    /\ NoSecurity \in Securities

VARIABLES
    work,      \* DbWriter: id_root, seq_root, local_root, update_seq, pointers
    written,   \* the image of the newest header in the file
    disk,      \* the image of the newest header known to be on disk
    synced,    \* every chunk appended so far is on disk
    sound,     \* the chunks that written reaches were on disk before it
    pc,        \* where the running call is
    batch,     \* update_docs's by_id: the merged tree of each document touched
    order,     \* id_order: the documents touched and not yet numbered
    touched,   \* changed_ids: those whose tree changed
    plan,      \* the btree operations: per document its new tree and old seq
    acked,     \* ghost: the image of the last successful commit
    purged,    \* ghost: <<document, revision>> of the histories purge removed
    torn       \* ghost: a batch reached the by-id tree and not the by-seq tree

file == <<written, disk, synced, sound>>
call == <<batch, order, touched, plan>>
ghosts == <<acked, purged, torn>>
vars == <<work, file, pc, call, ghosts>>

IsImage(h) ==
    /\ h = [ids |-> h.ids, rows |-> h.rows, seq |-> h.seq, local |-> h.local,
            security |-> h.security, native |-> h.native]
    /\ h.ids = [d \in Docs |-> h.ids[d]] /\ \A d \in Docs : IsTree(h.ids[d])
    /\ h.rows = [s \in DOMAIN h.rows |-> h.rows[s]]
    /\ \A s \in DOMAIN h.rows :
          /\ s \in Nat
          /\ h.rows[s] = [doc |-> h.rows[s].doc, tree |-> h.rows[s].tree]
          /\ h.rows[s].doc \in Docs /\ IsTree(h.rows[s].tree)
    /\ h.seq \in Nat
    /\ h.local \in [LocalIds -> Nat]    \* 0: no such document
    /\ h.security \in Securities
    /\ h.native \in BOOLEAN

NoOldSeq == 0
NoRows == [s \in {} |-> [doc |-> s, tree |-> EmptyTree]]
NoPlan == [d \in {} |-> [tree |-> EmptyTree, old |-> NoOldSeq]]
NoBatch == [d \in {} |-> EmptyTree]

Exists(t) == DOMAIN t # {}

Init ==
    /\ work = [ids |-> [d \in Docs |-> EmptyTree], rows |-> NoRows, seq |-> 0,
               local |-> [l \in LocalIds |-> 0], security |-> NoSecurity,
               native |-> FALSE]
    /\ written = work /\ disk = work /\ acked = work
    /\ synced = TRUE /\ sound = TRUE
    /\ pc = "ready"
    /\ batch = NoBatch /\ order = <<>> /\ touched = {} /\ plan = NoPlan
    /\ purged = {} /\ torn = FALSE

-----------------------------------------------------------------------------
(* update_docs: merge every update, number the changed documents, then      *)
(* write the by-id and the by-seq tree.                                     *)

TreeInBatch(d) == IF d \in DOMAIN batch THEN batch[d] ELSE work.ids[d]

MergeInto(d, r, n) ==
    /\ batch' = [x \in DOMAIN batch \union {d} |->
                    IF x = d THEN Merge(TreeInBatch(d), r, n) ELSE batch[x]]
    /\ order' = IF d \in DOMAIN batch THEN order ELSE Append(order, d)
    /\ touched' = IF MergeChanges(TreeInBatch(d), r, n)
                  THEN touched \union {d} ELSE touched
    /\ synced' = FALSE

UpdateOne(d, r, n) ==
    /\ pc \in {"ready", "merging"}
    /\ Cardinality(DOMAIN batch \union {d}) <= MaxBatch
    /\ work.seq + Cardinality(DOMAIN batch \union {d}) <= MaxSeq
    /\ pc' = "merging"
    /\ MergeInto(d, r, n)
    /\ UNCHANGED <<work, written, disk, sound, plan, ghosts>>

\* A rev position shorter than its history, or a failed append, ends the call
\* with nothing but unreachable chunks in the file.
RejectBatch ==
    /\ pc = "merging"
    /\ pc' = "ready"
    /\ batch' = NoBatch /\ order' = <<>> /\ touched' = {}
    /\ UNCHANGED <<work, file, plan, ghosts>>

BatchRead ==
    /\ pc = "merging"
    /\ pc' = "numbering"
    /\ UNCHANGED <<work, file, call, ghosts>>

OldSeq(d) == IF Exists(work.ids[d]) THEN DocSeq(work.ids[d]) ELSE NoOldSeq

Planned(d, t) ==
    [x \in DOMAIN plan \union {d} |->
        IF x = d THEN [tree |-> t, old |-> OldSeq(d)] ELSE plan[x]]

\* Mutant of NumberDoc: the update seq is handed out but not advanced.
NumberDocInPlace ==
    /\ pc = "numbering"
    /\ order # <<>>
    /\ plan' = IF Head(order) \in touched
               THEN Planned(Head(order), AssignPending(batch[Head(order)], work.seq + 1))
               ELSE plan
    /\ order' = Tail(order)
    /\ UNCHANGED <<work, file, pc, batch, touched, ghosts>>

NumberDoc ==
    /\ pc = "numbering"
    /\ order # <<>>
    /\ LET d == Head(order)
       IN  IF d \in touched
           THEN /\ work' = [work EXCEPT !.seq = @ + 1]
                /\ plan' = Planned(d, AssignPending(batch[d], work.seq + 1))
           ELSE UNCHANGED <<work, plan>>
    /\ order' = Tail(order)
    /\ UNCHANGED <<file, pc, batch, touched, ghosts>>

BatchNumbered ==
    /\ pc = "numbering"
    /\ order = <<>>
    /\ pc' = "idTree"
    /\ UNCHANGED <<work, file, call, ghosts>>

-----------------------------------------------------------------------------
(* save_doc and save_proto_doc: check the rev, then update_docs with the    *)
(* one new edit.                                                            *)

NoRev == 0

\* The leaf an edit on rev extends; none when the edit is a conflict, which
\* changes nothing.
EditParents(d, rev) ==
    LET t == work.ids[d]
    IN  IF rev # NoRev THEN {rev} \intersect Leaves(t)
        ELSE IF Exists(t) /\ IsDeleted(t, Winner(t)) THEN {Winner(t)}
        ELSE {}

\* Mutant of NewEdit: the edit does not carry its parent's path.
NewEditAlone(d, rev, r, n) ==
    \/ ~Exists(work.ids[d]) /\ rev = NoRev /\ Pos(r) = 1 /\ n = 1
    \/ \E parent \in EditParents(d, rev) :
          Pos(r) > 1 /\ History[r][2] = parent /\ n = 1

\* A new document starts a history; any other edit extends its parent's path
\* as far as the tree remembers it.
NewEdit(d, rev, r, n) ==
    \/ /\ ~Exists(work.ids[d]) /\ rev = NoRev
       /\ Pos(r) = 1 /\ n = 1
    \/ \E parent \in EditParents(d, rev) :
          /\ Pos(r) > 1 /\ History[r][2] = parent
          /\ n = PathLen(work.ids[d], parent) + 1

SaveDoc(d, rev, r, n) ==
    /\ pc = "ready"
    /\ work.seq < MaxSeq
    /\ NewEdit(d, rev, r, n)
    /\ pc' = "numbering"
    /\ MergeInto(d, r, n)
    /\ UNCHANGED <<work, written, disk, sound, plan, ghosts>>

-----------------------------------------------------------------------------
(* purge_docs                                                               *)

PurgeDoc(d, revs) ==
    LET t    == work.ids[d]
        gone == Leaves(t) \intersect revs
        kept == RemoveLeaves(t, revs)
    IN  /\ pc \in {"ready", "purging"}
        /\ d \notin DOMAIN plan
        /\ work.seq < MaxSeq
        /\ gone # {}
        /\ pc' = "purging"
        /\ IF Exists(kept)
           THEN /\ work' = [work EXCEPT !.seq = @ + 1]
                /\ plan' = Planned(d, SetLeafSeq(kept, Winner(kept), work.seq + 1))
           ELSE /\ plan' = Planned(d, EmptyTree)
                /\ UNCHANGED work
        /\ purged' = purged \union UNION {{d} \X Path(l, Pos(l)) : l \in gone}
        /\ UNCHANGED <<file, batch, order, touched, acked, torn>>

PurgeRead ==
    /\ pc = "purging"
    /\ pc' = "idTree"
    /\ UNCHANGED <<work, file, call, ghosts>>

-----------------------------------------------------------------------------
(* add_remove on the two trees                                              *)

WriteIdTree ==
    /\ pc = "idTree"
    /\ pc' = "seqTree"
    /\ work' = [work EXCEPT !.ids = [d \in Docs |->
                    IF d \in DOMAIN plan THEN plan[d].tree ELSE @[d]]]
    /\ synced' = FALSE
    /\ UNCHANGED <<written, disk, sound, call, ghosts>>

\* Mutant of RemovedSeqs: the row of a document purged entirely stays.
ReplacedSeqs == {plan[d].old : d \in {x \in DOMAIN plan : Exists(plan[x].tree)}}

RemovedSeqs == {plan[d].old : d \in DOMAIN plan}

WriteSeqTree ==
    LET inserted == {d \in DOMAIN plan : Exists(plan[d].tree)}
        seqs     == {DocSeq(plan[d].tree) : d \in inserted}
        row(s)   == LET d == CHOOSE d \in inserted : DocSeq(plan[d].tree) = s
                    IN  [doc |-> d, tree |-> plan[d].tree]
    IN  /\ pc = "seqTree"
        /\ pc' = "ready"
        /\ work' = [work EXCEPT !.rows =
                      [s \in (DOMAIN @ \ RemovedSeqs) \union seqs |->
                          IF s \in seqs THEN row(s) ELSE @[s]]]
        /\ synced' = FALSE
        /\ batch' = NoBatch /\ order' = <<>> /\ touched' = {} /\ plan' = NoPlan
        /\ UNCHANGED <<written, disk, sound, ghosts>>

\* A tree cannot be appended: the call returns the error and what it did to
\* the writer so far stays there.
TreeWriteFails ==
    /\ IoErrors
    /\ pc \in {"idTree", "seqTree"}
    /\ pc' = "ready"
    /\ batch' = NoBatch /\ order' = <<>> /\ touched' = {} /\ plan' = NoPlan
    /\ synced' = FALSE
    /\ torn' = (torn \/ pc = "seqTree")
    /\ UNCHANGED <<work, written, disk, sound, acked, purged>>

-----------------------------------------------------------------------------
(* update_local, set_security, mark_proto_native                            *)

\* Mutant of UpdateLocal: the rev is taken before it is advanced.
UpdateLocalAtRev(l, rev) ==
    /\ pc = "ready"
    /\ work' = [work EXCEPT !.local[l] = rev - 1]
    /\ synced' = FALSE
    /\ UNCHANGED <<written, disk, sound, pc, call, ghosts>>

\* The client's rev is not compared with the stored one: rev 0 deletes the
\* document, any other is what the client sent plus one.
UpdateLocal(l, rev) ==
    /\ pc = "ready"
    /\ work' = [work EXCEPT !.local[l] = rev]
    /\ synced' = FALSE
    /\ UNCHANGED <<written, disk, sound, pc, call, ghosts>>

SetSecurity(s) ==
    /\ pc = "ready"
    /\ work' = [work EXCEPT !.security = s]
    /\ synced' = FALSE
    /\ UNCHANGED <<written, disk, sound, pc, call, ghosts>>

MarkProtoNative ==
    /\ pc = "ready"
    /\ work' = [work EXCEPT !.native = TRUE]
    /\ synced' = FALSE
    /\ UNCHANGED <<written, disk, sound, pc, call, ghosts>>

-----------------------------------------------------------------------------
(* commit: fsync, header, fsync                                             *)

\* Mutant of SyncData: the header is written without the first fsync.
SkipSyncData ==
    /\ pc = "ready"
    /\ pc' = "header"
    /\ UNCHANGED <<work, file, call, ghosts>>

SyncData ==
    /\ pc = "ready"
    /\ pc' = "header"
    /\ synced' = TRUE /\ sound' = TRUE
    /\ disk' = written
    /\ UNCHANGED <<work, written, call, ghosts>>

WriteHeader ==
    /\ pc = "header"
    /\ pc' = "sync"
    /\ written' = work
    /\ sound' = synced
    /\ UNCHANGED <<work, disk, synced, call, ghosts>>

SyncHeader ==
    /\ pc = "sync"
    /\ pc' = "ready"
    /\ disk' = written /\ sound' = TRUE
    /\ acked' = work
    /\ UNCHANGED <<work, written, synced, call, purged, torn>>

\* The header cannot be written or synced: the caller gets the error, the
\* header may or may not be in the file.
CommitFails ==
    /\ IoErrors
    /\ pc \in {"header", "sync"}
    /\ pc' = "ready"
    /\ UNCHANGED <<work, file, call, ghosts>>

-----------------------------------------------------------------------------
(* open after a crash; compact                                              *)

\* A header that reached the disk before the chunks it points to.
Unreadable(h) ==
    [h EXCEPT !.ids = [d \in Docs |-> EmptyTree], !.rows = NoRows]

Reopen(h) ==
    /\ work' = h /\ written' = h /\ disk' = h
    /\ synced' = TRUE /\ sound' = TRUE
    /\ pc' = "ready"
    /\ batch' = NoBatch /\ order' = <<>> /\ touched' = {} /\ plan' = NoPlan

\* read_header finds the newest header that made it: the last synced one, or
\* the one being written.
Crash ==
    /\ \/ Reopen(disk)
       \/ Reopen(IF sound THEN written ELSE Unreadable(written))
    /\ UNCHANGED ghosts

\* Mutant of CompactTree: only the winner's body is copied.
CompactToWinner(t) ==
    [r \in DOMAIN t |-> IF r = Winner(t) THEN t[r] ELSE [t[r] EXCEPT !.seq = Missing]]

\* copy_node: a branch node's body is not copied.
CompactTree(t) ==
    [r \in DOMAIN t |->
        IF r \in Leaves(t) THEN t[r] ELSE [t[r] EXCEPT !.seq = Missing]]

\* Mutant of Compacted: the props pointer is not copied.
CompactedWithoutProps(h) ==
    LET docs == {d \in Docs : Exists(h.ids[d])}
        ids  == [d \in Docs |-> CompactTree(h.ids[d])]
    IN  [h EXCEPT
           !.native = FALSE,
           !.ids = ids,
           !.rows = [s \in {DocSeq(h.ids[d]) : d \in docs} |->
                       LET d == CHOOSE d \in docs : DocSeq(h.ids[d]) = s
                       IN  [doc |-> d, tree |-> ids[d]]]]

\* Mutant of Compacted: the update seq is that of the newest row.
CompactedToNewestRow(h) ==
    LET docs == {d \in Docs : Exists(h.ids[d])}
        ids  == [d \in Docs |-> CompactTree(h.ids[d])]
        seqs == {DocSeq(h.ids[d]) : d \in docs}
    IN  [h EXCEPT
           !.seq = IF seqs = {} THEN 0 ELSE CHOOSE s \in seqs : \A q \in seqs : q <= s,
           !.ids = ids,
           !.rows = [s \in seqs |->
                       LET d == CHOOSE d \in docs : DocSeq(h.ids[d]) = s
                       IN  [doc |-> d, tree |-> ids[d]]]]

\* Mutant of Compacted: a deleted document is taken for gone.
CompactedWithoutDeleted(h) ==
    LET docs == {d \in Docs : Exists(h.ids[d]) /\ ~IsDeleted(h.ids[d], Winner(h.ids[d]))}
        ids  == [d \in Docs |-> IF d \in docs THEN CompactTree(h.ids[d]) ELSE EmptyTree]
    IN  [h EXCEPT
           !.ids = ids,
           !.rows = [s \in {DocSeq(h.ids[d]) : d \in docs} |->
                       LET d == CHOOSE d \in docs : DocSeq(h.ids[d]) = s
                       IN  [doc |-> d, tree |-> ids[d]]]]

\* The by-seq tree is rebuilt from the by-id tree.
Compacted(h) ==
    LET docs == {d \in Docs : Exists(h.ids[d])}
        ids  == [d \in Docs |-> CompactTree(h.ids[d])]
    IN  [h EXCEPT
           !.ids = ids,
           !.rows = [s \in {DocSeq(h.ids[d]) : d \in docs} |->
                       LET d == CHOOSE d \in docs : DocSeq(h.ids[d]) = s
                       IN  [doc |-> d, tree |-> ids[d]]]]

\* The writer is closed, the file its newest header describes is copied and
\* swapped in, and the writer is opened again; changes never committed are
\* gone.  A compaction acknowledges nothing: acked stays what it was.
Compact ==
    /\ pc = "ready"
    /\ Reopen(Compacted(written))
    /\ torn' = FALSE
    /\ UNCHANGED <<acked, purged>>

CompactFails ==
    /\ IoErrors
    /\ pc = "ready"
    /\ work' = written
    /\ UNCHANGED <<file, pc, call, ghosts>>

-----------------------------------------------------------------------------
Next ==
    \/ \E d \in Docs, r \in Revs : \E n \in 1..Pos(r) : UpdateOne(d, r, n)
    \/ RejectBatch
    \/ BatchRead
    \/ NumberDoc
    \/ BatchNumbered
    \/ \E d \in Docs, rev \in Revs \union {NoRev}, r \in Revs :
          \E n \in 1..Pos(r) : SaveDoc(d, rev, r, n)
    \/ \E d \in Docs : \E revs \in SUBSET Leaves(work.ids[d]) : PurgeDoc(d, revs)
    \/ PurgeRead
    \/ WriteIdTree
    \/ WriteSeqTree
    \/ TreeWriteFails
    \/ \E l \in LocalIds, rev \in 0..MaxLocalRev : UpdateLocal(l, rev)
    \/ \E s \in Securities : SetSecurity(s)
    \/ MarkProtoNative
    \/ SyncData
    \/ WriteHeader
    \/ SyncHeader
    \/ CommitFails
    \/ Crash
    \/ Compact
    \/ CompactFails

Spec == Init /\ [][Next]_vars
=============================================================================
