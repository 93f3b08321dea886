----------------------------- MODULE IndexFile -----------------------------
(* The Mango indexes of one database: couch-index/src/index.rs and ddoc.rs *)
(* under the requests of couch-http/src/api_mango.rs and the purge of      *)
(* api_db.rs.  An index is a file of its own, brought up to date from the  *)
(* changes of the database by the query that uses it.                      *)
(*                                                                         *)
(* A request takes the index lock, works on a snapshot of the store and on *)
(* its own copy of the roots of the file, and publishes them with a header.*)
(* The scan runs after the lock is dropped, on that snapshot and those     *)
(* roots: both files are append-only.                                      *)
EXTENDS Integers, SequencesExt

CONSTANTS
  Ids,        \* ids of documents
  Defs,       \* index definitions; each lives in a design document
  Order,      \* definition -> its place in the order of names
  Predefined, \* definitions a database copied in with its files starts with
  Bodies,     \* what a document may hold
  KeyOf,      \* definition -> body -> {}, or {key} if the index has a row for it
  Deleted, Ddoc,
  Procs,      \* requests in flight
  Free,       \* nobody holds the index lock
  BATCH,      \* changes applied at a time
  MaxSeq      \* a bound of the model: the last seq of each database in turn

ASSUME IndexAssumption ==
  /\ BATCH \in Nat \ {0} /\ MaxSeq \in Seq(Nat)
  /\ Ids \cap Defs = {} /\ Predefined \subseteq Defs
  /\ Deleted \notin Bodies /\ Ddoc \in Bodies /\ Free \notin Procs
  /\ IsFiniteSet(Ids) /\ IsFiniteSet(Defs)
  /\ Order \in [Defs -> Nat] /\ \A d, e \in Defs : Order[d] = Order[e] => d = e

VARIABLES
  docs,       \* id or definition -> leaves, the winner first
  row,        \* id or definition -> seq of its row in the changes
  seq,        \* update_seq of the store
  uuid,       \* which database this is
  files,      \* definition -> index file [uuid, seq, keys, ids]
  lock,       \* index_lock
  reqs        \* requests

vars == <<docs, row, seq, uuid, files, lock, reqs>>

Keys == Ids \cup Defs     \* of the changes feed

Live(leaves) == leaves # <<>> /\ Head(leaves) # Deleted
KeysOf(d, leaves) == IF Live(leaves) THEN KeyOf[d][Head(leaves)] ELSE {}

Declared == {d \in Defs : Live(docs[d])}
Known == Declared \cup DOMAIN files

File(keys, ids, s) == [uuid |-> uuid, seq |-> s, keys |-> keys, ids |-> ids]
NewFile == File({}, [k \in Keys |-> {}], 0)
Idle == [pc |-> "idle"]

Init ==
  /\ docs = [k \in Keys |-> IF k \in Predefined THEN <<Ddoc>> ELSE <<>>]
  /\ row = [k \in Keys |-> IF k \notin Predefined THEN 0
                            ELSE Cardinality({d \in Predefined : Order[d] <= Order[k]})]
  /\ seq = Cardinality(Predefined)
  /\ uuid = 1
  /\ files = <<>>
  /\ lock = Free
  /\ reqs = [p \in Procs |-> Idle]

---------------------------------------------------------------------------
(* Writes of the store: every one is given the next seq.                   *)
Store(k, leaves) ==
  /\ seq < MaxSeq[uuid]
  /\ docs' = [docs EXCEPT ![k] = leaves]
  /\ row' = [row EXCEPT ![k] = seq + 1]
  /\ seq' = seq + 1

Put(id, b) ==
  /\ Store(id, <<b>> \o IF docs[id] = <<>> THEN <<>> ELSE Tail(docs[id]))
  /\ UNCHANGED <<uuid, files, lock, reqs>>

(* The next leaf wins, unless it is a tombstone too.                       *)
Delete(id) ==
  /\ Live(docs[id])
  /\ Store(id, Append(Tail(docs[id]), Deleted))
  /\ UNCHANGED <<uuid, files, lock, reqs>>

(* A replicated conflict: it may win or lose.                              *)
AddConflict(id, b) ==
  /\ Live(docs[id]) /\ Len(docs[id]) = 1
  /\ \/ Store(id, <<b>> \o docs[id])
     \/ Store(id, Append(docs[id], b))
  /\ UNCHANGED <<uuid, files, lock, reqs>>

(* _index: the definition is saved as a design document, unless it is      *)
(* known already.                                                          *)
IndexCreate(d) ==
  /\ lock = Free
  /\ d \notin Known
  /\ Store(d, <<Ddoc>>)
  /\ UNCHANGED <<uuid, files, lock, reqs>>

---------------------------------------------------------------------------
(* DELETE of an index: a tombstone for the design document, then the file. *)
IndexDelete(p, d) ==
  /\ lock = Free /\ reqs[p] = Idle
  /\ d \in Known
  /\ IF d \in Declared THEN Store(d, <<Deleted>>) ELSE UNCHANGED <<docs, row, seq>>
  /\ lock' = p
  /\ reqs' = [reqs EXCEPT ![p] = [pc |-> "deleting", def |-> d]]
  /\ UNCHANGED <<uuid, files>>

RemoveFile(p) ==
  /\ reqs[p].pc = "deleting"
  /\ files' = [d \in DOMAIN files \ {reqs[p].def} |-> files[d]]
  /\ lock' = Free
  /\ reqs' = [reqs EXCEPT ![p] = Idle]
  /\ UNCHANGED <<docs, row, seq, uuid>>

---------------------------------------------------------------------------
(* A fault: a file is taken without a look at the uuid in its header.      *)
FindStartsAnyUuid(p, d) ==
  LET idx == IF d \in DOMAIN files THEN files[d] ELSE NewFile
  IN  /\ lock = Free /\ reqs[p] = Idle
      /\ d \in Known
      /\ lock' = p
      /\ files' = [e \in DOMAIN files \cup {d} |-> IF e = d THEN idx ELSE files[e]]
      /\ reqs' = [reqs EXCEPT ![p] =
                    [pc |-> "updating", def |-> d, idx |-> idx, docs |-> docs, row |-> row,
                     seq |-> seq, since |-> idx.seq, more |-> TRUE]]
      /\ UNCHANGED <<docs, row, seq, uuid>>

(* _find: which of the known definitions serves the query is the matter of *)
(* module Find.  One that has no file yet is materialized; a file of       *)
(* another database is refused.                                            *)
FindStarts(p, d) ==
  LET idx == IF d \in DOMAIN files THEN files[d] ELSE NewFile
  IN  /\ lock = Free /\ reqs[p] = Idle
      /\ d \in Known
      /\ idx.uuid = uuid
      /\ lock' = p
      /\ files' = [e \in DOMAIN files \cup {d} |-> IF e = d THEN idx ELSE files[e]]
      /\ reqs' = [reqs EXCEPT ![p] =
                    [pc |-> "updating", def |-> d, idx |-> idx, docs |-> docs, row |-> row,
                     seq |-> seq, since |-> idx.seq, more |-> TRUE]]
      /\ UNCHANGED <<docs, row, seq, uuid>>

(* The rows of the snapshot after since, at most BATCH of them.            *)
Pending(r) ==
  LET after == {k \in Keys : r.row[k] > r.since}
  IN  {k \in after : Cardinality({j \in after : r.row[j] <= r.row[k]}) <= BATCH}

(* The old rows of each changed document give way to its new one.          *)
Apply(idx, d, changed, leaves) ==
  LET ids == [k \in Keys |-> IF k \in changed THEN KeysOf(d, leaves[k]) ELSE idx.ids[k]]
      Rows(f, k) == {[cols |-> c, id |-> k] : c \in f[k]}
  IN  [idx EXCEPT !.ids = ids,
                  !.keys = (@ \ UNION {Rows(idx.ids, k) : k \in changed})
                           \cup UNION {Rows(ids, k) : k \in changed}]

(* A fault: a full batch is taken for the last one.                        *)
UpdateOneBatch(p) ==
  LET r == reqs[p]
      pending == Pending(r)
  IN  /\ r.pc = "updating" /\ r.more /\ pending # {}
      /\ reqs' = [reqs EXCEPT
           ![p].idx = Apply(@, r.def, pending, r.docs),
           ![p].since = Max({r.row[k] : k \in pending}),
           ![p].more = FALSE]
      /\ UNCHANGED <<docs, row, seq, uuid, files, lock>>

UpdateBatch(p) ==
  LET r == reqs[p]
      pending == Pending(r)
  IN  /\ r.pc = "updating" /\ r.more /\ pending # {}
      /\ reqs' = [reqs EXCEPT
           ![p].idx = Apply(@, r.def, pending, r.docs),
           ![p].since = Max({r.row[k] : k \in pending}),
           ![p].more = Cardinality(pending) = BATCH]
      /\ UNCHANGED <<docs, row, seq, uuid, files, lock>>

(* Nothing left: the roots and the seq reached are published together, the *)
(* lock is dropped and the scan begins.                                    *)
UpdateEnds(p) ==
  LET r == reqs[p]
      idx == IF r.since > r.idx.seq THEN [r.idx EXCEPT !.seq = Max({r.since, r.seq})]
             ELSE r.idx
  IN  /\ r.pc = "updating"
      /\ ~r.more \/ Pending(r) = {}
      /\ files' = [files EXCEPT ![r.def] = idx]
      /\ lock' = Free
      /\ reqs' = [reqs EXCEPT ![p] =
           [pc |-> "scanning", def |-> r.def, keys |-> idx.keys, docs |-> r.docs]]
      /\ UNCHANGED <<docs, row, seq, uuid>>

(* An error: the header is not written and the roots are forgotten.        *)
UpdateFails(p) ==
  /\ reqs[p].pc = "updating"
  /\ lock' = Free
  /\ reqs' = [reqs EXCEPT ![p] = Idle]
  /\ UNCHANGED <<docs, row, seq, uuid, files>>

ScanEnds(p) ==
  /\ reqs[p].pc = "scanning"
  /\ reqs' = [reqs EXCEPT ![p] = Idle]
  /\ UNCHANGED <<docs, row, seq, uuid, files, lock>>

---------------------------------------------------------------------------
(* _purge: a leaf is removed from the store.  What is left of the document *)
(* gets a new seq; if nothing is, no change will ever tell the indexes, so *)
(* the rows of the document are removed from each file in turn.            *)
Purge(p, id, i) ==
  LET left == RemoveAt(docs[id], i)
  IN  /\ lock = Free /\ reqs[p] = Idle
      /\ i \in DOMAIN docs[id]
      /\ IF left = <<>>
         THEN /\ docs' = [docs EXCEPT ![id] = <<>>]
              /\ row' = [row EXCEPT ![id] = 0]
              /\ UNCHANGED seq
         ELSE Store(id, left)
      /\ lock' = p
      /\ reqs' = [reqs EXCEPT ![p] = [pc |-> "purging", id |-> id, todo |-> DOMAIN files]]
      /\ UNCHANGED <<uuid, files>>

PurgeFile(p) ==
  LET r == reqs[p]
      d == CHOOSE d \in r.todo : \A e \in r.todo : Order[d] <= Order[e]
  IN  /\ r.pc = "purging" /\ r.todo # {}
      /\ files' = [files EXCEPT ![d] = Apply(@, d, {r.id}, [k \in Keys |-> <<>>])]
      /\ reqs' = [reqs EXCEPT ![p].todo = @ \ {d}]
      /\ UNCHANGED <<docs, row, seq, uuid, lock>>

(* All files are done, or one could not be written and the rest are left.  *)
PurgeEnds(p) ==
  /\ reqs[p].pc = "purging"
  /\ lock' = Free
  /\ reqs' = [reqs EXCEPT ![p] = Idle]
  /\ UNCHANGED <<docs, row, seq, uuid, files>>

---------------------------------------------------------------------------
(* A crash forgets the requests and what they had not published.           *)
Crash ==
  /\ \E p \in Procs : reqs[p] # Idle
  /\ lock' = Free
  /\ reqs' = [p \in Procs |-> Idle]
  /\ UNCHANGED <<docs, row, seq, uuid, files>>

(* The database is deleted and created again.  Its directory of indexes is *)
(* removed after its file, and errors of that are ignored: the files may   *)
(* stay behind.                                                            *)
Recreate ==
  /\ uuid < Len(MaxSeq)
  /\ \A p \in Procs : reqs[p] = Idle
  /\ docs' = [k \in Keys |-> <<>>]
  /\ row' = [k \in Keys |-> 0]
  /\ seq' = 0
  /\ uuid' = uuid + 1
  /\ \/ files' = <<>>
     \/ UNCHANGED files
  /\ UNCHANGED <<lock, reqs>>

Next ==
  \/ \E id \in Ids, b \in Bodies \ {Ddoc} : Put(id, b) \/ AddConflict(id, b)
  \/ \E id \in Ids : Delete(id)
  \/ \E d \in Defs : IndexCreate(d)
  \/ \E p \in Procs :
       \/ \E d \in Defs : IndexDelete(p, d) \/ FindStarts(p, d)
       \/ RemoveFile(p) \/ UpdateBatch(p) \/ UpdateEnds(p) \/ UpdateFails(p)
       \/ ScanEnds(p) \/ PurgeFile(p) \/ PurgeEnds(p)
       \/ \E id \in Ids, i \in 1..2 : Purge(p, id, i)
  \/ Crash
  \/ Recreate

Spec == Init /\ [][Next]_vars

---------------------------------------------------------------------------
TypeOK ==
  /\ \A k \in Keys : row[k] \in 0..seq /\ (row[k] = 0 <=> docs[k] = <<>>)
  /\ DOMAIN files \subseteq Defs
  /\ lock \in Procs \cup {Free}
  /\ \A p \in Procs : reqs[p].pc \in {"updating", "purging", "deleting"} <=> lock = p

(* The rows of every file are those its second tree remembers for each     *)
(* document: an update can take the old rows of a document away.           *)
KeysMatchIds(f) == f.keys = UNION {{[cols |-> c, id |-> k] : c \in f.ids[k]} : k \in Keys}

(* The rows of the documents whose change is not after s are current.      *)
IndexedTo(ids, d, leaves, rows, s) ==
  \A k \in Keys : leaves[k] # <<>> /\ rows[k] <= s => ids[k] = KeysOf(d, leaves[k])

(* What an index file says of a document whose last change it has seen is  *)
(* what the document says, however the file was written: batch by batch,   *)
(* between crashes, failed updates, purges that were cut short.  Rows of   *)
(* documents that are gone may remain.                                     *)
RowsAreCurrent ==
  \A d \in DOMAIN files :
    /\ KeysMatchIds(files[d])
    /\ files[d].uuid = uuid =>
         /\ files[d].seq <= seq
         /\ IndexedTo(files[d].ids, d, docs, row, files[d].seq)

(* A query scans, for every document of its snapshot, the row of the winner*)
(* and no other, whatever has become of store and file since.              *)
ScanSeesSnapshot ==
  \A p \in Procs : reqs[p].pc = "scanning" =>
    \A k \in Keys : reqs[p].docs[k] # <<>> =>
      {e.cols : e \in {x \in reqs[p].keys : x.id = k}} = KeysOf(reqs[p].def, reqs[p].docs[k])

(* The requests hold the lock in turn, and one that has let go of it still  *)
(* scans what it opened (api_mango.rs:262-266).                             *)
LockedOrScanning == TypeOK /\ ScanSeesSnapshot

---------------------------------------------------------------------------
(* The inductive invariant behind the safety properties.                   *)

(* Two documents never share a seq.                                        *)
RowsAreDistinct(rows) == \A j, k \in Keys : rows[j] = rows[k] /\ rows[j] # 0 => j = k

StoreIsSound ==
  /\ docs \in [Keys -> Seq(Bodies \cup {Deleted})]
  /\ seq \in Nat /\ row \in [Keys -> 0..seq] /\ RowsAreDistinct(row)
  /\ uuid \in Nat \ {0} /\ DOMAIN reqs = Procs

IsFile(f) ==
  /\ DOMAIN f = {"uuid", "seq", "keys", "ids"}
  /\ f.uuid \in 1..uuid /\ f.seq \in Nat /\ DOMAIN f.ids = Keys

FilesAreFiles == \A d \in DOMAIN files : IsFile(files[d])

(* An update half way: its copy of the index is current up to since, and   *)
(* what has not changed since the snapshot is what the snapshot shows.     *)
UpdateIsSound(r) ==
  /\ DOMAIN r = {"pc", "def", "idx", "docs", "row", "seq", "since", "more"}
  /\ r.seq \in 0..seq /\ r.row \in [Keys -> 0..r.seq] /\ RowsAreDistinct(r.row)
  /\ \A k \in Keys : r.row[k] = 0 <=> r.docs[k] = <<>>
  /\ \A k \in Keys : docs[k] # <<>> /\ row[k] <= r.seq
                       => docs[k] = r.docs[k] /\ row[k] = r.row[k]
  /\ IsFile(r.idx) /\ r.idx.uuid = uuid /\ KeysMatchIds(r.idx)
  /\ r.since \in r.idx.seq..r.seq
  /\ IndexedTo(r.idx.ids, r.def, r.docs, r.row, r.since)
  /\ r.more \/ \A k \in Keys : r.row[k] <= r.since

(* No file has seen what the purge has left of the document.               *)
PurgeIsSound(r) ==
  \A d \in DOMAIN files :
    files[d].uuid = uuid /\ docs[r.id] # <<>> => files[d].seq < row[r.id]

RequestsAreSound ==
  \A p \in Procs : /\ reqs[p].pc = "updating" => UpdateIsSound(reqs[p])
                   /\ reqs[p].pc = "purging" => reqs[p].id \in Keys /\ PurgeIsSound(reqs[p])

IInv ==
  /\ TypeOK /\ StoreIsSound /\ FilesAreFiles /\ RowsAreCurrent
  /\ RequestsAreSound /\ ScanSeesSnapshot
=============================================================================
