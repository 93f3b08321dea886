# A TLA+ model of rustcouchdb

The program is a CouchDB-compatible document database in Rust: a server
(`couch-http`) over an append-only store that reads and writes CouchDB's
`.couch` files (`couch-store`), secondary indexes (`couch-index`,
`couch-mango`), a schema-bound binary document kind (`couch-proto`) and a
replicator (`couch-repl`).  This directory holds TLA+ modules translated from
that code, the TLC configurations that check them on small instances, and
proofs that TLAPS checks for every instance.

Line numbers below are those of the sources under `src/`.
`PROJECT.json` has, for every definition that models code, the lines it models.

## The system

| Part | Source | State it keeps | Operations | Who it talks to |
| --- | --- | --- | --- | --- |
| Revision trees | `couch-store/src/revtree.rs` | a forest of revision nodes per document | merge a path, stem, remove leaves, set a leaf's seq, winner | called by the writer and the compactor |
| Document writer | `couch-store/src/writer.rs` | `DbWriter`: roots of the by-id, by-seq and local trees, update seq, header pointers | `update_docs`, `save_doc`, `purge_docs`, `update_local`, `set_security`, `mark_proto_native`, `commit` | one caller at a time, under the server's writer mutex |
| Append-only file | `couch-store/src/file.rs`, `header.rs` | the file: chunks, then headers | append, fsync, write a header, find the newest header | writer, read engine, compactor |
| Compactor | `couch-store/src/compact.rs` | a new file | copy what the newest header reaches, rename over the old file | driven by the server with the writer closed |
| B+tree | `couch-store/src/btree.rs` | copy-on-write nodes | `add_remove`, fold, reduce | writer, compactor, indexes |
| Read engine | `couch-store/src/db.rs`, `doc.rs` | an immutable image | folds, document reads | snapshots of the server |
| Database handle | `couch-http/src/state.rs` (`Database`) | writer slot behind a mutex, current snapshot, watch channel of the update seq | `with_writer`, `refresh`, `compact`, `snapshot` | request handlers on a pool of blocking threads |
| Server state | `couch-http/src/state.rs` (`ServerState`) | the map of open databases; the files of a name in the data directory | `open_all`, `create_db`, `delete_db`, `db` | request handlers, process start |
| Changes feeds | `couch-http/src/api_changes.rs` | one task per request: the seq it has got to, a drained batch | normal, longpoll, continuous | snapshot and watch channel of a database |
| Document, bulk, database, root APIs | `couch-http/src/api_*.rs` | none of their own | request handlers | the database handle |
| Replication manager | `couch-http/src/repl.rs` | table of jobs, `_replicator` documents | reconcile, start, supervise, cancel | `couch-repl`, databases |
| Replication pipeline | `couch-repl/src/{pipeline,changes,revs_diff,fetch,write}.rs` | bounded channels between five stages, a cancel token | read changes, diff, fetch, write, checkpoint | two servers over HTTP |
| Sequence ledger, checkpoints | `couch-repl/src/seq.rs`, `checkpoint.rs` | unfinished seqs; checkpoint documents on both endpoints | register, expand, complete; load, record | the pipeline |
| Replication job server | `couch-repl/src/server.rs` | jobs with state and retries | run, restart, cancel | the pipeline |
| Indexes and queries | `couch-index`, `couch-http/src/api_mango.rs` | one file per index, with the seq it is built to | update from changes, purge, query | databases; planner, selectors |
| Selectors | `couch-mango/src/lib.rs` | none | match a document | indexes, filtered feeds |
| Proto documents | `couch-proto`, `couch-http/src/proto.rs` | schema registry cached by the update seq of `_schemas` | decode, extract, validate | document API |
| Authentication, compression, spool, metrics, command lines | the rest | sessions, temporary files, counters | | |

What is hard here: request handlers run on many threads and share a database
only through a mutex that they release before they refresh the snapshot; a
commit is two fsyncs around a header; compaction swaps files under everyone's
feet; a database may be deleted while others hold its handle; feeds sleep on a
channel that is written after the snapshot; revision trees are rebuilt by
merging and stemming in any order of arrival; and the replicator is a pipeline
of concurrent stages that must know which prefix of the feed is done.
`PROJECT.json` lists these hazards line by line, with the properties that
would catch each one.

## The modules

```
RevTree ─┬ RevForest ◄── KeyForest (refinement)      revtree.rs
         ├ RevReads ── Replicas ──► EditSets         api_bulk.rs, api_docs.rs, fetch.rs,
         │                            (refinement)   couch-repl's stages on one document
         └ DocStore ── DocStoreProps                 writer.rs, compact.rs, file.rs
                       └ DocStoreProofs              (with Replicas)
BTree ──► Dictionary (refinement)                    btree.rs
Database ─┬ DatabaseProps ── DatabaseProofs          state.rs, Database
Ordered ──┴ ChangesFeed ── DatabaseProofs            api_changes.rs
DatabaseLife ── DatabaseLifeProofs                   state.rs, ServerState
SeqLedger ─┬ Replication ── ReplicationProofs        couch-repl: seq.rs, and
Ordered ───┘     └──► Copying (refinement)           pipeline.rs with its stages
JobServer ── JobServerProofs                         couch-repl: server.rs
ReplManager ── ReplManagerProofs                     repl.rs
Mango ─┬ Planner ── Find                             couch-mango, planner.rs, find.rs
Spatial┘                                             spatial.rs
IndexFile ── IndexFileProofs                         index.rs, ddoc.rs, api_mango.rs
ProtoDocs ── ProtoDocsProofs                         proto.rs, couch-proto lib.rs,
                                                     state.rs, api_db.rs, api_docs.rs
```

**RevTree** has the revision trees as pure operators.  A revision id is a digest
of the content and the parent's id, so it fixes its whole history; a forest is
then determined by which revisions it holds, which of them hang below their
parent, and what each stores.  `Merge`, `Stem`, `RemoveLeaves`, `SetLeafSeq`,
`AssignPending` and `Winner` are the functions of `revtree.rs` on that
representation.  Bodies are reduced to the update seq they were stored under,
`Missing` for a revision known by id only.

**RevForest** runs these operators as a state machine for one document: it is
the abstract specification.  **KeyForest** is the code's own data structure -
nested nodes with ordered children and a start position per tree - with
`merge_tree`, `merge_at`, `merge_extend`, `stem`, `remove_leaves` and the rest
translated as written, seeking by signed position differences and sorting where
the code sorts.  `ImplementsRevForest` is the refinement `RevForest!Spec` under
`tree <- TreeOf(forest)`, the flag that `merge_path` returns included.

**RevReads** is how revisions are read and how a replicator strings the reads
together: `_revs_diff` and `_missing_revs`, `_bulk_get` with and without
`latest=true`, the attachments that `atts_since` leaves out, and `Pulled`, one
whole round - ask the target what it misses, fetch it, merge it.  It has no state
of its own; its operators are applied to every tree that `KeyForest` reaches,
under a limit that no path exceeds.

**Replicas** is one document at several sites that replicate along `Links`.  `copy`
is its tree at each site.  `EditDoc` is a user's `save_doc`, on the winner or any
other leaf, `PurgeLeaves` is `purge_docs`, and `UpdateDoc` is `update_docs` for one
path: what changes nothing is not stored, and the document moves on the feed when a
leaf gets a seq.  A replication is three steps, between which either end may be
edited, purged or written by another replication: `AskTarget` reads the row with its
leaves and asks the target (`changes.rs`, `revs_diff.rs`), `FetchRev` asks the
source for a revision or the leaves it led to (`fetch.rs`), `WriteDoc` writes with
`new_edits=false` (`write.rs`).  `moved`, `wanted` and `carried` are what is under
way; what an ordinal or a checkpoint does for it is `Replication`'s.  An answer may be
lost after its write was applied (`WriteUnanswered`), and a session with all it
carried (`LoseSession`), within `MaxLosses`; the row is then read again.  `edited` is
a history variable: the edits made anywhere.  **EditSets** is what this promises: each
site knows a set of edits, edits spread with all that led to them, and the leaves and
the winner follow from the set.  `ImplementsEditSets` is the refinement, with `known`
the revisions of the tree.  No feed tells a purge to another site, so a purged leaf
may come back, in both modules.

**DocStore** is the writer of one file.  `work` is `DbWriter` in memory,
`written` the newest header in the file, `disk` the newest one certain to be on
disk.  `update_docs` is split where it can stop: one action per merged update,
one per document numbered, one for each of the two trees written; `commit` is
`SyncData`, `WriteHeader`, `SyncHeader`.  With `IoErrors`, a tree append or an
fsync fails at any of these steps and leaves in `work` what was done so far, as
`with_writer` does.  `Crash` may happen anywhere and reopens either the last
synced header or the one in flight; if the latter's chunks were not synced
before it, the image read is a damaged one.  `Compact` rebuilds the file from
the newest header.  `torn` is a history variable: an append failed after the
by-id tree had taken the batch and before the by-seq tree had, and no compaction
has rebuilt the by-seq tree since.  `acked` is one too: what
the last commit that returned had.  A compaction acknowledges nothing and
leaves it alone, so what it drops is missed.

**BTree** is the copy-on-write tree itself: nodes as nested values, a batch that
descends once (`ModifyNode`, merging its sorted actions into each leaf), nodes
packed by weight (`Chunkify`), the roots above them built round after round
(`CompleteRoot`), and the reads - lookup, folds in both directions, changes since
a key, reductions.  **Dictionary** is what it promises: a function that changes by
whole batches.  `IsDictionary` is the refinement, with `dict` read off the tree by
a walk of its own.

**Database** is one open database of the server.  Each request goes through
`with_writer` (lock, apply, two-step commit, unlock) and then, holding nothing,
through `refresh` (open, install, notify), so two requests interleave anywhere
in between; compactions take the writer out, swap the file and reopen it.  What
a header holds is reduced to the requests in it, in the order of their update
seqs, and the *quiet* writes, which have none (`_local` documents, `_security`,
a purge of a document's last leaf).

**ChangesFeed** extends Database with one feed.  A continuous feed scans the
snapshot in batches, sends, looks at the channel and sleeps; a longpoll probes,
sleeps and answers with a scan on a new snapshot.  Rows follow from the log: the
last write of each document that was not purged.

**Ordered** has `InOrder`, the order in which a database lists its rows.

**DatabaseLife** is one name through deletions and creations, in both directory
layouts.  A write is one step here, and the file system is explicit: `dir` maps
paths to files, `scratch` the `.compact` paths, `writer` the file a database has
open - which may have been unlinked or replaced.  Requests keep the handle they
looked up (`Arc<Database>`).  `outlived` is a history variable: the compactions
at work when their database was deleted.

**SeqLedger** has the ledger of a replication as operators on a record: the
ordinals given so far, the unfinished entries, and the seq up to which all is
done.

**Replication** runs sessions of the five stages against two endpoints.  A
revision is numbered by the seq of the update that wrote it, so a document's row
is at its largest number.  The items between two stages - in a channel, a batch
or a request - are one set (`changes`, `missing`, `units`, `atts`, `fetched`) from
which a stage takes in any order: the stages are concurrent and no order survives
them.  Only the reader's channel is bounded (`Capacity`), because a row waiting
for room is registered and not sent.  A checkpoint is taken with the document it
is going to write (`NewCheckpoint`) and then put on the target and on the source
(`PutTarget`, `PutSource`), so a slow periodic one may land after the final one,
or in the next session.  Everything that goes wrong - a request failing for good,
an answer lost after the request was applied, a dropped feed, a cancellation, a
killed process - draws on the budget `MaxFaults`.  `skipped` is a history
variable: the revisions given up on under `continue_on_error`.

**Copying** is what all of this is for: revisions of the source appear on the target
with their histories or are given up on; the seq a session would resume from lies
before every revision not accounted for; and when a session says it has brought
everything, everything visible is accounted for.  `IsCopying` is the refinement of
`Replication` to it.  `target` and `skipped` are what the target holds and what was
given up on, with their ancestors; `resume` is the seq that `Resume` finds in
the two checkpoint documents; `done` is the size of the source that the last session
to end clean had read.

**JobServer** is `couch-repl serve`: a table of jobs by name, a runner per job
that restarts its session with a delay, `POST` and `DELETE` of jobs, and the
shutdown.  **ReplManager** is the same task inside the database server, where jobs
come from `_replicator` documents: the manager compares the documents with the
table, builds jobs, stamps documents with states and replication ids - each stamp a
read and a later save that may conflict with a user's edit, up to three times -
and `POST /_replicate` starts transient jobs beside them.  In both a session is
one step, whose inside is `Replication`; what matters is how it returns, and that
a failing stage cancels the token the job was given.

**IndexFile** is the life of the Mango indexes of a database.  A find takes the
index lock, looks at the design documents of its snapshot, creates or opens a
file, brings it up to the snapshot in batches and then scans it without the lock.
Purges take rows out of the store in one commit and out of each file in others;
crashes lose what no header has; indexes and the database itself are deleted and
made again under the same names.  A file has two trees, rows by key and keys by
document, and both are there.

**ProtoDocs** is one document of one database that is created with `?proto=true`:
the database and the flag in two commits (`CreateDb`, `MarkNative`), JSON and proto
puts, replicated envelopes, deletions and reads, and the two kinds of JSON write that
check nothing: attachment puts and deletions, which read the document on a snapshot and
save it whole (`ReadForAtts`, `WriteAtts`), and `_bulk_docs` documents without `_id`
(`WriteWithoutId`, for the case that the document is the one that gets the new id).  An
attachment edit of a proto document stores as JSON what still reads as a proto document
(`IsEnvelope`).  Every other request checks the flag on a
snapshot, may fetch the schema registry (`Look`, `Compare`, `BuildRegistry`), and
only then takes the writer lock; write and commit are one step, the refresh after
it two (`Open`, `Install`), because what matters is which snapshot the next request
checks.  `_schemas` is a second database with documents, a seq and a life of its
own; `Pooled` adds descriptor sets in rounds as `Registry::build` does.  A message is
a model value that some set declares.  `served`, `past`, `rewound` and `markSeq` are
history variables: the highest seq ever served, what `_schemas` held at each of its
seqs, whether it was purged or made anew, and the seq at which the flag was set.

**Mango** has JSON values, their collation and the selectors: normalisation,
`$not` and all.  **Spatial** has the quadkeys of boxes and the ranges that cover a
rectangle.  **Planner** decides which index may serve a query and the range it
scans, **Find** executes the query row by row with skip, limit and the fallback to
a full scan.  They are checked together: the answer through an index has to be the
answer of the scan.

## What is checked

Passing runs:

| Run | Instance | Question |
| --- | --- | --- |
| `key_forest` | 4 revisions in 2 branches, limit 2, 2 seqs | Does the nested-node code implement the flat trees (`ImplementsRevForest`), with each revision once and a body at each leaf (`ForestIsSound`)? On every tree it reaches, without stemming: do updates commute and repeat harmlessly, does a replication lose no leaf and make none and does `atts_since` leave out only what the client holds (`ReplicasConverge`), is a row still served after an edit (`StaleRowsAreServed`)? |
| `btree` | 5 keys of two weights, live and deleted, nodes of weight 2, batches of one or two keys and of all | Does every tree that a sequence of batches can leave act as a dictionary (`IsDictionary`), keep its shape and its reductions and read right in all directions (`TreeIsSound`), and does the building of a root end (`RoundsShrink`)? |
| `replicas` | couch-repl inside: one document, 2 sites that replicate both ways, an edit with two rival successors of which one is a deletion, 1 purge, or 1 lost session or answer; or outside: `serve` with 2 names, 3 jobs, 2 failures | Do trees, diffs, fetches and repeated writes in any order come to sets of edits that spread (`ImplementsEditSets`); are the trees sound, and do sites that have nothing to bring each other show the same leaves and winner (`ReplicasAreSound`); do all sites come to that when editing stops (`ReplicasSettle`)?  Does a name ever have two runners (`OneRunnerPerName`), does a cancelled job end? |
| `doc_store` | 2 documents, 2 revisions, limit 2, batches of 2, 2 seqs, I/O errors and crashes anywhere | Is the feed exactly the documents in every header that can be read (`FeedIsExact`), is an acknowledged leaf ever lost, a leaf without body or a placeholder on disk (`HeadersAreSound`), a conflict made by an interactive save, a seq handed out twice or the proto flag dropped (`AckedStateIsKept`)? |
| `database` | 2 document writes, 1 quiet write, 1 compaction, all failures, crashes | Are acknowledged writes durable, is what a client or a feed was told of in every later snapshot (`ToldIsServed`), do quiet writes come back with the next document write (`QuietWritesReturn`)? |
| `feed` | a feed of any kind, 2 writes to 2 documents of which one is filtered, a compaction whose reopen may fail, failing scans, a deletion, limit 2, batches of 1 | Is each row sent once and in order and does a longpoll that was woken have news (`FeedIsRight`), does each acknowledged write arrive, does a feed get back to its heartbeat timer? |
| `life` | 2 writes, 2 compactions, 2 deletions, 3 databases, both layouts | Do creations, deletions, writes and compactions lose or resurrect anything, for a restart (`RestartIsFaithful`) or for readers (`KeepsToItsOwnWrites`), when no compaction outlives its database? |
| `replication` | 4 updates of 3 documents and a later one, pages of one row, 2 sessions, 1 fault, one-shot or continuous | Does a recorded checkpoint ever pass a change that is not on the target (`CheckpointsAreSound`), is a clean or an idle session complete (`SessionIsComplete`), is the whole a copying of the source (`IsCopying`), does a session end? |
| `repl_manager` | 1 document, 2 specs of one replication id and one that cannot be built, 3 edits, 1 fault, 2 tries | Is each running document job the one in the table, is a user's edit ever undone by a stamp (`EditsAreKept`), does a document get a session of its own spec, unless an old job of that spec stands in the table (`DocsAreServed`)? |
| `index_file` | 2 documents with 4 bodies, a full and a partial index, 2 requests, batches of 1, 3 seqs and 2 more in a second database | Does a file that claims to be current lack or keep rows wrongly (`RowsAreCurrent`), does a scan see its snapshot whatever happens meanwhile (`LockedOrScanning`)? |
| `find` | 3 documents of 4 or 6 bodies, three indexes, 14 queries | Is the answer through an index that of a full scan (`FindIsScan`), and the right page of it (`PageIsRight`), both `AnswerIsRight`? |
| `proto` | a database under creation, two JSON puts, a proto put, an envelope, a deletion, an attachment edit, a document without id and a read in mixes of three, two schema documents of which one needs the other, crashes | Can a document that reads as a proto document get into a database that is not proto-native, or JSON that is checked pass the check once the marked database was served beyond its mark (`FlagIsHeeded`); is a document ever accepted or rendered by a registry that is older than the request or has part of the schemas (`RegistryIsCurrent`)? |

Each property stands for one question; where it is a conjunction the parts are
defined under their own names beside it.

In `key_forest`, a limit of 2 and paths of 3 make every merge order meet stemmed
roots, merges from above and from below.  In `btree`, nodes hold two entries, so
five keys already give three levels, splits, single-child nodes and emptied
leaves.  In `replicas`, three revisions are
the least with a conflict, and the deleted one makes the winner other than the last
in order; edits of both branches may be made at either site, also at both.  The limit
of 3 is not reached: with stemming two sites may well have different leaves, when a
revision has lost at one of them the ancestors that join it to another.  A behaviour
has a purge or a loss, not both (`OneKindOfTrouble`), which is a bound of this run only.
The job server stands in the same run, as it has no state in common with the sites:
each behaviour is one of the two (`watched`).
`doc_store` has one branch per document: conflicts and what stemming does
to them are `key_forest`'s; its `LocalIds` and `Securities` have one value each,
since a local document and the security object are registers of the header that
no property of this run looks at.  In `find`, the three shapes of index meet
queries whose ranges are open, pinned, padded, exclusive, descending, sorted behind
pinned columns, skipped and limited; the boxes lie inside cells, on midlines,
across them and at the edge of the world.  In `index_file`, a batch of one makes
every document a commit of the file, and a second database under the same name
makes its uuid tell.  In `repl_manager`, giving up after one attempt and two tries
per stamp are the code's eight and three cut to the least that has a retry.

Two writers suffice for the races in `Database`: each hazard is a pair of
requests in an unfortunate order, or a request and a compaction; the proofs
remove the bound for its safety properties.  Two updates in a batch are the
least that share a by-seq write.  Three databases of one name are the least for
a stale request, its successor, and a deletion in between.

For `replication`, a page of one row makes every document a page of its own, so
that the barrier at its end is exercised each time; the conflict of the first
document makes one change two units of work; the document the filter hides makes
the last seq of a page pass its last row; and the edit of a document while its
earlier revision is under way makes `_bulk_get` answer with another revision than
the one asked for.  One fault per run is enough for each kind of loss, and a
second session is what reads the checkpoints the first one left.  A fault in
either session is covered; two faults in one are not.

In `proto`, three requests are what it takes to see the flag put back: one that
opened the file before the mark and installs it after, one that checks what it
installed, and one that writes to the marked database.  One mix is
those three; three put the kinds that fetch a registry beside each other; and two have
the writes that check nothing beside an envelope and a read, and beside a JSON put.
Two seqs of `_schemas` give the states in which nothing, only the dependency, only
the dependent and all is there.

Where the code disagrees with what its own text says, no run is kept; where a
constant or a property of the modules shows it, it is named:

- a selector for the boxes that contain a rectangle bounds the stored west from
  above and the stored east from below; `plan_spatial` takes the bounds for the
  east and west of a rectangle, finds west beyond east and scans the junk bucket
  only (spatial.rs:145), so boxes that a full scan returns are left out, though "the
  index may return false positives (never false negatives)" (spatial.rs:14)
  (`FindIsScan` with `Queries <- Containing` in `MCFind`);
- a deletion in a proto-native database gives the tombstone the body of the winner
  (api_docs.rs:611), whichever leaf is deleted, though "the tombstone keeps the
  deleted doc's proto body" (api_docs.rs:614): see `WriteTombstone`;
- "application docs in a proto db are proto, period" (api_docs.rs:334), but two JSON
  writes check nothing: `_bulk_docs` with `new_edits` takes a document without `_id`
  as it comes (api_bulk.rs:43), and an attachment put or deletion (`modify_atts`,
  api_docs.rs:856) makes a JSON document where there was none and rewrites a proto
  document as the JSON it was read as.  Both may happen at any time after the mark
  (`AppDocsAreProto` in `ProtoDocs`; `FlagIsHeeded` is what does hold);
- a write that fails after it has changed the writer leaves the change in memory
  (state.rs:80), and the next write that commits publishes it, though its caller was
  told that it failed (`FailedWritesStayUnread` in `DatabaseProps`, without crashes);
- the registry is "rebuilt whenever that database's update_seq moves" (state.rs:205):
  a purge of a schema document's last leaf leaves the seq alone, and `_schemas`
  deleted and created again may come to the cached seq with other documents, so
  the old registry stays in use; `PurgeSchema` and `DropSchemas` set `rewound`,
  after which `RegistryIsCurrent` asks nothing;
- `refresh` compares update seqs with `>=` (state.rs:96).  A quiet write leaves the
  seq alone, so a racing refresh can put the snapshot from before it back: the
  acknowledged write disappears from reads until the next document write
  (`ReadYourWrites` in `database`, with one write of each kind;
  `QuietWritesReturn` is what does hold);
- the watch channel carries the update seq, a continuous feed compares it with the
  last row visited.  After a purge of the document with the newest row the seq
  stays above every row and the feed rescans in a busy loop without heartbeats
  (`HeartbeatsFlow` with a purge; api_changes.rs:384, against README.md:67);
- compaction renames to a path.  One that outlives its database replaces its
  successor's file, and the successor's next refresh serves the deleted data in
  place of its own acknowledged writes (`ServesItsOwnWrites`, state.rs:120);
- "restart with exponential backoff until the job either completes (one-shot) or is
  canceled" (couch-repl server.rs:248): a stage that fails cancels the job's own
  token (pipeline.rs:219-227), so the job ends as cancelled and is not restarted
  (`FailedJobsRestart` in `JobServer`).  In the server, the same leaves a job that
  is not terminal and still says "running";
- "Same spec posted again: replace (cancel) the previous instance"
  (couch-http repl.rs:479): the first request, when it ends, takes the second's
  entry out of the table, and a third then runs beside the second
  (`OneTransientPerSpec` in `ReplManager`);
- a job of an older spec may stamp its document "completed" after the document got
  a new spec (repl.rs:574): the new spec is then taken for done; and a spec that
  cannot be built leaves the cancelled job of the spec before it in the table, so
  that going back to that spec starts nothing (repl.rs:239), and the same holds for a
  document whose job has ended and that is put again with the same spec
  (`NoDocIsForgotten` in `ReplManager`; `DocsAreServed` leaves both out);
- a selector that compares a field with an object, `{"a": {"b": 1}}`, is a nested
  field to the matcher and an object to the planner; `$beginsWith` scans up to the
  prefix followed by U+FFFF and misses later code points; `{"b": {"$not":
  {"$exists": true}}}` is counted as requiring `b` (`Nested`, `Astral` and `Negated`
  in `MCFind`);
- an index also has rows for design documents, which a full scan leaves out
  (find.rs:343);
- a range found to be empty rejects the index, so a query that also asks for a sort
  gets an error instead of an empty answer (planner.rs);
- an index file left by a deleted database of the same name is refused until the
  index is deleted, and a find still running on the old database may create one;
- a `_bulk_get` without `latest` for a revision known by id only fails the request
  as a whole with 400 (db.rs:202);
- replicated writes refuse attachment stubs (writer.rs:168), though `atts_since`
  exists to produce them;
- `add_remove` takes two inserts of one key in a batch for two entries; its callers
  pass none;
- `stem` is to "keep at most `limit` revs on each path" (revtree.rs:147); a leaf
  whose own cut dropped an ancestor is hung below it again when a shorter branch
  keeps that ancestor, on a path longer than the limit;
- after a failed reopen the writer slot stays empty with no compaction running
  (state.rs:134), though it is to be "None only while a compaction has the file
  swapped out" (state.rs:24); every later write is refused;
- `refresh` opens the file without the writer lock and can serve a header whose
  fsync has not happened, though a snapshot is "the current committed" one
  (state.rs:61);
- a batch that only fills in an ancestor's body advances the update seq and
  leaves the document at its old row, though writer.rs:523 says "one new seq per
  changed doc";
- a feed with heartbeats outlives its deleted database: its task holds the
  handle that owns the channel, so the branch marked "db deleted"
  (api_changes.rs:393) is never taken;
- in a CouchDb directory `delete_db` sweeps after releasing the map lock, and
  takes the file of a database created in between with it (state.rs:382); this
  is why `AckedSurviveRestart` (in `RestartIsFaithful`) is stated for the flat layout;
- a compaction that ends after its database was deleted puts the file back, and
  a restart opens it (state.rs:365, compact.rs:161); this is why
  `DeletedStaysDeleted` asks that none outlived it;
- a checkpoint's `source_last_seq` "only ever advances" (couch-repl
  README.md:185), yet a periodic checkpoint still in flight can retry after a
  conflict with the final one (checkpoint.rs:255) and overwrite it with an older
  seq.  Replication only repeats work then: `ResumeIsSafe` holds with such
  checkpoints included;
- a continuous feed is "reconnecting on errors" (changes.rs:146), but one that
  the server closes or that stalls is a protocol error, for which the reader ends
  with an error instead (changes.rs:168);
- "ctrl-c drains in-flight work" (couch-repl README.md:34), but a cancelled stage
  takes what is under way and drops it (write.rs:77); the work is repeated by the
  next session;
- the selector is said to run "inside couch-repl" (couch-repl README.md:102), but
  the source evaluates it (pipeline.rs:81).

## Fairness

Safety needs none.  The liveness properties assume weak fairness of each
request's next step and of the feed's task:

- a request runs on tokio's pool of blocking threads and blocks only on the
  writer mutex.  `Step(p)` is weakly fair, so a request whose step stays enabled
  takes it.  The mutex itself is not assumed fair: each request runs once, so
  nobody can be overtaken for ever;
- `FeedStep` is what the feed's task does when it can run: scan, send, look at
  the channel, wake.  Sending includes a client that reads; `ClientGone` is one
  that stops.  `Timeout` has no fairness: heartbeats and timeouts may be
  arbitrarily far away, so no liveness result leans on a timer;
- in `Replication`, `Progress` is weakly fair: the stages are tasks of one
  runtime, and each request ends, by its timeout if need be.  A single condition
  suffices, since what can go on always brings the session nearer its end unless
  the source is updated or a session is started, and both are bounded.  Nothing
  starts a session or a periodic checkpoint by any deadline;
- in `Replicas`, `Replicating` is weakly fair: replications are continuous, or run
  again and again, and a step that can be taken is.  Each step brings the rows there
  are nearer to their end, and edits, purges and losses are bounded, so no fairness
  between the links is needed.  `ReplicasSettle` asks nothing after a purge;
- in `JobServer` and `ReplManager` each runner, the manager and each request is a
  task: delays pass, a cancelled session ends (which is `SessionsEnd` of
  `Replication`), a one-shot one ends too;
- nothing forces a request to arrive, a client to connect, a crash or a failure.

Deadlock checking is off where the bounded set of requests or sessions runs out,
or the seq bound is reached; it is on in the `doc_store` run, where a crash is always
possible, and in `btree`, where there is always a next batch.

## What is proved

`DatabaseProofs` proves, for every set of requests, every choice of failures and
crashes, and from `RequestsAssumption` alone (document writes, quiet writes,
compactions and `Nobody` are disjoint):

- `Invariant`: `Spec => []IInv`, and `TypeCorrect` with it;
- `WatchIsServed`, `DocWritesStayVisible` (together `ToldIsAlwaysServed`),
  `AcknowledgedIsDurable`: the safety invariants of the `database` run;
- `SnapshotsOnlyExtend`: the action property.

None of the three is inductive.  `IInv` adds who holds the mutex (`MutexInv`),
when the slot is empty (`SlotInv`), that disk, file and writer hold each at least
what the one before holds (`ChainInv`), that snapshots, opened ones included, are
contents of earlier headers (`SnapshotInv`), what a request has still to publish
after it released the lock (`RefreshInv`), and where a write is at each step of
its request (`WrittenInv`, `PublishedInv`).  The heart of it is `InstallExtends`:
the snapshot and the one being installed are both beginnings of the header's log,
so the one with the larger update seq extends the other.  That argument is what
fails for quiet writes, which leave the seq alone.

There is one lemma per action, with one step per conjunct of `IInv` it can
disturb.

The same module proves what is left for the quiet writes, from the same assumption:
`QuietWritesDoReturn`, that an acknowledged one is missing at most from snapshots
of the very seq it was committed at.  On top of `IInv` it needs `QuietInv`: from the
moment its lock is released (`Released`), the write was committed at a seq that the
durable header has reached, and every snapshot past that seq has it (`PastHas`) -
the one installed and those opened and not yet installed.

Of the feed it proves, for every filter, limit, batch size and choice of purges,
`EveryRowIsSentOnce` and `LongpollsHaveNews`, the two halves of the safety invariant
of the `feed` run (`FeedsAreRight`).  `FeedInv` says which steps each kind of feed takes,
that it is behind the snapshot it reads and never ahead of what it looked at, and
that what it has sent and scanned are rows of the way it has come.  A step of the
database keeps it because of two facts about requests (`RequestsExtend`): headers
and snapshots only grow, and what a later header lists at an old seq an earlier one
listed there too (`WantedShrinks`) - superseding and purging take rows away and
bring none.  A scan keeps it because it stops for its limit only at a row it returns
(`ScanIsComplete`).  A longpoll answers with news because the watch is never ahead
of the snapshot (`WatchIsServed`), and the least row after its start is always
visited.

`DocStoreProofs` proves the three safety invariants of the `doc_store` run
(`EveryHeaderIsSound`, `EveryFeedIsExact`, `NoAckedRevisionIsLost`) and its two action
properties (`AckedStateStays`, `SavesNeverBranch`), for any documents, histories,
batches, bounds and revision limit, what replicas may count on, and the properties of
the `replicas` run.  The run has one branch per document; here
documents branch as they like.  Of the revisions it assumes what a digest of the parent
gives (`HistoryAssumption`: the history of a revision is the revision and then the
history of its parent), that the limit is positive and that the placeholder is no
seq.  It has four layers.

- The operators of `RevTree`.  The ancestors that a revision has by its history are
  those met by following stored parents (`AncestorIs`), every revision hangs from one
  root (`SameRoot`) and below some leaf (`LeafAbove`).  On this rest one lemma for each
  operation: a merged, stemmed, numbered or purged tree is again a tree with a body at
  each leaf, its seqs are those it had or was given, and each leaf it had is at or
  below a leaf it has (`MergeIs`, `StemIs`, `AssignIs`, `SetLeafIs`, `RemoveIs`,
  `CompactIs`).  Stemming is the hard one: it cuts each path at the limit and keeps what
  any path keeps.  `EditIs` says that an edit below a leaf takes that leaf's
  place, so that the count of leaves stays.
- The writer.  `ImagesSucceed` orders what is acknowledged, on disk, in the file and in
  memory: each has the leaves of the one before it, purged ones aside, and no smaller
  seq.  That is transitive only because a purge takes a leaf with its whole history
  (`PurgedIsWhole`): a purged leaf could otherwise stand for ancestors that were not.
  A compaction keeps that order because it copies each document with all its leaves
  (`CompactIs`), not because anything is said of `acked` anew.
  `FeedIsKept` carries the feed across the two tree writes: between them (`MirrorsAround`)
  the by-seq tree is right for all documents but those of the batch, whose old rows
  are still there.  The rows written second fall on no others because a seq is used
  once, in all that is stored and in hand (`SeqsAreUsedOnce`), also after a batch that
  failed half way and was committed by the next.
- What replicas may count on, over `RevReads`, for any sound trees.  Below the limit (`Unstemmed`: no
  history is longer) a merge is a union, whichever tree of the forest takes the path
  (`MergeIsUnion`), because a revision that is held is in the tree that is tried first
  (`TargetOfHeld`).  So updates commute and repeat harmlessly (`ReplicasMerge`, the
  `MergesConverge` of the `key_forest` run), and the tree follows from the set of updates alone
  (`SameUpdatesSameTree`, for sequences of any length).  A revision that is held is
  always served (`HeldIsServed`, with any limit), so a replication leaves no leaf
  missing (`PullsBringAll`), two of them make whole replicas agree
  (`SyncedReplicasAgree`), and `atts_since` leaves out what the client has
  (`LeftOutAttachmentsAreHeld`).  The `key_forest` run checks these as `ReplicasConverge`,
  on trees that were stemmed too, with the documents folded in one order.
- The sites of `Replicas`, any number of them, with any links, purges and losses.
  `ReplicasAreSound` has two parts. `ReplicasStaySound` (`ReplicasTypeOK`) holds with
  any limit: `RInv` has each copy a sound tree whose seqs are real ones, and each
  document under way with a path that is the beginning of its history.
  `ReplicasAlwaysAgree` (`ReplicasAgree`) and `ReplicasAreEditSets`
  (`ImplementsEditSets`) are for what is not stemmed (`Unstemmed`), and
  `ReplicasStayRight` has both parts. Their invariant `WInv` adds that each copy is
  whole - with a revision it holds the parent, joined to it, and it was made by an
  edit - and that a document under way carries its whole history. A whole tree follows
  from its set of revisions: its leaves are those that nothing in the set is made on
  (`WholeLeaves`), its winner is the best of those (`WholeWinner`). Two sites that
  miss nothing of each other then hold the same set; and an edit, an arriving document
  and a purge (`WholeEdit`, `WholeArrival`, `WholePurged`) are `Edit`, `Learn` and
  `Forget` of `EditSets`. All other steps leave what is shown alone.

`DatabaseLifeProofs` proves, for any number of databases under one name and any
requests (`LifeAssumption`: the kinds of request are disjoint, there are finitely
many writes), `ServesOwnWrites` and `RestartsAreFaithful`.  Everything but the types
is inductive only until a compaction outlives its database, which nothing undoes,
so `IInv` is conditional on `outlived = {}`: a writer's file and what is in it are
of one database, a compaction at work is of the open one and has its mutex, its
copy has whatever the file has, the file at the path has all that must be kept,
and a file left anywhere is one that a deletion under way will find.

`JobServerProofs` proves, for every set of names, every number of jobs and
failures, `OneRunner`: two runners are never at work under one name, which is
"already running" of `add_job` for every interleaving with `DELETE`, restart and
shutdown.  Its `IInv` says that a live entry is the one in the table, and that a
runner has ended exactly when its entry says so: `add_job` replaces only such.

`ReplManagerProofs` proves, for any documents, specs, edits and faults
(`ManagerAssumption`), `DocJobsInTable` and the action property `EditsKept`.
`DocJobsAreInTable` needs that a document whose job is being built has no other
active one (`BuildsAlone`); `EditsAreKept` needs that a revision stands for one
content (`ReadsAreOld`): a stamp is written back only where the revision it read is
still there, so what it merges into has the spec it read.

`ReplicationProofs` is the largest: for any history of the source, any page size,
channel and number of sessions and faults, `RecordsNeverRunAhead`
(`CheckpointsAreSound`) and `DoneMeansDone` (`SessionIsComplete`).  Also that it implements `Copying` (`ReplicationIsCopying`), with no more of an
invariant than these need: a step of the reader or of a stage is a `Copy` or a
stutter, writing a checkpoint document on one side a `Record` of what `Resume` then
finds, and a clean end a `Claim`.  The inductive
invariant is kept like books.  `Counted`: an entry of the ledger counts at least the
work in flight under its ordinal, and exactly that while nothing was lost.
`LedgerHolds`: every revision listed at or before the seq of an entry, or that a
record might name, is known at the target, or given up on, or borne by work in
flight under that ordinal or an earlier one.  Each stage takes some work out and
puts some back, so there is one lemma for losing work, one for completing it, and
one for each exchange of one kind for another (a row for its missing revisions, a
revision for its document, a document for its attachments); the steps of the stages
are instances.  The reader's part (`ReaderIsSound`) says that what is listed up to
where it reads is in the books or in its page, `SessionIsSound` that a session
which ends clean has no work left, and `RecordsAreSafe` that each checkpoint, on
either side or on its way, is safe to resume from.  `ReplicationAssumption` says of
the source what a revision tree is: a parent is an earlier update of the document.

`IndexFileProofs` proves, for any documents, definitions, batches and requests,
`IndexIsCurrent` (`RowsAreCurrent`) and `ScansSeeSnapshots` (`LockedOrScanning`).
The inductive part is an update half way (`UpdateIsSound`): its copy of the index is
current up to `since`, and what the store has not changed since the snapshot is what
the snapshot shows; and a purge half way (`PurgeIsSound`): no file has seen what it
left.  A batch takes the lowest pending seqs (`BatchIsLowest`), so that `since` may
move to its last.  `IndexAssumption` has finitely many ids and definitions, the
latter with distinct names in an order, which is how `_index` lists them.

`ProtoDocsProofs` proves, for any requests, documents and descriptor sets,
`FlagIsAlwaysHeeded` and `RegistriesAreCurrent`.  What is served, or opened and about
to be, was the header once (`WasHeader`): without the mark it is of before
`markSeq`, so the snapshot check that lets JSON in is one of before the mark.  Writes that check
nothing can bring no proto document in: an attachment edit writes back at most what it
read from a snapshot (`ReadForAttsKeepsIInv`).  While
`_schemas` is not rewound, a seq stands for one state of it (`SchemasAreSound`), so a
registry cached under a seq, or built from what was fetched at it, has the whole of
that state; the rounds of `Registry::build` are followed as a recursive function.
`ProtoAssumption` keeps the roles of requests apart.

The invariants of all these modules were first checked by TLC in the runs' models,
and there is one lemma per action.  Definitions that go by a recursive function on
numbers (`Ancestry`, `Rounds`) or that pick an order by `CHOOSE` (`InOrder`) are
reasoned about through the least counterexample (`MinExists`), since the library's
induction theorems take an operator.

Only model-checked:

- liveness (`AckedWriteReachesFeed`, `HeartbeatsFlow`, `SessionsEnd`,
  `ReplicasSettle`, `CancelledJobsEnd`, `DocsAreServed`), which needs fairness and `ENABLED`, out of the prover's reach;
- `RevForest` as a state machine: `DocStoreProofs` has the lemmas about its operators, but
  what the run asks is that `KeyForest` implements it (`ImplementsRevForest`);
- `KeyForest`, `BTree`, `Mango`, `Planner`, `Spatial` and `Find`: what their
  `RECURSIVE` operators compute would need induction over data, and no theorem can
  be stated where one is declared.

## What is not modelled

- Chunk framing, checksums, block markers and torn headers: the choice after a
  crash is between two headers, as `read_header` would find them.  `DocStore` takes
  `add_remove` as an update of a map, which is what the refinement of `btree` says.
- Term codecs, compression, JSON text, rendering, attachment bodies: conversions
  without state; a body is the seq it was stored under.
- Of selectors: `$type`, `$mod`, `$regex` and `$keyMapMatch`, which look at one
  value and are never pushed into a range; selectors that do not compile; floats,
  for which an integer stands.  `use_index` gives the name of an index; naming its
  design document instead chooses among that document's indexes in the same way.
- `validate.rs` and `jsfilter.rs`: pure functions of one document and of one text.
- Proto documents: decoding, extraction of the fields a query needs, validation
  and the migration tool are pure conversions.  Index rows built before a schema
  was registered are not in `IndexFile`, which has no proto documents.
- Process start with more than one name, the auto-compactor's schedule, panics that
  poison a mutex.
- Of replication: `winning_revs_only`, an explicit start seq, multipart framing,
  histories cut to 50 entries, a source that is deleted and created again, and a
  selector's effect beyond documents being hidden from the feed.  HTTP retries
  below a request are one request that succeeds or fails.
- Sessions and authentication, metrics, the spool and the command lines: no
  protocol of their own.

## Plan

1. Index rows of proto documents while `_schemas` changes.
2. `DocStore` with conflicting branches in one document.
