---------------------------- MODULE DatabaseLife ----------------------------
(***************************************************************************)
(* One database name through deletions and creations (ServerState of       *)
(* couch-http state.rs): the map of open databases, the files behind their *)
(* path, and the requests still holding the handle of a database that was  *)
(* deleted under them.  What Database.tla takes apart - a write under the  *)
(* writer mutex - is one step here.                                        *)
(*                                                                         *)
(* Databases of the name are numbered as they are created, files are named *)
(* by the creation or the compaction that made them, and a file's contents *)
(* are the writes committed to it.                                         *)
(***************************************************************************)
EXTENDS Naturals, FiniteSets

CONSTANTS
    Writes, Compactions, Deletes,   \* the requests
    MaxDbs,   \* bound on the databases created under the name
    Layouts,  \* Layout::Flat is TRUE; FALSE is Layout::CouchDb, one path per creation
    None

Requests == Writes \union Compactions \union Deletes
Dbs == 1..MaxDbs
Files == Dbs \union Compactions
Paths == Dbs

ASSUME LifeAssumption ==
    /\ MaxDbs \in Nat \ {0} /\ Layouts \subseteq BOOLEAN
    /\ IsFiniteSet(Writes)
    /\ None \notin Requests \union Dbs
    /\ Requests \intersect Dbs = {}
    /\ Writes \intersect Compactions = {}
    /\ Writes \intersect Deletes = {}
    /\ Compactions \intersect Deletes = {}

VARIABLES
    flat,      \* ServerState.layout
    dbs,       \* the database of the name in ServerState.dbs
    made,      \* the number of databases created
    dir,       \* the file at each path
    scratch,   \* the file at each path's ".compact"
    content,   \* the writes in each file
    whole,     \* the files whose header is written
    writer,    \* the file each database's DbWriter has open
    holder,    \* who holds each database's writer mutex while compacting
    snap,      \* what each database's snapshot holds
    handle,    \* the database each request looked up
    pc,        \* where each request is
    outlived   \* history: the compactions that were at work when their
               \* database was deleted

disk == <<dir, scratch, content, whole>>
vars == <<flat, dbs, made, disk, writer, holder, snap, handle, pc, outlived>>

\* db_path: creation times, in seconds, differ.
Path(k) == IF flat THEN 1 ELSE k

Goto(p, label) == pc' = [pc EXCEPT ![p] = label]

\* The file can be opened and has a header.
Readable(path) == dir[path] \in whole

\* A server has the database open.  In a CouchDb directory the file of a
\* database of the name that was deleted before may be left.
Init ==
    /\ flat \in Layouts
    /\ made \in {1} \union (IF flat \/ MaxDbs < 2 THEN {} ELSE {2})
    /\ dbs = made
    /\ dir = [path \in Paths |-> IF path <= made THEN path ELSE None]
    /\ scratch = [path \in Paths |-> None]
    /\ content = [f \in Files |-> {}]
    /\ whole = 1..made
    /\ writer = [k \in Dbs |-> IF k = made THEN k ELSE None]
    /\ holder = [k \in Dbs |-> None]
    /\ snap = [k \in Dbs |-> {}]
    /\ handle = [p \in Requests |-> None]
    /\ pc = [p \in Requests |-> "new"]
    /\ outlived = {}

-----------------------------------------------------------------------------
(* create_db, delete_db                                                     *)

\* Mutant of Create: a file that is there already is opened.
CreateOrOpen ==
    LET k == made + 1
        file == IF dir[Path(k)] = None THEN k ELSE dir[Path(k)]
    IN  /\ dbs = None /\ made < MaxDbs
        /\ dbs' = k /\ made' = k
        /\ dir' = [dir EXCEPT ![Path(k)] = file]
        /\ whole' = whole \union {k}
        /\ writer' = [writer EXCEPT ![k] = file]
        /\ snap' = [snap EXCEPT ![k] = content[file]]
        /\ UNCHANGED <<flat, outlived, scratch, content, holder, handle, pc>>

\* Under the lock of the map; a file left at the path is an error.
Create ==
    LET k == made + 1
    IN  /\ dbs = None /\ made < MaxDbs
        /\ dir[Path(k)] = None
        /\ dbs' = k /\ made' = k
        /\ dir' = [dir EXCEPT ![Path(k)] = k]
        /\ whole' = whole \union {k}
        /\ writer' = [writer EXCEPT ![k] = k]
        /\ UNCHANGED <<flat, outlived, scratch, content, holder, snap, handle, pc>>

AtWork(p) == pc[p] \notin {"new", "done", "failed"}

\* The database leaves the map first, and the lock is released.
Delete(d) ==
    /\ pc[d] = "new"
    /\ dbs # None
    /\ handle' = [handle EXCEPT ![d] = dbs]
    /\ dbs' = None
    /\ Goto(d, "unlink")
    /\ outlived' = outlived \union {c \in Compactions : handle[c] = dbs /\ AtWork(c)}
    /\ UNCHANGED <<flat, made, disk, writer, holder, snap>>

\* Mutant of Unlink: only the database's own file goes.
UnlinkOne(d) ==
    /\ pc[d] = "unlink"
    /\ dir' = [dir EXCEPT ![Path(handle[d])] = None]
    /\ Goto(d, "done")
    /\ UNCHANGED <<flat, outlived, dbs, made, scratch, content, whole, writer, holder, snap, handle>>

Unlink(d) ==
    /\ pc[d] = "unlink"
    /\ dir' = [dir EXCEPT ![Path(handle[d])] = None]
    /\ Goto(d, IF dir[Path(handle[d])] = None THEN "failed"
               ELSE IF flat THEN "done" ELSE "sweep")
    /\ UNCHANGED <<flat, outlived, dbs, made, scratch, content, whole, writer, holder, snap, handle>>

\* Layout::CouchDb: every file of the name in the directory goes.
Sweep(d) ==
    /\ pc[d] = "sweep"
    /\ dir' = [path \in Paths |-> None]
    /\ Goto(d, "done")
    /\ UNCHANGED <<flat, outlived, dbs, made, scratch, content, whole, writer, holder, snap, handle>>

-----------------------------------------------------------------------------
(* Requests on a database                                                   *)

\* ServerState::db: the request keeps the handle whatever happens to the map.
Lookup(p) ==
    /\ pc[p] = "new"
    /\ dbs # None
    /\ handle' = [handle EXCEPT ![p] = dbs]
    /\ Goto(p, "lock")
    /\ UNCHANGED <<flat, outlived, dbs, made, disk, writer, holder, snap>>

Locks(p) == pc[p] = "lock" /\ holder[handle[p]] = None

\* with_writer
Commit(w) ==
    /\ Locks(w)
    /\ writer[handle[w]] # None
    /\ content' = [content EXCEPT ![writer[handle[w]]] = @ \union {w}]
    /\ Goto(w, "refresh")
    /\ UNCHANGED <<flat, outlived, dbs, made, dir, scratch, whole, writer, holder, snap, handle>>

Refuse(p) ==
    /\ Locks(p)
    /\ writer[handle[p]] = None
    /\ Goto(p, IF p \in Writes THEN "failed" ELSE "done")
    /\ UNCHANGED <<flat, outlived, dbs, made, disk, writer, holder, snap, handle>>

\* refresh opens whatever is at the path; its update seq is compared, not its
\* uuid.
Refresh(p) ==
    LET k == handle[p]
        found == content[dir[Path(k)]]
    IN  /\ pc[p] = "refresh"
        /\ Readable(Path(k))
        /\ snap' = [snap EXCEPT ![k] =
                      IF Cardinality(found) >= Cardinality(@) THEN found ELSE @]
        /\ Goto(p, "done")
        /\ UNCHANGED <<flat, outlived, dbs, made, disk, writer, holder, handle>>

RefreshFails(p) ==
    /\ pc[p] = "refresh"
    /\ ~Readable(Path(handle[p]))
    /\ Goto(p, "failed")
    /\ UNCHANGED <<flat, outlived, dbs, made, disk, writer, holder, snap, handle>>

-----------------------------------------------------------------------------
(* Database::compact                                                        *)

\* Mutant of CloseWriter: the writer stays open and the mutex free.
CloseNothing(c) ==
    /\ Locks(c)
    /\ writer[handle[c]] # None
    /\ Goto(c, "copy")
    /\ UNCHANGED <<flat, outlived, dbs, made, disk, writer, holder, snap, handle>>

CloseWriter(c) ==
    /\ Locks(c)
    /\ writer[handle[c]] # None
    /\ holder' = [holder EXCEPT ![handle[c]] = c]
    /\ writer' = [writer EXCEPT ![handle[c]] = None]
    /\ Goto(c, "copy")
    /\ UNCHANGED <<flat, outlived, dbs, made, disk, snap, handle>>

\* The file at the path is opened and the one at ".compact" is made anew.
Copy(c) ==
    LET path == Path(handle[c])
    IN  /\ pc[c] = "copy"
        /\ Readable(path)
        /\ scratch' = [scratch EXCEPT ![path] = c]
        /\ content' = [content EXCEPT ![c] = content[dir[path]]]
        /\ Goto(c, "finish")
        /\ UNCHANGED <<flat, outlived, dbs, made, dir, whole, writer, holder, snap, handle>>

CopyFails(c) ==
    /\ pc[c] = "copy"
    /\ ~Readable(Path(handle[c]))
    /\ Goto(c, "reopen_failed")
    /\ UNCHANGED <<flat, outlived, dbs, made, disk, writer, holder, snap, handle>>

FinishCopy(c) ==
    /\ pc[c] = "finish"
    /\ whole' = whole \union {c}
    /\ Goto(c, "rename")
    /\ UNCHANGED <<flat, outlived, dbs, made, dir, scratch, content, writer, holder, snap, handle>>

Rename(c) ==
    LET path == Path(handle[c])
    IN  /\ pc[c] = "rename"
        /\ scratch[path] # None
        /\ dir' = [dir EXCEPT ![path] = scratch[path]]
        /\ scratch' = [scratch EXCEPT ![path] = None]
        /\ Goto(c, "reopen")
        /\ UNCHANGED <<flat, outlived, dbs, made, content, whole, writer, holder, snap, handle>>

\* Another compaction of the path has moved the file away.
RenameFails(c) ==
    /\ pc[c] = "rename"
    /\ scratch[Path(handle[c])] = None
    /\ Goto(c, "reopen_failed")
    /\ UNCHANGED <<flat, outlived, dbs, made, disk, writer, holder, snap, handle>>

Reopen(c) ==
    LET k == handle[c]
    IN  /\ pc[c] \in {"reopen", "reopen_failed"}
        /\ holder' = [holder EXCEPT ![k] = None]
        /\ writer' = [writer EXCEPT ![k] = IF Readable(Path(k)) THEN dir[Path(k)] ELSE None]
        /\ Goto(c, IF pc[c] = "reopen" /\ Readable(Path(k)) THEN "refresh" ELSE "failed")
        /\ UNCHANGED <<flat, outlived, dbs, made, disk, snap, handle>>

-----------------------------------------------------------------------------
Compact(c) ==
    \/ CloseWriter(c) \/ Copy(c) \/ CopyFails(c) \/ FinishCopy(c)
    \/ Rename(c) \/ RenameFails(c) \/ Reopen(c)

Next ==
    \/ Create
    \/ \E d \in Deletes : Delete(d) \/ Unlink(d) \/ Sweep(d)
    \/ \E p \in Writes \union Compactions :
          Lookup(p) \/ Refuse(p) \/ Refresh(p) \/ RefreshFails(p)
    \/ \E w \in Writes : Commit(w)
    \/ \E c \in Compactions : Compact(c)

Spec == Init /\ [][Next]_vars

-----------------------------------------------------------------------------
(* Properties                                                               *)

\* The file a restart opens: the newest of the name (open_all).
OpenedAtStart ==
    LET there == {path \in Paths : dir[path] # None}
    IN  IF there = {} THEN None
        ELSE dir[CHOOSE path \in there : \A other \in there : other <= path]

\* The acknowledged writes to the database now open.
Acked == {w \in Writes : pc[w] = "done" /\ handle[w] = dbs}

\* Every acknowledged write to the open database is in the file a restart
\* opens, where a name has one path and no compaction outlives its database.
\* api_db.rs:102: "Every write already commits".
AckedSurviveRestart ==
    flat /\ outlived = {} /\ Acked # {} =>
        OpenedAtStart # None /\ Acked \subseteq content[OpenedAtStart]

\* What the open database serves are its own writes, all those acknowledged
\* among them, and nothing of a deleted database of the same name.
\* state.rs:92-93: no "acknowledged write would disappear from reads".
ServesItsOwnWrites ==
    dbs # None =>
        /\ Acked \subseteq snap[dbs]
        /\ \A w \in snap[dbs] : handle[w] = dbs

\* The same, as far as it holds: the only way to lose it is a compaction that
\* outlives its database.
KeepsToItsOwnWrites ==
    outlived = {} => ServesItsOwnWrites

\* A deleted database does not come back, "or a restart would resurrect the
\* newest leftover" (state.rs:368-369): once its deletion is done, and
\* if no compaction outlived it, no file of the name is left in either layout.
DeletedStaysDeleted ==
    (/\ dbs = None
     /\ \A d \in Deletes : pc[d] \notin {"unlink", "sweep"}
     /\ outlived = {})
        => OpenedAtStart = None

\* What a restart serves is what was acknowledged: the writes to the open
\* database and the deletion of one (api_db.rs:102, state.rs:368-369).
RestartIsFaithful == AckedSurviveRestart /\ DeletedStaysDeleted

-----------------------------------------------------------------------------
(* The inductive invariant.  Everything but the types holds until a         *)
(* compaction outlives its database, which nothing undoes.                  *)

OptionalFile == Files \union {None}

Labels ==
    {"new", "lock", "copy", "finish", "rename", "reopen", "reopen_failed", "refresh",
     "unlink", "sweep", "done", "failed"}

TypeOK ==
    /\ flat \in BOOLEAN
    /\ made \in Dbs
    /\ dbs \in {made, None}
    /\ dir \in [Paths -> OptionalFile]
    /\ scratch \in [Paths -> OptionalFile]
    /\ content \in [Files -> SUBSET Writes]
    /\ whole \in SUBSET Files
    /\ writer \in [Dbs -> OptionalFile]
    /\ holder \in [Dbs -> Compactions \union {None}]
    /\ snap \in [Dbs -> SUBSET Writes]
    /\ handle \in [Requests -> (1..made) \union {None}]
    /\ pc \in [Requests -> Labels]
    /\ outlived \in SUBSET Compactions

\* The database a file was made for.
Owner(f) == IF f \in Dbs THEN f ELSE handle[f]

HandlesAreKept == \A p \in Requests : pc[p] = "new" <=> handle[p] = None

NothingAhead == \A k \in Dbs : k > made => content[k] = {} /\ snap[k] = {}

\* A write goes to a file of the database whose handle it has.
WritersOwn == \A k \in Dbs : writer[k] # None => Owner(writer[k]) = k

ContentsOwn ==
    \A f \in Files : \A w \in content[f] : handle[w] # None /\ handle[w] = Owner(f)

\* A compaction is of the open database and has its mutex, and no one else
\* has it.
CompactsTheOpen == \A c \in Compactions : AtWork(c) => handle[c] = dbs

Holding(c) == pc[c] \in {"copy", "finish", "rename", "reopen", "reopen_failed"}

MutexHeld ==
    \A c \in Compactions : Holding(c) => holder[dbs] = c /\ writer[dbs] = None

\* What must not be lost of the open database: what it serves and what was
\* committed to it.
Kept == snap[dbs] \union {w \in Writes : handle[w] = dbs /\ pc[w] \in {"refresh", "done"}}

CopiesAreWhole ==
    \A c \in Compactions : pc[c] \in {"finish", "rename"} =>
        /\ scratch[Path(dbs)] = c
        /\ Kept \subseteq content[c]
        /\ dir[Path(dbs)] # None => content[dir[Path(dbs)]] \subseteq content[c]

FileIsCurrent ==
    dbs # None /\ dir[Path(dbs)] # None =>
        /\ Owner(dir[Path(dbs)]) = dbs
        /\ Kept \subseteq content[dir[Path(dbs)]]
        /\ writer[dbs] \in {dir[Path(dbs)], None}

\* Layout::Flat: one path, which has a file while the database is open and
\* until the one deletion under way has removed it.
FlatIsOnePath ==
    flat =>
        /\ \A path \in Paths \ {1} : dir[path] = None
        /\ dbs # None => dir[1] # None
        /\ \A d \in Deletes : pc[d] = "unlink" => dbs = None /\ dir[1] # None
        /\ \A d, e \in Deletes : pc[d] = "unlink" /\ pc[e] = "unlink" => d = e
        /\ \A d \in Deletes : pc[d] # "sweep"

\* Whatever file is left is the open database's, or a deletion will find it.
LeftoversAreSwept ==
    (\E path \in Paths : dir[path] # None) =>
        \/ dbs # None /\ dir[Path(dbs)] # None
        \/ \E d \in Deletes :
              \/ pc[d] = "unlink" /\ dir[Path(handle[d])] # None
              \/ pc[d] = "sweep"

LifeIsSound ==
    /\ HandlesAreKept /\ NothingAhead /\ WritersOwn /\ ContentsOwn
    /\ CompactsTheOpen /\ MutexHeld /\ CopiesAreWhole /\ FileIsCurrent
    /\ FlatIsOnePath /\ LeftoversAreSwept /\ ServesItsOwnWrites

IInv == TypeOK /\ (outlived = {} => LifeIsSound)
=============================================================================
