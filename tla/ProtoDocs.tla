------------------------------ MODULE ProtoDocs ------------------------------
(* Proto-native databases (couch-http proto.rs, api_docs.rs, api_db.rs)    *)
(* and the schemas their documents are decoded by: the database _schemas,  *)
(* the registry built from it and the server's cache of that (state.rs).   *)
(*                                                                         *)
(* One document of one database.  Its leaves are numbered by the update    *)
(* seq they were written at; a message stands for its type and its bytes.  *)
(* A write and its commit are one step under the writer mutex; what comes  *)
(* before it and the refresh after it are not.                             *)
EXTENDS Naturals, SequencesExt

CONSTANTS
  Creator, JsonPuts, ProtoPuts, Envelopes, Deletes, Gets,   \* the requests
  AttEdits,    \* those that put or delete an attachment
  NoIds,       \* _bulk_docs with a JSON document that has no _id
  Payload,     \* the message of each proto put and each envelope
  SchemaDocs,  \* the ids of _schemas, in their order
  SetOf,       \* descriptor set -> [file, needs, messages]
  Uploads,     \* <<document, set>>: what is stored in _schemas
  MaxSeq,      \* bound on the update seq of the database
  MaxSchemaSeq, \* bound on that of _schemas
  Mixes        \* bound: the sets of requests that come in one behaviour

Unchecked == AttEdits \cup NoIds
Requests ==
  {Creator} \cup JsonPuts \cup ProtoPuts \cup Envelopes \cup Deletes \cup Gets \cup Unchecked

ASSUME ProtoAssumption ==
  /\ MaxSeq \in Nat /\ MaxSchemaSeq \in Nat
  /\ SchemaDocs \in Seq(ToSet(SchemaDocs)) /\ IsInjective(SchemaDocs)
  /\ Mixes \subseteq SUBSET Requests
  /\ Creator \notin JsonPuts \cup ProtoPuts \cup Envelopes \cup Deletes \cup Gets \cup Unchecked
  /\ JsonPuts \cap (ProtoPuts \cup Envelopes \cup Deletes \cup Gets \cup Unchecked) = {}
  /\ ProtoPuts \cap (Envelopes \cup Deletes \cup Gets \cup Unchecked) = {}
  /\ Envelopes \cap (Deletes \cup Gets \cup Unchecked) = {}
  /\ Deletes \cap (Gets \cup Unchecked) = {}
  /\ Gets \cap Unchecked = {}

VARIABLES
  schemas,   \* the open _schemas: [open, docs, seq]
  cache,     \* ServerState.proto_cache: nothing or one [seq, reg]
  made,      \* the database exists
  header,    \* its newest header: [native, leaves, seq]
  snap,      \* its snapshot
  pc,        \* where each request is
  local,     \* what each request has read so far
  served,    \* history: the highest seq of any snapshot served
  past,      \* history: what _schemas has held, in the order of its seqs
  rewound,   \* history: _schemas was purged or created anew
  markSeq    \* history: the seq at which the database was made proto-native

database == <<made, header, snap>>
histories == <<served, past, rewound, markSeq>>
vars == <<schemas, cache, database, pc, local, histories>>

Nothing == "nothing"
NoRev == 0
Never == MaxSeq + 1
EmptyDb == [native |-> FALSE, leaves |-> {}, seq |-> 0]
NoSchemas == [d \in ToSet(SchemaDocs) |-> Nothing]

---------------------------------------------------------------------------
(* build_registry, Registry::build.  The sets are added in the order of    *)
(* the documents; one that needs a file not there yet waits for the next   *)
(* round, one whose file is there already is skipped.  Bytes that are no   *)
(* descriptor set at all are one that needs a file nobody has.             *)
Attached(docs) == {d \in DOMAIN docs : docs[d] # Nothing}

NoFiles == [f \in {} |-> Nothing]

Try(docs, state, d) ==
  LET set == docs[d]
      file == SetOf[set].file
      known == DOMAIN state.pool
  IN  IF d \notin state.left \/ (file \notin known /\ ~(SetOf[set].needs \subseteq known))
      THEN state
      ELSE [pool |-> IF file \in known THEN state.pool
                     ELSE [f \in known \cup {file} |-> IF f = file THEN set ELSE state.pool[f]],
            left |-> state.left \ {d}]

Rounds(docs) ==   \* as many as there are sets will do
  LET n == Len(SchemaDocs)
      after[i \in 0..n * n] ==
        IF i = 0 THEN [pool |-> NoFiles, left |-> Attached(docs)]
        ELSE Try(docs, after[i - 1], SchemaDocs[((i - 1) % n) + 1])
  IN  after

Pooled(docs) == Rounds(docs)[Len(SchemaDocs) * Len(SchemaDocs)]

NoRegistry == [status |-> "none", pool |-> NoFiles]
Broken == [status |-> "error", pool |-> NoFiles]

Silent(pool) == \A f \in DOMAIN pool : SetOf[pool[f]].messages = {}

BuildFromPart(docs) ==   \* a fault: a set that does not resolve is left out
  LET pool == Pooled(docs).pool
  IN  IF Silent(pool) THEN NoRegistry ELSE [status |-> "some", pool |-> pool]

Build(docs) ==
  LET result == Pooled(docs)
  IN  CASE result.left # {} -> Broken
        [] result.left = {} /\ Silent(result.pool) -> NoRegistry
        [] OTHER -> [status |-> "some", pool |-> result.pool]

DecodedBy(reg, message) ==
  \E f \in DOMAIN reg.pool : message \in SetOf[reg.pool[f]].messages

---------------------------------------------------------------------------
NoLeaf == [rev |-> NoRev, kind |-> "json", body |-> Nothing, deleted |-> FALSE]

(* rev and seen: the client's rev, the seqs served when it was checked; cur:*)
(* the winner read; docs, seq: the _schemas snapshot; began: the seq of    *)
(* _schemas when the request came.                                         *)
Blank ==
  [rev |-> NoRev, seen |-> 0, cur |-> NoLeaf, docs |-> NoSchemas, seq |-> 0,
   reg |-> NoRegistry, began |-> 0, opened |-> EmptyDb]

Init ==
  /\ schemas = [open |-> TRUE, docs |-> NoSchemas, seq |-> 0]
  /\ cache = {}
  /\ made = FALSE /\ header = EmptyDb /\ snap = EmptyDb
  /\ \E mix \in Mixes :
       pc = [p \in Requests |-> IF p \in mix \cup {Creator} THEN "new" ELSE "done"]
  /\ local = [p \in Requests |-> Blank]
  /\ served = 0 /\ past = <<NoSchemas>> /\ rewound = FALSE /\ markSeq = Never

Goto(p, label) == pc' = [pc EXCEPT ![p] = label]

(* What a request has read is of no use to anyone once it has ended.       *)
Becomes(p, label, known) ==
  /\ Goto(p, label)
  /\ local' = [local EXCEPT ![p] = IF label = "done" THEN Blank ELSE known]

(* A live leaf before a tombstone, then the later one.                     *)
Winner(leaves) ==
  CHOOSE l \in leaves : \A m \in leaves :
    IF l.deleted # m.deleted THEN m.deleted ELSE m.rev <= l.rev

RevsOf(db) == {l.rev : l \in db.leaves}

(* is_envelope: what is opened reads as a proto document.  A leaf whose    *)
(* attachments were edited is stored as the JSON it was opened as, the     *)
(* $pb_type and $pb_body of a proto document among it.                     *)
IsEnvelope(leaf) == leaf.kind = "proto" \/ leaf.body # Nothing

---------------------------------------------------------------------------
(* db_create with proto=true: two commits, the second of a new flag only.  *)
CreateDb ==
  /\ pc[Creator] = "new"
  /\ made' = TRUE
  /\ Goto(Creator, "mark")
  /\ UNCHANGED <<schemas, cache, header, snap, local, histories>>

MarkNative ==
  /\ pc[Creator] = "mark"
  /\ header' = [header EXCEPT !.native = TRUE]
  /\ markSeq' = header.seq
  /\ Goto(Creator, "open")
  /\ UNCHANGED <<schemas, cache, made, snap, local, served, past, rewound>>

(* refresh: the file is opened and, unless the snapshot is of a later seq, *)
(* installed.                                                              *)
Open(p) ==
  /\ pc[p] = "open"
  /\ Becomes(p, "install", [Blank EXCEPT !.opened = header])
  /\ UNCHANGED <<schemas, cache, database, histories>>

Serves(db) ==
  /\ snap' = db
  /\ served' = IF db.seq > served THEN db.seq ELSE served

InstallAnyway(p) ==   \* a fault: the seqs are not compared
  /\ pc[p] = "install"
  /\ Serves(local[p].opened)
  /\ Becomes(p, "done", Blank)
  /\ UNCHANGED <<schemas, cache, made, header, past, rewound, markSeq>>

Install(p) ==
  /\ pc[p] = "install"
  /\ Serves(IF local[p].opened.seq >= snap.seq THEN local[p].opened ELSE snap)
  /\ Becomes(p, "done", Blank)
  /\ UNCHANGED <<schemas, cache, made, header, past, rewound, markSeq>>

---------------------------------------------------------------------------
(* The checks a write passes, on the snapshot and without the mutex.  An   *)
(* attachment's edit and a document without _id pass none.                 *)
Arrives(p, rev, label) ==
  /\ pc[p] = "new" /\ made
  /\ rev \in RevsOf(snap) \cup {NoRev}
  /\ Becomes(p, label, [Blank EXCEPT !.rev = rev, !.seen = served, !.began = schemas.seq])
  /\ UNCHANGED <<schemas, cache, database, histories>>

CheckJson(p, rev) ==
  Arrives(p, rev, IF snap.native THEN "done" ELSE "write")

CheckEnvelopeNever(p) ==   \* a fault: an envelope is taken anywhere
  Arrives(p, NoRev, "write")

CheckEnvelope(p) ==
  Arrives(p, NoRev, IF snap.native THEN "write" ELSE "done")

CheckProto(p, rev) ==
  Arrives(p, rev, IF snap.native THEN "look" ELSE "done")

CheckDelete(p, rev) ==
  rev # NoRev /\ Arrives(p, rev, IF snap.native THEN "read" ELSE "write")

(* modify_atts: the live leaf with that rev, the live winner without one;  *)
(* where there is none a put without a rev starts from nothing.  It ends   *)
(* with a conflict, or as the attachment to delete is missing.             *)
ReadForAtts(p, rev) ==
  LET named == {l \in snap.leaves :
                  IF rev = NoRev THEN l = Winner(snap.leaves) ELSE l.rev = rev}
      live == {l \in named : ~l.deleted}
  IN  /\ pc[p] = "new" /\ made
      /\ rev \in RevsOf(snap) \cup {NoRev}
      /\ \/ \E l \in live : Becomes(p, "write", [Blank EXCEPT !.rev = l.rev, !.cur = l])
         \/ live = {} /\ rev = NoRev /\ Becomes(p, "write", Blank)
         \/ Becomes(p, "done", Blank)
      /\ UNCHANGED <<schemas, cache, database, histories>>

(* The body of the tombstone is the winner's, of a snapshot taken after    *)
(* the one that was checked.  A JSON winner cannot be deleted.             *)
ReadWinner(p) ==
  /\ pc[p] = "read"
  /\ snap.leaves # {}
  /\ Becomes(p, IF IsEnvelope(Winner(snap.leaves)) THEN "look" ELSE "done",
             [local[p] EXCEPT !.cur = Winner(snap.leaves)])
  /\ UNCHANGED <<schemas, cache, database, histories>>

Get(p) ==
  /\ pc[p] = "new" /\ made
  /\ IF snap.leaves = {} \/ Winner(snap.leaves).deleted
     THEN Becomes(p, "done", Blank)
     ELSE Becomes(p, IF IsEnvelope(Winner(snap.leaves)) THEN "look" ELSE "done",
                  [Blank EXCEPT !.cur = Winner(snap.leaves), !.began = schemas.seq])
  /\ UNCHANGED <<schemas, cache, database, histories>>

---------------------------------------------------------------------------
(* proto_registry: the snapshot of _schemas, the cache if it is of the     *)
(* same seq, else a new registry, which replaces whatever is cached then.  *)
Look(p) ==
  /\ pc[p] = "look"
  /\ Becomes(p, IF schemas.open THEN "compare" ELSE "use",
             [local[p] EXCEPT !.docs = schemas.docs, !.seq = schemas.seq])
  /\ UNCHANGED <<schemas, cache, database, histories>>

CompareNothing(p) ==   \* a fault: what is cached is taken for current
  /\ pc[p] = "compare"
  /\ local' = [local EXCEPT ![p].reg = IF cache = {} THEN @ ELSE (CHOOSE c \in cache : TRUE).reg]
  /\ Goto(p, IF cache = {} THEN "build" ELSE "use")
  /\ UNCHANGED <<schemas, cache, database, histories>>

Compare(p) ==
  LET hits == {c \in cache : c.seq = local[p].seq}
  IN  /\ pc[p] = "compare"
      /\ \/ /\ \E c \in hits : local' = [local EXCEPT ![p].reg = c.reg]
            /\ Goto(p, "use")
         \/ /\ hits = {}
            /\ Goto(p, "build")
            /\ UNCHANGED local
      /\ UNCHANGED <<schemas, cache, database, histories>>

BuildRegistry(p) ==
  LET reg == Build(local[p].docs)
  IN  /\ pc[p] = "build"
      /\ \/ /\ reg = Broken
            /\ Becomes(p, "done", Blank)
            /\ UNCHANGED cache
         \/ /\ reg # Broken
            /\ cache' = {[seq |-> local[p].seq, reg |-> reg]}
            /\ Becomes(p, "use", [local[p] EXCEPT !.reg = reg])
      /\ UNCHANGED <<schemas, database, histories>>

(* A put has to decode, a read is answered; a tombstone goes on whether it *)
(* could be rendered or not.                                               *)
Use(p) ==
  /\ pc[p] = "use"
  /\ Becomes(p, CASE p \in ProtoPuts ->
                       IF DecodedBy(local[p].reg, Payload[p]) THEN "write" ELSE "done"
                  [] p \in Gets -> "done"
                  [] p \in Deletes -> "write",
             [local[p] EXCEPT !.docs = NoSchemas, !.seq = 0])
  /\ UNCHANGED <<schemas, cache, database, histories>>

---------------------------------------------------------------------------
(* save_doc, save_proto_doc: the leaf to extend, none for a conflict.      *)
Extended(rev) ==
  CASE rev # NoRev -> {{l} : l \in {l \in header.leaves : l.rev = rev}}
    [] rev = NoRev /\ header.leaves = {} -> {{}}
    [] OTHER -> {{l} : l \in {Winner(header.leaves)} \cap {l \in header.leaves : l.deleted}}

Store(p, parents, kind, body, deleted) ==
  LET leaf == [rev |-> header.seq + 1, kind |-> kind, body |-> body, deleted |-> deleted]
  IN  /\ header.seq < MaxSeq
      /\ header' = [header EXCEPT !.leaves = (@ \ parents) \cup {leaf}, !.seq = @ + 1]
      /\ Becomes(p, "open", Blank)
      /\ UNCHANGED <<schemas, cache, made, snap, histories>>

WriteJson(p) ==
  /\ pc[p] = "write" /\ p \in JsonPuts
  /\ \E parents \in Extended(local[p].rev) : Store(p, parents, "json", Nothing, FALSE)

WriteProto(p) ==
  /\ pc[p] = "write" /\ p \in ProtoPuts
  /\ \E parents \in Extended(local[p].rev) : Store(p, parents, "proto", Payload[p], FALSE)

WriteTombstone(p) ==
  /\ pc[p] = "write" /\ p \in Deletes
  /\ \E parents \in Extended(local[p].rev) :
       Store(p, parents, IF IsEnvelope(local[p].cur) THEN "proto" ELSE "json",
             local[p].cur.body, TRUE)

WriteAtts(p) ==
  /\ pc[p] = "write" /\ p \in AttEdits
  /\ \E parents \in Extended(local[p].rev) :
       Store(p, parents, "json", local[p].cur.body, FALSE)

(* Its id is generated: that of this document, which is new, or of another.*)
WriteWithoutId(p) ==
  /\ pc[p] = "new" /\ made /\ p \in NoIds
  /\ header.leaves = {}
  /\ Store(p, {}, "json", Nothing, FALSE)

(* update_docs: the revision extends a leaf or is a branch of its own, and *)
(* nothing is decoded.                                                     *)
WriteEnvelope(p) ==
  /\ pc[p] = "write" /\ p \in Envelopes
  /\ \E parents \in {{}} \cup {{l} : l \in header.leaves} :
       Store(p, parents, "proto", Payload[p], FALSE)

Conflict(p) ==
  /\ pc[p] = "write" /\ p \notin Envelopes
  /\ Extended(local[p].rev) = {}
  /\ Becomes(p, "done", Blank)
  /\ UNCHANGED <<schemas, cache, database, histories>>

---------------------------------------------------------------------------
(* _schemas is a database as any other, written by requests of its own.    *)
SchemasHold(docs) ==
  /\ schemas.open /\ schemas.seq < MaxSchemaSeq
  /\ schemas' = [schemas EXCEPT !.docs = docs, !.seq = @ + 1]
  /\ past' = Append(past, docs)
  /\ UNCHANGED <<cache, database, pc, local, served, rewound, markSeq>>

PutSchema(d, set) == SchemasHold([schemas.docs EXCEPT ![d] = set])

DeleteSchema(d) == schemas.docs[d] # Nothing /\ SchemasHold([schemas.docs EXCEPT ![d] = Nothing])

(* A purge of a document's last leaf leaves the update seq alone.          *)
PurgeSchema(d) ==
  /\ schemas.open /\ schemas.docs[d] # Nothing /\ ~rewound
  /\ schemas' = [schemas EXCEPT !.docs[d] = Nothing]
  /\ rewound' = TRUE
  /\ UNCHANGED <<cache, database, pc, local, served, past, markSeq>>

DropSchemas ==
  /\ schemas.open /\ ~rewound
  /\ schemas' = [open |-> FALSE, docs |-> NoSchemas, seq |-> 0]
  /\ rewound' = TRUE
  /\ UNCHANGED <<cache, database, pc, local, served, past, markSeq>>

CreateSchemas ==
  /\ ~schemas.open
  /\ schemas' = [schemas EXCEPT !.open = TRUE]
  /\ UNCHANGED <<cache, database, pc, local, histories>>

(* The requests under way are gone; what was committed is served.          *)
Crash ==
  /\ pc' = [p \in Requests |-> IF pc[p] = "new" THEN pc[p] ELSE "done"]
  /\ local' = [p \in Requests |-> Blank]
  /\ Serves(header)
  /\ cache' = {}
  /\ UNCHANGED <<schemas, made, header, past, rewound, markSeq>>

---------------------------------------------------------------------------
Serve(p) ==
  \/ ReadWinner(p) \/ Look(p) \/ Compare(p) \/ BuildRegistry(p) \/ Use(p)
  \/ WriteJson(p) \/ WriteProto(p) \/ WriteTombstone(p) \/ WriteEnvelope(p)
  \/ WriteAtts(p) \/ WriteWithoutId(p)
  \/ Conflict(p) \/ Open(p) \/ Install(p)

Next ==
  \/ CreateDb \/ MarkNative
  \/ \E p \in JsonPuts : \E rev \in 0..MaxSeq : CheckJson(p, rev)
  \/ \E p \in ProtoPuts : \E rev \in 0..MaxSeq : CheckProto(p, rev)
  \/ \E p \in Deletes : \E rev \in 0..MaxSeq : CheckDelete(p, rev)
  \/ \E p \in AttEdits : \E rev \in 0..MaxSeq : ReadForAtts(p, rev)
  \/ \E p \in Envelopes : CheckEnvelope(p)
  \/ \E p \in Gets : Get(p)
  \/ \E p \in Requests : Serve(p)
  \/ \E d \in ToSet(SchemaDocs) : DeleteSchema(d) \/ PurgeSchema(d)
  \/ \E upload \in Uploads : PutSchema(upload[1], upload[2])
  \/ DropSchemas \/ CreateSchemas \/ Crash

Spec == Init /\ [][Next]_vars

---------------------------------------------------------------------------
SetIds == {upload[2] : upload \in Uploads}
SchemaState == [ToSet(SchemaDocs) -> SetIds \cup {Nothing}]
Pools == UNION {[files -> SetIds] : files \in SUBSET {SetOf[s].file : s \in SetIds}}
Registry == [status : {"none", "some"}, pool : Pools]
Messages == {Payload[p] : p \in ProtoPuts \cup Envelopes} \cup {Nothing}
Leaf == [rev : 0..MaxSeq, kind : {"json", "proto"}, body : Messages, deleted : BOOLEAN]
Db == [native : BOOLEAN, leaves : SUBSET Leaf, seq : 0..MaxSeq]
Reading ==
  [rev : 0..MaxSeq, seen : 0..MaxSeq, cur : Leaf, docs : SchemaState,
   seq : 0..MaxSchemaSeq, reg : Registry, began : 0..MaxSchemaSeq, opened : Db]

StoringLabels == {"new", "write", "open", "install", "done"}

LabelsOf(p) ==
  CASE p = Creator -> {"new", "mark", "open", "install", "done"}
    [] p \in JsonPuts \cup Envelopes \cup Unchecked -> StoringLabels
    [] p \in ProtoPuts -> StoringLabels \cup {"look", "compare", "build", "use"}
    [] p \in Deletes -> StoringLabels \cup {"read", "look", "compare", "build", "use"}
    [] p \in Gets -> {"new", "look", "compare", "build", "use", "done"}

TypeOK ==
  /\ schemas \in [open : BOOLEAN, docs : SchemaState, seq : 0..MaxSchemaSeq]
  /\ cache \in SUBSET [seq : 0..MaxSchemaSeq, reg : Registry] /\ Cardinality(cache) <= 1
  /\ made \in BOOLEAN /\ header \in Db /\ snap \in Db
  /\ DOMAIN pc = Requests /\ \A p \in Requests : pc[p] \in LabelsOf(p)
  /\ local \in [Requests -> Reading]
  /\ served \in 0..MaxSeq /\ past \in Seq(SchemaState)
  /\ rewound \in BOOLEAN /\ markSeq \in 0..Never
  /\ \A db \in {header, snap} : db.leaves = {} <=> db.seq = 0

Proto(db) == \E l \in db.leaves : IsEnvelope(l)

(* A database with a document that reads as a proto document, stored as    *)
(* one or with its attachments edited, is proto-native in every header and *)
(* every snapshot that can be served ("proto documents require a           *)
(* proto-native database"), though the flag is read from a snapshot that a *)
(* racing refresh may put back, and committed apart from the database.     *)
EnvelopesAreNative ==
  \A db \in {header, snap} \cup {local[p].opened : p \in Requests} : Proto(db) => db.native

(* A JSON write that is checked and still let in was checked before any    *)
(* snapshot beyond the commit of the flag was served.  It says nothing of  *)
(* the writes that check nothing: see AppDocsAreProto.                     *)
CheckedJsonIsOfBefore == \A p \in JsonPuts : pc[p] = "write" => local[p].seen <= markSeq

(* The checks heed the flag, whatever races with the two commits that      *)
(* create a proto-native database and whatever crash comes between them    *)
(* (api_docs.rs:334-350, api_db.rs:44-47).                                 *)
FlagIsHeeded == TypeOK /\ EnvelopesAreNative /\ CheckedJsonIsOfBefore

(* What the code's comment says, "application docs in a proto db are       *)
(* proto, period" (api_docs.rs:334), and no run checks, for TLC refutes    *)
(* it: an attachment put makes or rewrites a JSON document                 *)
(* (api_docs.rs:856) and a document without _id is stored as it comes      *)
(* (api_bulk.rs:43), both after the flag was committed and served.         *)
AppDocsAreProto == \A l \in header.leaves : l.kind = "json" => l.rev <= markSeq

(* A registry has everything in one state of _schemas: every file, from    *)
(* one of the sets that define it, and all that needs; and there is none   *)
(* only if these have no message.                                          *)
Sets(docs) == {docs[d] : d \in Attached(docs)}
FilesOf(docs) == {SetOf[s].file : s \in Sets(docs)}

Complete(pool, docs) ==
  /\ pool \in [FilesOf(docs) -> Sets(docs)]
  /\ \A f \in FilesOf(docs) :
       SetOf[pool[f]].file = f /\ SetOf[pool[f]].needs \subseteq FilesOf(docs)

Whole(reg, docs) ==
  \/ /\ reg.status = "none"
     /\ \E pool \in [FilesOf(docs) -> Sets(docs)] : Complete(pool, docs) /\ Silent(pool)
  \/ reg.status = "some" /\ Complete(reg.pool, docs)

Answered(p) == pc[p] = "use" \/ (pc[p] = "write" /\ p \in ProtoPuts)

(* "A registry silently built from part of its inputs would mask exactly   *)
(* the misconfiguration the operator needs to see", and it is "rebuilt     *)
(* whenever that database's update_seq moves": a request that goes on with *)
(* a registry, cached or new, has the whole of what _schemas held at some  *)
(* moment since it came, until _schemas is purged or created anew.         *)
RegistryIsCurrent ==
  ~rewound =>
    \A p \in Requests : Answered(p) =>
      \E s \in local[p].began..schemas.seq : Whole(local[p].reg, past[s + 1])

---------------------------------------------------------------------------
(* The inductive invariant.                                                *)

(* What is served, and what is about to be, was the header once: unless it *)
(* is proto-native it is of before the mark.                               *)
WasHeader(db) ==
  /\ db.seq <= header.seq
  /\ db.native => header.native
  /\ ~db.native => db.seq <= markSeq
  /\ Proto(db) => db.native
  /\ db.leaves = {} <=> db.seq = 0

DatabaseIsSound ==
  /\ header.native <=> markSeq # Never
  /\ Proto(header) => header.native
  /\ WasHeader(snap)
  /\ served = snap.seq

(* While _schemas is neither purged nor created anew, a seq stands for one *)
(* state of it.                                                            *)
Held(seq) == past[seq + 1]

SchemasAreSound ==
  ~rewound =>
    /\ schemas.open /\ Len(past) = schemas.seq + 1 /\ Held(schemas.seq) = schemas.docs
    /\ \A c \in cache : c.seq <= schemas.seq /\ Whole(c.reg, Held(c.seq))

(* What a request that stands at a label has read.  What is to be stored   *)
(* as a proto document was let in by a proto-native snapshot, or is the    *)
(* tombstone or the rewriting of one.                                      *)
HasRead(p, label, r) ==
  /\ WasHeader(r.opened)
  /\ r.seen <= served
  /\ IsEnvelope(r.cur) => header.native
  /\ p \in ProtoPuts \cup Envelopes /\ label \notin {"new", "open", "install", "done"} =>
       header.native
  /\ p \in JsonPuts /\ label = "write" => r.seen <= markSeq
  /\ ~rewound =>
       /\ r.began <= schemas.seq
       /\ label \in {"compare", "build"} =>
            r.seq \in r.began..schemas.seq /\ r.docs = Held(r.seq)
       /\ label = "use" \/ (label = "write" /\ p \in ProtoPuts) =>
            \E s \in r.began..schemas.seq : Whole(r.reg, Held(s))

RequestsAreSound == \A p \in Requests : HasRead(p, pc[p], local[p])

IInv == TypeOK /\ DatabaseIsSound /\ SchemasAreSound /\ RequestsAreSound
=============================================================================
