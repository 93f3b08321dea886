------------------------------ MODULE Database ------------------------------
(***************************************************************************)
(* One open database of the server (couch-http state.rs): requests take    *)
(* the writer lock, write and commit, release it, and then - unlocked, so  *)
(* racing each other - open a new read snapshot, install it and wake the   *)
(* changes feeds.  Compaction takes the writer away while it swaps files.  *)
(*                                                                         *)
(* What a header holds is reduced to the requests in it: the document      *)
(* writes in update-seq order (the seq is their number) and the quiet      *)
(* writes, which bump no update seq (_local documents, _security, purges   *)
(* that remove the last leaf).  DocStore.tla models the contents.          *)
(***************************************************************************)
EXTENDS Naturals, Sequences, FiniteSets

CONSTANTS
    DocWrites,    \* requests that write documents
    QuietWrites,  \* requests whose writes bump no update seq
    Compactions,  \* requests for compaction
    Failures,     \* which of "apply", "commit", "open", "copy",
                  \* "reopen" may fail
    Crashes,      \* whether the process may crash
    Nobody        \* holder of a free lock

Writes == DocWrites \union QuietWrites
Requests == Writes \union Compactions

ASSUME RequestsAssumption ==
    /\ DocWrites \intersect QuietWrites = {}
    /\ Writes \intersect Compactions = {}
    /\ Nobody \notin Requests
    /\ Crashes \in BOOLEAN

VARIABLES
    pc,        \* where each request is
    holder,    \* who holds the writer mutex
    writer,    \* whether the slot holds a DbWriter (Some) or not (None)
    mem,       \* the DbWriter's in-memory state
    header,    \* the newest header in the file
    durable,   \* the newest header known to be on disk
    opened,    \* the snapshot each request has opened and not yet installed
    seqOf,     \* the update seq each request took from the writer
    snap,      \* Database.snap
    watch      \* the value of seq_tx

files == <<header, durable>>
reads == <<snap, watch>>
vars == <<pc, holder, writer, mem, files, opened, seqOf, reads>>

Contents == [log : Seq(DocWrites), quiet : SUBSET QuietWrites]

NoContents == [log |-> <<>>, quiet |-> {}]

UpdateSeq(c) == Len(c.log)

With(c, w) ==
    IF w \in DocWrites THEN [c EXCEPT !.log = Append(@, w)]
    ELSE [c EXCEPT !.quiet = @ \union {w}]

Has(c, w) == \/ w \in c.quiet
             \/ \E i \in 1..Len(c.log) : c.log[i] = w

Goto(p, label) == pc' = [pc EXCEPT ![p] = label]

Init ==
    /\ pc = [p \in Requests |-> "new"]
    /\ holder = Nobody
    /\ writer = TRUE
    /\ mem = NoContents /\ header = NoContents /\ durable = NoContents
    /\ opened = [p \in Requests |-> NoContents]
    /\ seqOf = [p \in Requests |-> 0]
    /\ snap = NoContents
    /\ watch = 0

-----------------------------------------------------------------------------
(* with_writer                                                              *)

Arrive(p) ==
    /\ pc[p] = "new"
    /\ Goto(p, "lock")
    /\ UNCHANGED <<holder, writer, mem, files, opened, seqOf, reads>>

Lock(p) ==
    /\ pc[p] = "lock"
    /\ holder = Nobody
    /\ holder' = p
    /\ Goto(p, IF p \in Writes THEN "apply" ELSE "copy")
    /\ UNCHANGED <<writer, mem, files, opened, seqOf, reads>>

\* The slot is empty: 503, "database is being compacted, retry".
Refuse(w) ==
    /\ pc[w] = "apply"
    /\ ~writer
    /\ holder' = Nobody
    /\ Goto(w, "failed")
    /\ UNCHANGED <<writer, mem, files, opened, seqOf, reads>>

Apply(w) ==
    /\ pc[w] = "apply"
    /\ writer
    /\ mem' = With(mem, w)
    /\ Goto(w, "header")
    /\ UNCHANGED <<holder, writer, files, opened, seqOf, reads>>

\* The closure fails; what it did to the writer before stays there.
ApplyFails(w) ==
    /\ "apply" \in Failures
    /\ pc[w] = "apply"
    /\ writer
    /\ mem' \in {mem, With(mem, w)}
    /\ holder' = Nobody
    /\ Goto(w, "failed")
    /\ UNCHANGED <<writer, files, opened, seqOf, reads>>

\* Mutant of WriteHeader: the commit ends without the second fsync.
WriteHeaderUnsynced(w) ==
    /\ pc[w] = "header"
    /\ durable' = header
    /\ header' = mem
    /\ Goto(w, "unlock")
    /\ UNCHANGED <<holder, writer, mem, opened, seqOf, reads>>

\* commit: data fsync and header write; then the header's fsync.
WriteHeader(w) ==
    /\ pc[w] = "header"
    /\ durable' = header
    /\ header' = mem
    /\ Goto(w, "sync")
    /\ UNCHANGED <<holder, writer, mem, opened, seqOf, reads>>

SyncHeader(w) ==
    /\ pc[w] = "sync"
    /\ durable' = header
    /\ Goto(w, "unlock")
    /\ UNCHANGED <<holder, writer, mem, header, opened, seqOf, reads>>

CommitFails(w) ==
    /\ "commit" \in Failures
    /\ pc[w] \in {"header", "sync"}
    /\ holder' = Nobody
    /\ Goto(w, "failed")
    /\ UNCHANGED <<writer, mem, files, opened, seqOf, reads>>

\* The writer's update seq is read before the guard is dropped.
Unlock(p) ==
    /\ pc[p] = "unlock"
    /\ seqOf' = [seqOf EXCEPT ![p] = UpdateSeq(mem)]
    /\ holder' = Nobody
    /\ Goto(p, "open")
    /\ UNCHANGED <<writer, mem, files, opened, reads>>

-----------------------------------------------------------------------------
(* refresh: no lock is held from here on                                    *)

\* Mutant of OpenSnapshot: the feeds are woken before the snapshot is in place.
OpenAndNotify(p) ==
    /\ pc[p] = "open"
    /\ opened' = [opened EXCEPT ![p] = header]
    /\ watch' = IF seqOf[p] > watch THEN seqOf[p] ELSE watch
    /\ Goto(p, "install")
    /\ UNCHANGED <<holder, writer, mem, files, seqOf, snap>>

OpenSnapshot(p) ==
    /\ pc[p] = "open"
    /\ opened' = [opened EXCEPT ![p] = header]
    /\ Goto(p, "install")
    /\ UNCHANGED <<holder, writer, mem, files, seqOf, reads>>

\* The write is committed and nobody is told: the caller gets an error, the
\* feeds no wake-up, the readers the old snapshot.
OpenFails(p) ==
    /\ "open" \in Failures
    /\ pc[p] = "open"
    /\ Goto(p, "failed")
    /\ UNCHANGED <<holder, writer, mem, files, opened, seqOf, reads>>

\* Mutant of Install: whatever was opened is installed.
InstallAny(p) ==
    /\ pc[p] = "install"
    /\ snap' = opened[p]
    /\ Goto(p, "notify")
    /\ UNCHANGED <<holder, writer, mem, files, opened, seqOf, watch>>

Install(p) ==
    /\ pc[p] = "install"
    /\ snap' = IF UpdateSeq(opened[p]) >= UpdateSeq(snap) THEN opened[p] ELSE snap
    /\ Goto(p, "notify")
    /\ UNCHANGED <<holder, writer, mem, files, opened, seqOf, watch>>

Notify(p) ==
    /\ pc[p] = "notify"
    /\ watch' = IF seqOf[p] > watch THEN seqOf[p] ELSE watch
    /\ Goto(p, "done")
    /\ UNCHANGED <<holder, writer, mem, files, opened, seqOf, snap>>

-----------------------------------------------------------------------------
(* compact                                                                  *)

\* Another compaction's slot is still empty: "already compacting".
SkipCompaction(c) ==
    /\ pc[c] = "copy"
    /\ ~writer
    /\ holder' = Nobody
    /\ Goto(c, "done")
    /\ UNCHANGED <<writer, mem, files, opened, seqOf, reads>>

\* The writer is dropped, with whatever was never committed.
CloseWriter(c) ==
    /\ pc[c] = "copy"
    /\ writer
    /\ writer' = FALSE
    /\ Goto(c, "swap")
    /\ UNCHANGED <<holder, mem, files, opened, seqOf, reads>>

\* The copy is synced and renamed over the file.
Swap(c) ==
    /\ pc[c] = "swap"
    /\ durable' = header
    /\ Goto(c, "reopen")
    /\ UNCHANGED <<holder, writer, mem, header, opened, seqOf, reads>>

Reopen(c) ==
    /\ pc[c] = "reopen"
    /\ writer' = TRUE
    /\ mem' = header
    /\ Goto(c, "unlock")
    /\ UNCHANGED <<holder, files, opened, seqOf, reads>>

\* The copy fails and the old file is opened again.
CopyFails(c) ==
    /\ "copy" \in Failures
    /\ pc[c] = "swap"
    /\ writer' = TRUE
    /\ mem' = header
    /\ holder' = Nobody
    /\ Goto(c, "failed")
    /\ UNCHANGED <<files, opened, seqOf, reads>>

\* Whether the copy succeeded or not, the file cannot be opened: the slot
\* stays empty.
ReopenFails(c) ==
    /\ "reopen" \in Failures
    /\ \/ pc[c] = "reopen"
       \/ pc[c] = "swap" /\ "copy" \in Failures
    /\ holder' = Nobody
    /\ Goto(c, "failed")
    /\ UNCHANGED <<writer, mem, files, opened, seqOf, reads>>

-----------------------------------------------------------------------------
\* The process dies and the server opens the database again; requests in
\* flight are lost.
Crash ==
    /\ Crashes
    /\ \E h \in {durable, header} :
          /\ header' = h /\ durable' = h /\ mem' = h /\ snap' = h
          /\ watch' = UpdateSeq(h)
    /\ writer' = TRUE
    /\ holder' = Nobody
    /\ pc' = [p \in Requests |-> IF pc[p] \in {"new", "done"} THEN pc[p] ELSE "failed"]
    /\ UNCHANGED <<opened, seqOf>>

WithWriter(w) ==
    \/ Refuse(w) \/ Apply(w) \/ ApplyFails(w)
    \/ WriteHeader(w) \/ SyncHeader(w) \/ CommitFails(w)

RunCompaction(c) ==
    \/ SkipCompaction(c) \/ CloseWriter(c) \/ Swap(c) \/ Reopen(c)
    \/ CopyFails(c) \/ ReopenFails(c)

Refresh(p) == OpenSnapshot(p) \/ OpenFails(p) \/ Install(p) \/ Notify(p)

Step(p) ==
    \/ Lock(p)
    \/ p \in Writes /\ WithWriter(p)
    \/ p \in Compactions /\ RunCompaction(p)
    \/ Unlock(p)
    \/ Refresh(p)

Next == Crash \/ \E p \in Requests : Arrive(p) \/ Step(p)

Spec == Init /\ [][Next]_vars
=============================================================================
