---------------------------- MODULE ReplManager ----------------------------
(***************************************************************************)
(* The replication manager of the server (couch-http repl.rs): documents   *)
(* of _replicator become jobs, jobs are supervised and write their state   *)
(* back to the documents, which users edit at any time; POST /_replicate   *)
(* starts transient jobs beside them.                                      *)
(*                                                                         *)
(* A session (pipeline::replicate) is one step, as in JobServer.           *)
(***************************************************************************)
EXTENDS Naturals, Sequences, FiniteSets

CONSTANTS
    DocIds,
    Specs,        \* what a document may ask for: [rep, continuous, valid]
    None,         \* no state, no replication id, no document
    GiveUpAfter,  \* attempts before a job fails for good, 8 in the code
    StampTries,   \* attempts to write a document, 3 in the code
    MaxEdits,     \* bound on the requests of users
    MaxFaults     \* bound on failed sessions, failed builds and crashes

ASSUME ManagerAssumption ==
    /\ \A s \in Specs : DOMAIN s = {"rep", "continuous", "valid"} /\ s.continuous \in BOOLEAN
                        /\ s.valid \in BOOLEAN
    /\ None \notin DocIds /\ None \notin Specs
    /\ GiveUpAfter \in Nat /\ StampTries \in Nat \ {0}
    /\ MaxEdits \in Nat /\ MaxFaults \in Nat

VARIABLES
    docs,       \* _replicator: [rev, spec, state, repId] of each document
    repdb,      \* it exists
    clock,      \* the last revision given to a document
    table,      \* ReplManager.jobs: the job of each document, 0 for none
    transient,  \* ReplManager.transient: the job of each replication id
    jobs,       \* every job since the process started
    manager,    \* of run: [at, todo, doc, job, stamp]
    edits, faults

store == <<docs, repdb, clock>>
tables == <<table, transient>>
budget == <<edits, faults>>
vars == <<store, tables, jobs, manager, budget>>

States == {None, "completed", "failed"}
Reps == {s.rep : s \in Specs}
Ids == 1..Len(jobs)

Absent == [rev |-> 0, spec |-> None, state |-> None, repId |-> None]
Document == [rev : Nat, spec : Specs, state : States, repId : Reps \union {None}]
Exists(d) == repdb /\ docs[d].spec # None

Fault == faults > 0 /\ faults' = faults - 1 /\ UNCHANGED edits

-----------------------------------------------------------------------------
(* write_doc_fields: read a document, and save it with fields replaced      *)

NoStamp == [state |-> None, repId |-> None, tries |-> 0, read |-> Absent]

\* What to write: a state, or the replication id.
StateStamp(state) == [NoStamp EXCEPT !.state = state]
IdStamp(rep) == [NoStamp EXCEPT !.repId = rep]

Stamped(doc, s) ==
    [doc EXCEPT !.state = IF s.state = None THEN @ ELSE s.state,
                !.repId = IF s.repId = None THEN @ ELSE s.repId]

IsRead(s) == s.read # Absent

\* Nothing to write: the document is gone, or has the fields already.
NothingToWrite(d, s) == ~Exists(d) \/ Stamped(docs[d], s) = docs[d]

\* Mutant of SameRev: the save does not compare revisions.
AnyRev(d, s) == repdb

\* The revision read is still the document's: save_doc takes it.
SameRev(d, s) == Exists(d) /\ docs[d].rev = s.read.rev

Saved(d, s) ==
    /\ docs' = [docs EXCEPT ![d] = [Stamped(s.read, s) EXCEPT !.rev = clock + 1]]
    /\ clock' = clock + 1
    /\ UNCHANGED repdb

Conflict(s) == [s EXCEPT !.tries = @ + 1, !.read = Absent]

\* One step of a stamp s of document d: the document is read, or saved if it is
\* still the one that was read.
Stamp(d, s) ==
    IF IsRead(s) /\ SameRev(d, s) THEN Saved(d, s) ELSE UNCHANGED store

\* What is left of it then: NoStamp once it is written or given up.
StampAfter(d, s) ==
    CASE ~IsRead(s) -> IF NothingToWrite(d, s) THEN NoStamp ELSE [s EXCEPT !.read = docs[d]]
      [] IsRead(s) /\ ~SameRev(d, s) /\ repdb /\ s.tries + 1 < StampTries -> Conflict(s)
      [] OTHER -> NoStamp

-----------------------------------------------------------------------------
(* Users                                                                    *)

Edits == edits < MaxEdits /\ edits' = edits + 1 /\ UNCHANGED faults

\* A document is created, or replaced: what the manager wrote is not kept.
PutDoc(d, spec) ==
    /\ Edits /\ repdb
    /\ docs' = [docs EXCEPT ![d] =
         [rev |-> clock + 1, spec |-> spec, state |-> None, repId |-> None]]
    /\ clock' = clock + 1
    /\ UNCHANGED <<repdb, tables, jobs, manager>>

DeleteDoc(d) ==
    /\ Edits /\ Exists(d)
    /\ docs' = [docs EXCEPT ![d] = Absent]
    /\ UNCHANGED <<repdb, clock, tables, jobs, manager>>

DeleteReplicatorDb ==
    /\ Edits /\ repdb
    /\ repdb' = FALSE /\ docs' = [d \in DocIds |-> Absent]
    /\ UNCHANGED <<clock, tables, jobs, manager>>

CreateReplicatorDb ==
    /\ ~repdb /\ repdb' = TRUE
    /\ UNCHANGED <<docs, clock, tables, jobs, manager, budget>>

-----------------------------------------------------------------------------
(* Jobs                                                                     *)

\* doc is None for a transient job, which has no document.
Job(d, spec, at) ==
    [doc |-> d, spec |-> spec, phase |-> "running", cancelled |-> FALSE, attempt |-> 0,
     at |-> at, stamp |-> NoStamp]

Cancelled(js, ids) ==
    [j \in DOMAIN js |-> IF j \in ids THEN [js[j] EXCEPT !.cancelled = TRUE] ELSE js[j]]

IsTerminal(job) == job.phase \in {"completed", "failed"}

Becomes(j, job) == jobs' = [jobs EXCEPT ![j] = job]

Ends(j) == Becomes(j, [jobs[j] EXCEPT !.at = "ended"])

\* The top of supervise's loop.
StartSession(j) ==
    /\ jobs[j].at = "top"
    /\ IF jobs[j].cancelled THEN Ends(j)
       ELSE Becomes(j, [jobs[j] EXCEPT !.at = "session", !.phase = "running"])
    /\ UNCHANGED <<store, tables, manager, budget>>

\* The end of a job: its document is stamped, a transient one leaves the table,
\* whoever is at its place now.
Finish(j, phase, attempt) ==
    LET job == [jobs[j] EXCEPT !.phase = phase, !.attempt = attempt]
    IN  IF job.doc = None
        THEN /\ Becomes(j, [job EXCEPT !.at = "ended"])
             /\ transient' = [transient EXCEPT ![job.spec.rep] = 0]
             /\ UNCHANGED table
        ELSE /\ Becomes(j, [job EXCEPT !.at = "stamp", !.stamp = StateStamp(phase)])
             /\ UNCHANGED tables

\* The session of a supervised job returns Ok.
SessionEnds(j) ==
    /\ jobs[j].at = "session"
    /\ jobs[j].cancelled \/ ~jobs[j].spec.continuous
    /\ IF jobs[j].cancelled THEN Ends(j) /\ UNCHANGED tables
       ELSE Finish(j, "completed", jobs[j].attempt)
    /\ UNCHANGED <<store, manager, budget>>

\* It fails before its stages run: a later attempt, or none.
SessionFailsEarly(j) ==
    /\ jobs[j].at = "session" /\ Fault
    /\ IF jobs[j].cancelled THEN Ends(j) /\ UNCHANGED tables
       ELSE IF jobs[j].attempt + 1 > GiveUpAfter THEN Finish(j, "failed", jobs[j].attempt + 1)
       ELSE /\ Becomes(j, [jobs[j] EXCEPT !.at = "asleep", !.phase = "crashing",
                                          !.attempt = @ + 1])
            /\ UNCHANGED tables
    /\ UNCHANGED <<store, manager>>

\* A stage fails: replicate cancels the job's token, and supervise finds it
\* cancelled.  The phase stays "running".
StageFails(j) ==
    /\ jobs[j].at = "session" /\ Fault
    /\ Becomes(j, [jobs[j] EXCEPT !.at = "ended", !.cancelled = TRUE])
    /\ UNCHANGED <<store, tables, manager>>

Wake(j) ==
    /\ jobs[j].at = "asleep"
    /\ Becomes(j, [jobs[j] EXCEPT !.at = IF jobs[j].cancelled THEN "ended" ELSE "top"])
    /\ UNCHANGED <<store, tables, manager, budget>>

StampDoc(j) ==
    /\ jobs[j].at = "stamp"
    /\ Stamp(jobs[j].doc, jobs[j].stamp)
    /\ LET after == StampAfter(jobs[j].doc, jobs[j].stamp)
       IN  IF after = NoStamp THEN Ends(j) ELSE Becomes(j, [jobs[j] EXCEPT !.stamp = after])
    /\ UNCHANGED <<tables, manager, budget>>

-----------------------------------------------------------------------------
(* POST /_replicate                                                         *)

\* start_transient, up to the session: the job before it is cancelled.  A
\* continuous job is supervised, another runs inside the request.
PostTransient(spec) ==
    /\ Edits /\ spec.valid
    /\ jobs' = Append(Cancelled(jobs, {transient[spec.rep]}),
                      Job(None, spec, IF spec.continuous THEN "top" ELSE "request"))
    /\ transient' = [transient EXCEPT ![spec.rep] = Len(jobs) + 1]
    /\ UNCHANGED <<store, table, manager>>

\* The session of a request has returned, Ok or not.
RequestEnds(j) ==
    /\ jobs[j].at = "request"
    /\ Ends(j)
    /\ transient' = [transient EXCEPT ![jobs[j].spec.rep] = 0]
    /\ UNCHANGED <<store, table, manager, budget>>

CancelTransient(rep) ==
    /\ Edits /\ transient[rep] # 0
    /\ jobs' = Cancelled(jobs, {transient[rep]})
    /\ transient' = [transient EXCEPT ![rep] = 0]
    /\ UNCHANGED <<store, table, manager>>

-----------------------------------------------------------------------------
(* The manager: run, reconcile, start_job                                   *)

Idle == [at |-> "idle", todo |-> {}, doc |-> None, spec |-> None, job |-> 0, stamp |-> NoStamp]

\* reconcile, up to its loop.  The documents are read once: todo has what the
\* loop will see of them.  It is woken by poke or by its timer, at any time.
Reconcile ==
    /\ manager.at = "idle"
    /\ LET desired == {d \in DocIds : Exists(d)}
           gone == {d \in DocIds : table[d] # 0 /\ d \notin desired}
       IN  /\ jobs' = Cancelled(jobs, {table[d] : d \in gone})
           /\ table' = [d \in DocIds |-> IF d \in gone THEN 0 ELSE table[d]]
           /\ manager' = [Idle EXCEPT !.at = "loop",
                !.todo = {[doc |-> d, spec |-> docs[d].spec, state |-> docs[d].state] :
                             d \in desired}]
    /\ UNCHANGED <<store, transient, budget>>

LoopEnds ==
    /\ manager.at = "loop" /\ manager.todo = {}
    /\ manager' = Idle
    /\ UNCHANGED <<store, tables, jobs, budget>>

\* Mutant of HasJobFor: a job of the document is enough.
HasJob(item) == table[item.doc] # 0

HasJobFor(item) == table[item.doc] # 0 /\ jobs[table[item.doc]].spec = item.spec

Skip(item) ==
    /\ manager.at = "loop" /\ item \in manager.todo
    /\ item.state # None \/ HasJobFor(item)
    /\ manager' = [manager EXCEPT !.todo = @ \ {item}]
    /\ UNCHANGED <<store, tables, jobs, budget>>

Building(item) ==
    [manager EXCEPT !.at = "build", !.todo = @ \ {item}, !.doc = item.doc, !.spec = item.spec]

\* Mutant of Take: the job of the old spec is replaced and goes on.
TakeBeside(item) ==
    /\ manager.at = "loop" /\ item \in manager.todo
    /\ item.state = None /\ ~HasJobFor(item)
    /\ manager' = Building(item)
    /\ UNCHANGED <<store, tables, jobs, budget>>

\* A document without a job of its spec: an older job is cancelled.
Take(item) ==
    /\ manager.at = "loop" /\ item \in manager.todo
    /\ item.state = None /\ ~HasJobFor(item)
    /\ jobs' = Cancelled(jobs, {table[item.doc]})
    /\ manager' = Building(item)
    /\ UNCHANGED <<store, tables, budget>>

\* start_job: build_spec may fetch a filter from the source, and fail.
Build ==
    /\ manager.at = "build" /\ manager.spec.valid
    /\ jobs' = Append(jobs, Job(manager.doc, manager.spec, "made"))
    /\ table' = [table EXCEPT ![manager.doc] = Len(jobs) + 1]
    /\ manager' = [manager EXCEPT !.at = "stamp", !.job = Len(jobs) + 1,
                                  !.stamp = IdStamp(manager.spec.rep)]
    /\ UNCHANGED <<store, transient, budget>>

BuildFails ==
    /\ manager.at = "build"
    /\ IF manager.spec.valid THEN Fault ELSE UNCHANGED budget
    /\ manager' = [manager EXCEPT !.at = "stamp", !.job = 0, !.stamp = StateStamp("failed")]
    /\ UNCHANGED <<store, tables, jobs>>

\* The document is stamped with the replication id, then the job is spawned; or
\* it is stamped failed.
ManagerStamps ==
    /\ manager.at = "stamp"
    /\ Stamp(manager.doc, manager.stamp)
    /\ LET after == StampAfter(manager.doc, manager.stamp)
       IN  /\ manager' = [manager EXCEPT !.at = IF after = NoStamp THEN "loop" ELSE @,
                                         !.stamp = after]
           /\ jobs' = [j \in Ids |-> IF after = NoStamp /\ j = manager.job
                                     THEN [jobs[j] EXCEPT !.at = "top"] ELSE jobs[j]]
    /\ UNCHANGED <<tables, budget>>

\* The process is killed and started again.
Restart ==
    /\ Fault
    /\ jobs' = <<>> /\ manager' = Idle
    /\ table' = [d \in DocIds |-> 0] /\ transient' = [r \in Reps |-> 0]
    /\ UNCHANGED store

-----------------------------------------------------------------------------
(* The specification                                                        *)

Init ==
    /\ docs = [d \in DocIds |-> Absent] /\ repdb = TRUE /\ clock = 0
    /\ table = [d \in DocIds |-> 0] /\ transient = [r \in Reps |-> 0]
    /\ jobs = <<>> /\ manager = Idle
    /\ edits = 0 /\ faults = MaxFaults

User ==
    \/ \E d \in DocIds : DeleteDoc(d) \/ \E spec \in Specs : PutDoc(d, spec)
    \/ DeleteReplicatorDb \/ CreateReplicatorDb
    \/ \E spec \in Specs : PostTransient(spec)
    \/ \E rep \in Reps : CancelTransient(rep)

Supervise(j) == StartSession(j) \/ SessionEnds(j) \/ Wake(j) \/ StampDoc(j)

Manage ==
    \/ Reconcile \/ LoopEnds
    \/ \E item \in manager.todo : Skip(item) \/ Take(item)
    \/ Build \/ BuildFails \/ ManagerStamps

Next ==
    \/ User \/ Manage \/ Restart
    \/ \E j \in Ids : Supervise(j) \/ SessionFailsEarly(j) \/ StageFails(j) \/ RequestEnds(j)

\* The manager is a task that a timer wakes every 30 seconds, a job is one that
\* ends when it is cancelled, and a build ends.  No job is started without an
\* edit, so their numbers are at most MaxEdits.
Fairness ==
    /\ WF_vars(Manage)
    /\ \A j \in 1..MaxEdits : WF_vars(j \in Ids /\ (Supervise(j) \/ RequestEnds(j)))

Spec == Init /\ [][Next]_vars /\ Fairness

-----------------------------------------------------------------------------
(* Properties                                                               *)

StampType ==
    [state : States, repId : Reps \union {None}, tries : 0..StampTries,
     read : Document \union {Absent}]

JobType ==
    [doc : DocIds \union {None}, spec : Specs, cancelled : BOOLEAN, attempt : 0..GiveUpAfter + 1,
     phase : {"running", "crashing", "completed", "failed"}, stamp : StampType,
     at : {"made", "top", "session", "asleep", "stamp", "request", "ended"}]

ItemType == [doc : DocIds, spec : Specs, state : States]

ManagerType ==
    [at : {"idle", "loop", "build", "stamp"}, todo : SUBSET ItemType, job : Nat,
     doc : DocIds \union {None}, spec : Specs \union {None}, stamp : StampType]

TypeOK ==
    /\ docs \in [DocIds -> Document \union {Absent}]
    /\ repdb \in BOOLEAN /\ clock \in Nat
    /\ table \in [DocIds -> 0..Len(jobs)] /\ transient \in [Reps -> 0..Len(jobs)]
    /\ jobs \in Seq(JobType)
    /\ manager \in ManagerType
    /\ edits \in 0..MaxEdits /\ faults \in 0..MaxFaults

Active(j) == jobs[j].at # "ended" /\ ~jobs[j].cancelled

\* Whatever is edited while the manager is at work, a document has at most one
\* job that has not been told to stop, and it is the one its table shows: what
\* runs can be cancelled by deleting the document.
DocJobsAreInTable ==
    \A j \in Ids : Active(j) /\ jobs[j].doc # None => table[jobs[j].doc] = j

\* While the manager builds a job, its document has no other that is active.
BuildsAlone ==
    manager.at = "build" =>
        /\ manager.doc \in DocIds /\ manager.spec \in Specs
        /\ \A j \in Ids : Active(j) => jobs[j].doc # manager.doc

\* What is stamped is a document, and the job that is spawned after it has not
\* run before.
StampsDocs ==
    /\ \A j \in Ids : jobs[j].at = "stamp" => jobs[j].doc # None
    /\ manager.at = "stamp" =>
          /\ manager.doc \in DocIds
          /\ manager.job # 0 => manager.job \in Ids /\ jobs[manager.job].at = "made"

\* A revision stands for one content: a document that still has the revision
\* read has the spec read.
ReadIsOld(d, s) ==
    IsRead(s) => /\ s.read.rev <= clock
                 /\ Exists(d) /\ docs[d].rev = s.read.rev => docs[d].spec = s.read.spec

ReadsAreOld ==
    /\ \A d \in DocIds : docs[d].rev <= clock /\ (~repdb => docs[d].spec = None)
    /\ \A j \in Ids : jobs[j].doc # None => ReadIsOld(jobs[j].doc, jobs[j].stamp)
    /\ manager.at = "stamp" => ReadIsOld(manager.doc, manager.stamp)

\* A job that has given up takes no further session.
AttemptsAreLeft ==
    \A j \in Ids : jobs[j].at \in {"stamp", "ended"} \/ jobs[j].attempt <= GiveUpAfter

\* The inductive invariant behind the safety properties.
IInv ==
    /\ TypeOK /\ DocJobsAreInTable /\ BuildsAlone /\ StampsDocs /\ ReadsAreOld
    /\ AttemptsAreLeft

\* What the manager writes back (_replication_id, _replication_state) is merged
\* into the document it has just read: it never undoes an edit, nor brings a
\* deleted document back.
EditsAreKept ==
    [][edits' = edits => \A d \in DocIds : docs'[d].spec = docs[d].spec]_vars

\* What a document asks for and was not yet told the end of.
Asks(d, spec) == Exists(d) /\ docs[d].spec = spec /\ docs[d].state = None

HasSession(d, spec) ==
    table[d] # 0 /\ LET job == jobs[table[d]]
                    IN  job.spec = spec /\ ~job.cancelled /\ job.at = "session"

\* The document's job is one of that spec that was told to stop, or has come to its
\* end: "in any phase" it counts as the job of the document (repl.rs:239).
HasOldJob(d, spec) ==
    table[d] # 0 /\ LET job == jobs[table[d]]
                    IN  job.spec = spec /\ (job.cancelled \/ job.at \in {"stamp", "ended"})

\* A document that asks for a replication and has no old job of that spec gets a
\* session of it: one that its job runs and nobody has told to stop.  So it does
\* through restarts, edits during the manager's round, jobs of other specs and
\* failed writes, until it is deleted, edited to another spec or given a state.
DocsAreServed ==
    \A d \in DocIds, spec \in Specs :
        (Asks(d, spec) /\ ~HasOldJob(d, spec)) ~> (~Asks(d, spec) \/ HasSession(d, spec))

\* The same of every document, which no run checks, for TLC refutes it: one edited
\* to a spec that cannot be built and back keeps the job cancelled for that spec,
\* and one whose job ended, and that is put again, keeps that; nothing runs.
NoDocIsForgotten ==
    \A d \in DocIds, spec \in Specs :
        Asks(d, spec) ~> (~Asks(d, spec) \/ HasSession(d, spec))

\* "Same spec posted again: replace (cancel) the previous instance" (repl.rs:482).
OneTransientPerSpec ==
    \A i, j \in Ids :
        i # j /\ jobs[i].doc = None /\ jobs[j].doc = None /\ jobs[i].spec = jobs[j].spec
            => ~(Active(i) /\ Active(j))
=============================================================================
