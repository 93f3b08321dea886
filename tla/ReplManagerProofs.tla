------------------------- MODULE ReplManagerProofs -------------------------
(***************************************************************************)
(* A replication document has one job and its edits are kept, for any      *)
(* number of documents, specs, edits and faults.                           *)
(***************************************************************************)
EXTENDS ReplManager, SequenceTheorems, TLAPS

USE DEF Ids

LEMMA NoneIsNew ==
    /\ None \notin DocIds /\ None \notin Specs
    /\ StampTries \in Nat /\ GiveUpAfter \in Nat /\ MaxEdits \in Nat /\ MaxFaults \in Nat
  BY ManagerAssumption DEF ManagerAssumption

-----------------------------------------------------------------------------
(* Jobs and documents                                                       *)

\* A new job has tried nothing, and so has a new stamp.
LEMMA NoneTried ==
    0 \in 0..GiveUpAfter + 1 /\ 0 \in 0..StampTries /\ 0 \in Nat
  BY NoneIsNew

\* The token of a job is all that cancelling changes.
LEMMA CancelledJobIsTyped ==
    ASSUME NEW job \in JobType
    PROVE  [job EXCEPT !.cancelled = TRUE] \in JobType
  BY DEF JobType

LEMMA CancelledIsTyped ==
    ASSUME NEW js \in Seq(JobType), NEW ids
    PROVE  /\ Cancelled(js, ids) \in Seq(JobType)
           /\ Len(Cancelled(js, ids)) = Len(js)
           /\ \A j \in 1..Len(js) :
                 Cancelled(js, ids)[j] =
                     IF j \in ids THEN [js[j] EXCEPT !.cancelled = TRUE] ELSE js[j]
<1>1. ASSUME NEW j \in 1..Len(js)
      PROVE  js[j] \in JobType /\ [js[j] EXCEPT !.cancelled = TRUE] \in JobType
  BY CancelledJobIsTyped
<1>2. DOMAIN js = 1..Len(js)
  OBVIOUS
<1>3. QED
  BY <1>1, <1>2 DEF Cancelled

LEMMA AbsentIsNoDocument ==
    Absent \notin Document
  BY NoneIsNew DEF Absent, Document

LEMMA StampsAreTyped ==
    /\ NoStamp \in StampType /\ ~IsRead(NoStamp)
    /\ \A state \in States : StateStamp(state) \in StampType /\ ~IsRead(StateStamp(state))
    /\ \A rep \in Reps : IdStamp(rep) \in StampType /\ ~IsRead(IdStamp(rep))
<1>1. NoStamp \in StampType
  BY NoneTried DEF NoStamp, StampType, States
<1>2. ASSUME NEW state \in States
      PROVE  StateStamp(state) \in StampType
  BY <1>1 DEF StateStamp, StampType
<1>3. ASSUME NEW rep \in Reps
      PROVE  IdStamp(rep) \in StampType
  BY <1>1 DEF IdStamp, StampType
<1>4. /\ ~IsRead(NoStamp)
      /\ \A state \in States : ~IsRead(StateStamp(state))
      /\ \A rep \in Reps : ~IsRead(IdStamp(rep))
  BY DEF IsRead, NoStamp, StateStamp, IdStamp
<1>5. QED
  BY <1>1, <1>2, <1>3, <1>4

LEMMA NewJobIsTyped ==
    ASSUME NEW d \in DocIds \union {None}, NEW spec \in Specs,
           NEW at \in {"made", "top", "request"}
    PROVE  /\ Job(d, spec, at) \in JobType
           /\ ~IsRead(Job(d, spec, at).stamp)
<1>1. Job(d, spec, at) \in JobType
  BY NoneTried, StampsAreTyped DEF Job, JobType
<1>2. QED
  BY <1>1, StampsAreTyped DEF Job

\* A document read is one that exists.
LEMMA ExistsIsDocument ==
    ASSUME NEW d \in DocIds, docs \in [DocIds -> Document \union {Absent}]
    PROVE  Exists(d) => docs[d] \in Document
<1>1. docs[d] \in Document \/ docs[d] = Absent
  OBVIOUS
<1>2. QED
  BY <1>1 DEF Exists, Absent

LEMMA ReadStampIsTyped ==
    ASSUME NEW s \in StampType, NEW doc \in Document
    PROVE  [s EXCEPT !.read = doc] \in StampType
  BY DEF StampType

LEMMA ConflictIsTyped ==
    ASSUME NEW s \in StampType, s.tries + 1 < StampTries
    PROVE  Conflict(s) \in StampType /\ ~IsRead(Conflict(s))
<1>1. s.tries + 1 \in 0..StampTries
  BY NoneIsNew DEF StampType
<1>2. Conflict(s) \in StampType
  BY <1>1 DEF StampType, Conflict
<1>3. Conflict(s).read = Absent
  BY DEF Conflict, StampType
<1>4. QED
  BY <1>2, <1>3 DEF IsRead

LEMMA StampAfterIsTyped ==
    ASSUME docs \in [DocIds -> Document \union {Absent}],
           NEW d \in DocIds, NEW s \in StampType
    PROVE  StampAfter(d, s) \in StampType
<1>1. CASE ~IsRead(s) /\ ~NothingToWrite(d, s)
  <2>1. docs[d] \in Document
    BY <1>1, ExistsIsDocument DEF NothingToWrite
  <2>2. QED
    BY <1>1, <2>1, ReadStampIsTyped DEF StampAfter
<1>2. CASE IsRead(s) /\ ~SameRev(d, s) /\ repdb /\ s.tries + 1 < StampTries
  BY <1>2, ConflictIsTyped DEF StampAfter
<1>3. QED
  BY <1>1, <1>2, StampsAreTyped DEF StampAfter

LEMMA StampedIsTyped ==
    ASSUME NEW doc \in Document, NEW s \in StampType, NEW rev \in Nat
    PROVE  LET new == [Stamped(doc, s) EXCEPT !.rev = rev]
           IN  new \in Document /\ new.rev = rev /\ new.spec = doc.spec
<1> DEFINE state == IF s.state = None THEN doc.state ELSE s.state
           repId == IF s.repId = None THEN doc.repId ELSE s.repId
<1>1. state \in States /\ repId \in Reps \union {None}
  BY DEF StampType, Document
<1>2. Stamped(doc, s) = [doc EXCEPT !.state = state, !.repId = repId]
  BY DEF Stamped
<1> HIDE DEF state, repId
<1>3. Stamped(doc, s) \in Document /\ Stamped(doc, s).spec = doc.spec
  BY <1>1, <1>2 DEF Document
<1>4. QED
  BY <1>3 DEF Document

\* What a step may do to the documents: one that exists after it is as it was, or
\* has a revision that nobody has read.
StoreMovesOn ==
    /\ docs' \in [DocIds -> Document \union {Absent}]
    /\ repdb' \in BOOLEAN /\ clock' \in Nat /\ clock' >= clock
    /\ \A d \in DocIds :
          /\ docs'[d].rev <= clock' /\ (~repdb' => docs'[d].spec = None)
          /\ Exists(d)' => (Exists(d) /\ docs'[d] = docs[d]) \/ docs'[d].rev > clock

LEMMA SameStoreMovesOn ==
    ASSUME IInv, UNCHANGED store
    PROVE  StoreMovesOn
  BY DEF IInv, TypeOK, ReadsAreOld, store, StoreMovesOn, Exists

LEMMA RevsAreNumbers ==
    ASSUME docs \in [DocIds -> Document \union {Absent}], NEW d \in DocIds
    PROVE  docs[d].rev \in Nat
  BY DEF Document, Absent

\* A stamp changes no spec, and gives a revision that nobody has read.
LEMMA StampMovesOn ==
    ASSUME IInv, NEW d \in DocIds, NEW s \in StampType, ReadIsOld(d, s), Stamp(d, s)
    PROVE  /\ StoreMovesOn
           /\ \A e \in DocIds : docs'[e].spec = docs[e].spec
<1>1. CASE IsRead(s) /\ SameRev(d, s)
  <2>1. s.read \in Document /\ docs[d].spec = s.read.spec /\ clock + 1 \in Nat
    BY <1>1 DEF IInv, TypeOK, StampType, IsRead, SameRev, ReadIsOld
  <2> DEFINE new == [Stamped(s.read, s) EXCEPT !.rev = clock + 1]
  <2>2. new \in Document /\ new.rev = clock + 1 /\ new.spec = docs[d].spec
    BY <2>1, StampedIsTyped
  <2>3. docs' = [docs EXCEPT ![d] = new] /\ clock' = clock + 1 /\ repdb' = repdb
    BY <1>1 DEF Stamp, Saved
  <2> HIDE DEF new
  <2>4. docs' \in [DocIds -> Document \union {Absent}]
    BY <2>2, <2>3 DEF IInv, TypeOK
  <2>5. ASSUME NEW e \in DocIds
        PROVE  /\ docs'[e].rev <= clock' /\ docs'[e].spec = docs[e].spec
               /\ docs'[e] = docs[e] \/ docs'[e].rev > clock
    <3>1. docs'[e] = IF e = d THEN new ELSE docs[e]
      BY <2>3 DEF IInv, TypeOK
    <3>2. docs[e].rev \in Nat /\ docs[e].rev <= clock /\ clock \in Nat
      BY RevsAreNumbers DEF IInv, TypeOK, ReadsAreOld
    <3>3. QED
      BY <3>1, <3>2, <2>2, <2>3
  <2>6. QED
    BY <2>3, <2>4, <2>5 DEF IInv, TypeOK, ReadsAreOld, StoreMovesOn, Exists
<1>2. CASE ~(IsRead(s) /\ SameRev(d, s))
  <2>1. UNCHANGED store
    BY <1>2 DEF Stamp
  <2>2. QED
    BY <2>1, SameStoreMovesOn DEF store
<1>3. QED
  BY <1>1, <1>2

\* What was read before such a step is still old after it.
LEMMA ReadStaysOld ==
    ASSUME IInv, StoreMovesOn, NEW d \in DocIds, NEW s \in StampType, ReadIsOld(d, s)
    PROVE  IsRead(s) => /\ s.read.rev <= clock'
                        /\ repdb' /\ docs'[d].spec # None /\ docs'[d].rev = s.read.rev
                              => docs'[d].spec = s.read.spec
<1>1. CASE IsRead(s)
  <2>1. s.read.rev \in Nat /\ clock \in Nat /\ clock' \in Nat /\ s.read.rev <= clock'
    BY <1>1 DEF IInv, TypeOK, StampType, IsRead, Document, ReadIsOld, StoreMovesOn
  <2>2. CASE Exists(d) /\ docs'[d] = docs[d]
    BY <1>1, <2>1, <2>2 DEF ReadIsOld
  <2>3. CASE docs'[d].rev > clock
    BY <1>1, <2>1, <2>3 DEF ReadIsOld
  <2>4. QED
    BY <2>1, <2>2, <2>3 DEF StoreMovesOn, Exists
<1>2. QED
  BY <1>1

\* So is what this step has read.
LEMMA StampAfterIsOld ==
    ASSUME IInv, NEW d \in DocIds, NEW s \in StampType, ReadIsOld(d, s), Stamp(d, s)
    PROVE  LET after == StampAfter(d, s)
           IN  IsRead(after) => /\ after.read.rev <= clock'
                                /\ repdb' /\ docs'[d].spec # None /\ docs'[d].rev = after.read.rev
                                      => docs'[d].spec = after.read.spec
<1>1. StoreMovesOn
  BY StampMovesOn
<1>2. CASE ~IsRead(s) /\ ~NothingToWrite(d, s)
  <2>1. Exists(d) /\ docs[d] \in Document
    BY <1>2, ExistsIsDocument DEF NothingToWrite, IInv, TypeOK
  <2>2. StampAfter(d, s) = [s EXCEPT !.read = docs[d]]
    BY <1>2 DEF StampAfter
  <2>3. StampAfter(d, s) \in StampType /\ StampAfter(d, s).read = docs[d]
    BY <2>1, <2>2, ReadStampIsTyped DEF StampType
  <2>4. ReadIsOld(d, StampAfter(d, s))
    BY <2>3 DEF ReadIsOld, IInv, ReadsAreOld
  <2> DEFINE after == StampAfter(d, s)
  <2> HIDE DEF after
  <2>5. after \in StampType /\ ReadIsOld(d, after)
    BY <2>3, <2>4 DEF after
  <2>6. IsRead(after) => /\ after.read.rev <= clock'
                         /\ repdb' /\ docs'[d].spec # None /\ docs'[d].rev = after.read.rev
                               => docs'[d].spec = after.read.spec
    BY <1>1, <2>5, ReadStaysOld
  <2>7. QED
    BY <2>6 DEF after
<1>3. CASE IsRead(s) /\ ~SameRev(d, s) /\ repdb /\ s.tries + 1 < StampTries
  BY <1>3, ConflictIsTyped DEF StampAfter
<1>4. QED
  BY <1>2, <1>3, StampsAreTyped DEF StampAfter

-----------------------------------------------------------------------------
(* Steps of the jobs                                                        *)

\* What a step may do to the jobs there are: each keeps its document, none
\* that was told to stop goes on, and a read of one is old.
JobGoesOn(j) ==
    /\ jobs'[j].doc = jobs[j].doc
    /\ jobs'[j].at # "ended" /\ ~jobs'[j].cancelled => Active(j)
    /\ jobs'[j].at = "stamp" => jobs[j].doc # None
    /\ jobs'[j].at \in {"stamp", "ended"} \/ jobs'[j].attempt <= GiveUpAfter
    /\ jobs[j].doc # None => ReadIsOld(jobs[j].doc, jobs[j].stamp)'

JobsGoOn ==
    /\ jobs' \in Seq(JobType) /\ Len(jobs') >= Len(jobs)
    /\ \A j \in Ids : JobGoesOn(j)

LEMMA JobsAreTyped ==
    ASSUME IInv
    PROVE  /\ jobs \in Seq(JobType) /\ Len(jobs) \in Nat
           /\ \A j \in Ids : /\ jobs[j] \in JobType /\ jobs[j].stamp \in StampType
                             /\ jobs[j].doc \in DocIds \union {None}
                             /\ jobs[j].spec \in Specs
<1>1. jobs \in Seq(JobType) /\ Len(jobs) \in Nat
  BY DEF IInv, TypeOK
<1>2. \A j \in Ids : jobs[j] \in JobType
  BY <1>1
<1>3. QED
  BY <1>1, <1>2 DEF JobType

\* A job that keeps its stamp keeps an old read.
LEMMA SameStampIsOld ==
    ASSUME IInv, StoreMovesOn, NEW j \in Ids, jobs'[j].doc = jobs[j].doc,
           jobs'[j].stamp = jobs[j].stamp, jobs[j].doc # None
    PROVE  ReadIsOld(jobs[j].doc, jobs[j].stamp)'
<1>1. jobs[j].doc \in DocIds /\ jobs[j].stamp \in StampType
      /\ ReadIsOld(jobs[j].doc, jobs[j].stamp)
  BY JobsAreTyped DEF IInv, ReadsAreOld
<1>2. QED
  BY <1>1, ReadStaysOld DEF ReadIsOld, Exists

LEMMA SameJobGoesOn ==
    ASSUME IInv, StoreMovesOn, NEW j \in Ids, jobs'[j] = jobs[j]
    PROVE  JobGoesOn(j)
  BY SameStampIsOld DEF JobGoesOn, Active, IInv, StampsDocs, AttemptsAreLeft

\* One job takes a step.
LEMMA BecomesGoesOn ==
    ASSUME IInv, StoreMovesOn, NEW j \in Ids, NEW job \in JobType, Becomes(j, job),
           job.doc = jobs[j].doc,
           job.at # "ended" /\ ~job.cancelled => Active(j),
           job.at = "stamp" => job.doc # None,
           job.at \in {"stamp", "ended"} \/ job.attempt <= GiveUpAfter,
           jobs[j].doc # None => ReadIsOld(jobs[j].doc, jobs[j].stamp)'
    PROVE  /\ JobsGoOn /\ Len(jobs') = Len(jobs)
           /\ \A i \in Ids : i # j => jobs'[i] = jobs[i]
           /\ jobs'[j] = job
<1>1. /\ jobs' \in Seq(JobType) /\ Len(jobs') = Len(jobs)
      /\ \A i \in 1..Len(jobs) : jobs'[i] = IF i = j THEN job ELSE jobs[i]
  BY ExceptSeq, JobsAreTyped DEF Becomes
<1>2. ASSUME NEW i \in Ids
      PROVE  JobGoesOn(i)
  <2>1. CASE i = j
    BY <1>1, <2>1 DEF JobGoesOn
  <2>2. CASE i # j
    BY <1>1, <2>2, SameJobGoesOn
  <2>3. QED
    BY <2>1, <2>2
<1>3. QED
  BY <1>1, <1>2, JobsAreTyped DEF JobsGoOn

\* Jobs are told to stop.
LEMMA CancelledGoOn ==
    ASSUME IInv, StoreMovesOn, NEW ids, jobs' = Cancelled(jobs, ids)
    PROVE  /\ JobsGoOn /\ Len(jobs') = Len(jobs)
           /\ \A j \in Ids : /\ jobs'[j].at = jobs[j].at
                             /\ j \in ids => jobs'[j].cancelled
<1>1. /\ jobs' \in Seq(JobType) /\ Len(jobs') = Len(jobs)
      /\ \A j \in 1..Len(jobs) :
            jobs'[j] = IF j \in ids THEN [jobs[j] EXCEPT !.cancelled = TRUE] ELSE jobs[j]
  BY CancelledIsTyped, JobsAreTyped
<1>2. ASSUME NEW j \in Ids
      PROVE  /\ jobs'[j].at = jobs[j].at /\ jobs'[j].doc = jobs[j].doc
             /\ jobs'[j].stamp = jobs[j].stamp /\ jobs'[j].attempt = jobs[j].attempt
             /\ j \in ids => jobs'[j].cancelled
             /\ j \notin ids => jobs'[j] = jobs[j]
  BY <1>1, JobsAreTyped DEF JobType
<1>3. ASSUME NEW j \in Ids
      PROVE  JobGoesOn(j)
  BY <1>2, SameStampIsOld DEF JobGoesOn, Active, IInv, StampsDocs, AttemptsAreLeft
<1>4. QED
  BY <1>1, <1>2, <1>3, JobsAreTyped DEF JobsGoOn

\* The manager's own read, in a step that is not the manager's.
LEMMA ManagerReadStaysOld ==
    ASSUME IInv, StoreMovesOn, UNCHANGED manager
    PROVE  (manager.at = "stamp" => ReadIsOld(manager.doc, manager.stamp))'
<1>1. CASE manager.at = "stamp"
  <2>1. manager.doc \in DocIds /\ manager.stamp \in StampType
        /\ ReadIsOld(manager.doc, manager.stamp)
    BY <1>1 DEF IInv, TypeOK, ManagerType, StampsDocs, ReadsAreOld
  <2>2. QED
    BY <2>1, ReadStaysOld DEF ReadIsOld, Exists
<1>2. QED
  BY <1>1

\* A step that is not the manager's: jobs go on, and a new one has no document.
LEMMA OthersKeepIInv ==
    ASSUME IInv, StoreMovesOn, JobsGoOn, UNCHANGED <<table, manager>>,
           \A j \in Ids : jobs[j].at = "made" => jobs'[j].at = "made",
           \A j \in Ids' \ Ids : /\ jobs'[j].doc = None /\ jobs'[j].at # "stamp"
                                 /\ jobs'[j].attempt <= GiveUpAfter,
           transient' \in [Reps -> 0..Len(jobs')],
           edits' \in 0..MaxEdits, faults' \in 0..MaxFaults
    PROVE  IInv'
<1>1. /\ Len(jobs) \in Nat /\ Len(jobs') \in Nat /\ Ids \subseteq Ids'
      /\ 0..Len(jobs) \subseteq 0..Len(jobs')
  BY JobsAreTyped DEF JobsGoOn
<1>2. TypeOK'
  BY <1>1 DEF IInv, TypeOK, StoreMovesOn, JobsGoOn
<1>3. ASSUME NEW j \in Ids', jobs'[j].at # "ended", ~jobs'[j].cancelled, jobs'[j].doc # None
      PROVE  table'[jobs'[j].doc] = j /\ jobs'[j].doc = jobs[j].doc /\ j \in Ids /\ Active(j)
  BY <1>3 DEF JobsGoOn, JobGoesOn, IInv, DocJobsAreInTable
<1>4. DocJobsAreInTable'
  BY <1>3 DEF DocJobsAreInTable, Active
<1>5. BuildsAlone'
  BY <1>3, NoneIsNew DEF BuildsAlone, Active, IInv
<1>6. StampsDocs'
  BY <1>1 DEF IInv, StampsDocs, JobsGoOn, JobGoesOn
<1>7. ReadsAreOld'
  BY ManagerReadStaysOld DEF ReadsAreOld, StoreMovesOn, JobsGoOn, JobGoesOn
<1>8. AttemptsAreLeft'
  BY DEF AttemptsAreLeft, JobsGoOn, JobGoesOn
<1>9. QED
  BY <1>2, <1>4, <1>5, <1>6, <1>7, <1>8 DEF IInv

\* One job takes a step: the other variables are left to OthersKeepIInv.
LEMMA JobStepKeepsIInv ==
    ASSUME IInv, StoreMovesOn, NEW j \in Ids, NEW job \in JobType, Becomes(j, job),
           job.doc = jobs[j].doc,
           job.at # "ended" /\ ~job.cancelled => Active(j),
           job.at = "stamp" => job.doc # None,
           job.at \in {"stamp", "ended"} \/ job.attempt <= GiveUpAfter,
           jobs[j].doc # None => ReadIsOld(jobs[j].doc, jobs[j].stamp)',
           jobs[j].at # "made", UNCHANGED <<table, manager>>,
           transient' \in [Reps -> 0..Len(jobs)],
           edits' \in 0..MaxEdits, faults' \in 0..MaxFaults
    PROVE  IInv'
<1>1. /\ JobsGoOn /\ Len(jobs') = Len(jobs) /\ Ids' = Ids
      /\ \A i \in Ids : jobs[i].at = "made" => jobs'[i].at = "made"
  BY BecomesGoesOn
<1>2. QED
  BY <1>1, OthersKeepIInv

\* A step within supervise: the job keeps its document and its stamp.
LEMMA PlainStepKeepsIInv ==
    ASSUME IInv, NEW j \in Ids, UNCHANGED <<store, table, manager>>,
           jobs[j].at # "made", transient' \in [Reps -> 0..Len(jobs)],
           edits' \in 0..MaxEdits, faults' \in 0..MaxFaults,
           NEW job \in JobType, Becomes(j, job),
           job.doc = jobs[j].doc, job.stamp = jobs[j].stamp,
           job.at # "ended" /\ ~job.cancelled => Active(j), job.at # "stamp",
           job.at = "ended" \/ job.attempt <= GiveUpAfter
    PROVE  IInv'
<1>1. StoreMovesOn
  BY SameStoreMovesOn
<1>2. jobs'[j] = job
  BY JobsAreTyped, ExceptSeq DEF Becomes
<1>3. jobs[j].doc # None => ReadIsOld(jobs[j].doc, jobs[j].stamp)'
  BY <1>1, <1>2, SameStampIsOld
<1>4. QED
  BY <1>1, <1>3, JobStepKeepsIInv

LEMMA EndsKeepsIInv ==
    ASSUME IInv, NEW j \in Ids, UNCHANGED <<store, table, manager>>, Ends(j),
           jobs[j].at # "made", transient' \in [Reps -> 0..Len(jobs)],
           edits' \in 0..MaxEdits, faults' \in 0..MaxFaults
    PROVE  IInv'
<1> DEFINE job == [jobs[j] EXCEPT !.at = "ended"]
<1>1. jobs[j] \in JobType
  BY JobsAreTyped
<1>2. /\ job \in JobType
      /\ job.doc = jobs[j].doc /\ job.stamp = jobs[j].stamp /\ job.at = "ended"
  BY <1>1 DEF JobType
<1>3. Becomes(j, job)
  BY DEF Ends
<1> HIDE DEF job
<1>4. QED
  BY <1>2, <1>3, PlainStepKeepsIInv

LEMMA StartSessionKeepsIInv ==
    ASSUME IInv, NEW j \in Ids, StartSession(j)
    PROVE  IInv'
<1>1. /\ transient' \in [Reps -> 0..Len(jobs)] /\ edits' \in 0..MaxEdits
      /\ faults' \in 0..MaxFaults /\ UNCHANGED <<store, table, manager>>
      /\ jobs[j].at = "top"
  BY DEF StartSession, IInv, TypeOK, tables, budget
<1>2. CASE jobs[j].cancelled
  BY <1>1, <1>2, EndsKeepsIInv DEF StartSession
<1>3. CASE ~jobs[j].cancelled
  <2> DEFINE job == [jobs[j] EXCEPT !.at = "session", !.phase = "running"]
  <2>1. jobs[j] \in JobType
    BY JobsAreTyped
  <2>2. /\ job \in JobType
        /\ job.doc = jobs[j].doc /\ job.stamp = jobs[j].stamp /\ job.at = "session"
        /\ job.attempt = jobs[j].attempt
    BY <2>1 DEF JobType
  <2>3. Becomes(j, job)
    BY <1>3 DEF StartSession
  <2> HIDE DEF job
  <2>4. jobs[j].attempt <= GiveUpAfter
    BY <1>1 DEF IInv, AttemptsAreLeft
  <2>5. QED
    BY <1>1, <1>3, <2>2, <2>3, <2>4, PlainStepKeepsIInv DEF Active
<1>4. QED
  BY <1>2, <1>3

LEMMA ClearedIsTyped ==
    ASSUME IInv, NEW rep, transient' = [transient EXCEPT ![rep] = 0]
    PROVE  transient' \in [Reps -> 0..Len(jobs)]
<1>1. transient \in [Reps -> 0..Len(jobs)] /\ 0 \in 0..Len(jobs)
  BY JobsAreTyped DEF IInv, TypeOK
<1>2. QED
  BY <1>1

\* A supervised job completes or fails for good.
LEMMA FinishKeepsIInv ==
    ASSUME IInv, NEW j \in Ids, jobs[j].at = "session", ~jobs[j].cancelled,
           NEW phase \in {"completed", "failed"}, NEW attempt \in 0..GiveUpAfter + 1,
           Finish(j, phase, attempt), UNCHANGED <<store, manager>>,
           edits' \in 0..MaxEdits, faults' \in 0..MaxFaults
    PROVE  IInv'
<1>1. jobs[j] \in JobType /\ jobs[j].spec \in Specs /\ StoreMovesOn
  BY JobsAreTyped, SameStoreMovesOn
<1> DEFINE ended == [jobs[j] EXCEPT !.phase = phase, !.attempt = attempt, !.at = "ended"]
           stamped == [jobs[j] EXCEPT !.phase = phase, !.attempt = attempt, !.at = "stamp",
                                      !.stamp = StateStamp(phase)]
<1>2. CASE jobs[j].doc = None
  <2>1. /\ ended \in JobType /\ ended.at = "ended"
        /\ ended.doc = jobs[j].doc /\ ended.stamp = jobs[j].stamp
    BY <1>1 DEF JobType
  <2>2. Becomes(j, ended)
    BY <1>1, <1>2 DEF Finish, JobType
  <2>3. transient' \in [Reps -> 0..Len(jobs)] /\ table' = table
    <3>1. PICK rep : transient' = [transient EXCEPT ![rep] = 0]
      BY <1>1, <1>2 DEF Finish, JobType
    <3>2. transient' \in [Reps -> 0..Len(jobs)]
      BY <3>1, ClearedIsTyped
    <3>3. QED
      BY <1>1, <1>2, <3>2 DEF Finish, JobType
  <2> HIDE DEF ended
  <2>4. QED
    BY <2>1, <2>2, <2>3, PlainStepKeepsIInv
<1>3. CASE jobs[j].doc # None
  <2>1. StateStamp(phase) \in StampType /\ ~IsRead(StateStamp(phase))
    BY StampsAreTyped DEF States
  <2>2. /\ stamped \in JobType /\ stamped.at = "stamp"
        /\ stamped.doc = jobs[j].doc /\ stamped.stamp = StateStamp(phase)
    BY <1>1, <2>1 DEF JobType
  <2>3. Becomes(j, stamped)
    BY <1>1, <1>3 DEF Finish, JobType
  <2>4. transient' \in [Reps -> 0..Len(jobs)] /\ table' = table
    BY <1>1, <1>3 DEF Finish, JobType, IInv, TypeOK, tables
  <2> HIDE DEF stamped
  <2>5. jobs'[j] = stamped
    BY <2>2, <2>3, JobsAreTyped, ExceptSeq DEF Becomes
  <2>6. ReadIsOld(jobs[j].doc, jobs[j].stamp)'
    BY <2>1, <2>2, <2>5 DEF ReadIsOld, IsRead
  <2>7. QED
    BY <1>1, <1>3, <2>2, <2>3, <2>4, <2>6, JobStepKeepsIInv DEF Active
<1>4. QED
  BY <1>2, <1>3

LEMMA SessionEndsKeepsIInv ==
    ASSUME IInv, NEW j \in Ids, SessionEnds(j)
    PROVE  IInv'
<1>1. /\ edits' \in 0..MaxEdits /\ faults' \in 0..MaxFaults
      /\ UNCHANGED <<store, manager>> /\ jobs[j].at = "session"
  BY DEF SessionEnds, IInv, TypeOK, budget
<1>2. CASE jobs[j].cancelled
  BY <1>1, <1>2, EndsKeepsIInv DEF SessionEnds, tables, IInv, TypeOK
<1>3. CASE ~jobs[j].cancelled
  <2>1. jobs[j].attempt \in 0..GiveUpAfter + 1
    BY JobsAreTyped DEF JobType
  <2>2. QED
    BY <1>1, <1>3, <2>1, FinishKeepsIInv DEF SessionEnds
<1>4. QED
  BY <1>2, <1>3

LEMMA FaultIsTyped ==
    ASSUME IInv, Fault
    PROVE  edits' \in 0..MaxEdits /\ faults' \in 0..MaxFaults
  BY NoneIsNew DEF IInv, TypeOK, Fault

LEMMA SessionFailsEarlyKeepsIInv ==
    ASSUME IInv, NEW j \in Ids, SessionFailsEarly(j)
    PROVE  IInv'
<1>1. /\ edits' \in 0..MaxEdits /\ faults' \in 0..MaxFaults
      /\ UNCHANGED <<store, manager>> /\ jobs[j].at = "session"
  BY FaultIsTyped DEF SessionFailsEarly
<1>2. jobs[j] \in JobType /\ jobs[j].attempt \in Nat /\ jobs[j].attempt <= GiveUpAfter
      /\ jobs[j].attempt + 1 \in 0..GiveUpAfter + 1
  BY <1>1, JobsAreTyped, NoneIsNew DEF JobType, IInv, AttemptsAreLeft
<1>3. CASE jobs[j].cancelled
  BY <1>1, <1>3, EndsKeepsIInv DEF SessionFailsEarly, tables, IInv, TypeOK
<1>4. CASE ~jobs[j].cancelled /\ jobs[j].attempt + 1 > GiveUpAfter
  BY <1>1, <1>2, <1>4, FinishKeepsIInv DEF SessionFailsEarly
<1>5. CASE ~jobs[j].cancelled /\ ~(jobs[j].attempt + 1 > GiveUpAfter)
  <2> DEFINE job == [jobs[j] EXCEPT !.at = "asleep", !.phase = "crashing", !.attempt = @ + 1]
  <2>1. /\ job \in JobType
        /\ job.doc = jobs[j].doc /\ job.stamp = jobs[j].stamp /\ job.at = "asleep"
        /\ job.attempt = jobs[j].attempt + 1
    BY <1>2 DEF JobType
  <2>2. Becomes(j, job) /\ UNCHANGED tables
    BY <1>5 DEF SessionFailsEarly
  <2> HIDE DEF job
  <2>3. job.attempt <= GiveUpAfter
    BY <1>2, <1>5, <2>1, NoneIsNew
  <2>4. transient' \in [Reps -> 0..Len(jobs)] /\ table' = table
    BY <2>2 DEF tables, IInv, TypeOK
  <2>5. QED
    BY <1>1, <1>5, <2>1, <2>2, <2>3, <2>4, PlainStepKeepsIInv DEF Active
<1>6. QED
  BY <1>3, <1>4, <1>5

LEMMA StageFailsKeepsIInv ==
    ASSUME IInv, NEW j \in Ids, StageFails(j)
    PROVE  IInv'
<1> DEFINE job == [jobs[j] EXCEPT !.at = "ended", !.cancelled = TRUE]
<1>1. /\ edits' \in 0..MaxEdits /\ faults' \in 0..MaxFaults
      /\ UNCHANGED <<store, table, manager>> /\ jobs[j].at = "session"
      /\ transient' \in [Reps -> 0..Len(jobs)]
  BY FaultIsTyped DEF StageFails, tables, IInv, TypeOK
<1>2. jobs[j] \in JobType
  BY JobsAreTyped
<1>3. /\ job \in JobType
      /\ job.doc = jobs[j].doc /\ job.stamp = jobs[j].stamp /\ job.at = "ended"
  BY <1>2 DEF JobType
<1>4. Becomes(j, job)
  BY DEF StageFails
<1> HIDE DEF job
<1>5. QED
  BY <1>1, <1>3, <1>4, PlainStepKeepsIInv

LEMMA WakeKeepsIInv ==
    ASSUME IInv, NEW j \in Ids, Wake(j)
    PROVE  IInv'
<1> DEFINE at == IF jobs[j].cancelled THEN "ended" ELSE "top"
           job == [jobs[j] EXCEPT !.at = at]
<1>1. /\ edits' \in 0..MaxEdits /\ faults' \in 0..MaxFaults
      /\ UNCHANGED <<store, table, manager>> /\ jobs[j].at = "asleep"
      /\ transient' \in [Reps -> 0..Len(jobs)]
  BY DEF Wake, tables, budget, IInv, TypeOK
<1>2. jobs[j] \in JobType /\ jobs[j].attempt <= GiveUpAfter
  BY <1>1, JobsAreTyped DEF IInv, AttemptsAreLeft
<1>3. at \in {"ended", "top"} /\ (at = "ended" \/ ~jobs[j].cancelled)
  OBVIOUS
<1>4. Becomes(j, job)
  BY DEF Wake
<1> HIDE DEF at
<1>5. /\ job \in JobType
      /\ job.doc = jobs[j].doc /\ job.stamp = jobs[j].stamp /\ job.at = at
      /\ job.attempt = jobs[j].attempt
  BY <1>2, <1>3 DEF JobType
<1> HIDE DEF job
<1>6. QED
  BY <1>1, <1>2, <1>3, <1>4, <1>5, PlainStepKeepsIInv DEF Active

LEMMA StampDocKeepsIInv ==
    ASSUME IInv, NEW j \in Ids, StampDoc(j)
    PROVE  IInv' /\ \A d \in DocIds : docs'[d].spec = docs[d].spec
<1> DEFINE d == jobs[j].doc
           after == StampAfter(jobs[j].doc, jobs[j].stamp)
           job == [jobs[j] EXCEPT !.stamp = after]
<1>1. /\ edits' \in 0..MaxEdits /\ faults' \in 0..MaxFaults
      /\ UNCHANGED <<table, manager>> /\ jobs[j].at = "stamp"
      /\ transient' \in [Reps -> 0..Len(jobs)]
  BY DEF StampDoc, tables, budget, IInv, TypeOK
<1>2. /\ jobs[j] \in JobType /\ jobs[j].stamp \in StampType /\ d \in DocIds
      /\ ReadIsOld(d, jobs[j].stamp) /\ Stamp(d, jobs[j].stamp)
  BY <1>1, JobsAreTyped DEF IInv, StampsDocs, ReadsAreOld, StampDoc
<1>3. StoreMovesOn /\ \A e \in DocIds : docs'[e].spec = docs[e].spec
  BY <1>2, StampMovesOn
<1>4. after \in StampType
  BY <1>2, StampAfterIsTyped DEF IInv, TypeOK
<1>5. IsRead(after) => /\ after.read.rev <= clock'
                       /\ repdb' /\ docs'[d].spec # None /\ docs'[d].rev = after.read.rev
                             => docs'[d].spec = after.read.spec
  BY <1>2, StampAfterIsOld
<1>6. CASE after = NoStamp
  <2> DEFINE ended == [jobs[j] EXCEPT !.at = "ended"]
  <2>1. /\ ended \in JobType
        /\ ended.doc = jobs[j].doc /\ ended.stamp = jobs[j].stamp /\ ended.at = "ended"
    BY <1>2 DEF JobType
  <2>2. Becomes(j, ended)
    BY <1>6 DEF StampDoc, Ends
  <2> HIDE DEF ended
  <2>3. jobs'[j] = ended
    BY <2>1, <2>2, JobsAreTyped, ExceptSeq DEF Becomes
  <2>4. ReadIsOld(jobs[j].doc, jobs[j].stamp)'
    BY <1>2, <1>3, <2>1, <2>3, NoneIsNew, SameStampIsOld
  <2>5. IInv'
    BY <1>1, <1>2, <1>3, <2>1, <2>2, <2>4, JobStepKeepsIInv
  <2>6. QED
    BY <1>3, <2>5
<1>7. CASE after # NoStamp
  <2>1. Becomes(j, job)
    BY <1>7 DEF StampDoc
  <2> HIDE DEF after
  <2>2. /\ job \in JobType /\ job.doc = jobs[j].doc /\ job.stamp = after /\ job.at = "stamp"
        /\ job.cancelled = jobs[j].cancelled
    BY <1>1, <1>2, <1>4 DEF JobType
  <2> HIDE DEF job
  <2>3. jobs'[j] = job
    BY <2>1, <2>2, JobsAreTyped, ExceptSeq DEF Becomes
  <2>4. ReadIsOld(jobs[j].doc, jobs[j].stamp)'
    BY <1>5, <2>2, <2>3 DEF ReadIsOld, Exists
  <2>5. IInv'
    BY <1>1, <1>2, <1>3, <2>1, <2>2, <2>4, NoneIsNew, JobStepKeepsIInv DEF Active
  <2>6. QED
    BY <1>3, <2>5
<1>8. QED
  BY <1>6, <1>7

-----------------------------------------------------------------------------
(* Steps of the users                                                       *)

LEMMA EditIsTyped ==
    ASSUME IInv, Edits
    PROVE  edits' \in 0..MaxEdits /\ faults' \in 0..MaxFaults
  BY NoneIsNew DEF IInv, TypeOK, Edits

\* A step of the documents alone.
LEMMA StoreStepKeepsIInv ==
    ASSUME IInv, StoreMovesOn, UNCHANGED <<tables, jobs, manager>>,
           edits' \in 0..MaxEdits, faults' \in 0..MaxFaults
    PROVE  IInv'
<1>1. JobsGoOn
  BY SameJobGoesOn, JobsAreTyped DEF JobsGoOn
<1>2. transient' \in [Reps -> 0..Len(jobs')] /\ Ids' = Ids /\ UNCHANGED <<table, manager>>
  BY DEF tables, IInv, TypeOK
<1>3. QED
  BY <1>1, <1>2, OthersKeepIInv

\* An edit gives a document a revision that nobody has read.
LEMMA PutDocKeepsIInv ==
    ASSUME IInv, NEW d \in DocIds, NEW spec \in Specs, PutDoc(d, spec)
    PROVE  IInv'
<1> DEFINE new == [rev |-> clock + 1, spec |-> spec, state |-> None, repId |-> None]
<1>1. new \in Document /\ new.rev = clock + 1
  BY DEF IInv, TypeOK, Document, States
<1>2. docs' = [docs EXCEPT ![d] = new] /\ clock' = clock + 1 /\ repdb /\ repdb' = repdb
  BY DEF PutDoc
<1> HIDE DEF new
<1>3. ASSUME NEW e \in DocIds
      PROVE  docs'[e].rev <= clock' /\ (docs'[e] = docs[e] \/ docs'[e].rev > clock)
  <2>1. docs'[e] = IF e = d THEN new ELSE docs[e]
    BY <1>2 DEF IInv, TypeOK
  <2>2. docs[e].rev \in Nat /\ docs[e].rev <= clock /\ clock \in Nat
    BY RevsAreNumbers DEF IInv, TypeOK, ReadsAreOld
  <2>3. QED
    BY <1>1, <1>2, <2>1, <2>2
<1>4. docs' \in [DocIds -> Document \union {Absent}]
  BY <1>1, <1>2 DEF IInv, TypeOK
<1>5. StoreMovesOn
  BY <1>2, <1>3, <1>4 DEF StoreMovesOn, IInv, TypeOK, Exists
<1>6. QED
  BY <1>5, EditIsTyped, StoreStepKeepsIInv DEF PutDoc

LEMMA DeleteDocKeepsIInv ==
    ASSUME IInv, NEW d \in DocIds, DeleteDoc(d)
    PROVE  IInv'
<1>1. docs' = [docs EXCEPT ![d] = Absent] /\ repdb /\ UNCHANGED <<repdb, clock>>
  BY DEF DeleteDoc, Exists
<1>2. docs' \in [DocIds -> Document \union {Absent}]
  BY <1>1 DEF IInv, TypeOK
<1>3. ASSUME NEW e \in DocIds
      PROVE  docs'[e].rev <= clock' /\ (Exists(e)' => Exists(e) /\ docs'[e] = docs[e])
  <2>1. docs'[e] = IF e = d THEN Absent ELSE docs[e]
    BY <1>1 DEF IInv, TypeOK
  <2>2. Absent.rev = 0 /\ Absent.spec = None
    BY DEF Absent
  <2>3. QED
    BY <1>1, <2>1, <2>2 DEF IInv, TypeOK, ReadsAreOld, Exists
<1>4. StoreMovesOn
  BY <1>1, <1>2, <1>3 DEF StoreMovesOn, IInv, TypeOK
<1>5. QED
  BY <1>4, EditIsTyped, StoreStepKeepsIInv DEF DeleteDoc

LEMMA DeleteReplicatorDbKeepsIInv ==
    ASSUME IInv, DeleteReplicatorDb
    PROVE  IInv'
<1>1. docs' = [d \in DocIds |-> Absent] /\ repdb' = FALSE /\ clock' = clock
  BY DEF DeleteReplicatorDb
<1>2. Absent.rev = 0 /\ Absent.spec = None
  BY DEF Absent
<1>3. docs' \in [DocIds -> Document \union {Absent}] /\ clock \in Nat
  BY <1>1 DEF IInv, TypeOK
<1>4. \A d \in DocIds : docs'[d].rev = 0 /\ docs'[d].spec = None /\ ~Exists(d)'
  BY <1>1, <1>2 DEF Exists
<1>5. StoreMovesOn
  <2>1. clock' \in Nat /\ clock' >= clock /\ docs' \in [DocIds -> Document \union {Absent}]
    BY <1>1, <1>3
  <2>2. repdb' \in BOOLEAN
    BY <1>1, Zenon
  <2>3. \A d \in DocIds : docs'[d].rev <= clock'
    BY <1>1, <1>3, <1>4
  <2>4. QED
    BY <1>4, <2>1, <2>2, <2>3 DEF StoreMovesOn
<1>6. QED
  BY <1>5, EditIsTyped, StoreStepKeepsIInv DEF DeleteReplicatorDb

LEMMA CreateReplicatorDbKeepsIInv ==
    ASSUME IInv, CreateReplicatorDb
    PROVE  IInv'
<1>1. StoreMovesOn
  BY DEF CreateReplicatorDb, StoreMovesOn, IInv, TypeOK, ReadsAreOld, Exists
<1>2. QED
  BY <1>1, StoreStepKeepsIInv DEF CreateReplicatorDb, budget, IInv, TypeOK

-----------------------------------------------------------------------------
(* Transient jobs                                                           *)

LEMMA CancelTransientKeepsIInv ==
    ASSUME IInv, NEW rep \in Reps, CancelTransient(rep)
    PROVE  IInv'
<1>1. StoreMovesOn /\ UNCHANGED <<table, manager>>
  BY SameStoreMovesOn DEF CancelTransient
<1>2. JobsGoOn /\ Len(jobs') = Len(jobs) /\ \A j \in Ids : jobs'[j].at = jobs[j].at
  BY <1>1, CancelledGoOn DEF CancelTransient
<1>3. transient' \in [Reps -> 0..Len(jobs')]
  BY <1>2, JobsAreTyped DEF CancelTransient, IInv, TypeOK
<1>4. QED
  BY <1>1, <1>2, <1>3, EditIsTyped, OthersKeepIInv DEF CancelTransient

LEMMA RequestEndsKeepsIInv ==
    ASSUME IInv, NEW j \in Ids, RequestEnds(j)
    PROVE  IInv'
<1>1. transient' \in [Reps -> 0..Len(jobs)]
  BY ClearedIsTyped DEF RequestEnds
<1>2. QED
  BY <1>1, EndsKeepsIInv DEF RequestEnds, budget, IInv, TypeOK

\* The job before it is told to stop, and the new one has no document.
LEMMA PostTransientKeepsIInv ==
    ASSUME IInv, NEW spec \in Specs, PostTransient(spec)
    PROVE  IInv'
<1> DEFINE before == {transient[spec.rep]}
           old == Cancelled(jobs, before)
           new == Job(None, spec, IF spec.continuous THEN "top" ELSE "request")
<1>1. /\ old \in Seq(JobType) /\ Len(old) = Len(jobs)
      /\ \A j \in 1..Len(jobs) :
            old[j] = IF j \in before THEN [jobs[j] EXCEPT !.cancelled = TRUE] ELSE jobs[j]
  <2> HIDE DEF before
  <2>1. QED
    BY CancelledIsTyped, JobsAreTyped
<1>2. new \in JobType
  BY NewJobIsTyped
<1>3. new.doc = None /\ new.at # "stamp" /\ new.attempt = 0
  BY DEF Job
<1>4. jobs' = Append(old, new)
  BY DEF PostTransient
<1> HIDE DEF before, old, new
<1>5. /\ jobs' \in Seq(JobType) /\ Len(jobs') = Len(jobs) + 1
      /\ jobs'[Len(jobs) + 1] = new
      /\ \A j \in 1..Len(jobs) : jobs'[j] = old[j]
  BY <1>1, <1>2, <1>4, AppendProperties
<1>6. StoreMovesOn /\ UNCHANGED <<table, manager>>
  BY SameStoreMovesOn DEF PostTransient
<1>7. ASSUME NEW j \in Ids
      PROVE  jobs'[j].at = jobs[j].at /\ JobGoesOn(j)
  <2>1. /\ jobs'[j].at = jobs[j].at /\ jobs'[j].doc = jobs[j].doc
        /\ jobs'[j].stamp = jobs[j].stamp /\ jobs'[j].attempt = jobs[j].attempt
        /\ jobs'[j].cancelled = jobs[j].cancelled \/ jobs'[j].cancelled = TRUE
    <3>1. jobs[j] \in JobType /\ jobs'[j] = old[j]
      BY <1>5, JobsAreTyped
    <3>2. CASE j \in before
      <4>1. jobs'[j] = [jobs[j] EXCEPT !.cancelled = TRUE]
        BY <1>1, <3>1, <3>2
      <4>2. QED
        BY <3>1, <4>1 DEF JobType
    <3>3. CASE j \notin before
      BY <1>1, <3>1, <3>3
    <3>4. QED
      BY <3>2, <3>3
  <2>2. QED
    BY <1>6, <2>1, SameStampIsOld DEF JobGoesOn, Active, IInv, StampsDocs, AttemptsAreLeft
<1>8. JobsGoOn
  BY <1>5, <1>7, JobsAreTyped DEF JobsGoOn
<1>9. transient' \in [Reps -> 0..Len(jobs')]
  <2>1. /\ transient \in [Reps -> 0..Len(jobs)] /\ 0..Len(jobs) \subseteq 0..Len(jobs')
        /\ Len(jobs) + 1 \in 0..Len(jobs')
    BY <1>5, JobsAreTyped DEF IInv, TypeOK
  <2>2. transient' = [transient EXCEPT ![spec.rep] = Len(jobs) + 1]
    BY DEF PostTransient
  <2>3. QED
    BY <2>1, <2>2
<1>10. \A j \in Ids' \ Ids : /\ jobs'[j].doc = None /\ jobs'[j].at # "stamp"
                             /\ jobs'[j].attempt <= GiveUpAfter
  BY <1>3, <1>5, JobsAreTyped, NoneIsNew
<1>11. QED
  BY <1>6, <1>7, <1>8, <1>9, <1>10, EditIsTyped, OthersKeepIInv DEF PostTransient

-----------------------------------------------------------------------------
(* Steps of the manager                                                     *)

\* What the manager does besides starting a job.
LEMMA ManagerStepKeepsIInv ==
    ASSUME IInv, StoreMovesOn, JobsGoOn, Len(jobs') = Len(jobs), UNCHANGED transient,
           table' \in [DocIds -> 0..Len(jobs)], manager' \in ManagerType,
           edits' \in 0..MaxEdits, faults' \in 0..MaxFaults,
           \A j \in Ids : Active(j)' /\ jobs[j].doc # None => table'[jobs[j].doc] = j,
           BuildsAlone',
           manager'.at = "stamp" =>
               /\ manager'.doc \in DocIds
               /\ manager'.job # 0 => manager'.job \in Ids /\ jobs'[manager'.job].at = "made"
               /\ ReadIsOld(manager.doc, manager.stamp)'
    PROVE  IInv'
<1>1. Ids' = Ids
  OBVIOUS
<1>2. TypeOK'
  BY DEF IInv, TypeOK, StoreMovesOn, JobsGoOn
<1>3. DocJobsAreInTable'
  BY <1>1 DEF DocJobsAreInTable, JobsGoOn, JobGoesOn, Active
<1>4. StampsDocs'
  BY <1>1 DEF StampsDocs, JobsGoOn, JobGoesOn
<1>5. ReadsAreOld'
  BY <1>1 DEF ReadsAreOld, StoreMovesOn, JobsGoOn, JobGoesOn
<1>6. AttemptsAreLeft'
  BY <1>1 DEF AttemptsAreLeft, JobsGoOn, JobGoesOn
<1>7. QED
  BY <1>2, <1>3, <1>4, <1>5, <1>6 DEF IInv

LEMMA IdleIsTyped ==
    Idle \in ManagerType /\ Idle.at = "idle"
  BY StampsAreTyped DEF Idle, ManagerType

\* The jobs as they are, for the steps that change no job.
LEMMA SameJobsGoOn ==
    ASSUME IInv, StoreMovesOn, UNCHANGED jobs
    PROVE  JobsGoOn /\ Len(jobs') = Len(jobs)
  BY SameJobGoesOn, JobsAreTyped DEF JobsGoOn

LEMMA ActiveJobsInTable ==
    ASSUME IInv, JobsGoOn, UNCHANGED table
    PROVE  \A j \in Ids : Active(j)' /\ jobs[j].doc # None => table'[jobs[j].doc] = j
  BY DEF IInv, DocJobsAreInTable, JobsGoOn, JobGoesOn, Active

\* A step between two documents of the loop.
LEMMA RoundStepKeepsIInv ==
    ASSUME IInv, UNCHANGED <<store, tables, jobs, budget>>,
           manager' \in ManagerType, manager'.at \in {"idle", "loop"}
    PROVE  IInv'
<1>1. StoreMovesOn
  BY SameStoreMovesOn
<1>2. JobsGoOn /\ Len(jobs') = Len(jobs)
  BY <1>1, SameJobsGoOn
<1>3. /\ UNCHANGED <<table, transient>> /\ table' \in [DocIds -> 0..Len(jobs)]
      /\ edits' \in 0..MaxEdits /\ faults' \in 0..MaxFaults
  BY DEF tables, budget, IInv, TypeOK
<1>4. BuildsAlone'
  BY DEF BuildsAlone
<1>5. QED
  BY <1>1, <1>2, <1>3, <1>4, ActiveJobsInTable, ManagerStepKeepsIInv

LEMMA LoopEndsKeepsIInv ==
    ASSUME IInv, LoopEnds
    PROVE  IInv'
  BY IdleIsTyped, RoundStepKeepsIInv DEF LoopEnds

LEMMA SkipKeepsIInv ==
    ASSUME IInv, NEW item \in manager.todo, Skip(item)
    PROVE  IInv'
<1>1. manager \in ManagerType /\ manager.at = "loop"
      /\ manager' = [manager EXCEPT !.todo = @ \ {item}]
  BY DEF IInv, TypeOK, Skip
<1>2. manager' \in ManagerType /\ manager'.at = "loop"
  BY <1>1 DEF ManagerType
<1>3. QED
  BY <1>2, RoundStepKeepsIInv DEF Skip

\* The jobs of the documents that are gone are told to stop, and leave the table.
LEMMA ReconcileKeepsIInv ==
    ASSUME IInv, Reconcile
    PROVE  IInv'
<1> DEFINE desired == {d \in DocIds : Exists(d)}
           gone == {d \in DocIds : table[d] # 0 /\ d \notin desired}
           ids == {table[d] : d \in gone}
           items == {[doc |-> d, spec |-> docs[d].spec, state |-> docs[d].state] : d \in desired}
<1>1. /\ jobs' = Cancelled(jobs, ids)
      /\ table' = [d \in DocIds |-> IF d \in gone THEN 0 ELSE table[d]]
      /\ manager' = [Idle EXCEPT !.at = "loop", !.todo = items]
      /\ UNCHANGED <<store, transient>>
  BY DEF Reconcile
<1>2. \A d \in desired : docs[d] \in Document
  BY ExistsIsDocument DEF IInv, TypeOK
<1>3. items \subseteq ItemType
  BY <1>2 DEF Document, ItemType
<1> HIDE DEF items
<1>4. manager' \in ManagerType /\ manager'.at = "loop"
  BY <1>1, <1>3, IdleIsTyped DEF ManagerType
<1>5. StoreMovesOn
  BY <1>1, SameStoreMovesOn
<1> HIDE DEF desired, ids
<1>6. /\ JobsGoOn /\ Len(jobs') = Len(jobs)
      /\ \A j \in Ids : j \in ids => jobs'[j].cancelled
  BY <1>1, <1>5, CancelledGoOn
<1>7. table' \in [DocIds -> 0..Len(jobs)]
  BY <1>1, JobsAreTyped DEF IInv, TypeOK
<1>8. ASSUME NEW j \in Ids, Active(j)', jobs[j].doc # None
      PROVE  table'[jobs[j].doc] = j
  <2>1. jobs[j].doc \in DocIds /\ table[jobs[j].doc] = j /\ j \notin ids
    BY <1>6, <1>8, JobsAreTyped DEF JobsGoOn, JobGoesOn, Active, IInv, DocJobsAreInTable
  <2>2. jobs[j].doc \notin gone
    BY <2>1 DEF ids
  <2>3. QED
    BY <1>1, <2>1, <2>2
<1>9. BuildsAlone'
  BY <1>4 DEF BuildsAlone
<1>10. edits' \in 0..MaxEdits /\ faults' \in 0..MaxFaults
  BY DEF Reconcile, budget, IInv, TypeOK
<1>11. QED
  BY <1>1, <1>4, <1>5, <1>6, <1>7, <1>8, <1>9, <1>10, ManagerStepKeepsIInv

\* The job of the old spec is told to stop before the new one is built.
LEMMA TakeKeepsIInv ==
    ASSUME IInv, NEW item \in manager.todo, Take(item)
    PROVE  IInv'
<1> DEFINE ids == {table[item.doc]}
<1>1. /\ jobs' = Cancelled(jobs, ids) /\ manager' = Building(item)
      /\ UNCHANGED <<store, table, transient>>
      /\ edits' \in 0..MaxEdits /\ faults' \in 0..MaxFaults
      /\ table \in [DocIds -> 0..Len(jobs)]
  BY DEF Take, tables, budget, IInv, TypeOK
<1>2. manager \in ManagerType /\ item \in ItemType /\ item.doc \in DocIds /\ item.spec \in Specs
  BY DEF IInv, TypeOK, ManagerType, ItemType
<1>3. /\ manager' \in ManagerType /\ manager'.at = "build"
      /\ manager'.doc = item.doc /\ manager'.spec = item.spec
  BY <1>1, <1>2 DEF Building, ManagerType
<1>4. StoreMovesOn
  BY <1>1, SameStoreMovesOn
<1> HIDE DEF ids
<1>5. /\ JobsGoOn /\ Len(jobs') = Len(jobs)
      /\ \A j \in Ids : j \in ids => jobs'[j].cancelled
  BY <1>1, <1>4, CancelledGoOn
<1>6. ASSUME NEW j \in Ids, Active(j)'
      PROVE  jobs'[j].doc # item.doc
  <2>1. SUFFICES ASSUME jobs'[j].doc = item.doc
                 PROVE  FALSE
    OBVIOUS
  <2>2. jobs[j].doc = item.doc /\ Active(j) /\ j \notin ids
    BY <1>5, <1>6, <2>1 DEF JobsGoOn, JobGoesOn, Active
  <2>3. table[item.doc] = j
    BY <1>2, <2>2, NoneIsNew DEF IInv, DocJobsAreInTable
  <2>4. QED
    BY <2>2, <2>3 DEF ids
<1>7. BuildsAlone'
  BY <1>2, <1>3, <1>5, <1>6 DEF BuildsAlone
<1>8. QED
  BY <1>1, <1>3, <1>4, <1>5, <1>7, ActiveJobsInTable, ManagerStepKeepsIInv

LEMMA BuildFailsKeepsIInv ==
    ASSUME IInv, BuildFails
    PROVE  IInv'
<1>1. StateStamp("failed") \in StampType /\ ~IsRead(StateStamp("failed"))
  BY StampsAreTyped DEF States
<1>2. /\ manager' = [manager EXCEPT !.at = "stamp", !.job = 0, !.stamp = StateStamp("failed")]
      /\ UNCHANGED <<store, table, transient, jobs>> /\ manager.at = "build"
      /\ table \in [DocIds -> 0..Len(jobs)] /\ manager \in ManagerType
  BY DEF BuildFails, tables, IInv, TypeOK
<1>3. manager.doc \in DocIds
  BY <1>2 DEF IInv, BuildsAlone
<1>4. /\ manager' \in ManagerType /\ manager'.at = "stamp" /\ manager'.job = 0
      /\ manager'.doc = manager.doc /\ manager'.stamp = StateStamp("failed")
  BY <1>1, <1>2 DEF ManagerType
<1>5. ReadIsOld(manager.doc, manager.stamp)'
  BY <1>1, <1>4 DEF ReadIsOld, IsRead
<1>6. StoreMovesOn /\ JobsGoOn /\ Len(jobs') = Len(jobs)
  BY <1>2, SameStoreMovesOn, SameJobsGoOn
<1>7. edits' \in 0..MaxEdits /\ faults' \in 0..MaxFaults
  BY FaultIsTyped DEF BuildFails, budget, IInv, TypeOK
<1>8. BuildsAlone'
  BY <1>4 DEF BuildsAlone
<1>9. QED
  BY <1>2, <1>3, <1>4, <1>5, <1>6, <1>7, <1>8, ActiveJobsInTable, ManagerStepKeepsIInv

\* The new job is the one of its document in the table, and no other is active.
LEMMA BuildKeepsIInv ==
    ASSUME IInv, Build
    PROVE  IInv'
<1> DEFINE last == Len(jobs) + 1
           new == Job(manager.doc, manager.spec, "made")
<1>1. /\ manager \in ManagerType /\ manager.at = "build"
      /\ manager.doc \in DocIds /\ manager.spec \in Specs
      /\ \A j \in Ids : Active(j) => jobs[j].doc # manager.doc
      /\ table \in [DocIds -> 0..Len(jobs)] /\ Len(jobs) \in Nat
      /\ UNCHANGED <<store, transient>>
      /\ edits' \in 0..MaxEdits /\ faults' \in 0..MaxFaults
  BY DEF Build, IInv, TypeOK, BuildsAlone, budget
<1>2. new \in JobType /\ ~IsRead(new.stamp)
  BY <1>1, NewJobIsTyped
<1>3. new.doc = manager.doc /\ new.at = "made" /\ new.attempt = 0
  BY DEF Job
<1>4. IdStamp(manager.spec.rep) \in StampType /\ ~IsRead(IdStamp(manager.spec.rep))
  BY <1>1, StampsAreTyped DEF Reps
<1>5. /\ jobs' = Append(jobs, new)
      /\ table' = [table EXCEPT ![manager.doc] = last]
      /\ manager' = [manager EXCEPT !.at = "stamp", !.job = last,
                                    !.stamp = IdStamp(manager.spec.rep)]
  BY DEF Build
<1> HIDE DEF new
<1>6. /\ jobs' \in Seq(JobType) /\ Len(jobs') = last /\ jobs'[last] = new
      /\ \A j \in Ids : jobs'[j] = jobs[j]
  BY <1>2, <1>5, AppendProperties, JobsAreTyped
<1>7. /\ manager' \in ManagerType /\ manager'.at = "stamp" /\ manager'.job = last
      /\ manager'.doc = manager.doc /\ manager'.stamp = IdStamp(manager.spec.rep)
  <2>1. last \in Nat
    BY <1>1
  <2> HIDE DEF last
  <2>2. QED
    BY <1>1, <1>4, <1>5, <2>1 DEF ManagerType
<1>8. StoreMovesOn
  BY <1>1, SameStoreMovesOn
<1>9. \A j \in Ids : JobGoesOn(j)
  BY <1>6, <1>8, SameJobGoesOn
<1>10. Ids' = Ids \union {last} /\ last \in Ids' /\ last \notin Ids
  BY <1>1, <1>6
<1>11. table' \in [DocIds -> 0..Len(jobs')] /\ transient' \in [Reps -> 0..Len(jobs')]
  BY <1>1, <1>5, <1>6 DEF IInv, TypeOK
<1>12. TypeOK'
  BY <1>1, <1>6, <1>7, <1>8, <1>11 DEF TypeOK, StoreMovesOn
<1>13. DocJobsAreInTable'
  <2>1. ASSUME NEW j \in Ids, Active(j), jobs[j].doc # None
        PROVE  table'[jobs[j].doc] = j
    BY <1>1, <1>5, <2>1, JobsAreTyped DEF IInv, DocJobsAreInTable
  <2>2. table'[manager.doc] = last
    BY <1>1, <1>5
  <2>3. QED
    BY <1>3, <1>6, <1>10, <2>1, <2>2 DEF DocJobsAreInTable, Active
<1>14. BuildsAlone'
  BY <1>7 DEF BuildsAlone
<1>15. StampsDocs'
  BY <1>1, <1>3, <1>6, <1>7, <1>9, <1>10 DEF StampsDocs, JobGoesOn
<1>16. ReadsAreOld'
  <2>1. ReadIsOld(manager.doc, manager.stamp)'
    BY <1>4, <1>7 DEF ReadIsOld, IsRead
  <2>2. ASSUME NEW j \in Ids'
        PROVE  (jobs[j].doc # None => ReadIsOld(jobs[j].doc, jobs[j].stamp))'
    <3>1. CASE j = last
      BY <1>2, <1>6, <3>1 DEF ReadIsOld, IsRead
    <3>2. CASE j \in Ids
      BY <1>6, <1>9, <3>2 DEF JobGoesOn
    <3>3. QED
      BY <1>10, <3>1, <3>2
  <2>3. QED
    BY <1>8, <2>1, <2>2 DEF ReadsAreOld, StoreMovesOn
<1>17. AttemptsAreLeft'
  BY <1>3, <1>6, <1>9, <1>10, NoneIsNew DEF AttemptsAreLeft, JobGoesOn
<1>18. QED
  BY <1>12, <1>13, <1>14, <1>15, <1>16, <1>17 DEF IInv

\* The document is stamped, then its job is spawned.
LEMMA ManagerStampsKeepsIInv ==
    ASSUME IInv, ManagerStamps
    PROVE  IInv' /\ \A e \in DocIds : docs'[e].spec = docs[e].spec
<1> DEFINE after == StampAfter(manager.doc, manager.stamp)
           at == IF after = NoStamp THEN "loop" ELSE "stamp"
<1>1. /\ manager \in ManagerType /\ manager.at = "stamp" /\ manager.stamp \in StampType
      /\ manager.doc \in DocIds /\ ReadIsOld(manager.doc, manager.stamp)
      /\ manager.job # 0 => manager.job \in Ids /\ jobs[manager.job].at = "made"
      /\ Stamp(manager.doc, manager.stamp)
      /\ UNCHANGED <<table, transient>> /\ table \in [DocIds -> 0..Len(jobs)]
      /\ edits' \in 0..MaxEdits /\ faults' \in 0..MaxFaults
  BY DEF ManagerStamps, IInv, TypeOK, ManagerType, StampsDocs, ReadsAreOld, tables, budget
<1>2. StoreMovesOn /\ \A e \in DocIds : docs'[e].spec = docs[e].spec
  BY <1>1, StampMovesOn
<1>3. after \in StampType
  BY <1>1, StampAfterIsTyped DEF IInv, TypeOK
<1>4. IsRead(after) => /\ after.read.rev <= clock'
                       /\ repdb' /\ docs'[manager.doc].spec # None
                          /\ docs'[manager.doc].rev = after.read.rev
                             => docs'[manager.doc].spec = after.read.spec
  BY <1>1, StampAfterIsOld
<1>5. /\ manager' = [manager EXCEPT !.at = at, !.stamp = after]
      /\ jobs' = [j \in Ids |-> IF after = NoStamp /\ j = manager.job
                                THEN [jobs[j] EXCEPT !.at = "top"] ELSE jobs[j]]
  BY <1>1 DEF ManagerStamps, ManagerType
<1>6. at \in {"loop", "stamp"} /\ (at = "stamp" <=> after # NoStamp)
  OBVIOUS
<1> HIDE DEF after, at
<1>7. /\ manager' \in ManagerType /\ manager'.at = at /\ manager'.stamp = after
      /\ manager'.doc = manager.doc /\ manager'.job = manager.job
  BY <1>1, <1>3, <1>5, <1>6 DEF ManagerType
<1>8. ASSUME NEW j \in Ids
      PROVE  /\ jobs'[j] \in JobType
             /\ jobs'[j].doc = jobs[j].doc /\ jobs'[j].stamp = jobs[j].stamp
             /\ jobs'[j].attempt = jobs[j].attempt /\ jobs'[j].cancelled = jobs[j].cancelled
             /\ \/ jobs'[j].at = jobs[j].at
                \/ after = NoStamp /\ jobs[j].at = "made" /\ jobs'[j].at = "top"
  <2>1. jobs[j] \in JobType
    BY JobsAreTyped
  <2>2. CASE after = NoStamp /\ j = manager.job
    <3>1. jobs'[j] = [jobs[j] EXCEPT !.at = "top"]
      BY <1>5, <2>2
    <3>2. manager.job # 0
      BY <2>2, JobsAreTyped
    <3>3. jobs[j].at = "made"
      BY <1>1, <2>2, <3>2
    <3>4. QED
      BY <2>1, <2>2, <3>1, <3>3 DEF JobType
  <2>3. CASE ~(after = NoStamp /\ j = manager.job)
    BY <1>5, <2>1, <2>3
  <2>4. QED
    BY <2>2, <2>3
<1>9. jobs' \in Seq(JobType) /\ Len(jobs') = Len(jobs)
  <2>1. jobs' \in [1..Len(jobs) -> JobType] /\ Len(jobs) \in Nat
    BY <1>5, <1>8, JobsAreTyped
  <2>2. QED
    BY <2>1
<1>10. \A j \in Ids : JobGoesOn(j)
  BY <1>2, <1>8, SameStampIsOld DEF JobGoesOn, Active, IInv, StampsDocs, AttemptsAreLeft
<1>11. JobsGoOn
  BY <1>9, <1>10, JobsAreTyped DEF JobsGoOn
<1>12. BuildsAlone'
  BY <1>6, <1>7 DEF BuildsAlone
<1>13. ReadIsOld(manager.doc, manager.stamp)'
  BY <1>4, <1>7 DEF ReadIsOld, Exists
<1>14. manager'.at = "stamp" =>
          (manager'.job # 0 => manager'.job \in Ids /\ jobs'[manager'.job].at = "made")
  BY <1>1, <1>6, <1>7, <1>8
<1>15. IInv'
  BY <1>1, <1>2, <1>7, <1>9, <1>11, <1>12, <1>13, <1>14, ActiveJobsInTable,
     ManagerStepKeepsIInv
<1>16. QED
  BY <1>2, <1>15

\* After a restart there are no jobs, and what is stored is as it was.
LEMMA RestartKeepsIInv ==
    ASSUME IInv, Restart
    PROVE  IInv'
<1>1. /\ jobs' = <<>> /\ manager' = Idle
      /\ table' = [d \in DocIds |-> 0] /\ transient' = [r \in Reps |-> 0]
      /\ UNCHANGED store
  BY DEF Restart
<1>2. jobs' \in Seq(JobType) /\ Len(jobs') = 0 /\ Ids' = {} /\ 0 \in 0..Len(jobs')
  BY <1>1
<1>3. StoreMovesOn
  BY <1>1, SameStoreMovesOn
<1>4. TypeOK'
  BY <1>1, <1>2, <1>3, IdleIsTyped, FaultIsTyped DEF TypeOK, StoreMovesOn, Restart
<1>5. QED
  BY <1>1, <1>2, <1>3, <1>4, IdleIsTyped
     DEF IInv, DocJobsAreInTable, BuildsAlone, StampsDocs, ReadsAreOld, AttemptsAreLeft,
         StoreMovesOn

-----------------------------------------------------------------------------
(* The specification                                                        *)

LEMMA InitIInv ==
    Init => IInv
<1> SUFFICES ASSUME Init
             PROVE  IInv
  OBVIOUS
<1>1. jobs \in Seq(JobType) /\ Len(jobs) = 0 /\ Ids = {} /\ 0 \in 0..Len(jobs)
  BY DEF Init
<1>2. Absent.rev = 0 /\ Absent.spec = None
  BY DEF Absent
<1>3. TypeOK
  BY <1>1, IdleIsTyped, NoneIsNew DEF Init, TypeOK
<1>4. QED
  BY <1>1, <1>2, <1>3, IdleIsTyped
     DEF Init, IInv, DocJobsAreInTable, BuildsAlone, StampsDocs, ReadsAreOld, AttemptsAreLeft

LEMMA NextKeepsIInv ==
    ASSUME IInv, [Next]_vars
    PROVE  IInv'
<1>1. CASE User
  BY <1>1, PutDocKeepsIInv, DeleteDocKeepsIInv, DeleteReplicatorDbKeepsIInv,
     CreateReplicatorDbKeepsIInv, PostTransientKeepsIInv, CancelTransientKeepsIInv DEF User
<1>2. CASE Manage
  BY <1>2, ReconcileKeepsIInv, LoopEndsKeepsIInv, SkipKeepsIInv, TakeKeepsIInv,
     BuildKeepsIInv, BuildFailsKeepsIInv, ManagerStampsKeepsIInv DEF Manage
<1>3. CASE Restart
  BY <1>3, RestartKeepsIInv
<1>4. ASSUME NEW j \in Ids,
             Supervise(j) \/ SessionFailsEarly(j) \/ StageFails(j) \/ RequestEnds(j)
      PROVE  IInv'
  BY <1>4, StartSessionKeepsIInv, SessionEndsKeepsIInv, WakeKeepsIInv, StampDocKeepsIInv,
     SessionFailsEarlyKeepsIInv, StageFailsKeepsIInv, RequestEndsKeepsIInv DEF Supervise
<1>5. CASE UNCHANGED vars
  BY <1>5, SameStoreMovesOn, StoreStepKeepsIInv DEF vars, budget, IInv, TypeOK
<1>6. QED
  BY <1>1, <1>2, <1>3, <1>4, <1>5 DEF Next

\* What the manager keeps in every state: types, one job per document, and that a
\* revision read stands for one content.
THEOREM Invariant ==
    Spec => []IInv
<1>1. QED
  BY InitIInv, NextKeepsIInv, PTL DEF Spec

\* However documents, edits, failed builds, crashes and restarts are interleaved, a
\* document has at most one job that was not told to stop, the one of its table.
THEOREM DocJobsInTable ==
    Spec => []DocJobsAreInTable
<1>1. IInv => DocJobsAreInTable
  BY DEF IInv
<1>2. QED
  BY <1>1, Invariant, PTL

\* Only a user's request changes what a document asks for: what the manager writes
\* back after it has read the document never undoes an edit made in between.
THEOREM EditsKept ==
    Spec => EditsAreKept
<1>1. ASSUME IInv, [Next]_vars, edits' = edits
      PROVE  \A d \in DocIds : docs'[d].spec = docs[d].spec
  <2>1. edits \in 0..MaxEdits
    BY <1>1 DEF IInv, TypeOK
  <2>2. ~Edits
    BY <1>1, <2>1 DEF Edits
  <2>3. CASE User
    BY <2>2, <2>3 DEF User, DeleteDoc, PutDoc, DeleteReplicatorDb, CreateReplicatorDb,
          PostTransient, CancelTransient
  <2>4. CASE Manage
    BY <1>1, <2>4, ManagerStampsKeepsIInv
       DEF Manage, Reconcile, LoopEnds, Skip, Take, Build, BuildFails, store
  <2>5. CASE Restart
    BY <2>5 DEF Restart, store
  <2>6. ASSUME NEW j \in Ids,
               Supervise(j) \/ SessionFailsEarly(j) \/ StageFails(j) \/ RequestEnds(j)
        PROVE  \A d \in DocIds : docs'[d].spec = docs[d].spec
    BY <1>1, <2>6, StampDocKeepsIInv
       DEF Supervise, StartSession, SessionEnds, Wake, SessionFailsEarly, StageFails,
           RequestEnds, store
  <2>7. CASE UNCHANGED vars
    BY <2>7 DEF vars, store
  <2>8. QED
    BY <1>1, <2>3, <2>4, <2>5, <2>6, <2>7 DEF Next
<1>2. QED
  BY <1>1, Invariant, PTL DEF Spec, EditsAreKept

=============================================================================
