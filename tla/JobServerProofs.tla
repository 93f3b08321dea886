-------------------------- MODULE JobServerProofs --------------------------
(***************************************************************************)
(* One runner per name, for any number of names, jobs and failures.        *)
(***************************************************************************)
EXTENDS JobServer, SequenceTheorems, TLAPS

USE DEF Ids

\* A runner's step replaces the entry of its own job, which goes on or ends.
LEMMA StepKeepsIInv ==
    ASSUME IInv, NEW j \in Ids, Live(entries[j]),
           NEW e \in JobEntry, e.name = entries[j].name,
           e.at = "ended" <=> Terminal(e),
           Step(j, e), failures' \in 0..MaxFailures
    PROVE  IInv'
<1>1. /\ entries' \in Seq(JobEntry)
      /\ Len(entries') = Len(entries)
      /\ \A k \in 1..Len(entries) : entries'[k] = IF k = j THEN e ELSE entries[k]
  BY ExceptSeq DEF IInv, TypeOK, Step
<1>2. TypeOK'
  BY <1>1 DEF IInv, TypeOK, Step
<1>3. ASSUME NEW k \in Ids', Live(entries'[k])
      PROVE  jobs'[entries'[k].name] = k
  BY <1>1, <1>3 DEF IInv, Step
<1>4. ASSUME NEW k \in Ids'
      PROVE  entries'[k].at = "ended" <=> Terminal(entries'[k])
  BY <1>1 DEF IInv
<1>5. QED
  BY <1>2, <1>3, <1>4 DEF IInv, Live, Terminal

\* A name is taken by a new job only when the job that has it has ended.
LEMMA AddJobKeepsIInv ==
    ASSUME IInv, NEW n \in Names, NEW continuous \in BOOLEAN, AddJob(n, continuous)
    PROVE  IInv'
<1> DEFINE new == [name |-> n, continuous |-> continuous, cancelled |-> FALSE,
                   asked |-> FALSE, state |-> "running", at |-> "top"]
           last == Len(entries) + 1
<1>1. new \in JobEntry
  BY DEF JobEntry
<1>2. /\ entries' \in Seq(JobEntry)
      /\ Len(entries') = last
      /\ entries'[last] = new
      /\ \A k \in 1..Len(entries) : entries'[k] = entries[k]
  BY <1>1, AppendProperties DEF IInv, TypeOK, AddJob
<1>3. jobs' = [jobs EXCEPT ![n] = last] /\ jobs \in [Names -> 0..Len(entries)]
  BY DEF IInv, TypeOK, AddJob
<1>4. TypeOK'
  BY <1>2, <1>3 DEF IInv, TypeOK, AddJob
<1>5. ASSUME NEW k \in Ids', Live(entries'[k])
      PROVE  jobs'[entries'[k].name] = k
  <2>1. CASE k = last
    BY <2>1, <1>2, <1>3
  <2>2. CASE k \in 1..Len(entries)
    <3>1. entries'[k] = entries[k] /\ Live(entries[k])
      BY <2>2, <1>2, <1>5
    <3>2. entries[k] \in JobEntry
      BY <2>2 DEF IInv, TypeOK
    <3>3. jobs[entries[k].name] = k /\ entries[k].name \in Names
      BY <2>2, <3>1, <3>2 DEF IInv, JobEntry
    <3>4. entries[k].name # n
      BY <2>2, <3>1, <3>3 DEF IInv, AddJob, Live
    <3>5. QED
      BY <3>1, <3>3, <3>4, <1>3
  <2>3. QED
    BY <2>1, <2>2, <1>2 DEF IInv, TypeOK
<1>6. ASSUME NEW k \in Ids'
      PROVE  entries'[k].at = "ended" <=> Terminal(entries'[k])
  <2>1. CASE k = last
    BY <2>1, <1>2 DEF Terminal
  <2>2. CASE k \in 1..Len(entries)
    BY <2>2, <1>2 DEF IInv
  <2>3. QED
    BY <2>1, <2>2, <1>2 DEF IInv, TypeOK
<1>7. QED
  BY <1>4, <1>5, <1>6 DEF IInv, Live, Terminal

\* Cancelling sets flags that neither the table nor the runner's place depends on.
LEMMA CancelledIsTyped ==
    ASSUME NEW e \in JobEntry
    PROVE  /\ Cancelled(e) \in JobEntry
           /\ Cancelled(e).name = e.name /\ Cancelled(e).at = e.at
           /\ Cancelled(e).state = e.state
  BY DEF Cancelled, JobEntry

\* A step that leaves the table alone and changes no entry's name, and its place
\* only to a killed one.
LEMMA EntriesKeepIInv ==
    ASSUME IInv, TypeOK', UNCHANGED jobs, Len(entries') = Len(entries),
           \A k \in Ids : /\ entries'[k].name = entries[k].name
                          /\ entries'[k].state = entries[k].state
                          /\ \/ entries'[k].at = entries[k].at
                             \/ Live(entries[k]) /\ entries'[k].at = "killed"
    PROVE  IInv'
  BY DEF IInv, TypeOK, Live, Terminal

LEMMA DeleteJobKeepsIInv ==
    ASSUME IInv, NEW n \in Names, DeleteJob(n)
    PROVE  IInv'
<1> DEFINE j == jobs[n]
<1>1. j \in 1..Len(entries) /\ entries[j] \in JobEntry
  BY DEF IInv, TypeOK, DeleteJob
<1>2. /\ entries' \in Seq(JobEntry)
      /\ Len(entries') = Len(entries)
      /\ \A k \in 1..Len(entries) :
            entries'[k] = IF k = j THEN Cancelled(entries[j]) ELSE entries[k]
  BY <1>1, CancelledIsTyped, ExceptSeq DEF IInv, TypeOK, DeleteJob
<1>3. TypeOK'
  BY <1>2 DEF IInv, TypeOK, DeleteJob
<1>4. QED
  BY <1>1, <1>2, <1>3, CancelledIsTyped, EntriesKeepIInv DEF DeleteJob

LEMMA InterruptKeepsIInv ==
    ASSUME IInv, Interrupt
    PROVE  IInv'
<1>1. entries \in Seq(JobEntry) /\ \A k \in 1..Len(entries) : entries[k] \in JobEntry
  BY DEF IInv, TypeOK
<1>2. /\ entries' \in Seq(JobEntry)
      /\ Len(entries') = Len(entries)
      /\ \A k \in 1..Len(entries) :
            entries'[k] = IF k \in InTable THEN Cancelled(entries[k]) ELSE entries[k]
  BY <1>1, CancelledIsTyped DEF Interrupt
<1>3. TypeOK'
  BY <1>2 DEF IInv, TypeOK, Interrupt
<1>4. QED
  BY <1>1, <1>2, <1>3, CancelledIsTyped, EntriesKeepIInv DEF Interrupt

LEMMA KillKeepsIInv ==
    ASSUME IInv, Kill
    PROVE  IInv'
<1>1. entries \in Seq(JobEntry) /\ \A k \in 1..Len(entries) : entries[k] \in JobEntry
  BY DEF IInv, TypeOK
<1>2. ASSUME NEW k \in 1..Len(entries)
      PROVE  [entries[k] EXCEPT !.at = "killed"] \in JobEntry
  BY <1>1 DEF JobEntry
<1>3. /\ entries' \in Seq(JobEntry)
      /\ Len(entries') = Len(entries)
      /\ \A k \in 1..Len(entries) :
            entries'[k] = IF Live(entries[k]) THEN [entries[k] EXCEPT !.at = "killed"]
                          ELSE entries[k]
  BY <1>1, <1>2 DEF Kill
<1>4. TypeOK'
  BY <1>3 DEF IInv, TypeOK, Kill
<1>5. ASSUME NEW k \in Ids
      PROVE  /\ entries'[k].name = entries[k].name
             /\ entries'[k].state = entries[k].state
             /\ \/ entries'[k].at = entries[k].at
                \/ Live(entries[k]) /\ entries'[k].at = "killed"
  BY <1>1, <1>3 DEF JobEntry
<1>6. QED
  BY <1>3, <1>4, <1>5, EntriesKeepIInv DEF Kill

\* The steps of a runner, each by what it makes of its entry.
LEMMA RunnerKeepsIInv ==
    ASSUME IInv, NEW j \in Ids,
           Runner(j) \/ SessionFailsEarly(j) \/ StageFails(j)
    PROVE  IInv'
<1> USE JobServerAssumption
<1>1. entries[j] \in JobEntry /\ failures \in 0..MaxFailures
  BY DEF IInv, TypeOK
<1>2. CASE StartSession(j)
  <2> DEFINE e == IF entries[j].cancelled THEN End(entries[j], "cancelled")
                  ELSE [entries[j] EXCEPT !.state = "running", !.at = "session"]
  <2>1. Live(entries[j]) /\ e \in JobEntry /\ e.name = entries[j].name
    BY <1>1, <1>2 DEF StartSession, Live, JobEntry, End
  <2>2. e.at = "ended" <=> Terminal(e)
    BY <1>1, <1>2 DEF JobEntry, End, Terminal
  <2>3. QED
    BY <1>1, <1>2, <2>1, <2>2, StepKeepsIInv DEF StartSession
<1>3. CASE SessionEnds(j)
  <2> DEFINE e == End(entries[j], IF entries[j].cancelled THEN "cancelled" ELSE "completed")
  <2>1. Live(entries[j]) /\ e \in JobEntry /\ e.name = entries[j].name
    BY <1>1, <1>3 DEF SessionEnds, Live, JobEntry, End
  <2>2. e.at = "ended" <=> Terminal(e)
    BY <1>1, <1>3 DEF JobEntry, End, Terminal
  <2>3. QED
    BY <1>1, <1>3, <2>1, <2>2, StepKeepsIInv DEF SessionEnds
<1>4. CASE Wake(j)
  <2> DEFINE e == IF entries[j].cancelled THEN End(entries[j], "cancelled")
                  ELSE [entries[j] EXCEPT !.at = "top"]
  <2>1. Live(entries[j]) /\ e \in JobEntry /\ e.name = entries[j].name
    BY <1>1, <1>4 DEF Wake, Live, JobEntry, End
  <2>2. ~Terminal(entries[j])
    BY <1>4 DEF Wake, IInv
  <2>3. e.at = "ended" <=> Terminal(e)
    BY <1>1, <2>2 DEF JobEntry, End, Terminal
  <2>4. QED
    BY <1>1, <1>4, <2>1, <2>3, StepKeepsIInv DEF Wake
<1>5. CASE SessionFailsEarly(j)
  <2> DEFINE e == IF entries[j].cancelled THEN End(entries[j], "cancelled")
                  ELSE [entries[j] EXCEPT !.state = "retrying", !.at = "asleep"]
  <2>1. Live(entries[j]) /\ e \in JobEntry /\ e.name = entries[j].name
    BY <1>1, <1>5 DEF SessionFailsEarly, Live, JobEntry, End
  <2>2. e.at = "ended" <=> Terminal(e)
    BY <1>1, <1>5 DEF JobEntry, End, Terminal
  <2>3. failures' \in 0..MaxFailures
    BY <1>1, <1>5 DEF SessionFailsEarly
  <2>4. QED
    BY <1>5, <2>1, <2>2, <2>3, StepKeepsIInv DEF SessionFailsEarly
<1>6. CASE StageFails(j)
  <2> DEFINE e == End([entries[j] EXCEPT !.cancelled = TRUE], "cancelled")
  <2>1. Live(entries[j]) /\ e \in JobEntry /\ e.name = entries[j].name
    BY <1>1, <1>6 DEF StageFails, Live, JobEntry, End
  <2>2. e.at = "ended" <=> Terminal(e)
    BY <1>1, <1>6 DEF JobEntry, End, Terminal
  <2>3. failures' \in 0..MaxFailures
    BY <1>1, <1>6 DEF StageFails
  <2>4. QED
    BY <1>6, <2>1, <2>2, <2>3, StepKeepsIInv DEF StageFails
<1>7. QED
  BY <1>2, <1>3, <1>4, <1>5, <1>6 DEF Runner

LEMMA InitIsIInv == Init => IInv
  BY JobServerAssumption DEF Init, IInv, TypeOK

LEMMA NextKeepsIInv == IInv /\ [Next]_vars => IInv'
<1> SUFFICES ASSUME IInv, [Next]_vars PROVE IInv'
  OBVIOUS
<1>1. CASE \E n \in Names : DeleteJob(n) \/ \E continuous \in BOOLEAN : AddJob(n, continuous)
  BY <1>1, DeleteJobKeepsIInv, AddJobKeepsIInv
<1>2. CASE \E j \in Ids : Runner(j) \/ SessionFailsEarly(j) \/ StageFails(j)
  BY <1>2, RunnerKeepsIInv
<1>3. CASE Interrupt
  BY <1>3, InterruptKeepsIInv
<1>4. CASE Kill
  BY <1>4, KillKeepsIInv
<1>5. CASE ServeEnds \/ Stop
  BY <1>5 DEF ServeEnds, Stop, IInv, TypeOK, Live, Terminal
<1>6. CASE UNCHANGED vars
  BY <1>6 DEF vars, IInv, TypeOK, Live, Terminal
<1>7. QED
  BY <1>1, <1>2, <1>3, <1>4, <1>5, <1>6 DEF Next

\* Every entry that runs is the one in the table, and an entry says that it has
\* ended exactly when its runner has.
THEOREM Invariant == Spec => []IInv
<1>1. QED
  BY InitIsIInv, NextKeepsIInv, PTL DEF Spec

\* "already running" (server.rs add_job): however jobs are added, cancelled,
\* restarted and fail, two runners never replicate under one name.
THEOREM OneRunner == Spec => []OneRunnerPerName
<1>1. IInv => OneRunnerPerName
  BY DEF IInv, OneRunnerPerName
<1>2. QED
  BY <1>1, Invariant, PTL
=============================================================================
