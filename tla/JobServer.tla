----------------------------- MODULE JobServer -----------------------------
(***************************************************************************)
(* couch-repl serve (couch-repl server.rs): a table of named replication   *)
(* jobs, one supervised runner per job, and a shutdown that lets them end. *)
(*                                                                         *)
(* A session (pipeline::replicate) is one step here; module Replication    *)
(* has its inside.  What matters of it is how it returns, and that a stage *)
(* which fails cancels the token the job was given.                        *)
(***************************************************************************)
EXTENDS Naturals, Sequences

CONSTANTS
    Names,
    MaxJobs,      \* bound on the jobs ever added
    MaxFailures   \* bound on the sessions that fail

ASSUME JobServerAssumption == MaxJobs \in Nat \ {0} /\ MaxFailures \in Nat

VARIABLES
    jobs,     \* the table: the entry of each name, 0 for none
    entries,  \* every job ever added
    server,   \* of run: "up", "stopping", "draining", "stopped"
    failures

vars == <<jobs, entries, server, failures>>

Ids == 1..Len(entries)

\* asked is a history variable: someone cancelled the job.
JobEntry ==
    [name : Names, continuous : BOOLEAN, cancelled : BOOLEAN, asked : BOOLEAN,
     state : {"running", "retrying", "completed", "cancelled"},
     at : {"top", "session", "asleep", "ended", "killed"}]

Terminal(e) == e.state \in {"completed", "cancelled"}

InTable == {jobs[n] : n \in Names} \ {0}

Live(e) == e.at \notin {"ended", "killed"}

-----------------------------------------------------------------------------
(* Requests                                                                 *)

\* Mutant of AddJob: a name is free once its job was cancelled.
AddJobWhenCancelled(n, continuous) ==
    /\ server \in {"up", "stopping"} /\ Len(entries) < MaxJobs
    /\ jobs[n] # 0 => entries[jobs[n]].cancelled \/ Terminal(entries[jobs[n]])
    /\ entries' = Append(entries,
         [name |-> n, continuous |-> continuous, cancelled |-> FALSE, asked |-> FALSE,
          state |-> "running", at |-> "top"])
    /\ jobs' = [jobs EXCEPT ![n] = Len(entries) + 1]
    /\ UNCHANGED <<server, failures>>

\* add_job; a request may still be under way when the server stops accepting.
AddJob(n, continuous) ==
    /\ server \in {"up", "stopping"} /\ Len(entries) < MaxJobs
    /\ jobs[n] # 0 => Terminal(entries[jobs[n]])
    /\ entries' = Append(entries,
         [name |-> n, continuous |-> continuous, cancelled |-> FALSE, asked |-> FALSE,
          state |-> "running", at |-> "top"])
    /\ jobs' = [jobs EXCEPT ![n] = Len(entries) + 1]
    /\ UNCHANGED <<server, failures>>

Cancelled(e) == [e EXCEPT !.cancelled = TRUE, !.asked = TRUE]

DeleteJob(n) ==
    /\ server \in {"up", "stopping"} /\ jobs[n] # 0
    /\ entries' = [entries EXCEPT ![jobs[n]] = Cancelled(@)]
    /\ UNCHANGED <<jobs, server, failures>>

-----------------------------------------------------------------------------
(* run_job                                                                  *)

Step(j, e) == entries' = [entries EXCEPT ![j] = e] /\ UNCHANGED <<jobs, server>>

End(e, state) == [e EXCEPT !.state = state, !.at = "ended"]

StartSession(j) ==
    /\ entries[j].at = "top"
    /\ Step(j, IF entries[j].cancelled THEN End(entries[j], "cancelled")
               ELSE [entries[j] EXCEPT !.state = "running", !.at = "session"])
    /\ UNCHANGED failures

\* Mutant of SessionEnds: the session does not look at the token.
SessionEndsAlone(j) ==
    /\ entries[j].at = "session"
    /\ ~entries[j].continuous
    /\ Step(j, End(entries[j], IF entries[j].cancelled THEN "cancelled" ELSE "completed"))
    /\ UNCHANGED failures

\* The session returns Ok: when it is cancelled, or has read a whole feed.
SessionEnds(j) ==
    /\ entries[j].at = "session"
    /\ entries[j].cancelled \/ ~entries[j].continuous
    /\ Step(j, End(entries[j], IF entries[j].cancelled THEN "cancelled" ELSE "completed"))
    /\ UNCHANGED failures

\* It fails before it has started its stages: the endpoints, their databases or
\* the checkpoint documents cannot be read.
SessionFailsEarly(j) ==
    /\ entries[j].at = "session" /\ failures < MaxFailures
    /\ failures' = failures + 1
    /\ Step(j, IF entries[j].cancelled THEN End(entries[j], "cancelled")
               ELSE [entries[j] EXCEPT !.state = "retrying", !.at = "asleep"])

\* A stage fails: replicate cancels the token before it returns the error, and
\* run_job finds its job cancelled.
StageFails(j) ==
    /\ entries[j].at = "session" /\ failures < MaxFailures
    /\ failures' = failures + 1
    /\ Step(j, End([entries[j] EXCEPT !.cancelled = TRUE], "cancelled"))

\* The delay is over, or the job is cancelled meanwhile.
Wake(j) ==
    /\ entries[j].at = "asleep"
    /\ Step(j, IF entries[j].cancelled THEN End(entries[j], "cancelled")
               ELSE [entries[j] EXCEPT !.at = "top"])
    /\ UNCHANGED failures

-----------------------------------------------------------------------------
(* run: the end of the server                                               *)

\* ctrl-c: cancel_all, and no new connections.
Interrupt ==
    /\ server = "up"
    /\ server' = "stopping"
    /\ entries' = [j \in Ids |-> IF j \in InTable THEN Cancelled(entries[j]) ELSE entries[j]]
    /\ UNCHANGED <<jobs, failures>>

\* The requests under way are answered, and the handles of the table drained.
ServeEnds ==
    /\ server = "stopping"
    /\ server' = "draining"
    /\ UNCHANGED <<jobs, entries, failures>>

Stop ==
    /\ server = "draining"
    /\ \A j \in InTable : ~Live(entries[j])
    /\ server' = "stopped"
    /\ UNCHANGED <<jobs, entries, failures>>

\* A handle is waited for 30 seconds at most, and a second ctrl-c exits at once.
Kill ==
    /\ server \in {"stopping", "draining"}
    /\ \E j \in Ids : Live(entries[j])
    /\ server' = "stopped"
    /\ entries' = [j \in Ids |->
         IF Live(entries[j]) THEN [entries[j] EXCEPT !.at = "killed"] ELSE entries[j]]
    /\ UNCHANGED <<jobs, failures>>

Init ==
    /\ jobs = [n \in Names |-> 0] /\ entries = <<>> /\ server = "up" /\ failures = 0

Runner(j) == StartSession(j) \/ SessionEnds(j) \/ Wake(j)

Next ==
    \/ \E n \in Names : DeleteJob(n) \/ \E continuous \in BOOLEAN : AddJob(n, continuous)
    \/ \E j \in Ids : Runner(j) \/ SessionFailsEarly(j) \/ StageFails(j)
    \/ Interrupt \/ ServeEnds \/ Stop \/ Kill

\* A runner is a task; a cancelled session ends (SessionsEnd of Replication), and
\* so does a one-shot one; a delay passes.
Fairness == \A j \in 1..MaxJobs : WF_vars(j \in Ids /\ Runner(j)) /\ WF_vars(ServeEnds \/ Stop)

Spec == Init /\ [][Next]_vars /\ Fairness

-----------------------------------------------------------------------------
(* Properties                                                               *)

TypeOK ==
    /\ jobs \in [Names -> 0..Len(entries)]
    /\ entries \in Seq(JobEntry)
    /\ server \in {"up", "stopping", "draining", "stopped"}
    /\ failures \in 0..MaxFailures

\* "already running": at no moment do two runners replicate under one name, so
\* every job that still runs can be reached, and cancelled, through the table.
OneRunnerPerName ==
    \A i, j \in Ids :
        i # j /\ entries[i].name = entries[j].name => ~(Live(entries[i]) /\ Live(entries[j]))

\* The inductive invariant behind it: an entry that runs is the one in the table,
\* and one that has ended says so.
IInv ==
    /\ TypeOK
    /\ \A j \in Ids : Live(entries[j]) => jobs[entries[j].name] = j
    /\ \A j \in Ids : entries[j].at = "ended" <=> Terminal(entries[j])

\* A job that someone cancels ends, in whatever it is doing: between two sessions,
\* in one, or asleep before the next.
CancelledJobsEnd ==
    \A j \in 1..MaxJobs : (j \in Ids /\ entries[j].asked) ~> (j \in Ids /\ ~Live(entries[j]))

\* "restart with exponential backoff until the job either completes (one-shot) or
\* is canceled" (server.rs:248): a runner does not end otherwise.
FailedJobsRestart ==
    \A j \in Ids :
        entries[j].at = "ended" => entries[j].state = "completed" \/ entries[j].asked
=============================================================================
