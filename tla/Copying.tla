------------------------------ MODULE Copying ------------------------------
(***************************************************************************)
(* What a replication promises of its endpoints, however it goes about it: *)
(* revisions of the source appear on the target with their histories, some *)
(* are given up on, and two claims are made about how far this has got -   *)
(* the seq that a session would resume from, and the updates that the last *)
(* session says it has brought.                                            *)
(***************************************************************************)
EXTENDS Naturals, Sequences

CONSTANTS Updates, InitialSource, Hidden   \* as in Replication

VARIABLES
    source,    \* how many of the updates the source has
    target,    \* the revisions the target holds
    skipped,   \* the revisions given up on, and those they would have brought
    resume,    \* the seq a session would start from
    done       \* how many updates the last session claims to have brought

vars == <<source, target, skipped, resume, done>>

Accounted == target \union skipped

\* The first n updates that the filter lets through.
Visible(n) == {i \in 1..n : Updates[i].doc \notin Hidden}

\* Those of documents that the feed lists at seq s or before it.
ListedBy(s) ==
    {i \in Visible(source) :
        \A j \in 1..source : Updates[j].doc = Updates[i].doc => j <= s}

\* A revision comes with its history.
WithHistory(revs) == \A i \in revs : Updates[i].parent \in revs \union {0}

Update ==
    /\ source < Len(Updates)
    /\ source' = source + 1
    /\ UNCHANGED <<target, skipped, resume, done>>

\* What is there stays there.
Copy ==
    /\ target \subseteq target' /\ skipped \subseteq skipped'
    /\ target' \union skipped' \subseteq 1..source
    /\ WithHistory(target') /\ WithHistory(skipped')
    /\ UNCHANGED <<source, resume, done>>

\* The seq may be an older one: then work is repeated.
Record ==
    /\ resume' \in {s \in 0..source : ListedBy(s) \subseteq Accounted}
    /\ UNCHANGED <<source, target, skipped, done>>

Claim ==
    /\ done' \in {n \in 1..source : Visible(n) \subseteq Accounted}
    /\ UNCHANGED <<source, target, skipped, resume>>

Forget ==
    /\ done' = 0
    /\ UNCHANGED <<source, target, skipped, resume>>

Init ==
    /\ source = InitialSource
    /\ target = {} /\ skipped = {}
    /\ resume = 0 /\ done = 0

Next == Update \/ Copy \/ Record \/ Claim \/ Forget

Spec == Init /\ [][Next]_vars
=============================================================================
