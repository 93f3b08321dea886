------------------------------ MODULE Replicas ------------------------------
(***************************************************************************)
(* One document at several sites: every site takes edits of its own        *)
(* (couch-store writer.rs), and replications copy it along Links           *)
(* (couch-repl).  A replication is what its stages do to this document: it *)
(* reads the document's row off the source's feed, asks the target which   *)
(* of the leaves it misses, fetches those and writes them.  All of that    *)
(* interleaves with edits, purges and other replications at either end.    *)
(*                                                                         *)
(* Feeds, seqs and checkpoints are those of module Replication: a row is   *)
(* read once each time the document moves on the feed, and read again when *)
(* the session that read it did not get to the end of it.                  *)
(***************************************************************************)
EXTENDS RevReads

CONSTANTS
    Sites,
    Links,       \* the replications: <<source, target>>
    MaxPurges,   \* bound on the purges
    MaxLosses    \* bound on the sessions lost and the answers lost

ASSUME ReplicasAssumption ==
    Links \subseteq Sites \X Sites /\ MaxPurges \in Nat /\ MaxLosses \in Nat

VARIABLES
    copy,      \* the document's revision tree at each site
    moved,      \* the links whose source has moved: its new row was not read yet
    wanted,    \* <<link, revision>> that the target was found to miss
    carried,   \* the documents fetched: [link, rev, n]
    edited,    \* the edits made at any site
    purges, losses   \* what is left of the bounds

flight == <<moved, wanted, carried>>
bounds == <<purges, losses>>
replicaVars == <<copy, flight, edited, bounds>>

-----------------------------------------------------------------------------
(* A site                                                                   *)

\* Which seq a body was stored under is nothing to a replica.
SomeSeq == 1

From(s) == {l \in Links : l[1] = s}

\* update_docs: a merge that changes nothing is not stored, and the document moves on
\* the feed when one of its leaves gets a seq.
UpdateDoc(s, r, n) ==
    LET u == Merge(copy[s], r, n)
    IN  IF MergeChanges(copy[s], r, n)
        THEN /\ copy' = [copy EXCEPT ![s] = AssignPending(u, SomeSeq)]
             /\ moved' = IF \E l \in Leaves(u) : u[l].seq = Pending
                         THEN moved \union From(s) ELSE moved
        ELSE UNCHANGED <<copy, moved>>

\* save_doc: a new document starts a history, any other edit extends the path of
\* a leaf - the one named by _rev, or without one the winner if it is deleted.
EditDoc(s, r) ==
    LET t == copy[s]
    IN  /\ IF DOMAIN t = {}
           THEN Pos(r) = 1 /\ UpdateDoc(s, r, 1)
           ELSE /\ Pos(r) > 1 /\ History[r][2] \in Leaves(t)
                /\ UpdateDoc(s, r, PathLen(t, History[r][2]) + 1)
        /\ edited' = edited \union {r}
        /\ UNCHANGED <<wanted, carried, bounds>>

\* purge_docs: the winner of what is left gets a seq of its own, if anything is.
PurgeLeaves(s, revs) ==
    LET kept == RemoveLeaves(copy[s], revs)
    IN  /\ purges > 0 /\ purges' = purges - 1
        /\ revs # {} /\ revs \subseteq Leaves(copy[s])
        /\ copy' = [copy EXCEPT ![s] = kept]
        /\ moved' = IF DOMAIN kept # {} THEN moved \union From(s) ELSE moved
        /\ UNCHANGED <<wanted, carried, edited, losses>>

-----------------------------------------------------------------------------
(* A replication                                                            *)

\* The document's row, with all its leaves (style=all_docs), is read and compared
\* with what the target has by now: check_batch.
AskTarget(l) ==
    /\ l \in moved
    /\ moved' = moved \ {l}
    /\ UNCHANGED <<copy, carried, edited, bounds>>
    /\ wanted' = wanted \union ({l} \X MissingRevs(copy[l[2]], Leaves(copy[l[1]])))

\* Mutant of FetchRev: the revision is brought without its history.
FetchRevAlone(x) ==
    /\ wanted' = wanted \ {x}
    /\ UNCHANGED <<copy, moved, edited, bounds>>
    /\ carried' = carried \union
         {[link |-> x[1], rev |-> d.rev, n |-> 1] : d \in Fetch(copy[x[1][1]], x[2])}

\* The source answers with what it has by now: the revision, a leaf it led to, or
\* nothing, when it was purged.
FetchRev(x) ==
    /\ wanted' = wanted \ {x}
    /\ UNCHANGED <<copy, moved, edited, bounds>>
    /\ carried' = carried \union
         {[link |-> x[1], rev |-> d.rev, n |-> d.n] : d \in Fetch(copy[x[1][1]], x[2])}

\* _bulk_docs with new_edits=false, into what the target has by now.
WriteBy(d) == UpdateDoc(d.link[2], d.rev, d.n)

WriteDoc(d) ==
    /\ carried' = carried \ {d}
    /\ UNCHANGED <<wanted, edited, bounds>>
    /\ WriteBy(d)

\* The answer is lost, and the document will be written again.
WriteUnanswered(d) ==
    /\ losses > 0 /\ losses' = losses - 1
    /\ WriteBy(d)
    /\ UNCHANGED <<wanted, carried, edited, purges>>

\* Mutant of LoseSession: the next session resumes after the row.
LoseSessionForGood(l) ==
    /\ losses > 0 /\ losses' = losses - 1
    /\ wanted' = {x \in wanted : x[1] # l}
    /\ carried' = {d \in carried : d.link # l}
    /\ UNCHANGED <<copy, moved, edited, purges>>

\* A session is killed or fails; the next one resumes at or before the row.
LoseSession(l) ==
    /\ losses > 0 /\ losses' = losses - 1
    /\ moved' = moved \union {l}
    /\ wanted' = {x \in wanted : x[1] # l}
    /\ carried' = {d \in carried : d.link # l}
    /\ UNCHANGED <<copy, edited, purges>>

-----------------------------------------------------------------------------
(* The specification                                                        *)

ReplicasInit ==
    /\ copy = [s \in Sites |-> EmptyTree]
    /\ moved = {} /\ wanted = {} /\ carried = {}
    /\ edited = {}
    /\ purges = MaxPurges /\ losses = MaxLosses

Replicating ==
    \/ \E l \in Links : AskTarget(l)
    \/ \E x \in wanted : FetchRev(x)
    \/ \E d \in carried : WriteDoc(d)

ReplicasNext ==
    \/ Replicating
    \/ \E s \in Sites, r \in Revs : EditDoc(s, r)
    \/ \E s \in Sites, revs \in SUBSET Revs : PurgeLeaves(s, revs)
    \/ \E d \in carried : WriteUnanswered(d)
    \/ \E l \in Links : LoseSession(l)

\* Replications are continuous or run again and again: what can go on goes on.
\* Each step brings the rows there are nearer to their end, and edits are bounded.
ReplicasSpec == ReplicasInit /\ [][ReplicasNext]_replicaVars /\ WF_replicaVars(Replicating)

-----------------------------------------------------------------------------
(* Properties                                                               *)

\* Between two requests every tree is well formed, and whatever arrives late, be it an
\* inner revision's body, was numbered: PENDING_SEQ never outlives its batch.
ReplicasTypeOK ==
    /\ copy = [s \in Sites |-> copy[s]]
    /\ \A s \in Sites :
          /\ IsTree(copy[s]) /\ WellFormed(copy[s])
          /\ \A r \in DOMAIN copy[s] : copy[s][r].seq # Pending
    /\ moved \subseteq Links /\ wanted \subseteq Links \X Revs
    /\ \A d \in carried :
          /\ d = [link |-> d.link, rev |-> d.rev, n |-> d.n]
          /\ d.link \in Links /\ d.rev \in Revs /\ d.n \in 1..Pos(d.rev)
    /\ edited \subseteq Revs /\ purges \in 0..MaxPurges /\ losses \in 0..MaxLosses

MissesNothing(t, u) == MissingRevs(t, Leaves(u)) = {}

\* Sites whose replicators find nothing to bring either way show the same document:
\* the same leaves, so the same conflicts, and the same winner.
ReplicasAgree ==
    \A s, o \in Sites :
        MissesNothing(copy[s], copy[o]) /\ MissesNothing(copy[o], copy[s]) =>
            /\ Leaves(copy[s]) = Leaves(copy[o])
            /\ DOMAIN copy[s] # {} => Winner(copy[s]) = Winner(copy[o])

\* Whatever arrives, and whatever is lost on the way: well-formed trees that agree.
ReplicasAreSound == ReplicasTypeOK /\ ReplicasAgree

ShownBy(s) == [leaves |-> Leaves(copy[s]),
               winner |-> IF DOMAIN copy[s] = {} THEN {} ELSE {Winner(copy[s])}]

EditSets == INSTANCE EditSets WITH
    made   <- edited,
    known  <- [s \in Sites |-> DOMAIN copy[s]],
    leaves <- [s \in Sites |-> ShownBy(s).leaves],
    winner <- [s \in Sites |-> ShownBy(s).winner]

\* Trees, merges, diffs, fetches of latest leaves and repeated writes come to no more
\* than sets of edits that spread: nothing is lost or made up on the way, and what a
\* site shows follows from what it knows.
ImplementsEditSets == EditSets!Spec

\* Once editing stops, all sites come to show the same document, whatever was lost on
\* the way and in whatever order it arrived - if every site reaches every other along
\* Links, and nothing was purged, which no feed tells another site.
ReplicasSettle ==
    LET shown == [s \in Sites |-> ShownBy(s)]
    IN  <>[](purges = MaxPurges => \A s, o \in Sites : shown[s] = shown[o])
=============================================================================
