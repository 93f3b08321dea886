----------------------------- MODULE RevForest -----------------------------
(***************************************************************************)
(* One document's revision tree under the operations the writer performs   *)
(* on it, over the flat trees of RevTree: what KeyForest implements.       *)
(***************************************************************************)
EXTENDS RevTree

CONSTANT MaxSeq   \* bound on the update seqs handed out

VARIABLES
    tree,     \* the document's tree
    changed,  \* the result of the last merge
    seq       \* the update seq numbers are drawn from

vars == <<tree, changed, seq>>

Init ==
    /\ tree = EmptyTree
    /\ changed = FALSE
    /\ seq = 0

\* One update of a batch: merge the path of n names ending in r, then stem.
Update(r, n) ==
    /\ tree' = Merge(tree, r, n)
    /\ changed' = MergeChanges(tree, r, n)
    /\ UNCHANGED seq

\* The batch is numbered.
Number ==
    /\ seq < MaxSeq
    /\ seq' = seq + 1
    /\ tree' = AssignPending(tree, seq + 1)
    /\ changed' = FALSE

\* Purge removes leaves and renumbers the surviving winner.
Purge(revs) ==
    LET kept == RemoveLeaves(tree, revs)
    IN  /\ seq < MaxSeq
        /\ \A r \in DOMAIN tree : tree[r].seq # Pending
        /\ Leaves(tree) \intersect revs # {}
        /\ seq' = seq + 1
        /\ tree' = IF DOMAIN kept = {} THEN kept
                   ELSE SetLeafSeq(kept, Winner(kept), seq + 1)
        /\ changed' = FALSE

Next ==
    \/ \E r \in Revs : \E n \in 1..Pos(r) : Update(r, n)
    \/ Number
    \/ \E p, q \in Revs : Purge({p, q})

Spec == Init /\ [][Next]_vars
=============================================================================
