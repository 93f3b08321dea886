---------------------------- MODULE MCKeyForest ----------------------------
(* A document with two branches, checked with stemming in reach.           *)
EXTENDS KeyForest

\*   1 -- 2 -- 4 -- 6
\*    \     \- 5
\*     \-- 3
MCHistory ==
    [r \in Revs |-> CASE r = 1 -> <<1>>
                      [] r = 2 -> <<2, 1>>
                      [] r = 3 -> <<3, 1>>
                      [] r = 4 -> <<4, 2, 1>>
                      [] r = 5 -> <<5, 2, 1>>
                      [] r = 6 -> <<6, 4, 2, 1>>]

RevForest == INSTANCE RevForest WITH tree <- TreeOf(forest)

\* The same trees under a limit no path reaches, and what is read of them.
Unstemmed == INSTANCE RevReads WITH RevsLimit <- 3

Tree == TreeOf(forest)

\* Every revision occurs at one place of the forest, so that a rev named by a
\* client (rev_path, set_leaf_seq, remove_leafs) is one node.
EachRevisionOnce ==
    \A m, n \in NodesOf(forest) : m.key = n.key => m = n

\* The nested-node algorithms implement the flat ones, result flag included.
ImplementsRevForest == RevForest!Spec

\* A linked node's parent is present and every leaf stores a body: after any
\* merge, stem and purge there is a body to serve for each leaf.
LeavesStored == Unstemmed!WellFormed(Tree)

\* The forest stands for a revision tree, and one that can be served.
ForestIsSound == EachRevisionOnce /\ LeavesStored

\* Two replicas that receive the same two updates in either order hold the same
\* forest, and an update received again changes nothing and says so (path_to_tree,
\* merge_path, stem), as long as nothing more is stemmed.
MergesConverge == Unstemmed!MergesConverge(Tree)

\* What another replica may hold: nothing, or one update of its own.
Targets ==
    {Unstemmed!EmptyTree}
      \union {Unstemmed!Merge(Unstemmed!EmptyTree, p[1], p[2]) : p \in Unstemmed!Updates}

\* One replication brings every leaf, whatever the target holds: asked again,
\* it misses none, and each is stored or superseded (api_bulk.rs revs_diff and
\* bulk_get, fetch.rs bulk_get).
PullLeavesNothingMissing ==
    LET leaves == Unstemmed!Leaves(Tree)
    IN  \A u \in Targets :
            LET v == Unstemmed!Pulled(Tree, u)
            IN  Unstemmed!MissingRevs(v, leaves) = {} /\ Unstemmed!WellFormed(v)

\* Replicas that grew apart from one tree by an edit each hold the same leaves,
\* and so the same winner, after replicating both ways: no conflict is lost on
\* the way and none made, as long as the paths are whole.
SyncsAgree ==
    LET replicas == {Tree} \union {Unstemmed!Merge(Tree, p[1], p[2]) : p \in Unstemmed!Updates}
    IN  \A t, u \in {r \in replicas : Unstemmed!Whole(r)} :
            Unstemmed!Leaves(Unstemmed!Pulled(t, u)) = Unstemmed!Leaves(Unstemmed!Pulled(u, t))

\* An attachment that atts_since leaves out of an answer is one the client has.
LeftOutAttachmentsAreHeld ==
    \A u \in Targets : \A l \in Unstemmed!MissingRevs(u, Unstemmed!Leaves(Tree)) :
        Unstemmed!LeftOutIsHeld(Tree, u, l)

\* In whatever order updates come and however often, and one way or both ways, a
\* replication loses no leaf and no attachment and makes no conflict (revtree.rs:114,
\* api_bulk.rs:134, api_bulk.rs:211, api_docs.rs:196).
ReplicasConverge ==
    MergesConverge /\ PullLeavesNothingMissing /\ SyncsAgree /\ LeftOutAttachmentsAreHeld

\* A revision read off the changes feed and edited before it is fetched is
\* still served, as a leaf it led to (fetch.rs:220 takes the first of those that
\* latest=true gives).
StaleRowsAreServed ==
    [][\A r \in Unstemmed!Leaves(Tree) : r \in DOMAIN Tree' => Unstemmed!Served(Tree', r)
      ]_<<forest, changed, seq>>
=============================================================================
