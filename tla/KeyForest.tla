----------------------------- MODULE KeyForest -----------------------------
(***************************************************************************)
(* The nested-node revision forest of revtree.rs as the code builds it:    *)
(* sequences of trees, nodes with sorted children, recursive merging.      *)
(* Its operations are shown to implement those of RevForest, the same      *)
(* operations on the flat trees every other module uses.                   *)
(***************************************************************************)
EXTENDS Integers, Sequences, SequencesExt

CONSTANTS Revs, History, DeletedRevs, RevsLimit, Pending, MaxSeq

VARIABLES
    forest,   \* RevTree.0: a sequence of [start, root]
    changed,  \* the result of the last merge_path
    seq       \* the update seq numbers are drawn from

Pos(r) == Len(History[r])

Missing == 0

NewNode(key, val, children) == [key |-> key, val |-> val, children |-> children]

\* Mutant of ValuePref: a body that arrives again replaces the stored one.
ValueLatest(existing, incoming) == IF incoming = Missing THEN existing ELSE incoming

ValuePref(existing, incoming) == IF existing = Missing THEN incoming ELSE existing

\* path_to_tree: a linear chain of n names with the body at the leaf.
RECURSIVE Chain(_, _, _)
Chain(names, val, below) ==
    IF names = <<>> THEN below
    ELSE Chain(Tail(names), Missing, <<NewNode(Head(names), val, below)>>)

\* The first sibling whose key is not below the given one, else one past.
Slot(nodes, key) ==
    LET at == {i \in 1..Len(nodes) : nodes[i].key >= key}
    IN  IF at = {} THEN Len(nodes) + 1 ELSE CHOOSE i \in at : \A j \in at : i <= j

RECURSIVE MergeExtend(_, _)
MergeExtend(nodes, ins) ==
    IF ins = <<>> THEN nodes
    ELSE LET inode == ins[1]
             i     == Slot(nodes, inode.key)
         IN  IF i <= Len(nodes) /\ nodes[i].key = inode.key
             THEN [nodes EXCEPT ![i] =
                     NewNode(inode.key, ValuePref(@.val, inode.val),
                             MergeExtend(@.children, inode.children))]
             ELSE InsertAt(nodes, i, inode)

\* The merged siblings, or Failed when the insert path does not connect.
Failed == <<>>

RECURSIVE MergeAt(_, _, _)
MergeAt(nodes, pos, inode) ==
    IF nodes = <<>> THEN Failed
    ELSE IF pos > 0
    THEN IF Len(inode.children) # 1 THEN Failed
         ELSE LET merged == MergeAt(nodes, pos - 1, inode.children[1])
              IN  IF merged = Failed THEN Failed
                  ELSE <<NewNode(inode.key, inode.val, merged)>>
    ELSE IF pos < 0
    THEN LET hit == {i \in 1..Len(nodes) :
                        MergeAt(nodes[i].children, pos + 1, inode) # Failed}
         IN  IF hit = {} THEN Failed
             ELSE LET i == CHOOSE i \in hit : \A j \in hit : i <= j
                  IN  [nodes EXCEPT ![i].children = MergeAt(@, pos + 1, inode)]
    ELSE LET i == Slot(nodes, inode.key)
         IN  IF i > Len(nodes) \/ nodes[i].key # inode.key THEN Failed
             ELSE [nodes EXCEPT ![i] =
                     NewNode(@.key, ValuePref(@.val, inode.val),
                             MergeExtend(@.children, inode.children))]

MergeTree(tree, start, inode) ==
    MergeAt(<<tree.root>>, tree.start - start, inode)

TreeBefore(a, b) ==
    \/ a.start < b.start
    \/ a.start = b.start /\ a.root.key < b.root.key

\* Try the trees from the last to the first; a path none of them takes
\* becomes a tree of its own.
MergePath(trees, start, inode) ==
    LET hit   == {i \in 1..Len(trees) : MergeTree(trees[i], start, inode) # Failed}
        last  == CHOOSE i \in hit : \A j \in hit : j <= i
        depth == IF trees[last].start <= start THEN trees[last].start ELSE start
        acc   == IF hit = {} THEN Append(trees, [start |-> start, root |-> inode])
                 ELSE [trees EXCEPT ![last] =
                         [start |-> depth,
                          root  |-> MergeTree(@, start, inode)[1]]]
    IN  SortSeq(acc, TreeBefore)

\* full_paths: every leaf's [pos, path], path leaf first.
RECURSIVE FullPaths(_, _, _)
FullPaths(pos, node, stack) ==
    LET path == <<node>> \o stack
    IN  IF node.children = <<>> THEN <<[pos |-> pos, path |-> path]>>
        ELSE FlattenSeq([i \in 1..Len(node.children) |->
                            FullPaths(pos + 1, node.children[i], path)])

LeafPaths(trees) ==
    FlattenSeq([i \in 1..Len(trees) |-> FullPaths(trees[i].start, trees[i].root, <<>>)])

\* A leaf path as a linear chain with the values it had.
RECURSIVE PathChain(_, _)
PathChain(path, below) ==
    IF path = <<>> THEN below
    ELSE PathChain(Tail(path), <<NewNode(Head(path).key, Head(path).val, below)>>)

Rebuild(paths) ==
    FoldLeft(LAMBDA acc, p :
               MergePath(acc, p.pos + 1 - Len(p.path), PathChain(p.path, <<>>)[1]),
             <<>>, paths)

PathBefore(a, b) ==
    LET start(p) == p.pos + 1 - Len(p.path)
    IN  \/ start(a) < start(b)
        \/ start(a) = start(b) /\ Last(a.path).key < Last(b.path).key

\* Mutant of Stem: a forest with no path over the limit is not rebuilt.
StemWhenLong(trees) ==
    LET paths == LeafPaths(trees)
        cut(p) == [pos |-> p.pos, path |-> SubSeq(p.path, 1, RevsLimit)]
    IN  IF \A i \in 1..Len(paths) : Len(paths[i].path) <= RevsLimit THEN trees
        ELSE Rebuild(SortSeq([i \in 1..Len(paths) |->
                                IF Len(paths[i].path) > RevsLimit THEN cut(paths[i])
                                ELSE paths[i]], PathBefore))

Stem(trees) ==
    Rebuild(SortSeq([i \in 1..Len(LeafPaths(trees)) |->
                       LET p == LeafPaths(trees)[i]
                       IN  [pos |-> p.pos,
                            path |-> SubSeq(p.path, 1,
                                       IF Len(p.path) <= RevsLimit THEN Len(p.path)
                                       ELSE RevsLimit)]],
                    PathBefore))

\* Mutant of RemoveLeaves: the removed leaves' ancestors stay behind.
RemoveOnlyLeaves(trees, revs) ==
    LET cut(p) == IF p.path[1].key \in revs
                  THEN [pos |-> p.pos - 1, path |-> Tail(p.path)] ELSE p
    IN  Rebuild(SelectSeq([i \in 1..Len(LeafPaths(trees)) |-> cut(LeafPaths(trees)[i])],
                          LAMBDA p : p.path # <<>>))

RemoveLeaves(trees, revs) ==
    LET paths == LeafPaths(trees)
    IN  IF \A i \in 1..Len(paths) : paths[i].path[1].key \notin revs THEN trees
        ELSE Rebuild(SelectSeq(paths, LAMBDA p : p.path[1].key \notin revs))

\* Rewrite every node's value by f, a function of its key and value.
RECURSIVE MapNode(_, _)
MapNode(node, f) ==
    NewNode(node.key, f[node.key, node.val],
            [i \in 1..Len(node.children) |-> MapNode(node.children[i], f)])

MapForest(trees, f) ==
    [i \in 1..Len(trees) |-> [trees[i] EXCEPT !.root = MapNode(@, f)]]

Values == 0..MaxSeq \union {Pending}

AssignPending(trees, s) ==
    MapForest(trees, [key \in Revs, val \in Values |-> IF val = Pending THEN s ELSE val])

SetLeafSeq(trees, rev, s) ==
    MapForest(trees, [key \in Revs, val \in Values |->
                        IF key = rev /\ val # Missing THEN s ELSE val])

\* winner: the first leaf by live before deleted, then position, then revid.
Winner(trees) ==
    LET paths    == LeafPaths(trees)
        leaf(i)  == paths[i].path[1]
        dead(i)  == leaf(i).val # Missing /\ leaf(i).key \in DeletedRevs
        ahead(i, j) == IF dead(i) # dead(j) THEN dead(j)
                       ELSE \/ paths[i].pos > paths[j].pos
                            \/ paths[i].pos = paths[j].pos /\ leaf(i).key >= leaf(j).key
    IN  leaf(CHOOSE i \in 1..Len(paths) : \A j \in 1..Len(paths) : ahead(i, j)).key

-----------------------------------------------------------------------------
(* The forest's flat form                                                  *)

\* Every node with its key, value and whether it hangs below another.
RECURSIVE NodesBelow(_, _)
NodesBelow(node, linked) ==
    {[key |-> node.key, val |-> node.val, linked |-> linked]}
      \union UNION {NodesBelow(node.children[i], TRUE) : i \in 1..Len(node.children)}

NodesOf(trees) == UNION {NodesBelow(trees[i].root, FALSE) : i \in 1..Len(trees)}

TreeOf(trees) ==
    LET nodes == NodesOf(trees)
        at(r) == CHOOSE n \in nodes : n.key = r
    IN  [r \in {n.key : n \in nodes} |-> [linked |-> at(r).linked, seq |-> at(r).val]]

-----------------------------------------------------------------------------
Init ==
    /\ forest = <<>>
    /\ changed = FALSE
    /\ seq = 0

\* One update of a batch: merge the path of n names ending in r, then stem.
Update(r, n) ==
    LET start  == Pos(r) + 1 - n
        merged == MergePath(forest, start,
                            Chain(SubSeq(History[r], 1, n), Pending, <<>>)[1])
    IN  /\ forest' = Stem(merged)
        /\ changed' = (merged # forest)
        /\ UNCHANGED seq

\* The batch is numbered.
Number ==
    /\ seq < MaxSeq
    /\ seq' = seq + 1
    /\ forest' = AssignPending(forest, seq + 1)
    /\ changed' = FALSE

\* purge_docs on this document: remove leaves, renumber the surviving winner.
Purge(revs) ==
    LET kept == RemoveLeaves(forest, revs)
    IN  /\ seq < MaxSeq
        /\ \A n \in NodesOf(forest) : n.val # Pending
        /\ kept # forest
        /\ seq' = seq + 1
        /\ forest' = IF kept = <<>> THEN kept
                     ELSE SetLeafSeq(kept, Winner(kept), seq + 1)
        /\ changed' = FALSE

Next ==
    \/ \E r \in Revs : \E n \in 1..Pos(r) : Update(r, n)
    \/ Number
    \/ \E p, q \in Revs : Purge({p, q})

Spec == Init /\ [][Next]_<<forest, changed, seq>>
=============================================================================
