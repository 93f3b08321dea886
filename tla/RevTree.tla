------------------------------ MODULE RevTree ------------------------------
(***************************************************************************)
(* Revision trees of couch-store (revtree.rs), as pure operators.          *)
(*                                                                         *)
(* The code keeps a forest of nested nodes.  A revision id is a digest of  *)
(* its parent's id (writer.rs, "new_revid"), so a revision fixes its whole *)
(* history and a forest is determined by which revisions it holds, which   *)
(* of them hang below their parent, and what each stores.  That is what a  *)
(* Tree is here: a function from the revisions present to                  *)
(*   linked  - the node is the child of its parent's node (else a root);   *)
(*   seq     - the update seq of the stored body, Missing (?REV_MISSING)   *)
(*             when only the id is known, Pending until the batch is       *)
(*             numbered (PENDING_SEQ).                                     *)
(* KeyForest.tla holds the nested-node code itself and shows that it         *)
(* implements these operators.                                             *)
(***************************************************************************)
EXTENDS Naturals, Sequences, FiniteSets

CONSTANTS
    Revs,         \* revisions; their order as numbers is the revid byte order
    History,      \* History[r]: r, its parent, ..., its first generation
    DeletedRevs,  \* the revisions that are tombstones
    RevsLimit,    \* header.revs_limit
    Pending       \* PENDING_SEQ, distinct from every real seq

\* A revision's history is its own id followed by its parent's history.
ASSUME RevsAssumption == Revs \subseteq Nat
ASSUME HistoryAssumption ==
    /\ History \in [Revs -> Seq(Revs)]
    /\ \A r \in Revs :
          /\ Len(History[r]) >= 1
          /\ History[r][1] = r
          /\ Len(History[r]) > 1 => History[History[r][2]] = Tail(History[r])
ASSUME DeletedAssumption == DeletedRevs \subseteq Revs
ASSUME LimitAssumption == RevsLimit \in Nat \ {0}
ASSUME PendingAssumption == Pending \notin Nat

Missing == 0

Seqs == Nat \union {Pending}

Node == [linked : BOOLEAN, seq : Seqs]

IsTree(t) == DOMAIN t \subseteq Revs /\ t \in [DOMAIN t -> Node]

EmptyTree == [r \in {} |-> [linked |-> FALSE, seq |-> Missing]]

Pos(r) == Len(History[r])

\* The first n revisions of r's history: what an insert path of n names holds.
Path(r, n) == {History[r][i] : i \in 1..n}

ChildOf(t, c, r) == t[c].linked /\ Pos(c) > 1 /\ History[c][2] = r

\* collect_leaves: the nodes without children.
Leaves(t) == {r \in DOMAIN t : \A c \in DOMAIN t : ~ChildOf(t, c, r)}

\* How many names the path from r up to the root of its tree has.
PathLen(t, r) ==
    CHOOSE n \in 1..Pos(r) :
        /\ ~t[History[r][n]].linked
        /\ \A i \in 1..(n - 1) : t[History[r][i]].linked

RootOf(t, r) == History[r][PathLen(t, r)]

Members(t, root) == {r \in DOMAIN t : RootOf(t, r) = root}

Stored(t, r) == t[r].seq # Missing

IsDeleted(t, r) == Stored(t, r) /\ r \in DeletedRevs

\* The order winner() sorts leaves by: live before deleted, then position,
\* then revid.
Beats(t, r, q) ==
    IF IsDeleted(t, r) # IsDeleted(t, q) THEN IsDeleted(t, q)
    ELSE \/ Pos(r) > Pos(q)
         \/ Pos(r) = Pos(q) /\ r > q

Winner(t) == CHOOSE r \in Leaves(t) : \A q \in Leaves(t) \ {r} : Beats(t, r, q)

-----------------------------------------------------------------------------
(* merge_path, merge_tree, merge_at, merge_extend                          *)

\* The roots whose tree connects with the insert path of n names ending in r:
\* the root lies on the path below its start, or the tree holds the start.
Connecting(t, r, n) ==
    LET start == History[r][n]
    IN  {root \in {x \in DOMAIN t : ~t[x].linked} :
            root \in Path(r, n) \ {start} \/ start \in Members(t, root)}

\* The trees are tried from the deepest root up: the set the path is merged
\* into, empty when the path becomes a tree of its own.
Target(t, r, n) ==
    LET roots == Connecting(t, r, n)
    IN  IF roots = {} THEN {}
        ELSE Members(t, CHOOSE x \in roots : \A y \in roots : Pos(y) <= Pos(x))

\* Mutant of MergedTree: a root the path reaches from above stays a root.
MergedTreeAsFound(t, r, n) ==
    LET target == Target(t, r, n)
        start  == History[r][n]
    IN  [x \in target \union Path(r, n) |->
            [linked |-> IF x \in target THEN t[x].linked ELSE x # start,
             seq    |-> IF x \in target /\ Stored(t, x) THEN t[x].seq
                        ELSE IF x = r THEN Pending ELSE Missing]]

\* The tree the path ends up in.  value_pref: a stored value is kept, a
\* missing one is replaced by the path's (Pending at r, missing above it).
MergedTree(t, r, n) ==
    LET target == Target(t, r, n)
        start  == History[r][n]
    IN  [x \in target \union Path(r, n) |->
            [linked |-> \/ x \in Path(r, n) \ {start}
                        \/ x \in target /\ t[x].linked,
             seq    |-> IF x \in target /\ Stored(t, x) THEN t[x].seq
                        ELSE IF x = r THEN Pending ELSE Missing]]

\* The forest after the merge: the merged tree and the trees left alone.  The
\* two may share revisions until stem rebuilds the forest.
MergePath(t, r, n) ==
    {MergedTree(t, r, n),
     [x \in DOMAIN t \ Target(t, r, n) |-> t[x]]}

\* Mutant of MergeChanges: an ancestor known by id only counts as new.
MergeAddsBodies(t, r, n) == \E x \in Path(r, n) : x \notin DOMAIN t \/ ~Stored(t, x)

\* merge_path's result: did the forest change?
MergeChanges(t, r, n) ==
    ~(Path(r, n) \subseteq Target(t, r, n) /\ Stored(t, r))

-----------------------------------------------------------------------------
(* stem, remove_leaves, set_leaf_seq                                       *)

\* How many names of a leaf's path stem keeps.
KeptLen(t, leaf) ==
    IF PathLen(t, leaf) <= RevsLimit THEN PathLen(t, leaf) ELSE RevsLimit

Kept(t) == UNION {Path(l, KeptLen(t, l)) : l \in Leaves(t)}

KeptBelow(t) == UNION {Path(l, KeptLen(t, l) - 1) : l \in Leaves(t)}

\* Every leaf path, cut at the limit, merged into a new forest: a revision is
\* a root there only when no kept path continues above it.
Stem(forest) ==
    [x \in UNION {Kept(t) : t \in forest} |->
        [linked |-> \E t \in forest : x \in KeptBelow(t),
         seq    |-> IF \E t \in forest : x \in Kept(t) /\ Stored(t, x)
                    THEN (CHOOSE t \in forest : x \in Kept(t) /\ Stored(t, x))[x].seq
                    ELSE Missing]]

\* The tree that update_docs keeps after merging one update.
Merge(t, r, n) == Stem(MergePath(t, r, n))

\* Only leaves can be removed; ancestors no surviving leaf needs go with them.
RemoveLeaves(t, revs) ==
    LET keep == UNION {Path(l, PathLen(t, l)) : l \in Leaves(t) \ revs}
    IN  [x \in keep |-> t[x]]

SetLeafSeq(t, r, seq) ==
    [x \in DOMAIN t |->
        IF x = r /\ Stored(t, x) THEN [t[x] EXCEPT !.seq = seq] ELSE t[x]]

-----------------------------------------------------------------------------
(* What the writer derives from a tree                                     *)

\* Mutant of AssignPending: only leaves are numbered.
AssignLeaves(t, seq) ==
    [x \in DOMAIN t |->
        IF x \in Leaves(t) /\ t[x].seq = Pending THEN [t[x] EXCEPT !.seq = seq] ELSE t[x]]

\* assign_pending_seqs
AssignPending(t, seq) ==
    [x \in DOMAIN t |->
        IF t[x].seq = Pending THEN [t[x] EXCEPT !.seq = seq] ELSE t[x]]

\* fdi_value: the document's update_seq, the largest seq of its leaves.
DocSeq(t) ==
    LET seqs == {t[l].seq : l \in Leaves(t)}
    IN  IF seqs = {} THEN 0
        ELSE CHOOSE s \in seqs : \A s2 \in seqs : s2 <= s

\* descendant_leaves: the leaves whose path passes through r.
Descendants(t, r) == {l \in Leaves(t) : r \in Path(l, PathLen(t, l))}

\* What a tree must be for the above to mean what the code means: a linked
\* node's parent is present, and a leaf stores a body.
WellFormed(t) ==
    /\ \A r \in DOMAIN t : t[r].linked => Pos(r) > 1 /\ History[r][2] \in DOMAIN t
    /\ \A l \in Leaves(t) : Stored(t, l)
=============================================================================
