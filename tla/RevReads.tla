------------------------------ MODULE RevReads ------------------------------
(***************************************************************************)
(* How revisions are read (couch-http api_bulk.rs, api_docs.rs) and how a  *)
(* replicator (couch-repl fetch.rs) strings the reads together: ask the    *)
(* target which revisions it misses, read them from the source with        *)
(* latest=true, and merge what was read into the target.                   *)
(***************************************************************************)
EXTENDS RevTree, FiniteSetsExt

-----------------------------------------------------------------------------
(* _revs_diff and _missing_revs                                             *)

\* Mutant of MissingRevs: only leaves count as known.
RevsNotLeaves(t, revs) == revs \ Leaves(t)

\* Known by id is enough: an ancestor whose body was never stored is not asked
\* for.
MissingRevs(t, revs) == revs \ DOMAIN t

PossibleAncestors(t, revs) ==
    {l \in Leaves(t) : \E r \in MissingRevs(t, revs) : Pos(l) < Pos(r)}

-----------------------------------------------------------------------------
(* GET doc, open_revs and _bulk_get                                         *)

\* The order of the leaves in a _bulk_get answer, the last one first.
Newest(revs) ==
    CHOOSE r \in revs : \A q \in revs \ {r} : Pos(q) < Pos(r) \/ (Pos(q) = Pos(r) /\ q < r)

\* Mutant of LatestOf: only a leaf has a latest revision, itself.
LatestIfLeaf(t, r) == {r} \intersect Leaves(t)

\* latest=true: one leaf of those edits on r led to, none when r is unknown.
LatestOf(t, r) == IF Descendants(t, r) = {} THEN {} ELSE {Newest(Descendants(t, r))}

\* Mutant of DocJson: the revision without its path.
DocJsonAlone(t, revs) == {[rev |-> r, n |-> 1] : r \in {q \in revs : Stored(t, q)}}

\* doc_json with revs=true: the revision and its path, if its body is stored.
DocJson(t, revs) == {[rev |-> r, n |-> PathLen(t, r)] : r \in {q \in revs : Stored(t, q)}}

\* ?rev= without latest: rev_path, a leaf or not.
DocOfRev(t, r) == DocJson(t, {r} \intersect DOMAIN t)

\* The replicator takes the first document of a _bulk_get result, and asks for
\* the revision by itself when there is none.
Fetch(t, r) ==
    IF LatestOf(t, r) # {} THEN DocJson(t, LatestOf(t, r)) ELSE DocOfRev(t, r)

\* Mutant of Cutoff: an ancestor on another branch counts.
CutoffAnywhere(t, l, since) == Max({0} \union {Pos(a) : a \in {x \in since : Pos(x) <= Pos(l)}})

\* open_revs_multipart with atts_since: attachments added at this generation
\* of the leaf's path or before it are left out.
Cutoff(t, l, since) == Max({0} \union {Pos(a) : a \in since \intersect Path(l, PathLen(t, l))})

-----------------------------------------------------------------------------
(* Replication of one document                                              *)

\* The documents that a replicator brings from source to a target: those of the
\* leaves that the target misses.
Brought(source, target) == UNION {Fetch(source, r) : r \in MissingRevs(target, Leaves(source))}

\* The target's tree once they were written (new_edits=false).
Pulled(source, target) ==
    FoldSet(LAMBDA doc, t : Merge(t, doc.rev, doc.n), target, Brought(source, target))

-----------------------------------------------------------------------------
(* What replicas may count on                                               *)

\* The updates a replica may receive: a revision and n names of its history.
Updates == UNION {{r} \X (1..Pos(r)) : r \in Revs}

\* Two replicas that receive the same two updates in either order (path_to_tree,
\* merge_path, stem) hold the same forest, so they pick the same winner: new
\* edits need no coordination as long as nothing more is stemmed.
MergesCommute(t) ==
    LET once == [p \in Updates |-> Merge(t, p[1], p[2])]
    IN  \A p, q \in Updates :
            p[1] <= q[1] => Merge(once[p], q[1], q[2]) = Merge(once[q], p[1], p[2])

\* Receiving an update again changes nothing and says so: a replicator that
\* retries a batch neither adds revisions nor moves the document on the feed.
MergeIsIdempotent(t) ==
    \A p \in Updates :
        LET once == Merge(t, p[1], p[2])
        IN  Merge(once, p[1], p[2]) = once /\ ~MergeChanges(once, p[1], p[2])

\* Updates may reach a replica in any order and more than once.
MergesConverge(t) == MergesCommute(t) /\ MergeIsIdempotent(t)

\* A revision asked for is served, itself or as a leaf it led to (fetch.rs:220
\* takes the first of those that latest=true gives).
Served(t, r) ==
    \E doc \in Fetch(t, r) : doc.rev \in Leaves(t) /\ r \in Path(doc.rev, doc.n)

\* A tree none of whose paths was stemmed.
Whole(t) == \A r \in DOMAIN t : t[r].linked \/ Pos(r) = 1

\* An attachment that atts_since leaves out of the answer for leaf l of t is one
\* that a client with u has: it holds a revision of the leaf's own history at least
\* as recent.
LeftOutIsHeld(t, u, l) ==
    LET cutoff == Cutoff(t, l, PossibleAncestors(u, Leaves(t)))
    IN  cutoff > 0 =>
          \E a \in Path(l, PathLen(t, l)) : a \in DOMAIN u /\ Stored(u, a) /\ Pos(a) >= cutoff
=============================================================================
