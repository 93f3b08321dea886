------------------------------- MODULE BTree -------------------------------
(* The copy-on-write B+tree of couch-store/src/btree.rs, in which a file   *)
(* keeps its documents by id, by seq, and its local documents.  A node is  *)
(* [leaf, entries]; an entry of a leaf is <<key, value>>, one of an inner  *)
(* node <<last key, [node, red]>>: a child is named by its greatest key    *)
(* and comes with its reduction.  Nodes are values here, since a node is   *)
(* appended once and never changed.                                        *)
(*                                                                         *)
(* A batch descends the tree once and leaves a list of nodes for the root; *)
(* they are packed into nodes above them, round after round, until one is  *)
(* left, which becomes the root.                                           *)
EXTENDS Integers, Sequences
LOCAL INSTANCE SequencesExt
LOCAL INSTANCE FiniteSetsExt

CONSTANTS
  Keys,        \* a set of integers
  Values,      \* [deleted, size]: what the reductions look at
  Weight,      \* key -> size of an entry with that key
  CHUNK_SIZE,  \* what a node may hold before it is split
  Batches      \* the batches tried, [inserts, removes]

ASSUME BTreeAssumption ==
  /\ Keys \subseteq Int /\ CHUNK_SIZE \in Nat \ {0}
  /\ Weight \in [Keys -> Nat \ {0}]
  /\ \A b \in Batches : b.removes \subseteq Keys /\ DOMAIN b.inserts \subseteq Keys

VARIABLES
  root,     \* <<>>, or <<entry>>: the tree of the last batch
  kps,      \* the nodes of a batch that is being written
  writing   \* whether one is

vars == <<root, kps, writing>>

Entry(key, node, red) == <<key, [node |-> node, red |-> red]>>

---------------------------------------------------------------------------
(* Reductions: live and deleted documents, and their size.                 *)
NoDocs == [live |-> 0, del |-> 0, size |-> 0]

Plus(r, s) == [live |-> r.live + s.live, del |-> r.del + s.del, size |-> r.size + s.size]

Reduce(entries) ==
  FoldLeft(LAMBDA r, e : Plus(r, [live |-> IF e[2].deleted THEN 0 ELSE 1,
                                  del |-> IF e[2].deleted THEN 1 ELSE 0,
                                  size |-> e[2].size]),
           NoDocs, entries)

Rereduce(entries) == FoldLeft(LAMBDA r, e : Plus(r, e[2].red), NoDocs, entries)

FullReduce(t) == Rereduce(t)

---------------------------------------------------------------------------
(* Packing entries into nodes of about the same weight.  A single entry at *)
(* the end joins the node before it.                                       *)
WeightOf(entries) == FoldLeft(LAMBDA n, e : n + Weight[e[1]], 0, entries)

Pack(entries, threshold) ==
  FoldLeft(LAMBDA p, e :
             IF p.cur # <<>> /\ WeightOf(p.cur) + Weight[e[1]] > threshold
             THEN [chunks |-> Append(p.chunks, p.cur), cur |-> <<e>>]
             ELSE [p EXCEPT !.cur = Append(@, e)],
           [chunks |-> <<>>, cur |-> <<>>], entries)

ChunkifyLoose(entries) ==    \* a fault: the last entry may stay by itself
  LET total == WeightOf(entries)
      p == Pack(entries, total \div (total \div CHUNK_SIZE + 1))
  IN  IF total <= CHUNK_SIZE THEN <<entries>> ELSE Append(p.chunks, p.cur)

Chunkify(entries) ==
  LET total == WeightOf(entries)
      p == Pack(entries, total \div (total \div CHUNK_SIZE + 1))
      n == Len(p.chunks)
  IN  CASE total <= CHUNK_SIZE -> <<entries>>
        [] total > CHUNK_SIZE /\ Len(p.cur) = 1 /\ n > 0 ->
             [p.chunks EXCEPT ![n] = @ \o p.cur]
        [] OTHER -> Append(p.chunks, p.cur)

WriteNodeUncounted(leaf, entries) ==    \* a fault: an inner node counts its first child only
  LET Written(chunk) == Entry(Last(chunk)[1], [leaf |-> leaf, entries |-> chunk],
                              IF leaf THEN Reduce(chunk) ELSE Rereduce(<<Head(chunk)>>))
      chunks == Chunkify(entries)
  IN  [i \in DOMAIN chunks |-> Written(chunks[i])]

WriteNode(leaf, entries) ==
  LET Written(chunk) == Entry(Last(chunk)[1], [leaf |-> leaf, entries |-> chunk],
                              IF leaf THEN Reduce(chunk) ELSE Rereduce(chunk))
      chunks == Chunkify(entries)
  IN  [i \in DOMAIN chunks |-> Written(chunks[i])]

---------------------------------------------------------------------------
(* The actions of a batch in the order of their keys, a remove before the  *)
(* insert of the same key.                                                 *)
Sorted(batch) ==
  LET inserts == {[key |-> k, val |-> <<batch.inserts[k]>>] : k \in DOMAIN batch.inserts}
      removes == {[key |-> k, val |-> <<>>] : k \in batch.removes}
  IN  SetToSortSeq(inserts \cup removes,
                   LAMBDA a, b : a.key < b.key \/ (a.key = b.key /\ Len(a.val) < Len(b.val)))

(* A leaf and the actions on it, merged.                                   *)
RECURSIVE ModifyKv(_, _)
ModifyKv(kvs, actions) ==
  IF actions = <<>> THEN kvs
  ELSE LET a == Head(actions)
           before == SelectSeq(kvs, LAMBDA e : e[1] < a.key)
           after == SelectSeq(kvs, LAMBDA e : e[1] > a.key)
           put == [i \in DOMAIN a.val |-> <<a.key, a.val[i]>>]
       IN  before \o put \o ModifyKv(after, Tail(actions))

RECURSIVE ModifyNode(_, _), ModifyKp(_, _)

(* The actions up to the key of a child are its own; the last child takes  *)
(* all that are left.  Children without any stay as they are.              *)
ModifyKp(children, actions) ==
  IF children = <<>> \/ actions = <<>> THEN children
  ELSE LET child == Head(children)
           Mine(a) == Len(children) = 1 \/ a.key <= child[1]
           mine == SelectSeq(actions, Mine)
           rest == SubSeq(actions, Len(mine) + 1, Len(actions))
           new == IF mine = <<>> THEN <<child>> ELSE ModifyNode(child[2].node, mine)
       IN  new \o ModifyKp(Tail(children), rest)

ModifyNode(node, actions) ==
  LET entries == IF node.leaf THEN ModifyKv(node.entries, actions)
                 ELSE ModifyKp(node.entries, actions)
  IN  IF entries = <<>> THEN <<>> ELSE WriteNode(node.leaf, entries)

NoNode == [leaf |-> TRUE, entries |-> <<>>]

---------------------------------------------------------------------------
Init == root = <<>> /\ kps = <<>> /\ writing = FALSE

(* add_remove: the batch goes down the tree ...                            *)
AddRemove(batch) ==
  /\ ~writing
  /\ kps' = ModifyNode(IF root = <<>> THEN NoNode ELSE root[1][2].node, Sorted(batch))
  /\ writing' = TRUE
  /\ UNCHANGED root

(* ... levels are put on top while there is more than one node ...         *)
AddLevel ==
  /\ writing /\ Len(kps) > 1
  /\ kps' = WriteNode(FALSE, kps)
  /\ UNCHANGED <<root, writing>>

CompleteRootEarly ==    \* a fault: the last node is taken though there are others
  /\ writing
  /\ root' = IF kps = <<>> THEN <<>> ELSE <<Last(kps)>>
  /\ kps' = <<>>
  /\ writing' = FALSE

(* ... and the caller takes the new root.                                  *)
CompleteRoot ==
  /\ writing /\ Len(kps) <= 1
  /\ root' = kps
  /\ kps' = <<>>
  /\ writing' = FALSE

(* The caller gives up on an error and keeps the root it had.              *)
WriteFails ==
  /\ writing
  /\ kps' = <<>>
  /\ writing' = FALSE
  /\ UNCHANGED root

Next ==
  \/ \E batch \in Batches : AddRemove(batch)
  \/ AddLevel \/ CompleteRoot \/ WriteFails

Spec == Init /\ [][Next]_vars

---------------------------------------------------------------------------
(* Reading.  An inner entry is passed over when its greatest key is before *)
(* the start; upwards from a start both kinds of node are cut the same way.*)
RECURSIVE FoldNode(_, _)
FoldNode(node, start) ==
  LET inside == SelectSeq(node.entries, LAMBDA e : e[1] >= start)
  IN  IF node.leaf THEN inside
      ELSE FlattenSeq([i \in DOMAIN inside |-> FoldNode(inside[i][2].node, start)])

RECURSIVE FoldRevNode(_, _), FoldRevShort(_, _)

FoldRevShort(node, start) ==    \* a fault: the child the start is in is left out
  LET n == Len(node.entries)
      reach == {i \in 1..n : node.entries[i][1] >= start}
      last == IF reach = {} THEN n ELSE Min(reach) - 1
      taken == Reverse(SubSeq(node.entries, 1, last))
  IN  IF node.leaf THEN SelectSeq(Reverse(node.entries), LAMBDA e : e[1] <= start)
      ELSE FlattenSeq([i \in DOMAIN taken |-> FoldRevShort(taken[i][2].node, start)])

(* Downwards the first child that reaches the start is the last one taken. *)
FoldRevNode(node, start) ==
  LET n == Len(node.entries)
      reach == {i \in 1..n : node.entries[i][1] >= start}
      last == IF reach = {} THEN n ELSE Min(reach)
      taken == Reverse(SubSeq(node.entries, 1, last))
  IN  IF node.leaf THEN SelectSeq(Reverse(node.entries), LAMBDA e : e[1] <= start)
      ELSE FlattenSeq([i \in DOMAIN taken |-> FoldRevNode(taken[i][2].node, start)])

Fold(t, start) == IF t = <<>> THEN <<>> ELSE FoldNode(t[1][2].node, start)
FoldRev(t, start) == IF t = <<>> THEN <<>> ELSE FoldRevNode(t[1][2].node, start)

(* The value of a key as <<value>>, <<>> if there is none.                 *)
RECURSIVE LookupOne(_, _)
LookupOne(node, key) ==
  LET reach == {i \in DOMAIN node.entries : node.entries[i][1] >= key}
      e == node.entries[Min(reach)]
  IN  CASE reach = {} -> <<>>
        [] reach # {} /\ ~node.leaf -> LookupOne(e[2].node, key)
        [] OTHER -> IF e[1] = key THEN <<e[2]>> ELSE <<>>

Lookup(t, key) == IF t = <<>> THEN <<>> ELSE LookupOne(t[1][2].node, key)

(* The reads of the engine: changes after a seq are the rows from the next *)
(* seq on, and what info reports is the reduction of the whole tree.       *)
FoldChanges(t, since) == Fold(t, since + 1)
DocCounts(t) == FullReduce(t)
=============================================================================
