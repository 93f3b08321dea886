------------------------------ MODULE MCBTree ------------------------------
(* Every tree that five keys can give under batches of up to two keys and *)
(* loads of them all; what a tree must be, and what it stands for.         *)
EXTENDS BTree, FiniteSets
LOCAL INSTANCE SequencesExt
LOCAL INSTANCE FiniteSetsExt
LOCAL INSTANCE Functions

MCKeys == 1..5
Live == [deleted |-> FALSE, size |-> 2]
Tombstone == [deleted |-> TRUE, size |-> 1]
MCValues == {Live, Tombstone}

(* Two keys fill a node by themselves, two of the others do.               *)
MCWeight == [k \in MCKeys |-> IF k \in {2, 4} THEN 2 ELSE 1]

Of(S, T, v) == [inserts |-> [k \in S |-> v], removes |-> T]
Small == {S \in SUBSET MCKeys : Cardinality(S) <= 2}
MCBatches ==
  {Of(S, {}, v) : S \in Small \ {{}}, v \in MCValues}
  \cup {Of({}, S, Live) : S \in Small \ {{}}}
  \cup {Of({k}, {k}, v) : k \in MCKeys, v \in MCValues}
  \cup {Of(MCKeys, {}, Live), Of({}, MCKeys, Live)}

---------------------------------------------------------------------------
(* The entries of a node and of all below it, by a walk of its own.        *)
RECURSIVE Pairs(_)
Pairs(node) ==
  IF node.leaf THEN ToSet(node.entries)
  ELSE UNION {Pairs(node.entries[i][2].node) : i \in DOMAIN node.entries}

Contents == IF root = <<>> THEN {} ELSE Pairs(root[1][2].node)

(* The dictionary that the root stands for.                                *)
dict == [k \in {p[1] : p \in Contents} |-> (CHOOSE p \in Contents : p[1] = k)[2]]

RECURSIVE Depths(_)
Depths(node) ==
  IF node.leaf THEN {0}
  ELSE {d + 1 : d \in UNION {Depths(node.entries[i][2].node) : i \in DOMAIN node.entries}}

Counts(pairs) ==
  [live |-> Cardinality({p \in pairs : ~p[2].deleted}),
   del |-> Cardinality({p \in pairs : p[2].deleted}),
   size |-> MapThenSumSet(LAMBDA p : p[2].size, pairs)]

RECURSIVE Sound(_)
Sound(e) ==
  LET node == e[2].node
      n == Len(node.entries)
  IN  /\ n > 0 /\ e[1] = node.entries[n][1]
      /\ \A i \in 1..(n - 1) : node.entries[i][1] < node.entries[i + 1][1]
      /\ e[2].red = Counts(Pairs(node))
      /\ ~node.leaf => \A i \in 1..n : Sound(node.entries[i])
      /\ ~node.leaf => \A i \in 1..(n - 1) :
           \A p \in Pairs(node.entries[i + 1][2].node) : p[1] > node.entries[i][1]

(* TypeOK: no node is empty, every child is named by its greatest key and  *)
(* the keys after it are greater, no key is there twice, leaves are at one *)
(* depth, and every reduction counts what is below it.                     *)
TypeOK ==
  /\ writing \in BOOLEAN /\ Len(root) <= 1
  /\ root # <<>> => /\ Sound(root[1])
                    /\ Cardinality(Depths(root[1][2].node)) = 1
                    /\ Cardinality(Contents) = Cardinality(DOMAIN dict)
  /\ \A i \in DOMAIN kps : Sound(kps[i])

(* Whatever the shape the batches before have left: a lookup, a scan from  *)
(* any key upwards or downwards, the changes after a seq and the totals    *)
(* are those of the dictionary.                                            *)
ReadsAgree ==
  LET Up(S) == SetToSortSeq({<<k, dict[k]>> : k \in S}, LAMBDA p, q : p[1] < q[1])
  IN  /\ \A k \in Keys :
           /\ Lookup(root, k) = IF k \in DOMAIN dict THEN <<dict[k]>> ELSE <<>>
           /\ Fold(root, k) = Up({j \in DOMAIN dict : j >= k})
           /\ FoldRev(root, k) = Reverse(Up({j \in DOMAIN dict : j <= k}))
           /\ FoldChanges(root, k) = Up({j \in DOMAIN dict : j > k})
      /\ DocCounts(root) = Counts(Contents)

(* A tree of whatever shape is well built and reads as its dictionary does. *)
TreeIsSound == TypeOK /\ ReadsAgree

(* A tree is a dictionary: a batch does to it what it says, at once, and   *)
(* one that fails does nothing.                                            *)
D == INSTANCE Dictionary
IsDictionary == D!Spec

(* The loop of complete_root ends: a round leaves fewer nodes than it      *)
(* found, however heavy they are.                                          *)
RoundsShrink == [][kps # <<>> /\ kps' # <<>> => Len(kps') < Len(kps)]_kps
=============================================================================
