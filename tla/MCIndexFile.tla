---------------------------- MODULE MCIndexFile ----------------------------
(* Two documents under two indexes, of which one is partial.               *)
EXTENDS IndexFile, TLC

CONSTANTS x, y, full, part, low, high, none, ddoc, p1, p2

MCIds == {x, y}
MCDefs == {full, part}
MCOrder == full :> 1 @@ part :> 2
MCPredefined == {full}
MCBodies == {low, high, none, ddoc}
MCKeyOf ==
  full :> (low :> {1} @@ high :> {2} @@ none :> {} @@ ddoc :> {}) @@
  part :> (low :> {} @@ high :> {2} @@ none :> {} @@ ddoc :> {})
MCProcs == {p1, p2}
MCMaxSeq == <<3, 2>>

Symmetric == Permutations(MCProcs) \cup Permutations(MCIds)
=============================================================================
