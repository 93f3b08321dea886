--------------------------- MODULE MCReplication ---------------------------
(***************************************************************************)
(* The source: document a with a conflict, document b, document h, which   *)
(* the filter hides, and later an edit of b.                               *)
(***************************************************************************)
EXTENDS Replication

ConflictAndEdit ==
    <<[doc |-> "a", parent |-> 0], [doc |-> "a", parent |-> 0], [doc |-> "b", parent |-> 0],
      [doc |-> "h", parent |-> 0], [doc |-> "b", parent |-> 3]>>

OneShot == [continuous |-> FALSE, continueOnError |-> FALSE]
Continuous == [continuous |-> TRUE, continueOnError |-> TRUE]

Either == {OneShot, Continuous}
=============================================================================
