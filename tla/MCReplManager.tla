--------------------------- MODULE MCReplManager ---------------------------
(***************************************************************************)
(* Two specs of one replication id, one-shot and continuous, and one that  *)
(* cannot be built.                                                        *)
(***************************************************************************)
EXTENDS ReplManager

OneShot == [rep |-> "r", continuous |-> FALSE, valid |-> TRUE]
Continuous == [rep |-> "r", continuous |-> TRUE, valid |-> TRUE]
Broken == [rep |-> "q", continuous |-> FALSE, valid |-> FALSE]

SpecSet == {OneShot, Continuous, Broken}
=============================================================================
