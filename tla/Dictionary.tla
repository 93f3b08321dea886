----------------------------- MODULE Dictionary -----------------------------
(* What a tree of the store promises: a function from keys to values that  *)
(* changes by batches.  Within a batch removes come before inserts.        *)
CONSTANT Batches     \* the batches there are, [inserts, removes]

VARIABLE dict

(* What is left of a dictionary after a batch.                             *)
After(d, b) ==
  [k \in (DOMAIN d \ b.removes) \cup DOMAIN b.inserts |->
     IF k \in DOMAIN b.inserts THEN b.inserts[k] ELSE d[k]]

Init == dict = [k \in {} |-> 0]

AddRemove ==
  LET old == dict
      new == dict'
  IN  \E batch \in Batches : new = After(old, batch)

Spec == Init /\ [][AddRemove]_dict
=============================================================================
