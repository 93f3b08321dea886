------------------------------ MODULE EditSets ------------------------------
(***************************************************************************)
(* What replicas of one document promise: each site knows a set of edits   *)
(* with all that led to them, edits spread from site to site, and what a   *)
(* site shows - its leaves and the winner among them - follows from the    *)
(* set alone, however the edits got there.                                 *)
(***************************************************************************)
EXTENDS Naturals, Sequences

CONSTANTS
    Sites,
    Revs, History, DeletedRevs   \* as in RevTree

VARIABLES
    made,     \* the edits made at any site so far
    known,    \* the edits that each site knows
    leaves,   \* the leaves that each site shows
    winner    \* and its winner, {} when it has no document

vars == <<made, known, leaves, winner>>

Generation(r) == Len(History[r])

Before(r) == IF Generation(r) > 1 THEN {History[r][2]} ELSE {}

WithAll(edits) == \A r \in edits : Before(r) \subseteq edits

\* The edits that no other one is made on.
Tips(edits) == {r \in edits : \A q \in edits : r \notin Before(q)}

\* A live edit comes before a deletion, a longer history before a shorter one.
Preferred(r, q) ==
    IF (r \in DeletedRevs) # (q \in DeletedRevs) THEN q \in DeletedRevs
    ELSE \/ Generation(r) > Generation(q)
         \/ Generation(r) = Generation(q) /\ r > q

Best(edits) == {r \in edits : \A q \in edits \ {r} : Preferred(r, q)}

\* Site s comes to know exactly these edits, and shows what follows from them.
Knows(s, edits) ==
    /\ known' = [known EXCEPT ![s] = edits]
    /\ leaves' = [leaves EXCEPT ![s] = Tips(edits)]
    /\ winner' = [winner EXCEPT ![s] = Best(Tips(edits))]

\* A user edits one of the leaves, or begins the document.
Edit(s, r) ==
    /\ made' = made \union {r}
    /\ IF known[s] = {} THEN Before(r) = {} ELSE Before(r) # {} /\ Before(r) \subseteq leaves[s]
    /\ Knows(s, known[s] \union {r})

\* Edits made elsewhere arrive, in any order, with all that led to them.
Learn(s, edits) ==
    /\ known[s] \subseteq edits /\ edits \subseteq made /\ WithAll(edits)
    /\ Knows(s, edits)
    /\ UNCHANGED made

\* Leaves are purged with what only they needed: the other leaves stay.
Forget(s, edits) ==
    /\ edits \subseteq known[s] /\ WithAll(edits)
    /\ Knows(s, edits)
    /\ leaves'[s] \subseteq leaves[s]
    /\ UNCHANGED made

Init ==
    /\ made = {}
    /\ known = [s \in Sites |-> {}]
    /\ leaves = [s \in Sites |-> {}]
    /\ winner = [s \in Sites |-> {}]

Next ==
    \E s \in Sites :
        \/ \E r \in Revs : Edit(s, r)
        \/ \E edits \in SUBSET Revs : Learn(s, edits) \/ Forget(s, edits)

Spec == Init /\ [][Next]_vars
=============================================================================
