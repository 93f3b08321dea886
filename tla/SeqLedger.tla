----------------------------- MODULE SeqLedger -----------------------------
(***************************************************************************)
(* The ledger of a replication (couch-repl seq.rs): which prefix of the    *)
(* changes feed is done, although changes finish in any order.             *)
(*                                                                         *)
(* A change gets an ordinal when it is read, one unit of work, more when   *)
(* several of its revisions are missing on the target, and its entry stays *)
(* until every change before it is done as well.                           *)
(***************************************************************************)
EXTENDS Naturals, FiniteSets

Entry == [seq : Nat, pending : Nat]

\* committable is {} for None, {seq} for Some(seq).
IsLedger(l) ==
    /\ l = [next |-> l.next, entries |-> l.entries, committable |-> l.committable]
    /\ l.next \in Nat
    /\ DOMAIN l.entries \subseteq {o \in Nat : o < l.next}
    /\ l.entries \in [DOMAIN l.entries -> Entry]
    /\ l.committable \subseteq Nat

NewLedger ==
    [next |-> 0, entries |-> [o \in {} |-> [seq |-> 0, pending |-> 0]], committable |-> {}]

\* The entries with no unfinished one at or before them.
Settled(l) ==
    {o \in DOMAIN l.entries : \A p \in DOMAIN l.entries : p <= o => l.entries[p].pending = 0}

\* Mutant of Advance: the newest finished entry is committable.
AdvanceToNewest(l) ==
    LET done == {o \in DOMAIN l.entries : l.entries[o].pending = 0}
    IN  [l EXCEPT
           !.entries = [o \in DOMAIN @ \ done |-> @[o]],
           !.committable = IF done = {} THEN @
               ELSE {l.entries[CHOOSE o \in done : \A p \in done : p <= o].seq}]

Advance(l) ==
    LET done == Settled(l)
    IN  [l EXCEPT
           !.entries = [o \in DOMAIN @ \ done |-> @[o]],
           !.committable = IF done = {} THEN @
               ELSE {l.entries[CHOOSE o \in done : \A p \in done : p <= o].seq}]

Enter(l, entry) ==
    [l EXCEPT
       !.next = @ + 1,
       !.entries = [o \in DOMAIN @ \union {l.next} |-> IF o = l.next THEN entry ELSE @[o]]]

\* Mutant of Register: the ordinal is used again.
RegisterSameOrdinal(l, seq) ==
    [Enter(l, [seq |-> seq, pending |-> 1]) EXCEPT !.next = l.next]

Register(l, seq) == Enter(l, [seq |-> seq, pending |-> 1])

RegisterDone(l, seq) == Advance(Enter(l, [seq |-> seq, pending |-> 0]))

\* Mutant of Expand: the change keeps its one unit of work.
ExpandNothing(l, ord, units) == l

Expand(l, ord, units) ==
    [l EXCEPT !.entries = [o \in DOMAIN @ |->
        IF o = ord THEN [@[o] EXCEPT !.pending = units] ELSE @[o]]]

Monus(m, n) == IF n <= m THEN m - n ELSE 0

\* complete, called once for each item of work.
Reduce(l, items) ==
    [l EXCEPT !.entries = [o \in DOMAIN @ |->
        [seq |-> @[o].seq,
         pending |-> Monus(@[o].pending, Cardinality({i \in items : i.ord = o}))]]]

Complete(l, items) == Advance(Reduce(l, items))
=============================================================================
