------------------------------- MODULE Ordered -------------------------------
(* The order in which a database lists its rows: that of their seqs.        *)
EXTENDS Naturals, FiniteSets

\* The numbers of a set in their order.
InOrder(S) ==
    CHOOSE q \in [1..Cardinality(S) -> S] :
        /\ \A i, j \in 1..Cardinality(S) : i < j => q[i] < q[j]
        /\ \A x \in S : \E i \in 1..Cardinality(S) : q[i] = x
==============================================================================
