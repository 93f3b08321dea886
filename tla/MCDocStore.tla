----------------------------- MODULE MCDocStore -----------------------------
(* Small documents: a root with two children, one of them extended.         *)
EXTENDS DocStoreProps, TLC

\*   1 -- 2 -- 4
\*    \-- 3
MCHistory ==
    [r \in Revs |-> CASE r = 1 -> <<1>>
                      [] r = 2 -> <<2, 1>>
                      [] r = 3 -> <<3, 1>>
                      [] r = 4 -> <<4, 2, 1>>]

DocSymmetry == Permutations(Docs)
=============================================================================
