---------------------------- MODULE MCChangesFeed ----------------------------
EXTENDS ChangesFeed, DatabaseProps

CONSTANTS d1, d2, d3, q1

\* d1 and d3 write one document, d2 another.
MCDocOf == [w \in DocWrites |-> IF w = d2 THEN "b" ELSE "a"]

\* q1 purges what d2 wrote.
MCPurges == [q \in QuietWrites |-> {d2}]
==============================================================================
