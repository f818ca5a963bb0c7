---------------------------- MODULE MCIndexSync ----------------------------
(* The incident index on a small Jira: two issues, two queries.            *)
EXTENDS IndexSync

CONSTANTS i1, i2, qAll, qSome

\* The broad query selects every issue, the narrow one misses i2.
MCMatch == [q \in Queries |-> IF q = qAll THEN Issues ELSE Issues \ {i2}]

=============================================================================
