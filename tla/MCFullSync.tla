----------------------------- MODULE MCFullSync -----------------------------
(* `jira sync --full` beside plain syncs: two issues, two queries.         *)
EXTENDS FullSync

CONSTANTS i1, i2, qAll, qSome

\* The broad query selects every issue, the narrow one misses i2.
MCMatch == [q \in Queries |-> IF q = qAll THEN Issues ELSE Issues \ {i2}]

=============================================================================
