---------------------------- MODULE MCShardView -----------------------------
(* ShardView for TLC: two nodes, one of which leaves the shard.            *)
EXTENDS ShardView

CONSTANTS n1, n2

TwoNodes == {n1, n2}

OneLeaves == <<{n1, n2}, {n2}>>
=============================================================================
