---------------------------- MODULE MCRedisQueue ----------------------------
EXTENDS RedisQueue, TLC

CONSTANTS k1, k2, m1, m2, m3

\* Two messages of one key and one of another.
MCKeyOf == [m \in Messages |-> IF m = m3 THEN k2 ELSE k1]
\* The bean that handles the first key comes after one that does not.
MCConsumerKeys == <<k2, k1>>

Symmetry == Permutations(Nodes) \cup Permutations({m1, m2})
==============================================================================
