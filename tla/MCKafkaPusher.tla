--------------------------- MODULE MCKafkaPusher ---------------------------
\* Instances of KafkaPusher for TLC.
EXTENDS KafkaPusher, TLC, Sequences

CONSTANTS w1, w2, p1, p2

MCWorkers == {w1, w2}
MCOnePartition == {p1}
MCPartitions == {p1, p2}
MCNoPoison == {}
MCPoison == {<<p1, 1>>}

Symmetry == Permutations(Workers)
=============================================================================
