------------------------- MODULE MCNqpListInsertion -------------------------
EXTENDS NqpListInsertion

CONSTANTS t1, t2, t3, t4

MCThreads == {t1, t2, t3, t4}
OnlyRR == {"RR"}
=============================================================================
