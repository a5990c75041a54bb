---------------------------- MODULE MCNqpThread ----------------------------
EXTENDS NqpRoundRobin

CONSTANTS t1, t2, t3, t4

MCThreads == {t1, t2, t3, t4}
MCFlows == MCThreads \cup {Main}
AllButMlfq == {"TWOTHREADS", "RR", "FIFO"}
\* t1 joins t2, t2 joins t3; under FIFO, where a thread that joins a later one
\* of the queue waits for ever, nobody joins.
JoinChain == [p \in Policies |-> IF p = "FIFO" THEN {} ELSE {<<t1, t2>>, <<t2, t3>>}]
None == {}
=============================================================================
