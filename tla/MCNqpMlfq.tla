----------------------------- MODULE MCNqpMlfq -----------------------------
EXTENDS NqpMlfq

CONSTANTS t1, t2, t3

MCThreads == {t1, t2, t3}
MCFlows == MCThreads \cup {Main}
Mlfq == {"MLFQ"}
Lengths == {1, 2}
Settings == {-2, 7}
\* main() joins t1 after the loop.
Joins == [p \in Policies |-> {<<Main, t1>>}]
None == {}
=============================================================================
