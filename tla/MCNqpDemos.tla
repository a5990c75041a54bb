------------------------------ MODULE MCNqpDemos ------------------------------
EXTENDS NqpDemos, TLC
CONSTANTS t1, t2, t3, t4
MCId == <<t1, t2, t3, t4>>
=============================================================================
