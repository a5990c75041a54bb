----------------------------- MODULE MCThrPool -----------------------------
EXTENDS ThrPool

CONSTANTS w1, w2, c1, c2, j1, j2, j3

MCWorkers == {w1, w2}
MCClients == {c1, c2}
MCJobs == {j1, j2, j3}
MCExiting == {j2}
=============================================================================
