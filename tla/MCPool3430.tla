----------------------------- MODULE MCPool3430 -----------------------------
EXTENDS Pool3430

CONSTANTS w1, w2, c1, c2, j1, j2, j3

TwoWorkers == {w1, w2}
OneClient == {c1}
TwoClients == {c1, c2}
TwoJobs == {j1, j2}
ThreeJobs == {j1, j2, j3}
=============================================================================
