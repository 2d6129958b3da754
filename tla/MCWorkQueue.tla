---------------------------- MODULE MCWorkQueue ----------------------------
\* Callers and workers for TLC.
EXTENDS WorkQueue, TLC

CONSTANTS c1, c2, w1, w2

TwoCallers == {c1, c2}
TwoWorkers == {w1, w2}
=============================================================================
