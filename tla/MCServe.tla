------------------------------ MODULE MCServe ------------------------------
\* Workers for TLC: v is a workflow worker, f a goroutine that executes a child.
EXTENDS Serve, TLC

CONSTANTS v, f, n1, n2

TwoWorks == {v, f}
OneHeld == {v}
TwoNodeWorkers == {n1, n2}
OneNodeWorker == {n1}
=============================================================================
