-------------------------- MODULE MCKernelQueue ---------------------------
\* Tasks, priorities and block times for the run of KernelQueue.
EXTENDS KernelQueue, TLC
CONSTANTS t1, t2, t3
LastFirst == [t \in Tasks |-> IF t = t3 THEN 2 ELSE 1]
OneTimed == [t \in Tasks |-> IF t = t3 THEN {"some"} ELSE {"forever"}]
=============================================================================
