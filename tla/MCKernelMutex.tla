-------------------------- MODULE MCKernelMutex ---------------------------
\* Tasks, priorities and the programs for the runs of KernelMutex.
EXTENDS KernelMutex, TLC
CONSTANTS low, mid, high, outer, inner
Ascending == [t \in Tasks |-> IF t = low THEN 1 ELSE IF t = mid THEN 2 ELSE 3]
AllUses == {[resets |-> r, uses |-> {outer}, nesting |-> {}] : r \in BOOLEAN}
           \cup {[resets |-> FALSE, uses |-> Mutexes, nesting |-> {<<outer, inner>>}]}
=============================================================================
