----------------------------- MODULE MCPicoI2C -----------------------------
EXTENDS PicoI2C

\* Lengths around the FIFO depth in each direction, and combined transactions
\* whose parts fit, or do not fit, into one filling.
MCRequests == {[w |-> 1, r |-> 0], [w |-> 4, r |-> 0], [w |-> 0, r |-> 5],
               [w |-> 2, r |-> 1], [w |-> 2, r |-> 4]}
=============================================================================
