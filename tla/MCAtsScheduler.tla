--------------------------- MODULE MCAtsScheduler ---------------------------
\* A small instance of AtsScheduler: slots of two ticks and of four.
EXTENDS AtsScheduler, TLC

CONSTANTS daily, catalog, p1, p2

MCTasks == {daily, catalog}
MCEnabled == {daily}     \* the other one runs when it is forced
MCProcs == {p1, p2}
MCPeriod == (daily :> 2) @@ (catalog :> 4)
Symmetry == Permutations(MCProcs)
=============================================================================
