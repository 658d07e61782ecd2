--------------------------- MODULE MCParallelSim ---------------------------
EXTENDS ParallelSim

CONSTANTS e1, e2, sync, limit, x1, x2, stat

\* The priorities of sim/eventq.hh.
MCPriority ==
  [e \in Event |-> CASE e = sync -> 95
                     [] e \in {limit, x1, x2} -> 100
                     [] e = stat -> 90
                     [] OTHER -> 0]

\* exitSimLoop() and schedStatEvent() add simQuantum.
MCDelay == [g \in User |-> Quantum]

NoRepeat == [g \in User |-> 0]
EveryTick == [g \in User |-> IF g \in {x2, stat} THEN 1 ELSE 0]
=============================================================================
