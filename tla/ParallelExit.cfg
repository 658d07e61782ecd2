CONSTANTS
  e1 = e1
  e2 = e2
  sync = sync
  limit = limit
  x1 = x1
  x2 = x2
  stat = stat
  None = None
  N = 2
  Quantum = 2
  MaxTick = 5
  Local = {e1}
  Sync = sync
  Limit = limit
  User = {x2, stat}
  FromHandler = {x2}
  FromSignal = {x2}
  FromPython = {stat}
  Exit = {limit, x2}
  Migration = TRUE
  MaxUses = 2
  priority <- MCPriority
  Delay <- MCDelay
  Repeat <- EveryTick
SPECIFICATION FairSpec
INVARIANT ProcessAlone
INVARIANT SameBarrier
INVARIANT AsyncInTime
INVARIANT QuantumEventFound
 
PROPERTY RunReturns
CHECK_DEADLOCK TRUE
