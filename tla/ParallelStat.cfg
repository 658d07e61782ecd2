CONSTANTS
  e1 = e1
  e2 = e2
  sync = sync
  limit = limit
  x1 = x1
  x2 = x2
  stat = stat
  None = None
  N = 2
  Quantum = 2
  MaxTick = 5
  Local = {}
  Sync = sync
  Limit = limit
  User = {stat}
  FromHandler = {}
  FromSignal = {stat}
  FromPython = {}
  Exit = {limit}
  Migration = FALSE
  MaxUses = 2
  priority <- MCPriority
  Delay <- MCDelay
  Repeat <- NoRepeat
SPECIFICATION Spec
INVARIANT SameBarrier
CHECK_DEADLOCK FALSE
