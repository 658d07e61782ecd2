CONSTANTS
  a = a
  b = b
  m = m
  exit = exit
  Null = Null
  Event <- MCEvent
  priority <- MCPriority
  Managed = {m}
  Exit = {exit, b}
  LimitEvent = exit
  MaxTick = 2
SPECIFICATION Spec
INVARIANT ServiceOrder
INVARIANT NothingInThePast
INVARIANT NoDanglingEvent
PROPERTY TimeIsMonotone
CHECK_DEADLOCK FALSE
