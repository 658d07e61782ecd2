CONSTANTS
  a = a
  b = b
  m = m
  exit = exit
  Null = Null
  Event <- MCEvent
  priority <- SamePriority
  Managed = {m}
  Exit = {exit}
  LimitEvent = exit
  MaxTick = 1
SPECIFICATION Spec
INVARIANT TypeOK
INVARIANT DebugVerify
INVARIANT NoDanglingPointer
PROPERTY ImplementsAgenda
CHECK_DEADLOCK FALSE
SYMMETRY PlainEvents
