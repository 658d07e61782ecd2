SPECIFICATION Spec
CONSTANTS
  NumThreads = 2
  Arch = {x, m}
  Fixed = {m}
  Dests = {{x}, {m}}
  Phys = {p1, p2, p3, p4}
  RenameWidth = 2
  SquashWidth = 1
  MaxSeq = 3
  MaxTC = 1
SYMMETRY PhysSymmetry
INVARIANTS NoDoubleFree NoRegisterLost PreciseState NotOwned
