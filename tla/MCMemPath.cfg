CONSTANTS
  Requestor = {"r1", "r2"}
  Packet <- MCPacket
  owner <- MCOwner
  needsResponse <- MCNeedsResponse
  reqQueueLimit = 1
  respQueueLimit = 2
  NoPort = NoPort
  MaxRefusals = 1
SPECIFICATION Spec
INVARIANTS AssertsHold SpaceReserved Woken
PROPERTY KeepsPromise
