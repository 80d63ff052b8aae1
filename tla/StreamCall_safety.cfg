SPECIFICATION Spec
CONSTANTS
  Senders = {s1, s2}
  MaxInbound = 2
SYMMETRY SenderSymmetry
INVARIANTS
  WireInStoreOrder
  StoreAgrees
  SendIsHonest
  NobodyLeftParked
PROPERTIES
  ImplementsProtocol
