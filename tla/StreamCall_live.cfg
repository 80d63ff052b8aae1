SPECIFICATION FairSpec
CONSTANTS
  Senders = {s1}
  MaxInbound = 1
PROPERTIES
  HalfClosedIsBounded
  CallStops
