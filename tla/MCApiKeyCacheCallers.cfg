\* One node with a full map, two callers, two keys and no time: the interleavings.
CONSTANTS
  n1 = n1
  n2 = n2
  k1 = k1
  k2 = k2
  c1 = c1
  c2 = c2
  a1 = a1
  Nil = Nil
  Nodes <- OneNode
  Keys <- TwoKeys
  Callers <- TwoCallers
  Admins <- OneAdmin
  L1TTL = 1
  NegativeTTL = 1
  L1MaxEntries = 1
  L2TTL = 1
  MaxFlight = 1
  MaxTime = 0
  MaxChanges = 1
SPECIFICATION Spec
SYMMETRY Symmetry
INVARIANTS
  TypeOK
  MapIsBounded
  WaitersAreServed
PROPERTY InvalidationIsFinal
