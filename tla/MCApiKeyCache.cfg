\* Two nodes that share Redis, and enough time for an answer to become too old.
CONSTANTS
  n1 = n1
  n2 = n2
  k1 = k1
  k2 = k2
  c1 = c1
  c2 = c2
  a1 = a1
  Nil = Nil
  Nodes <- TwoNodes
  Keys <- OneKey
  Callers <- OneCaller
  Admins <- OneAdmin
  L1TTL = 2
  NegativeTTL = 1
  L1MaxEntries = 1
  L2TTL = 4
  MaxFlight = 1
  MaxTime = 7
  MaxChanges = 1
SPECIFICATION Spec
SYMMETRY Symmetry
PROPERTY AnswersAreFresh
