\* The client that stops reconnecting.
CONSTANTS
  h1 = h1
  a1 = a1
  l1 = l1
  l2 = l2
  c1 = c1
  c2 = c2
  f1 = f1
  None = None
  Hosts <- OneHost
  Apps <- NoApp
  Loops <- TwoLoops
  Conns <- TwoConns
  Filters <- OneFilter
  Ids <- OneId
  MaxStarts = 1
SPECIFICATION Spec
SYMMETRY Symmetry
INVARIANT LossIsRecovered
