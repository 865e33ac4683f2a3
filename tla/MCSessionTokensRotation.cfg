\* A token that is rotated twice.
CONSTANTS
  r1 = r1
  r2 = r2
  t1 = t1
  t2 = t2
  t3 = t3
  t4 = t4
  Nobody = Nobody
  Requests <- MCRequests
  Tokens <- MCTokens
  Second = 2
  AccessTTL = 4
  RefreshTTL = 4
  WholeSeconds = TRUE
  MaxTime = 6
SPECIFICATION Spec
SYMMETRY Symmetry
INVARIANT RotatedIsInvalid
\* With the time at its bound, all tokens issued and all of them expired, nothing is
\* left to do.
CHECK_DEADLOCK FALSE
