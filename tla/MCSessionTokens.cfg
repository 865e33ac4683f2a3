\* PASETO, which accepts a token until the end of the second it expires in.
CONSTANTS
  r1 = r1
  r2 = r2
  t1 = t1
  t2 = t2
  t3 = t3
  t4 = t4
  Nobody = Nobody
  Requests <- MCRequests
  Tokens <- MCTokens
  Second = 2
  AccessTTL = 1
  RefreshTTL = 2
  WholeSeconds = TRUE
  MaxTime = 3
SPECIFICATION Spec
SYMMETRY Symmetry
INVARIANTS
  TypeOK
  RevocationOutlivesToken
PROPERTY RotatedIsRefused
\* With the time at its bound, all tokens issued and all of them expired, nothing is
\* left to do.
CHECK_DEADLOCK FALSE
