\* A clock of seven readings, and a tolerance that two of them exceed.
CONSTANTS
  Times <- MCTimes
  Tolerance = 2
SPECIFICATION Spec
INVARIANTS
  TypeOK
  StateIsWhole
PROPERTY ClockCannotGoBack
