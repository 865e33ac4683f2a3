\* Two goroutines register up to three topics while two others stop the registrar.
CONSTANTS
  r1 = r1
  r2 = r2
  s1 = s1
  s2 = s2
  f1 = f1
  f2 = f2
  f3 = f3
  Registrars <- MCRegistrars
  Stoppers <- MCStoppers
  Filters <- MCFilters
  Allowed <- MCAllowed
  MaxTopics = 3
SPECIFICATION FairSpec
INVARIANTS
  TypeOK
  HandlersHaveOwners
  ManagedIsRegistered
  IdentifiersDiffer
PROPERTY StopRemovesHandlers
\* When the registrar is stopped and every call has returned, nothing happens.
CHECK_DEADLOCK FALSE
