\* A command that fails, in an interactive run.
CONSTANTS
  Starters <- MCStarters
  Stoppers <- MCStoppers
  Earlier <- MCEarlier
  Later <- MCLater
  Commands = {"healthcheck"}
  MaxLaunches = 1
SPECIFICATION Spec
INVARIANT FailureHasExitCode
CHECK_DEADLOCK FALSE
