\* Both modes; a command and a rival, and two processes.
CONSTANTS
  Starters <- MCStarters
  Stoppers <- MCStoppers
  Earlier <- MCEarlier
  Later <- MCLater
  Commands = {"serve", "healthcheck", "flags"}
  MaxLaunches = 2
  MaxCommands = 1
SPECIFICATION SystemSpec
INVARIANT SystemTypeOK StopHooksAreRun ServiceTellsFailure EndIsNotMissed NoOrphan
PROPERTY SuccessIsTrue RestartReplaces FailedStartStopsAllOrNone CommandRunsLast CommandEndsProcess TermEndsProcess
CHECK_DEADLOCK FALSE
