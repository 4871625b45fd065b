SPECIFICATION FairSpec
CONSTANTS
  QueueSize = 2
  LastDate = 2
  ClientRoom = 2
  DaemonRoom = 1
  Batch = 2
  MaxRetries = 1
  Jobs <- AllJobs
INVARIANTS TicksInOrder QuietWhenDisabled FedUntilGivenUp DrainedAtShutdown
  SpooledInOrder
PROPERTIES ControlReturns ShutdownCompletes
\* The daemon exits.
CHECK_DEADLOCK FALSE
