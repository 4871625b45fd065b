\* A hub that is killed and restarted under a consumer.
SPECIFICATION Spec
CONSTRAINT MCBound
CONSTANTS
  p0s0 = p0s0
  p1s0 = p1s0
  Phases <- MCPhases
  Offset <- MCOffset
  Cadence = 2
  MaxFrames = 4
  Rows <- MCRows
  PhaseOf <- MCPhaseOf
  StartNS = {3}
  LastIndex = 6
  MaxRestarts = 2
  StartDelay = 1
  Lookback = 3
  QueueSize = 4
  LongReturn = 2
  ColdBars = 2
  Cursors <- MCCursors
  TradingHours = {}
  RthOnly = FALSE
  DayLength = 100
  MaxBusy = 0
  MaxReopens = 0
  WireRoom = 1
  MaxDisconnects = 0
  Readers = {"none", "cursor"}
INVARIANTS SeedsWhole ModeOfBoot
PROPERTIES FlagCoversGap SubCadenceMisses
\* The hub may be closed and its readers gone.
CHECK_DEADLOCK FALSE
