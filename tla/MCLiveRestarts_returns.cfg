\* A hub with one phase that is restarted within a cadence.
SPECIFICATION Spec
CONSTANTS
  p0s0 = p0s0
  p1s0 = p1s0
  Phases <- MCOnePhase
  Offset <- MCOneOffset
  Cadence = 2
  MaxFrames = 4
  Rows <- MCOneRow
  PhaseOf <- MCOnePhaseOf
  StartNS = {3}
  LastIndex = 6
  MaxRestarts = 1
  StartDelay = 1
  Lookback = 3
  QueueSize = 4
  LongReturn = 2
  ColdBars = 2
  Cursors <- MCOneRow
  TradingHours = {}
  RthOnly = FALSE
  DayLength = 100
  MaxBusy = 0
  MaxReopens = 0
  WireRoom = 1
  MaxDisconnects = 0
  Readers = {"none"}
PROPERTY ReturnsContinuous
\* The hub may be closed.
CHECK_DEADLOCK FALSE
