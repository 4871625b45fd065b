\* A hub with two phases, restarted within a cadence, whose two looks at the
\* clock show the same instant.
SPECIFICATION Spec
CONSTANTS
  p0s0 = p0s0
  p1s0 = p1s0
  Phases <- MCPhases
  Offset <- MCOffset
  Cadence = 2
  MaxFrames = 4
  Rows <- MCRows
  PhaseOf <- MCPhaseOf
  StartNS = {3}
  LastIndex = 6
  MaxRestarts = 1
  StartDelay = 0
  Lookback = 3
  QueueSize = 4
  LongReturn = 2
  ColdBars = 2
  Cursors <- MCCursors
  TradingHours = {}
  RthOnly = FALSE
  DayLength = 100
  MaxBusy = 0
  MaxReopens = 0
  WireRoom = 1
  MaxDisconnects = 0
  Readers = {"none"}
PROPERTY NoFrameMissed
\* The hub may be closed.
CHECK_DEADLOCK FALSE
