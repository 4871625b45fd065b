\* Each reader of a hub whose producer laps the ring.
SPECIFICATION Spec
CONSTANTS
  p0s0 = p0s0
  p0s1 = p0s1
  p1s0 = p1s0
  Phases <- MCPhases
  Offset <- MCOffset
  Cadence = 2
  MaxFrames = 4
  Rows <- MCRows
  PhaseOf <- MCPhaseOf
  StartNS = {3}
  LastIndex = 6
  MaxRestarts = 0
  StartDelay = 0
  Lookback = 3
  QueueSize = 4
  LongReturn = 2
  ColdBars = 0
  Readers = {"cursor", "recorder", "relay"}
  Cursors <- MCCursors
  TradingHours <- MCTradingHours
  RthOnly = TRUE
  DayLength = 10
  MaxBusy = 1
  MaxReopens = 1
  WireRoom = 1
  MaxDisconnects = 1
SYMMETRY MCSymmetry
CONSTRAINT MCBound
INVARIANTS TypeOK ExactUnlessLapped NothingTruncated FeaturesOfAnchor
PROPERTIES LossMeansLapped DueFramesRelayed
\* The hub may be closed and its readers gone.
CHECK_DEADLOCK FALSE
