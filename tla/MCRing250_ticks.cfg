\* The 250 ms ring of a symbol under late ticks and gaps of every length.
SPECIFICATION Spec
CONSTANTS
  RingBars = 3
  Baseline = 3
  SkipLimit = 4
  WindowBars = 2
  SecondBars = 2
  RthOpen = 2
  RthClose = 9
  MaxLate = 1
  MaxQuotes = 2
  MaxTrades = 2
  LastInstant = 10
INVARIANTS VolumeOnce NoLookahead TrailingExact NewestWindowValid
PROPERTY WindowWhole
\* The last timestamp may have come.
CHECK_DEADLOCK FALSE
