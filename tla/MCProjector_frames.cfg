\* The daemon, a playback and a chunk; one live tick may be late.
SPECIFICATION Spec
CONSTANTS
  Ticks <- AllTicks
  Symbols <- MCSymbols
  Phases <- MCPhases
  Offset <- MCOffset
  Members <- MCMembers
  Cadence = 2
  Watermark = 2
  Jitter <- MCJitter
  Jobs <- AllJobs
  EndNS = 9
INVARIANTS FramesAsSorted BarsHonest LateCounted
\* The clock and the stream are bounded.
CHECK_DEADLOCK FALSE
