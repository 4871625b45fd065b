\* Chunk worker and projector: CommitPhaseFrame, gated on phase 0 only.
SPECIFICATION EitherSpec
CONSTANTS
  Phases <- MCPhases
  Offset <- MCOffset
  Cadence = 2
  MaxFrames = 4
  Rows <- MCRows
  PhaseOf <- MCPhaseOf
  Gated <- GateFirst
  Start <- MCLateStart
  LastIndex = 7
  Bulk = TRUE
  FlowTimeout = TRUE
  ConsumerExits = TRUE
INVARIANTS TypeOK NoOverrun ExactRead
PROPERTIES ImplementsChannel ExporterServed
\* A replay whose consumer has gone stops for good.
CHECK_DEADLOCK FALSE
