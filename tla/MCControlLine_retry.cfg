SPECIFICATION FairSpec
CONSTANTS
  A = A
  B = B
  X = X
  Symbols <- MCSymbols
  GatedSymbol = A
  WithFiles <- MCWithFiles
  SlowSymbols <- MCSlow
  Requests <- MCRequests
  MaxFrames = 4
  MaxId = 2
  MaxClients = 2
  ClientTimeouts = TRUE
  DiesBusy = FALSE
INVARIANTS ChunkReadable QuietWhileReading
PROPERTIES RequestAnswered ShutdownHonoured
\* Client and worker may both have stopped.
CHECK_DEADLOCK FALSE
