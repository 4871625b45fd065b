SPECIFICATION SoloSpec
CONSTANTS
  Fields <- MCFields
  Pythons <- OnePython
  Relays <- OneRelay
  MaxTries = 2
  MaxUpdates = 2
  RingFrames = 2
  MaxAnchors = 3
  CrashInUpdate = FALSE
INVARIANTS TypeOK UntornReads MicroNotBehind SentIsCurrent
PROPERTIES ImplementsAtomic 
\* The connection ends with a hub that is closed.
CHECK_DEADLOCK FALSE
