SPECIFICATION SoloSpec
CONSTANTS
  Fields <- MCFields
  Pythons <- OnePython
  Relays <- Nobody
  MaxTries = 2
  MaxUpdates = 2
  RingFrames = 2
  MaxAnchors = 0
  CrashInUpdate = TRUE
INVARIANTS UntornReads
