\* A ring of 8 units; layers up to the size of the ring, which is refused.
CONSTANTS
  Size = 8  LayerMax = 8  LayersMax = 3  SlowDevice = TRUE
SPECIFICATION FairRing
INVARIANTS
  RingTypeOK
  NothingOverwritten
  ReadsCommands
PROPERTIES
  SubmissionEnds
