CONSTANTS
  ImageSizes = {0, 11}
  ChunkBytes = 4
  WordBytes = 2
  ResendBudget = 2
  OldVersion = 1
  Version = 2
  NoFrame = NoFrame
  LineDepth = 3
  Misbehaves = TRUE
SPECIFICATION Spec
CHECK_DEADLOCK FALSE
INVARIANTS DoneMeansKept AckedBytesAreInFlash TargetNeverErased ConfirmsWhatItChecked
PROPERTY ImplementsOneUpdate
