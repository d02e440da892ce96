SPECIFICATION FairSpec
CONSTANTS
  Frames = {"plain", "flush", "query", "copy", "sync", "terminate"}
  MaxFrames = 3
INVARIANTS Transparent NoEndLeftOver
PROPERTIES Answered CopyTakenDown
