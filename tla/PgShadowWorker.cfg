SPECIFICATION FairSpec
CONSTANTS
  QueueSize = 2
  MaxFrames = 3
INVARIANTS ConnOpenWhileUsed NothingAfterFailure RepliesMatchUntilCall
PROPERTIES ImplementsMirror CloseReturns
