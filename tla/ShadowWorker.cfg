SPECIFICATION FairSpec
CONSTANTS
  QueueSize = 2
  MaxRequests = 3
INVARIANTS ConnOpenWhileUsed AtMostOneAfterForce RepliesMatchUntilRest
PROPERTIES ImplementsMirror CloseReturns
