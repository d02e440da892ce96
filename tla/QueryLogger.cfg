SPECIFICATION FairSpec
CONSTANTS
  BufferSize = 2
  BatchSize = 2
  MaxEntries = 5
INVARIANTS LoggedOnce FlushedBeforeExit
PROPERTY EventuallyWritten
