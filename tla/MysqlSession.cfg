SPECIFICATION FairSpec
CONSTANTS
  MaxCols = 2
  MaxRows = 2
  MaxInFlight = 2
  Commands = {"query", "execute", "simple", "silent", "quit"}
  MaxCommands = 3
INVARIANTS InStep SameEnd LoggedOnce
PROPERTIES Answered Released
