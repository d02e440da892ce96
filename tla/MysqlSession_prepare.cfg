SPECIFICATION Spec
CONSTANTS
  MaxCols = 2
  MaxRows = 2
  MaxInFlight = 2
  Commands = {"prepare"}
  MaxCommands = 1
INVARIANT InStep
