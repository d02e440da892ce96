SPECIFICATION FairProcessSpec
CONSTANTS
  MaxClients = 2
  MaxAcceptErrors = 1
INVARIANTS
  AbruptExitLosesNothing
PROPERTIES
  ShutdownTerminates
  ClientsServed
  StatusFollows
CHECK_DEADLOCK FALSE
