SPECIFICATION Spec
CONSTANTS
  Words <- MCWords
  Tokens <- MCTokens
  multiWordOps <- MCmultiWordOps
  Configs <- MCConfigs
  MaxTokens = 6
INVARIANTS
  OperationDetected
  Documented
CHECK_DEADLOCK FALSE
