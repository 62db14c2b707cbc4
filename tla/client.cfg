SPECIFICATION Spec
CONSTANTS
  Lines <- MCLines
  MaxLines = 4
  BufLen = 4
INVARIANTS InStep
PROPERTIES WaitsEnd ServerLeaves
CHECK_DEADLOCK FALSE
