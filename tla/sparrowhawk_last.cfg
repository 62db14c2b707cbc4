SPECIFICATION Spec
CONSTANTS
  Sources <- MCSources
  Readings <- MCReadings
  MaxOrders = 4
  sparrowhawk_punc <- MCPunc
INVARIANT AppropriateToken
CHECK_DEADLOCK FALSE
