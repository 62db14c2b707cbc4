SPECIFICATION Spec
CONSTANTS
  Sources <- MCSources
  Readings <- MCReadings
  MaxOrders = 4
  sparrowhawk_punc <- MCPunc
INVARIANTS SpellsTheToken PositionsRight ReadsWhatIsMeant DaughtersAgree
  TokensKeepTheirWords MarksKeepTheirPlace
PROPERTY NormalizeEnds
CHECK_DEADLOCK FALSE
