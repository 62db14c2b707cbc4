SPECIFICATION FairSpec
CONSTANTS
  MaxStarts = 1
  MaxWaves = 5
  MaxQueue = 2
  Nil = Nil
INVARIANTS OneAnswerEach CloseDrains InOrder
PROPERTIES CallsReturn WavesLeave
CHECK_DEADLOCK FALSE
