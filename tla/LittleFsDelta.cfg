SPECIFICATION FaultsSpec
CONSTANTS
  NBlocks = 12
  Lookahead = 3
  RevBits = 3
  Name = {1, 2}
  Value = {"empty", "a"}
  PairCap = 2
  LogCap = 2
  Starts = {2}
  MaxCalls = 5
  MaxLoss = 1
  Cases = {"delta"}
PROPERTY AtomicOperations
CHECK_DEADLOCK FALSE
