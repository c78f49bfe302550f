CONSTANTS
  Name <- MCName
  MaxBlocks = 2
  MaxTurns = 3
SPECIFICATION Spec
INVARIANT TerminalMeansFinished
CHECK_DEADLOCK FALSE
