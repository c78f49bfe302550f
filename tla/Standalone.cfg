CONSTANTS
  g1 = g1
  g2 = g2
  r1 = r1
  r2 = r2
  r3 = r3
  Text <- MCText
  IntOf <- MCIntOf
  FloatOf <- MCFloatOf
  Comment = "# note"
  Absent = Absent
  Amount <- MCAmount
  MaxLines = 2
  Price <- MCPrice
  Scale = 1000
  Garbage = Garbage
  Client = {g1, g2}
  Value = {1}
  Missing = Missing
  MaxCalls = 3
  Adder = {r1, r2, r3}
  RuleOf <- MCRuleOf
  ToLower <- MCToLower
  Default <- MCDefault
  Name <- MCName
  MaxBlocks = 2
  MaxTurns = 3
SPECIFICATION StandaloneSpec
INVARIANTS Precedence GateHolds ChangeRounded DirectionKept SnapshotStable HistoryComplete LockDiscipline AddedRulesBlock TypeOK WireWellFormed CallsEchoed CallsHeeded
CHECK_DEADLOCK FALSE
