CONSTANTS
  c1 = c1
  c2 = c2
  c3 = c3
  a1 = a1
  a2 = a2
  Call = {c1, c2}
  Agent = {a1}
  OwnerOf <- OneAgent
  Amount <- MCAmount
  Threshold = 500
  MaxLines = 2
  Disciplined = TRUE
SPECIFICATION FairSpec
INVARIANTS LeakOnlyAfterCancel
PROPERTIES ApprovedByOwnLine AnswerHeeded
CHECK_DEADLOCK FALSE
