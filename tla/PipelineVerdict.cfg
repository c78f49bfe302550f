CONSTANTS
  c1 = c1
  c2 = c2
  c3 = c3
  maxReActSteps = 2
  Content <- MCContent
  ToolName <- MCToolName
  Pay = "Place"
  Registry <- MCRegistry
  MaxBatch = 2
  MaxRuns = 1
  Mentioning <- QuotedToo
  Approving <- MCApproving
  Call = {c1, c2}
  NoCall = NoCall
  Amount <- MCAmount
  Threshold = 500
  MaxLines = 2
  Disciplined = TRUE
SPECIFICATION PipelineSpec
INVARIANT ExecutionOnlyIfApproved
CHECK_DEADLOCK FALSE
