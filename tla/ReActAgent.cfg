CONSTANTS
  maxReActSteps = 3
  Content <- MCContent
  ToolName <- MCToolName
  Pay = "Place"
  Registry <- MCRegistry
  MaxBatch = 2
  MaxRuns = 2
SPECIFICATION FairSpec
INVARIANTS TypeOK StateMatchesResult ConversationWellFormed CostBound OneBatchAfterCancel
PROPERTIES SingleUse RunReturns
CHECK_DEADLOCK FALSE
