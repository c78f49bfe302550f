CONSTANTS
  t1 = t1
  t2 = t2
  t3 = t3
  Task <- MCTask
  TaskType <- MCTaskType
  TypeOf <- MCTypeOf
  maxWorkers = 0
SPECIFICATION FairSpec
INVARIANTS TypeOK WorkerBound NoSendAfterClose OneResultPerTask CancelReported
PROPERTIES ReturnsIfAgentsDo ReturnsOnCancel ImplementsTaskBatch
