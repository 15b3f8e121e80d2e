CONSTANTS
  MaxTasks = 3
  MaxNotices = 2
  MaxMail = 2
SPECIFICATION Spec
CHECK_DEADLOCK FALSE
INVARIANTS
  NothingWaitsUnseen
  OperationsSeeNotices
  MailFollowsSubmissions
  NothingIsLostAtTheEnd
PROPERTIES
  ImplementsContract
  EveryTaskRuns
  StopReturns
