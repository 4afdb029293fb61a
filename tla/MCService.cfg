SPECIFICATION EitherSpec
CONSTANTS
  Thread = {t1, t2}
  MaxTokens = 3
  Usage = {1, 3}
  MaxRequests = 3
  MaxRetries = 1
  K = 2
  Listed = {0, 2, 3}
  ReplyUsage = {1}
INVARIANTS
  OneTaskPerConnection
  TasksRunAsAsked
  AgentsAreAccountable
CHECK_DEADLOCK FALSE
