SPECIFICATION FairSpec
CONSTANTS
  Callers = {c1, c2}
  Nobody = nobody
  Ttl = 2
  FailureTtl = 1
  MaxRetries = 1
  MaxNow = 4
  MaxCalls = 3
INVARIANT AnswerIsCurrent
PROPERTIES SingleFlight Answered
CHECK_DEADLOCK FALSE
