CONSTANTS
    MaxRequests = 3
    MaxRefusals = 1
SPECIFICATION FairSpec
CHECK_DEADLOCK FALSE
INVARIANTS WrittenWhileAwaited AnswerIsComplete
PROPERTY RequestReturns
