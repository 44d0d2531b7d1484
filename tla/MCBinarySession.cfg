SPECIFICATION Spec
CONSTANTS
    Base = 3
    MaxBatchSize = 2
    Calls <- MCCalls
    Values <- Contents
    Lengths <- MCLengths
    Messages <- MCMessages
    Consumed <- MCConsumed
    ErrorText <- MCErrorText
    ReadBuf = 80
    MaxCalls = 1
    MaxReads = 2
INVARIANTS
    TypeOK
    HandlerGetsCall
    CutFrameNotExecuted
    AnswerIsReply
    InSync
    PanicHasCause
    NeverStuck
CHECK_DEADLOCK FALSE
