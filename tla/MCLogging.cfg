SPECIFICATION MCSpec
CONSTANTS
    Threads = {t1, t2}
    NoThread = none
    Messages <- SomeMessages
    Dots <- ThreeDots
    MAX_LOG_MSG_LENGTH = 2
    Enabled = {"INFO", "ERROR"}
    MaxCalls = 2
    MaxConfCalls = 4
    MaxTextLines = 3
    MaxFileLines = 3
    MaxChanges = 2
    MaxVerboseCalls = 4
    kMaxLogPerCounter = 4
    MaxHits = 10
INVARIANTS LinesWhole ConfigurationsAgree FilesAgree ConditionalLines
PROPERTIES CallReturns StepsKeep
CHECK_DEADLOCK FALSE
