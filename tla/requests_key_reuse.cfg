SPECIFICATION MCSpec
CONSTANTS
    Calls = {1, 2, 3}
    CreateKeys = {createKey}
    SendKeys = {messageId}
    Requests = {1, 2}
    NoCall = NoCall
    MaxCrashes = 0
    MaxDiskErrors = 0
CHECK_DEADLOCK FALSE
INVARIANT KeyNotReused
