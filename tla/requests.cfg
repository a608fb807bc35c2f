SPECIFICATION MCSpec
CONSTANTS
    Calls = {1, 2, 3}
    CreateKeys = {createKey}
    SendKeys = {messageId}
    Requests = {1, 2}
    NoCall = NoCall
    MaxCrashes = 1
    MaxDiskErrors = 1
INVARIANTS OncePerKey AnswersAgree StuckForAReason
PROPERTIES CompletedStays CallsReturn
CHECK_DEADLOCK FALSE
