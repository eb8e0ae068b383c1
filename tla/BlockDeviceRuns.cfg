\* Two calls of any kind on a disc and on an encrypted loop device, beside another program.
CONSTANTS
    Kinds <- DiscAndLoop
    MaxCalls = 2
    MaxEvents = 1
SPECIFICATION Spec
INVARIANTS FailuresExplained AnswersTrue
PROPERTY LedgerSpec
\* The client may stop calling, or destroy the device.
CHECK_DEADLOCK FALSE
