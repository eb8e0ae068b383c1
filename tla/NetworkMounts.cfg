\* Two calls of any kind on one share, with up to two saved logins.
CONSTANTS
    MaxCalls = 2
    MaxSaved = 2
    MaxAsks = 2
SPECIFICATION Spec
INVARIANTS AskedOnce ErrorFits
PROPERTIES OnlyGoodLoginsSaved LedgerSpec
\* The client may stop calling.
CHECK_DEADLOCK FALSE
