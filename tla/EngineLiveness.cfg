\* A file name engine: an error is followed by searchFinished.  The client turns
\* single results on only through searchWithCallback().
CONSTANTS
    MaxResults = 1
    MaxSearches = 2
    ErrorThenFinish = TRUE
    ResultFoundChoices = {FALSE}
SPECIFICATION Spec
INVARIANT SyncReturnsOwn
PROPERTIES SyncReturns LedgerSpec
\* The client may stop calling, or destroy the engine.
CHECK_DEADLOCK FALSE
