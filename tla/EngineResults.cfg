\* A content, OCR or recent engine: an error is the strategy's last signal.
CONSTANTS
    MaxResults = 2
    MaxSearches = 3
    ErrorThenFinish = FALSE
    ResultFoundChoices = {TRUE}
SPECIFICATION Spec
INVARIANTS TypeOK OneSearchPerList BatchesMatchResults CancelHonoured
\* The client may stop calling, or destroy the engine.
CHECK_DEADLOCK FALSE
