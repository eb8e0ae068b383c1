CONSTANTS
    p1 = p1
    p2 = p2
    p3 = p3
    p4 = p4
    Plans <- SmallPlans
    Lists <- OverlappingLists
    ExcludeChoices <- OneExcluded
    MaxResults = 0
    TimeoutEnabled = FALSE
    Failing = {"FileName"}
    Rejecting = {}
    MaxSearches = 1
SPECIFICATION Spec
INVARIANT FinishedIsComplete
\* The client may stop calling.
CHECK_DEADLOCK FALSE
