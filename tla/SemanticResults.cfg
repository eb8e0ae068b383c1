\* Up to three sub-engines, which may fail or reject the query, or none at all.
CONSTANTS
    p1 = p1
    p2 = p2
    p3 = p3
    p4 = p4
    Plans <- AnyPlans
    Lists <- PairLists
    ExcludeChoices <- OneExcluded
    MaxResults = 2
    TimeoutEnabled = TRUE
    Failing = {"FileName", "Content"}
    Rejecting = {"Content"}
    MaxSearches = 2
SPECIFICATION Spec
INVARIANTS CountedIsComplete OneEndPerSearch TimerIsOfThisSearch
PROPERTIES SearchSettles CancelledEndsCancelled SyncReturns
\* The client may stop calling.
CHECK_DEADLOCK FALSE
