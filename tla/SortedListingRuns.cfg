\* A directory of 36 names, pairs of names with characters out of the ordinary, and three entries
\* of each kind, size and time.
CONSTANTS
    NoStream = NoStream
    Stuck = Stuck
    Directories <- AllDirectories
    Roles = {"FileName", "FileSize", "LastModified", "LastRead"}
    MaxLists = 1
SPECIFICATION ListingSpec
INVARIANTS NamesByRule
PROPERTIES ListedAsAsked ListingReturns
\* The client may stop calling.
CHECK_DEADLOCK FALSE
