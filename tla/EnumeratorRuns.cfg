\* A directory with one level of sub-directories, links not followed, opened with
\* a time limit.
CONSTANTS
    top = top
    sub = sub
    deep = deep
    a = a
    b = b
    f = f
    h = h
    l = l
    Dirs <- FlatDirs
    Root = top
    NoDir = NoDir
    Names <- AllNames
    Content <- FlatContent
    Shown <- NotHidden
    Subdirectories = TRUE
    FollowSymlinks = FALSE
    Timed = TRUE
    MaxFaults = 1
    MaxStarts = 2
    MaxOpen = 3
SPECIFICATION Spec
INVARIANTS ReturnedOnce EverythingListed OverIsComplete
PROPERTIES HasNextReturns AsyncEnds
\* The client may stop calling.
CHECK_DEADLOCK FALSE
