\* Two levels of sub-directories, opened without a time limit.
CONSTANTS
    top = top
    sub = sub
    deep = deep
    a = a
    b = b
    f = f
    h = h
    l = l
    Dirs <- DeepDirs
    Root = top
    NoDir = NoDir
    Names <- AllNames
    Content <- DeepContent
    Shown <- NotHidden
    Subdirectories = TRUE
    FollowSymlinks = FALSE
    Timed = FALSE
    MaxFaults = 0
    MaxStarts = 0
    MaxOpen = 3
SPECIFICATION Spec
INVARIANT EverythingListed
\* The client may stop calling.
CHECK_DEADLOCK FALSE
