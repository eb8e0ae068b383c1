\* Two calls in a row on one drive, with two files to be burnt and verified.
CONSTANTS
    Files = {report, photo}
    Progress = {0, 4, 50, 97}
    MaxJobs = 2
SPECIFICATION Spec
INVARIANTS TypeOK CallsCleanUp FailureTold VerifiedIsTrue
PROPERTY ProgressNeverFalls
\* The client may stop calling.
CHECK_DEADLOCK FALSE
