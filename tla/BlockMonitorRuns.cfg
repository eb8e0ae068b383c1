\* Hot-plugging, mounts and one restart of the UDisks service.
CONSTANTS
    sda = sda
    sda1 = sda1
    Drives <- OneDrive
    Blocks <- OneBlock
    DriveOf <- OneOnSda
    MaxEvents = 3
    MaxRestarts = 1
    MaxHandlers = 3
SPECIFICATION Spec
INVARIANTS IndexMatches SubscribedOnce ViewConverges
PROPERTY Resubscribes
