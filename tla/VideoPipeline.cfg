\* One video, two requests at a time, two jobs of two attempts, a fault.
SPECIFICATION FairSpec
CONSTANTS
    Videos = {v1}
    Requests = {r1, r2}
    Jobs = {1, 2}
    Attempts = 2
    MaxStalls = 1
    Concurrency = 2
    MaxFaults = 1
INVARIANTS
    TypeOK
    ProcessingHasJob
    RestHasVerdict
    PreviewIsPublic
PROPERTIES
    ProcessingEnds
CHECK_DEADLOCK FALSE
