\* Two users, two requests at a time, three links; two requests may fail.
SPECIFICATION Spec
CONSTANTS
    Users = {u1, u2}
    Requests = {r1, r2}
    MaxTokens = 3
    MaxFailed = 2
SYMMETRY Symmetry
INVARIANTS
    TypeOK
    UnusedBound
    UsesBound
    CanConfirm
CHECK_DEADLOCK FALSE
