\* Two requests and two handlers at a time, two updates, a fault.
SPECIFICATION Spec
CONSTANTS
    Requests = {r1, r2}
    Handlers = {h1, h2}
    MaxPrice = 3
    MaxUpgrades = 2
    MaxRenewals = 1
    MaxFaults = 1
SYMMETRY Symmetry
INVARIANTS
    TypeOK
    PendingOrCleared
    VerdictIsTrue
    CompletedWereApplied
PROPERTIES
    VerdictIsFinal
CHECK_DEADLOCK FALSE
