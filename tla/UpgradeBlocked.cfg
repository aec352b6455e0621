\* One request at a time, events handled at once, no fault.
SPECIFICATION Spec
CONSTANTS
    Requests = {r1}
    Handlers = {h1}
    MaxPrice = 3
    MaxUpgrades = 2
    MaxRenewals = 0
    MaxFaults = 0
PROPERTIES
    RefusedIsPending
CHECK_DEADLOCK FALSE
