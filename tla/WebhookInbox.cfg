\* Two events, three deliveries in flight, an outage.
SPECIFICATION FairSpec
CONSTANTS
    Events = {e1, e2}
    Deliveries = {d1, d2, d3}
    MaxOutages = 1
INVARIANTS
    TypeOK
    OneHandlerPerEvent
    ProcessedWasApplied
    AckedIsRecorded
    InboxInv
PROPERTIES
    SettledStaysSettled
    IgnoredIsInGoodHands
    ClaimEndsInVerdict
    ImplementsLifecycle
