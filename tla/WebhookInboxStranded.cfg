\* An ignored delivery whose event nobody handles.
SPECIFICATION Spec
CONSTANTS
    Events = {e1}
    Deliveries = {d1, d2}
    MaxOutages = 1
PROPERTIES
    IgnoredIsProcessedOrInFlight
