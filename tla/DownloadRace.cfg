\* Two requests for the last download of a month.
SPECIFICATION Spec
CONSTANTS
    Requests = {r1, r2}
    MaxDownloads = 2
    Ttl = 1
    MaxTime = 1
    MonthOf <- OneMonth
SYMMETRY Symmetry
INVARIANTS
    QuotaHeld
