\* Three requests at a time, over the end of a month.
SPECIFICATION Spec
CONSTANTS
    Requests = {r1, r2, r3}
    MaxDownloads = 2
    Ttl = 1
    MaxTime = 1
    MonthOf <- TwoMonths
SYMMETRY Symmetry
INVARIANTS
    TypeOK
    QuotaBound
    UrlsAreCounted
    CachedUrlStillOpens
    QuotaInv
