\* One subscription with two invoices, two handlers, two failures or crashes.
SPECIFICATION Spec
CONSTANTS
    u1 = u1
    u2 = u2
    s1 = s1
    s2 = s2
    g1 = g1
    Users = {u1}
    Subs = {s1}
    Grants = {}
    Owner <- OneUser
    Named <- Webhooks
    GrantTime = {1}
    Dated = FALSE
    Fallback = 1
    Workers = {w1, w2}
    InOrder = TRUE
    MaxFaults = 2
    Period = 1
    MaxInvoices = 2
    MaxTime = 1
SYMMETRY Symmetry
INVARIANTS
    TypeOK
    ActiveIsCovered
    AccessIsCovered
