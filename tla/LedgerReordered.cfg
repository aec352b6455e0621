\* The events of one subscription in any order.
SPECIFICATION Spec
CONSTANTS
    u1 = u1
    u2 = u2
    s1 = s1
    s2 = s2
    g1 = g1
    Users = {u1}
    Subs = {s1}
    Grants = {}
    Owner <- OneUser
    Named <- Webhooks
    GrantTime = {1}
    Dated = FALSE
    Fallback = 1
    Workers = {w1}
    InOrder = FALSE
    MaxFaults = 0
    Period = 1
    MaxInvoices = 1
    MaxTime = 1
INVARIANTS
    EndedAtStripeIsNotActive
