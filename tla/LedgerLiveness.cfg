\* Two subscriptions, two handlers that lock each other's rows.
SPECIFICATION FairSpec
CONSTANTS
    u1 = u1
    u2 = u2
    s1 = s1
    s2 = s2
    g1 = g1
    Users = {u1}
    Subs = {s1, s2}
    Grants = {}
    Owner <- OneUser
    Named <- Webhooks
    GrantTime = {1}
    Dated = FALSE
    Fallback = 1
    Workers = {w1, w2}
    InOrder = TRUE
    MaxFaults = 0
    Period = 1
    MaxInvoices = 1
    MaxTime = 0
PROPERTIES
    HandlersFinish
