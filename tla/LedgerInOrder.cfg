\* A subscription of one user, with three invoices, and a grant to another; events in order, one handler at a time.
SPECIFICATION Spec
CONSTANTS
    u1 = u1
    u2 = u2
    s1 = s1
    s2 = s2
    g1 = g1
    Users = {u1, u2}
    Subs = {s1}
    Grants = {g1}
    Owner <- TwoUsers
    Named <- NamedBySubscription
    GrantTime = {1}
    Dated = TRUE
    Fallback = 1
    Workers = {w1}
    InOrder = TRUE
    MaxFaults = 0
    Period = 1
    MaxInvoices = 3
    MaxTime = 2
INVARIANTS
    LedgerFollowsStripe
