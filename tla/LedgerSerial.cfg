\* Two subscriptions and a grant, any order, a failure, one handler at a time.
SPECIFICATION Spec
CONSTANTS
    u1 = u1
    u2 = u2
    s1 = s1
    s2 = s2
    g1 = g1
    Users = {u1}
    Subs = {s1, s2}
    Grants = {g1}
    Owner <- OneUser
    Named <- Webhooks
    GrantTime = {1}
    Dated = FALSE
    Fallback = 1
    Workers = {w1}
    InOrder = FALSE
    MaxFaults = 1
    Period = 1
    MaxInvoices = 1
    MaxTime = 1
INVARIANTS
    PaidHasSubscription
    OneActiveStripe
    SubscriptionEndIsEndOfAccess
PROPERTIES
    GrantSparesStripe
