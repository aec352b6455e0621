--------------------------- MODULE StripeBilling ----------------------------
(* Stripe as the server sees it: subscriptions that start, renew, fall       *)
(* behind and end, and the webhook events that tell of it.  External to the  *)
(* repository; modelled from the events dispatchWebhookEvent handles and     *)
(* from the calls of StripeService.                                          *)
EXTENDS Naturals, Sequences

CONSTANTS
    Subs,         \* Stripe subscription ids
    Period,       \* length of a billing period
    MaxInvoices,  \* bound: invoices of one subscription
    MaxTime       \* bound: the clock stops here

ASSUME BillingAssumption == /\ Period \in Nat \ {0}
                            /\ MaxInvoices \in Nat
                            /\ MaxTime \in Nat

VARIABLES
    now,   \* the clock
    bill,  \* each subscription at Stripe: state, last invoice, end of the
           \* current period, end of the last period that was paid
    mail   \* events Stripe has to deliver, oldest first

billing == <<now, bill, mail>>

Live == {"active", "past_due", "unpaid"}

\* Every value Stripe documents for the status of a subscription.
StripeStatuses == {"active", "trialing", "past_due", "unpaid", "incomplete",
                   "incomplete_expired", "paused", "canceled"}

BillingInit ==
    /\ now = 0
    /\ bill = [s \in Subs |-> [st |-> "none", n |-> 0, end |-> 0, paid |-> 0]]
    /\ mail = <<>>

\* An event carries a snapshot of the subscription when it was emitted.
Event(kind, s, b) ==
    [kind |-> kind, row |-> s, n |-> b.n, st |-> b.st, end |-> b.end]

\* Subscription s becomes b, and the events of these kinds are emitted.
Emit(s, b, kinds) ==
    /\ bill' = [bill EXCEPT ![s] = b]
    /\ mail' = mail \o [i \in 1..Len(kinds) |-> Event(kinds[i], s, b)]

Tick == /\ now < MaxTime
        /\ now' = now + 1
        /\ UNCHANGED <<bill, mail>>

\* The customer pays in an open checkout session.
Subscribe(s) ==
    /\ bill[s].st = "session"
    /\ MaxInvoices > 0
    /\ Emit(s, [st |-> "active", n |-> 1, end |-> now + Period,
                paid |-> now + Period], <<"paid", "updated">>)
    /\ UNCHANGED now

\* The next period begins; its invoice is a draft, and the subscription active.
BeginPeriod(s) ==
    /\ bill[s].st = "active" /\ bill[s].paid = bill[s].end
    /\ now >= bill[s].end /\ bill[s].n < MaxInvoices
    /\ Emit(s, [bill[s] EXCEPT !.n = @ + 1, !.end = @ + Period], <<"updated">>)
    /\ UNCHANGED now

Draft(s) == bill[s].st = "active" /\ bill[s].paid # bill[s].end

\* The invoice of the period that has begun is paid ...
Renew(s) ==
    /\ Draft(s)
    /\ Emit(s, [bill[s] EXCEPT !.paid = bill[s].end], <<"paid">>)
    /\ UNCHANGED now

\* ... or it is not.
FailRenewal(s) ==
    /\ Draft(s)
    /\ Emit(s, [bill[s] EXCEPT !.st = "past_due"], <<"failed", "updated">>)
    /\ UNCHANGED now

\* A later attempt to collect the same invoice works.
CollectLate(s) ==
    /\ bill[s].st \in {"past_due", "unpaid"}
    /\ Emit(s, [bill[s] EXCEPT !.st = "active", !.paid = bill[s].end],
            <<"paid", "updated">>)
    /\ UNCHANGED now

\* Stripe gives up collecting and keeps the subscription.
GiveUp(s) ==
    /\ bill[s].st = "past_due"
    /\ Emit(s, [bill[s] EXCEPT !.st = "unpaid"], <<"updated">>)
    /\ UNCHANGED now

\* The subscription ends at Stripe.
EndAtStripe(s) == /\ bill[s].st \in Live
                  /\ Emit(s, [bill[s] EXCEPT !.st = "canceled"], <<"deleted">>)

Terminate(s) == EndAtStripe(s) /\ UNCHANGED now

BillingNext ==
    \/ Tick
    \/ \E s \in Subs : \/ Subscribe(s) \/ BeginPeriod(s) \/ Renew(s)
                       \/ FailRenewal(s) \/ CollectLate(s) \/ GiveUp(s)
                       \/ Terminate(s)
=============================================================================
