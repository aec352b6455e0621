--------------------------- MODULE UpgradeRequests ----------------------------
(* The upgrades of one Stripe subscription to a dearer price: the requests   *)
(* of its user (createUpgradeRequest in src/payments/payments.service.ts,    *)
(* upgradeSubscription in src/stripe/stripe.service.ts), what Stripe makes   *)
(* of them, and the handlers of the events that resolve them.  Each awaited  *)
(* call is an action; requests and handlers run at the same time.            *)
EXTENDS Integers, Sequences, FiniteSets

CONSTANTS
    Requests,     \* slots for requests in flight
    Handlers,     \* slots for events being handled
    MaxPrice,     \* prices are the amounts 1..MaxPrice
    MaxUpgrades,  \* bound: updates Stripe accepts
    MaxRenewals,  \* bound: renewals that are not paid, or paid late
    MaxFaults     \* bound: calls that fail on us, crashes

ASSUME UpgradeAssumption == /\ IsFiniteSet(Requests) /\ IsFiniteSet(Handlers)
                            /\ MaxPrice \in Nat \ {0}
                            /\ MaxUpgrades \in Nat
                            /\ MaxRenewals \in Nat
                            /\ MaxFaults \in Nat

VARIABLES
    price,    \* at Stripe: the price of the subscription,
    pending,  \* its pending_update: the number of an update in made, or 0,
    renewals, \* and how often its status turned to past_due or back,
    made,     \* updates Stripe accepted, in order: [to, outcome]
    mail,     \* events to be delivered
    ledger,   \* Subscription.status is ACTIVE
    rows,     \* UpgradeRequest in the order of createdAt: [update, status]
    pc,       \* the next call of each request,
    req,      \* and the price it asks for, or the number of its update
    hpc,      \* the next call of each handler,
    event,    \* its event,
    found,    \* and the row it found
    clean,    \* one request at a time so far, no fault, never behind
    faults    \* faults so far

stripe == <<price, pending, renewals, made>>
requests == <<pc, req>>
handling == <<hpc, event, found>>
luck == <<clean, faults>>
vars == <<stripe, mail, ledger, rows, requests, handling, luck>>

Prices == 1..MaxPrice
NoEvent == [kind |-> "none", update |-> 0, behind |-> FALSE, pending |-> FALSE]
Outcomes == {"applied at once", "pending", "applied", "expired", "replaced"}
Statuses == {"PENDING", "COMPLETED", "EXPIRED", "FAILED"}

Init == /\ price \in Prices
        /\ pending = 0
        /\ renewals = 0
        /\ made = <<>>
        /\ mail = {}
        /\ ledger = TRUE
        /\ rows = <<>>
        /\ pc = [r \in Requests |-> "idle"]
        /\ req = [r \in Requests |-> 0]
        /\ hpc = [h \in Handlers |-> "idle"]
        /\ event = [h \in Handlers |-> NoEvent]
        /\ found = [h \in Handlers |-> 0]
        /\ clean = TRUE
        /\ faults = 0

Fault == faults < MaxFaults /\ faults' = faults + 1 /\ clean' = FALSE

PendingRows == {i \in DOMAIN rows : rows[i].status = "PENDING"}

-----------------------------------------------------------------------------
(* Stripe, which pays for a pending update or lets it expire.                *)

Settle(outcome) == made' = [made EXCEPT ![pending].outcome = outcome]

ApplyPending ==
    /\ pending # 0
    /\ price' = made[pending].to
    /\ Settle("applied")
    /\ mail' = mail \cup {[NoEvent EXCEPT !.kind = "applied", !.update = pending]}
    /\ pending' = 0
    /\ UNCHANGED <<renewals, ledger, rows, requests, handling, luck>>

ExpirePending ==
    /\ pending # 0
    /\ Settle("expired")
    /\ mail' = mail \cup {[NoEvent EXCEPT !.kind = "expired", !.update = pending]}
    /\ pending' = 0
    /\ UNCHANGED <<price, renewals, ledger, rows, requests, handling, luck>>

\* A renewal is not paid, or paid late.
Renewal ==
    /\ renewals < MaxRenewals
    /\ renewals' = renewals + 1
    /\ mail' = mail \cup {[NoEvent EXCEPT !.kind = "updated",
                                          !.behind = renewals % 2 = 0,
                                          !.pending = pending # 0]}
    /\ clean' = FALSE
    /\ UNCHANGED <<price, pending, made, ledger, rows, requests, handling, faults>>

-----------------------------------------------------------------------------
(* Requests.                                                                 *)

Goto(r, p) == pc' = [pc EXCEPT ![r] = p]
Answer(r) == Goto(r, "idle") /\ req' = [req EXCEPT ![r] = 0]

\* The active subscription of the user is found.
StartUpgrade(r, to) ==
    /\ pc[r] = "idle" /\ ledger
    /\ req' = [req EXCEPT ![r] = to]
    /\ Goto(r, "check")
    /\ clean' = (clean /\ \A q \in Requests : pc[q] = "idle")
    /\ UNCHANGED <<stripe, mail, ledger, rows, handling, faults>>

\* Mutant: a request that is pending does not stop the next.
CheckPendingNot(r) ==
    /\ pc[r] = "check"
    /\ Goto(r, "retrieve")
    /\ UNCHANGED <<stripe, mail, ledger, rows, req, handling, luck>>

CheckPending(r) ==
    /\ pc[r] = "check" /\ PendingRows = {}
    /\ Goto(r, "retrieve")
    /\ UNCHANGED <<stripe, mail, ledger, rows, req, handling, luck>>

\* "Ya existe un upgrade pendiente para esta suscripcion"
RefusePending(r) ==
    /\ pc[r] = "check" /\ PendingRows # {}
    /\ Answer(r)
    /\ UNCHANGED <<stripe, mail, ledger, rows, handling, luck>>

\* The price that is replaced is read; it must be another and not dearer.  (Two
\* prices of one amount are one price here.)
RetrievePrice(r) ==
    /\ pc[r] = "retrieve"
    /\ \/ price < req[r] /\ Goto(r, "update") /\ UNCHANGED req
       \/ price >= req[r] /\ Answer(r)
    /\ UNCHANGED <<stripe, mail, ledger, rows, handling, luck>>

\* Stripe takes the update, in place of one that is pending.
Accept(r, outcome) ==
    /\ pc[r] = "update" /\ Len(made) < MaxUpgrades
    /\ made' = Append([i \in DOMAIN made |->
                         IF i = pending THEN [made[i] EXCEPT !.outcome = "replaced"]
                         ELSE made[i]],
                      [to |-> req[r], outcome |-> outcome])
    /\ req' = [req EXCEPT ![r] = Len(made')]
    /\ Goto(r, "insert")

\* pending_if_incomplete: Stripe collects the difference and changes the price,
\* which no pending_update_applied reports, ...
UpdateAtOnce(r) ==
    /\ Accept(r, "applied at once")
    /\ price' = req[r]
    /\ pending' = 0
    /\ UNCHANGED <<renewals, mail, ledger, rows, handling, luck>>

\* ... or cannot collect it, and keeps the update pending, ...
UpdatePends(r) ==
    /\ Accept(r, "pending")
    /\ pending' = Len(made')
    /\ UNCHANGED <<price, renewals, mail, ledger, rows, handling, luck>>

\* ... or refuses; the calls before may fail as well, and nothing has changed.
EndsEarly(r) ==
    /\ pc[r] \in {"retrieve", "update"}
    /\ Answer(r)
    /\ UNCHANGED <<stripe, mail, ledger, rows, handling, luck>>

\* The row is PENDING, also when Stripe has applied the update.
InsertRow(r) ==
    /\ pc[r] = "insert"
    /\ rows' = Append(rows, [update |-> req[r], status |-> "PENDING"])
    /\ Answer(r)
    /\ UNCHANGED <<stripe, mail, ledger, handling, luck>>

\* The reply of Stripe or of the insert is lost, or the insert fails.
RequestFails(r) ==
    /\ pc[r] = "insert" /\ Fault
    /\ \/ UNCHANGED rows
       \/ rows' = Append(rows, [update |-> req[r], status |-> "PENDING"])
    /\ Answer(r)
    /\ UNCHANGED <<stripe, mail, ledger, handling>>

-----------------------------------------------------------------------------
(* Handlers.                                                                 *)

HGoto(h, p) == hpc' = [hpc EXCEPT ![h] = p]
Finish(h) == /\ HGoto(h, "idle")
             /\ event' = [event EXCEPT ![h] = NoEvent]
             /\ found' = [found EXCEPT ![h] = 0]

\* Events come in any order, and before the request that caused them is done.
StartEvent(h) ==
    /\ hpc[h] = "idle"
    /\ \E e \in mail :
          /\ mail' = mail \ {e}
          /\ event' = [event EXCEPT ![h] = e]
          /\ HGoto(h, IF e.kind = "updated" THEN "ledger" ELSE "find")
    /\ UNCHANGED <<stripe, ledger, rows, requests, found, luck>>

\* shouldIgnoreUpgradeFailureFromSubscription
IgnoredFailure(e) == e.pending \/ ~e.behind

\* customer.subscription.updated writes the status first.
WriteLedger(h) ==
    /\ hpc[h] = "ledger"
    /\ ledger' = ~event[h].behind
    /\ IF IgnoredFailure(event[h]) THEN Finish(h)
       ELSE HGoto(h, "find") /\ UNCHANGED <<event, found>>
    /\ UNCHANGED <<stripe, mail, rows, requests, luck>>

\* findLatestPendingUpgradeRequestBySubscription
FindLatest(h) ==
    /\ hpc[h] = "find"
    /\ \/ /\ PendingRows = {}
          /\ Finish(h)
       \/ \E i \in PendingRows :
             /\ \A j \in PendingRows : j <= i
             /\ found' = [found EXCEPT ![h] = i]
             /\ HGoto(h, "resolve") /\ UNCHANGED event
    /\ UNCHANGED <<stripe, mail, ledger, rows, requests, luck>>

\* Mutant: the status of the subscription is taken for that of the request.
VerdictAsStatus(e) == CASE e.kind = "applied" -> "COMPLETED"
                        [] e.kind = "expired" -> "EXPIRED"
                        [] e.kind = "updated" -> "PAST_DUE"

Verdict(e) == CASE e.kind = "applied" -> "COMPLETED"
                [] e.kind = "expired" -> "EXPIRED"
                [] e.kind = "updated" -> "FAILED"

\* Mutant: the update has no condition on the status.
ResolveFoundAnyway(h) ==
    /\ hpc[h] = "resolve"
    /\ rows' = [rows EXCEPT ![found[h]].status = Verdict(event[h])]

\* Mutant: the update has no condition on the id.
ResolveFoundAll(h) ==
    /\ hpc[h] = "resolve"
    /\ rows' = [i \in DOMAIN rows |->
                  IF i \in PendingRows THEN [rows[i] EXCEPT !.status = Verdict(event[h])]
                  ELSE rows[i]]

\* updateMany of the row that was found, if it is still PENDING
ResolveFound(h) ==
    /\ hpc[h] = "resolve"
    /\ rows' = [rows EXCEPT ![found[h]].status =
                  IF @ = "PENDING" THEN Verdict(event[h]) ELSE @]

Resolve(h) == /\ ResolveFound(h)
              /\ Finish(h)
              /\ UNCHANGED <<stripe, mail, ledger, requests, luck>>

\* A call fails, or has been committed and its reply is lost; the event is
\* delivered again, or is not.
HandlerFails(h) ==
    /\ hpc[h] # "idle" /\ Fault
    /\ ResolveFound(h) \/ UNCHANGED rows
    /\ mail' \in {mail, mail \cup {event[h]}}
    /\ Finish(h)
    /\ UNCHANGED <<stripe, ledger, requests>>

\* The process dies.  Stripe has been told 200: the events are lost.
Crash == /\ Fault
         /\ pc' = [r \in Requests |-> "idle"]
         /\ req' = [r \in Requests |-> 0]
         /\ hpc' = [h \in Handlers |-> "idle"]
         /\ event' = [h \in Handlers |-> NoEvent]
         /\ found' = [h \in Handlers |-> 0]
         /\ UNCHANGED <<stripe, mail, ledger, rows>>

Next == \/ ApplyPending \/ ExpirePending \/ Renewal
        \/ \E r \in Requests :
              \/ \E to \in Prices : StartUpgrade(r, to)
              \/ CheckPending(r) \/ RefusePending(r) \/ RetrievePrice(r)
              \/ UpdateAtOnce(r) \/ UpdatePends(r) \/ EndsEarly(r)
              \/ InsertRow(r) \/ RequestFails(r)
        \/ \E h \in Handlers :
              StartEvent(h) \/ WriteLedger(h) \/ FindLatest(h) \/ Resolve(h)
              \/ HandlerFails(h)
        \/ Crash

Spec == Init /\ [][Next]_vars

-----------------------------------------------------------------------------
(* Properties.                                                               *)

Events == [kind : {"applied", "expired", "updated"}, update : Nat,
           behind : BOOLEAN, pending : BOOLEAN]

\* Every variable has its type; a request that is done at Stripe names its
\* update, and a handler that goes on its event and row.
TypeOK ==
    /\ price \in Prices
    /\ pending \in 0..Len(made)
    /\ renewals \in 0..MaxRenewals
    /\ made \in Seq([to : Prices, outcome : Outcomes])
    /\ Len(made) <= MaxUpgrades
    /\ mail \subseteq Events
    /\ ledger \in BOOLEAN
    /\ rows \in Seq([update : 1..MaxUpgrades, status : Statuses])
    /\ pc \in [Requests -> {"idle", "check", "retrieve", "update", "insert"}]
    /\ req \in [Requests -> Nat]
    /\ \A r \in Requests :
          /\ pc[r] \in {"check", "retrieve", "update"} => req[r] \in Prices
          /\ pc[r] = "insert" => req[r] \in 1..Len(made)
    /\ hpc \in [Handlers -> {"idle", "ledger", "find", "resolve"}]
    /\ event \in [Handlers -> Events \cup {NoEvent}]
    /\ found \in [Handlers -> 0..Len(rows)]
    /\ \A h \in Handlers :
          /\ hpc[h] # "idle" => event[h] \in Events
          /\ hpc[h] = "resolve" => found[h] # 0
    /\ clean \in BOOLEAN
    /\ faults \in 0..MaxFaults

\* Requests that found nothing pending and may still add a row.
Cleared == {r \in Requests : pc[r] \in {"retrieve", "update", "insert"}}

\* The check and the insert are two calls with two calls of Stripe between
\* them: as many upgrades of one subscription may be PENDING as requests run at
\* once, and no more; one request at a time leaves at most one.
PendingBound == Cardinality(PendingRows) <= Cardinality(Requests)

\* Why: the rows that are PENDING and the requests that may still add one stay
\* within the bound together.
PendingOrCleared ==
    Cardinality(PendingRows) + Cardinality(Cleared) <= Cardinality(Requests)

\* A request that was resolved keeps its verdict, although handlers find a row
\* in one call and write it in another, and events of other requests, late or
\* repeated, find it too.
VerdictIsFinal ==
    [][\A i \in DOMAIN rows :
          rows[i].status # "PENDING" => rows'[i] = rows[i]]_vars

\* No event names the request it is about, so a handler takes the latest.  With
\* one request at a time, a customer who is not behind and no fault that is the
\* right one, in whatever order the events come and also when they overtake the
\* insert of the row: the verdict is what became of that request at Stripe.
VerdictIsTrue ==
    clean => \A i \in DOMAIN rows :
                /\ rows[i].status = "COMPLETED" =>
                      made[rows[i].update].outcome = "applied"
                /\ rows[i].status = "EXPIRED" =>
                      made[rows[i].update].outcome = "expired"
                /\ rows[i].status # "FAILED"

Applied == {i \in DOMAIN made : made[i].outcome = "applied"}
Completed == {i \in DOMAIN rows : rows[i].status = "COMPLETED"}

\* Whichever row it gets, an update that was applied completes one request, and
\* one more only for a handler that failed and was run again.
CompletedWereApplied == Cardinality(Completed) <= Cardinality(Applied) + faults

\* "Ya existe un upgrade pendiente para esta suscripcion"
\* (payments.service.ts:184): a request is refused only when Stripe has a
\* pending update, or an event or a request still has to say what became of it.
RefusedIsPending ==
    [][\A r \in Requests :
          pc[r] = "check" /\ pc'[r] = "idle" /\ faults' = faults
          => \/ pending # 0 \/ mail # {}
             \/ \E h \in Handlers : hpc[h] # "idle"
             \/ \E q \in Requests \ {r} : pc[q] # "idle"]_vars
=============================================================================
