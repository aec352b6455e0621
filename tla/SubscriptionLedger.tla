------------------------- MODULE SubscriptionLedger -------------------------
(* The ledger of subscriptions and payments, and the flag on the user that   *)
(* is derived from it.  Its writers are the webhook handlers of              *)
(* PaymentsService and the admin operations and the daily cron of            *)
(* UsersService (src/payments/payments.service.ts, src/users/users.service). *)
(*                                                                           *)
(* A worker is one handler in flight.  Each awaited database or Stripe call  *)
(* is an action.  The transactions run at READ COMMITTED, the default of the *)
(* database: a statement sees what is committed when it runs, the rows it    *)
(* updates stay locked until the commit, and another writer of them waits.   *)
EXTENDS StripeBilling, FiniteSets, SequencesExt

CONSTANTS
    Users,
    Grants,    \* slots for manual subscriptions, rows without externalId
    Owner,     \* the user of each row: metadata.user_id of the subscription
    Named,     \* the kinds of events whose metadata names the user
    GrantTime, \* the lengths of a manual subscription
    Dated,     \* subscriptions carry current_period_end; in the API versions
               \* that have what handleInvoicePaid reads they do not
    Fallback,  \* THIRTY_DAYS_IN_MILLISECONDS, the period of one that does not
    Workers,   \* handlers that may run at the same time
    InOrder,   \* events are delivered in the order they were emitted
    MaxFaults  \* bound: calls that fail and crashes of the process

Rows == Subs \cup Grants
Webhooks == {"paid", "failed", "updated", "deleted"}

ASSUME LedgerAssumption == /\ Subs \cap Grants = {}
                           /\ IsFiniteSet(Subs) /\ IsFiniteSet(Grants)
                           /\ Owner \in [Rows -> Users]
                           /\ Named \subseteq Webhooks
                           /\ GrantTime \subseteq Nat \ {0}
                           /\ Dated \in BOOLEAN
                           /\ Fallback \in Nat
                           /\ InOrder \in BOOLEAN
                           /\ MaxFaults \in Nat

VARIABLES
    status,   \* Subscription.status, "absent" for no row
    end,      \* Subscription.currentPeriodEnd
    payment,  \* Payment.status by subscription and invoice number
    access,   \* User.subscriptionEnd, 0 for null; subscriptionActive is # 0
    pc,       \* the next call of each worker
    job,      \* the event or the request it serves
    held,     \* rows its transaction has set to EXPIRED and not committed
    todo,     \* what its loop has left: subscriptions to cancel, users to sync
    seen,     \* the user and the period end its sync has read
    clean,    \* no handler has been cut short so far
    faults    \* calls that failed and crashes so far

tables == <<status, end, payment>>
local == <<job, held, todo, seen>>
luck == <<clean, faults>>
vars == <<billing, tables, access, pc, local, luck>>

Statuses == {"ACTIVE", "CANCELED", "EXPIRED", "PAST_DUE"}
Current == {"ACTIVE", "PAST_DUE"}

NoJob == [kind |-> "none"]
NoRead == [end |-> 0]

Init == /\ BillingInit
        /\ status = [r \in Rows |-> "absent"]
        /\ end = [r \in Rows |-> 0]
        /\ payment = [i \in Subs \X (1..MaxInvoices) |-> "absent"]
        /\ access = [u \in Users |-> 0]
        /\ pc = [w \in Workers |-> "idle"]
        /\ job = [w \in Workers |-> NoJob]
        /\ held = [w \in Workers |-> {}]
        /\ todo = [w \in Workers |-> {}]
        /\ seen = [w \in Workers |-> NoRead]
        /\ clean = TRUE
        /\ faults = 0

RowsOf(u) == {r \in Rows : Owner[r] = u}

\* Mutant: a status of Stripe that has no name of its own here is kept.
MapStatusPartial(st) ==
    CASE st \in {"active", "trialing"} -> "ACTIVE"
      [] st \in {"past_due", "incomplete"} -> "PAST_DUE"
      [] st = "canceled" -> "CANCELED"
      [] OTHER -> st

\* mapStripeSubscriptionStatus
MapStatus(st) ==
    CASE st \in {"active", "trialing"} -> "ACTIVE"
      [] st \in {"past_due", "incomplete", "unpaid", "paused"} -> "PAST_DUE"
      [] st = "canceled" -> "CANCELED"
      [] st = "incomplete_expired" -> "EXPIRED"

\* The later period end of the subscriptions of u that are ACTIVE and not over.
LatestEnd(u) ==
    LET ends == {end[r] : r \in {q \in RowsOf(u) :
                                    status[q] = "ACTIVE" /\ end[q] > now}}
    IN  IF ends = {} THEN 0 ELSE CHOOSE e \in ends : \A f \in ends : f <= e

Goto(w, p) == pc' = [pc EXCEPT ![w] = p]

Finish(w) == /\ pc' = [pc EXCEPT ![w] = "idle"]
             /\ job' = [job EXCEPT ![w] = NoJob]
             /\ held' = [held EXCEPT ![w] = {}]
             /\ todo' = [todo EXCEPT ![w] = {}]
             /\ seen' = [seen EXCEPT ![w] = NoRead]

\* Every handler ends in syncUserSubscriptionActivity of these users.
GotoSync(w, users) == /\ Goto(w, "syncRead")
                      /\ todo' = [todo EXCEPT ![w] = users]

-----------------------------------------------------------------------------
(* Webhook handlers.                                                         *)

\* createCheckoutSession looks at the ledger; the customer pays later, or not.
CreateCheckoutSession(s) ==
    /\ bill[s].st = "none"
    /\ LatestEnd(Owner[s]) = 0
    /\ bill' = [bill EXCEPT ![s].st = "session"]
    /\ UNCHANGED <<now, mail, tables, access, pc, local, luck>>

\* The first call of each handler.
FirstStep(e) == CASE e.kind = "paid" -> "check"
                  [] e.kind = "failed" -> "record"
                  [] e.kind = "updated" /\ MapStatus(e.st) = "ACTIVE" -> "expire"
                  [] e.kind = "updated" /\ MapStatus(e.st) # "ACTIVE" -> "find"
                  [] e.kind = "deleted" -> "mark"

\* The user of an event is the one the metadata names, or the owner of the row.
Known(e) == e.kind \in Named \/ status[e.row] # "absent"

\* A handler starts; an event without a user is skipped.
Take(w, i) ==
    /\ pc[w] = "idle"
    /\ i \in 1..Len(mail)
    /\ InOrder => i = 1
    /\ mail' = RemoveAt(mail, i)
    /\ LET e == mail[i]
       IN  \/ Known(e) /\ Goto(w, FirstStep(e)) /\ job' = [job EXCEPT ![w] = e]
           \/ ~Known(e) /\ UNCHANGED <<pc, job>>
    /\ UNCHANGED <<now, bill, tables, access, held, todo, seen, luck>>

Invoice(w) == <<job[w].row, job[w].n>>

\* Mutant: the payment is written before the transaction, not in it.
CheckPaymentEagerly(w) ==
    /\ pc[w] = "check"
    /\ payment[Invoice(w)] = "absent"
    /\ payment' = [payment EXCEPT ![Invoice(w)] = "COMPLETED"]
    /\ Goto(w, "expire")
    /\ UNCHANGED <<billing, status, end, access, local, luck>>

\* invoice.paid: an invoice that has a payment of any status is a duplicate.
CheckPayment(w) ==
    /\ pc[w] = "check"
    /\ \/ payment[Invoice(w)] = "absent" /\ Goto(w, "expire") /\ UNCHANGED todo
       \/ payment[Invoice(w)] # "absent" /\ GotoSync(w, {Owner[job[w].row]})
    /\ UNCHANGED <<billing, tables, access, job, held, seen, luck>>

\* What a handler expires beside row r.  A condition on externalId is never
\* true of a manual subscription, which has none: invoice.paid expires every
\* other Stripe subscription ...
PaidReplaces(r) == {q \in (RowsOf(Owner[r]) \cap Subs) \ {r} : status[q] # "absent"}

\* Mutant: only a paid invoice expires the other subscriptions.
UpdatedReplacesNone(r) == {}

\* ... customer.subscription.updated those that are current ...
UpdatedReplaces(r) ==
    {q \in (RowsOf(Owner[r]) \cap Subs) \ {r} : status[q] \in Current}

\* ... and a grant whatever is current.
GrantReplaces(r) == {q \in RowsOf(Owner[r]) : status[q] \in Current}

Replaced(w) == CASE job[w].kind = "paid" -> PaidReplaces(job[w].row)
                 [] job[w].kind = "updated" -> UpdatedReplaces(job[w].row)
                 [] job[w].kind = "grant" -> GrantReplaces(job[w].row)

\* Manual subscriptions that are over at time t and still ACTIVE.
Overdue(t) == {g \in Grants : status[g] = "ACTIVE" /\ end[g] <= t}

CurrentOf(u) == {r \in RowsOf(u) : status[r] \in Current}

\* The rows that the next statement of w updates.
Target(w) == CASE pc[w] = "expire" -> Replaced(w)
               [] pc[w] \in {"create", "update", "mark"} -> {job[w].row}
               [] pc[w] = "cancelRows" -> CurrentOf(job[w].user)
               [] pc[w] = "expireManual" -> Overdue(job[w].end)
               [] OTHER -> {}

WaitsFor(w, v) == w # v /\ Target(w) \cap held[v] # {}
Unlocked(w) == \A v \in Workers : ~WaitsFor(w, v)

ExpireOthers(w) ==
    /\ pc[w] = "expire"
    /\ Unlocked(w)
    /\ held' = [held EXCEPT ![w] = Replaced(w)]
    /\ Goto(w, IF job[w].kind = "grant" THEN "create" ELSE "find")
    /\ UNCHANGED <<billing, tables, access, job, todo, seen, luck>>

FindOwn(w) ==
    /\ pc[w] = "find"
    /\ Goto(w, IF status[job[w].row] = "absent" THEN "create" ELSE "update")
    /\ UNCHANGED <<billing, tables, access, local, luck>>

\* A unique key refuses the row of the subscription or of the payment.
Conflict(w) ==
    \/ pc[w] = "create" /\ status[job[w].row] # "absent"
    \/ job[w].kind = "paid" /\ payment[Invoice(w)] # "absent"

\* The row of the event is written and the transaction commits.
Commit(w, st, e) ==
    LET r == job[w].row IN
    /\ pc[w] \in {"create", "update"}
    /\ Unlocked(w)
    /\ ~Conflict(w)
    /\ status' = [q \in Rows |-> IF q = r THEN st
                                ELSE IF q \in held[w] THEN "EXPIRED" ELSE status[q]]
    /\ end' = [end EXCEPT ![r] = e]
    /\ held' = [held EXCEPT ![w] = {}]
    /\ GotoSync(w, {Owner[r]})
    /\ UNCHANGED <<billing, access, job, seen, luck>>

\* Mutant: a paid invoice adds a period to the row instead of naming its own.
WritePaidExtends(w) ==
    /\ job[w].kind = "paid"
    /\ Commit(w, "ACTIVE", end[job[w].row] + Period)
    /\ payment' = [payment EXCEPT ![Invoice(w)] = "COMPLETED"]

\* The payment is written in the same transaction.
WritePaid(w) ==
    /\ job[w].kind = "paid"
    /\ Commit(w, "ACTIVE", job[w].end)
    /\ payment' = [payment EXCEPT ![Invoice(w)] = "COMPLETED"]

\* Mutant: the default is added to what the row has.
SubscriptionPeriodExtends(w) == IF Dated THEN job[w].end
                                ELSE LET e == end[job[w].row]
                                     IN  (IF e > now THEN e ELSE now) + Fallback

\* The end of the period of a subscription, or the default.
SubscriptionPeriod(w) == IF Dated THEN job[w].end ELSE now + Fallback

WriteUpdated(w) ==
    /\ job[w].kind = "updated"
    /\ Commit(w, MapStatus(job[w].st), SubscriptionPeriod(w))
    /\ UNCHANGED payment

WriteGranted(w) ==
    /\ job[w].kind = "grant"
    /\ Commit(w, "ACTIVE", job[w].end)
    /\ UNCHANGED payment

\* invoice.payment_failed: upsert of the payment, with no transaction around it
\* and the update that follows.
RecordFailure(w) ==
    /\ pc[w] = "record"
    /\ payment' = [payment EXCEPT ![Invoice(w)] = "FAILED"]
    /\ Goto(w, "mark")
    /\ UNCHANGED <<billing, status, end, access, local, luck>>

\* updateMany of the event's own row, whatever its status; none is no error.
Mark(w, kind, st) ==
    LET r == job[w].row IN
    /\ pc[w] = "mark"
    /\ job[w].kind = kind
    /\ Unlocked(w)
    /\ status' = [status EXCEPT ![r] = IF @ = "absent" THEN @ ELSE st]
    /\ UNCHANGED <<billing, end, payment, access, luck>>

\* The second write of invoice.payment_failed.
MarkPastDue(w) == /\ Mark(w, "failed", "PAST_DUE")
                  /\ GotoSync(w, {Owner[job[w].row]})
                  /\ UNCHANGED <<job, held, seen>>

\* Mutant: the handler ends without a sync.
MarkCanceledUnsynced(w) == Mark(w, "deleted", "CANCELED") /\ Finish(w)

\* Mutant: a subscription that was deleted at Stripe is EXPIRED.
MarkCanceledAsExpired(w) == /\ Mark(w, "deleted", "EXPIRED")
                            /\ GotoSync(w, {Owner[job[w].row]})
                            /\ UNCHANGED <<job, held, seen>>

\* customer.subscription.deleted; the end of the period stays.
MarkCanceled(w) == /\ Mark(w, "deleted", "CANCELED")
                   /\ GotoSync(w, {Owner[job[w].row]})
                   /\ UNCHANGED <<job, held, seen>>

-----------------------------------------------------------------------------
(* syncUserSubscriptionActivity: a read, then a write.                       *)

SyncRead(w) ==
    /\ pc[w] = "syncRead"
    /\ \E u \in todo[w] :
          /\ seen' = [seen EXCEPT ![w] = [user |-> u, end |-> LatestEnd(u)]]
          /\ todo' = [todo EXCEPT ![w] = @ \ {u}]
    /\ Goto(w, "syncWrite")
    /\ UNCHANGED <<billing, tables, access, job, held, luck>>

SyncWrite(w) ==
    /\ pc[w] = "syncWrite"
    /\ access' = [access EXCEPT ![seen[w].user] = seen[w].end]
    /\ \/ todo[w] # {} /\ Goto(w, "syncRead") /\ UNCHANGED local
       \/ todo[w] = {} /\ Finish(w)
    /\ UNCHANGED <<billing, tables, luck>>

-----------------------------------------------------------------------------
(* Admin operations and the daily cron.                                      *)

\* Mutant: the grant is made without a look at the subscriptions.
StartGrantUnchecked(w, g, months) ==
    /\ pc[w] = "idle"
    /\ status[g] = "absent"
    /\ \A v \in Workers : job[v].kind = "grant" => job[v].row # g
    /\ job' = [job EXCEPT ![w] = [kind |-> "grant", row |-> g, end |-> now + months]]
    /\ Goto(w, "expire")
    /\ UNCHANGED <<billing, tables, access, held, todo, seen, luck>>

\* grantManualSubscription: refused when the user has a current Stripe
\* subscription; the check is outside the transaction.
StartGrant(w, g, months) ==
    /\ pc[w] = "idle"
    /\ status[g] = "absent"
    /\ \A v \in Workers : job[v].kind = "grant" => job[v].row # g
    /\ \A s \in RowsOf(Owner[g]) \cap Subs : status[s] \notin Current
    /\ job' = [job EXCEPT ![w] = [kind |-> "grant", row |-> g, end |-> now + months]]
    /\ Goto(w, "expire")
    /\ UNCHANGED <<billing, tables, access, held, todo, seen, luck>>

\* cancelSubscriptionAsAdmin reads the current subscriptions ...
StartCancel(w, u) ==
    LET current == {r \in RowsOf(u) \cap Subs : status[r] \in Current} IN
    /\ pc[w] = "idle"
    /\ job' = [job EXCEPT ![w] = [kind |-> "cancel", user |-> u]]
    /\ todo' = [todo EXCEPT ![w] = current]
    /\ Goto(w, IF current = {} THEN "cancelRows" ELSE "cancelAtStripe")
    /\ UNCHANGED <<billing, tables, access, held, seen, luck>>

\* ... ends those of Stripe there, one by one; ending one that has ended
\* throws ...
CancelAtStripe(w) ==
    /\ pc[w] = "cancelAtStripe"
    /\ \E s \in todo[w] :
          \/ /\ EndAtStripe(s)
             /\ todo' = [todo EXCEPT ![w] = @ \ {s}]
             /\ IF todo[w] = {s} THEN Goto(w, "cancelRows") ELSE UNCHANGED pc
             /\ UNCHANGED <<job, held, seen>>
          \/ /\ bill[s].st \notin Live
             /\ Finish(w)
             /\ UNCHANGED <<bill, mail>>
    /\ UNCHANGED <<now, tables, access, luck>>

\* ... and then cancels whatever is current at that time.
CancelRows(w) ==
    LET u == job[w].user
        rows == CurrentOf(u) IN
    /\ pc[w] = "cancelRows"
    /\ Unlocked(w)
    /\ status' = [r \in Rows |-> IF r \in rows THEN "CANCELED" ELSE status[r]]
    /\ end' = [r \in Rows |-> IF r \in rows THEN now ELSE end[r]]
    /\ GotoSync(w, {u})
    /\ UNCHANGED <<billing, payment, access, job, held, seen, luck>>

\* expireManualSubscriptionsDaily: nothing to do, or the users to sync later.
StartCron(w) ==
    /\ pc[w] = "idle"
    /\ Overdue(now) # {}
    /\ job' = [job EXCEPT ![w] = [kind |-> "cron", end |-> now]]
    /\ todo' = [todo EXCEPT ![w] = {Owner[g] : g \in Overdue(now)}]
    /\ Goto(w, "expireManual")
    /\ UNCHANGED <<billing, tables, access, held, seen, luck>>

ExpireManual(w) ==
    LET rows == Overdue(job[w].end) IN
    /\ pc[w] = "expireManual"
    /\ Unlocked(w)
    /\ status' = [r \in Rows |-> IF r \in rows THEN "EXPIRED" ELSE status[r]]
    /\ GotoSync(w, todo[w])
    /\ UNCHANGED <<billing, end, payment, access, job, held, seen, luck>>

-----------------------------------------------------------------------------
(* Failures.                                                                 *)

\* Mutant: nothing looks for transactions that wait for each other.
DeadlockedUnseen(w) == FALSE

\* Two transactions wait for each other: the database aborts one of them.
Deadlocked(w) == \E v \in Workers : WaitsFor(w, v) /\ WaitsFor(v, w)

\* A call fails, or may.
CallFails(w) == \/ faults < MaxFaults /\ faults' = faults + 1
                \/ /\ pc[w] \in {"create", "update"} /\ Unlocked(w) /\ Conflict(w)
                   /\ UNCHANGED faults
                \/ Deadlocked(w) /\ UNCHANGED faults

\* The transaction is rolled back, what was committed stays.  A webhook event
\* is FAILED then: lost, or delivered and handled once more.
Throw(w) ==
    /\ pc[w] # "idle"
    /\ CallFails(w)
    /\ Finish(w)
    /\ \/ UNCHANGED mail
       \/ job[w].kind \in Webhooks /\ mail' = Append(mail, job[w])
    /\ clean' = FALSE
    /\ UNCHANGED <<now, bill, tables, access>>

\* The process dies with every handler in flight; their events are stranded.
Crash ==
    /\ faults < MaxFaults
    /\ faults' = faults + 1
    /\ pc' = [w \in Workers |-> "idle"]
    /\ job' = [w \in Workers |-> NoJob]
    /\ held' = [w \in Workers |-> {}]
    /\ todo' = [w \in Workers |-> {}]
    /\ seen' = [w \in Workers |-> NoRead]
    /\ clean' = FALSE
    /\ UNCHANGED <<billing, tables, access>>

Handle(w) == \/ CheckPayment(w) \/ ExpireOthers(w) \/ FindOwn(w)
             \/ WritePaid(w) \/ WriteUpdated(w) \/ WriteGranted(w)
             \/ RecordFailure(w) \/ MarkPastDue(w) \/ MarkCanceled(w)
             \/ SyncRead(w) \/ SyncWrite(w)
             \/ CancelAtStripe(w) \/ CancelRows(w) \/ ExpireManual(w)

Start(w) == \/ \E i \in 1..Len(mail) : Take(w, i)
            \/ \E g \in Grants, m \in GrantTime : StartGrant(w, g, m)
            \/ \E u \in Users : StartCancel(w, u)
            \/ StartCron(w)

Next == \/ BillingNext /\ UNCHANGED <<tables, access, pc, local, luck>>
        \/ \E s \in Subs : CreateCheckoutSession(s)
        \/ \E w \in Workers : Start(w) \/ Handle(w) \/ Throw(w)
        \/ Crash

Spec == Init /\ [][Next]_vars

\* A promise settles: the next call of a handler returns or throws.  A statement
\* whose rows are free again and again is not passed over for ever, for the
\* database grants a row lock in the order it was asked for.
FairSpec == Spec /\ \A w \in Workers : SF_vars(Handle(w) \/ Throw(w))

-----------------------------------------------------------------------------
(* Properties.                                                               *)

\* Every variable has its type.
TypeOK == /\ now \in 0..MaxTime
          /\ status \in [Rows -> Statuses \cup {"absent"}]
          /\ end \in [Rows -> Nat]
          /\ payment \in [Subs \X (1..MaxInvoices) -> {"absent", "COMPLETED", "FAILED"}]
          /\ access \in [Users -> Nat]
          /\ \A w \in Workers : /\ held[w] \subseteq Rows
                                /\ todo[w] \subseteq Users \cup Subs
                                /\ seen[w] \in [user : Users, end : Nat] \cup {NoRead}
                                /\ (pc[w] = "idle") = (job[w] = NoJob)
          /\ clean \in BOOLEAN
          /\ faults \in 0..MaxFaults

\* The payment of an invoice and the subscription it pays for are written
\* together: a COMPLETED payment is never without its subscription.
PaidHasSubscription ==
    \A s \in Subs, n \in 1..MaxInvoices :
        payment[<<s, n>>] = "COMPLETED" => status[s] # "absent"

\* What a period that ends at e rests on: a payment, or the period that Stripe
\* has begun and not collected yet; without a date in the event, a payment, or
\* the thirty days that a handler gives from the moment it runs.
Covered(s, e) == \/ e <= bill[s].paid
                 \/ Dated /\ e <= bill[s].paid + Period
                 \/ ~Dated /\ e <= now + Fallback

\* Whatever the order of the events, the races, the retries and the failures,
\* credit does not add up: an ACTIVE Stripe subscription never runs further
\* than one such step beyond what Stripe was paid for.
ActiveIsCovered ==
    \A s \in Subs : status[s] = "ACTIVE" => Covered(s, end[s])

\* Nor does the user's flag, which a late sync may write long after its read.
AccessIsCovered ==
    \A u \in Users :
        (\A g \in RowsOf(u) \cap Grants : status[g] = "absent")
            => \/ access[u] = 0
               \/ \E s \in RowsOf(u) \cap Subs : Covered(s, access[u])

\* One handler at a time, in any order and with any failures: a user never has
\* two ACTIVE Stripe subscriptions, however many were bought.
OneActiveStripe ==
    \A r, s \in Subs : Owner[r] = Owner[s] /\ status[r] = "ACTIVE"
                         /\ status[s] = "ACTIVE" => r = s

Quiet == clean /\ \A w \in Workers : pc[w] = "idle"

\* When nothing runs and nothing failed, subscriptionEnd is the end of the
\* user's access: as long as it lies ahead it is the end of the latest ACTIVE
\* subscription, and when it does not there is none ("Fecha en que vence el
\* acceso", schema.prisma:86).
SubscriptionEndIsEndOfAccess ==
    Quiet => \A u \in Users :
                LatestEnd(u) = IF access[u] > now THEN access[u] ELSE 0

\* With the events in order, a user's only subscription ends up as it stands
\* at Stripe once all events are handled.
LedgerFollowsStripe ==
    Quiet /\ mail = <<>> =>
        \A s \in Subs :
            RowsOf(Owner[s]) = {s} /\ bill[s].st \in Live \cup {"canceled"}
                => status[s] = MapStatus(bill[s].st)

\* A manual subscription never replaces a current Stripe subscription: "No se
\* puede otorgar una suscripcion manual si existe una suscripcion Stripe
\* activa" (users.service.ts:261).
GrantSparesStripe ==
    [][\A g \in Grants : status[g] = "absent" /\ status'[g] = "ACTIVE"
          => \A s \in RowsOf(Owner[g]) \cap Subs : status[s] \notin Current]_vars

\* An invoice.paid that is ignored as "duplicated" was recorded as paid
\* (payments.service.ts:598).
DuplicateIsPaid ==
    [][\A w \in Workers : pc[w] = "check" /\ pc'[w] = "syncRead"
          => payment[Invoice(w)] = "COMPLETED"]_vars

\* A subscription that ended at Stripe is not ACTIVE once all of its events are
\* handled, in whatever order they came: "CANCELED = Stripe la cancelo
\* explicitamente (customer.subscription.deleted)" (schema.prisma:38).
EndedAtStripeIsNotActive ==
    Quiet /\ mail = <<>> =>
        \A s \in Subs : bill[s].st = "canceled" => status[s] # "ACTIVE"

\* Every handler comes to its end: no lock is kept by a transaction that is
\* over, and of two that wait for each other one is let go.
HandlersFinish == \A w \in Workers : pc[w] # "idle" ~> pc[w] = "idle"
=============================================================================
