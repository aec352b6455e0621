---------------------------- MODULE WebhookInbox ----------------------------
(* The inbox of Stripe webhook events: PaymentsService.handleWebhook and     *)
(* what it starts (src/payments/payments.service.ts).                        *)
(*                                                                           *)
(* A delivery is one POST of Stripe.  It claims the row of its event in      *)
(* StripeWebhookEvent, answers, and leaves the handler of the event running  *)
(* in the background.  Every awaited database call is one action, so that    *)
(* deliveries of the same event interleave as they do on the event loop.     *)
(* What the handlers do to the ledger is in SubscriptionLedger; here a       *)
(* handler either returns or throws.                                         *)
EXTENDS Naturals

CONSTANTS
    Events,      \* Stripe event ids
    Deliveries,  \* slots for requests (and their background jobs) in flight
    MaxOutages   \* bound: crashes and lost database replies in a behaviour

ASSUME MaxOutagesAssumption == MaxOutages \in Nat

VARIABLES
    status,   \* StripeWebhookEvent.status of each event, "absent" for no row
    http,     \* where the request of each delivery stands
    job,      \* where its background job stands
    ev,       \* the event of the last request of each delivery slot
    acked,    \* Stripe has had a 2xx answer for the event
    applied,  \* some handler of the event has returned normally
    outages   \* crashes and lost database replies so far

vars == <<status, http, job, ev, acked, applied, outages>>

Statuses == {"absent", "PROCESSING", "PROCESSED", "FAILED"}
HttpStates == {"idle", "insert", "lookup", "claim", "reply"}
JobStates == {"none", "dispatch", "markProcessed", "markFailed"}

\* A background job of this process still has the event in hand.
Working(e) == \E d \in Deliveries : job[d] # "none" /\ ev[d] = e

Init == /\ status = [e \in Events |-> "absent"]
        /\ http = [d \in Deliveries |-> "idle"]
        /\ job = [d \in Deliveries |-> "none"]
        /\ ev \in [Deliveries -> Events]
        /\ acked = [e \in Events |-> FALSE]
        /\ applied = [e \in Events |-> FALSE]
        /\ outages = 0

SetStatus(e, s) == status' = [status EXCEPT ![e] = s]
GoHttp(d, s) == http' = [http EXCEPT ![d] = s]
GoJob(d, s) == job' = [job EXCEPT ![d] = s]

\* A database call failed: either nothing was written, or the write was
\* committed and only its reply was lost.  The second is an outage.
FailedWrite(e, s) ==
    \/ UNCHANGED <<status, outages>>
    \/ /\ outages < MaxOutages
       /\ outages' = outages + 1
       /\ SetStatus(e, s)

-----------------------------------------------------------------------------
(* The request.                                                              *)

\* Stripe posts an event, for the first time or again (it delivers at least
\* once).  A bad signature is refused before anything is read or written.
Receive(d, e) == /\ http[d] = "idle"
                 /\ job[d] = "none"
                 /\ GoHttp(d, "insert")
                 /\ ev' = [ev EXCEPT ![d] = e]
                 /\ UNCHANGED <<status, job, acked, applied, outages>>

\* The claim holds: the job starts before the answer is sent.
Claimed(d) == /\ SetStatus(ev[d], "PROCESSING")
              /\ GoHttp(d, "reply")
              /\ GoJob(d, "dispatch")
              /\ UNCHANGED <<ev, acked, applied, outages>>

\* The claim is refused: the delivery is "already processed or in-flight".
Ignored(d) == /\ GoHttp(d, "reply")
              /\ UNCHANGED <<status, job, ev, acked, applied, outages>>

\* Mutant: create as an upsert, which claims the event whatever its row says.
InsertEventUpsert(d) == http[d] = "insert" /\ Claimed(d)

InsertEvent(d) == http[d] = "insert" /\ status[ev[d]] = "absent" /\ Claimed(d)

\* P2002: the row is there already.
InsertDuplicate(d) == /\ http[d] = "insert"
                      /\ status[ev[d]] # "absent"
                      /\ GoHttp(d, "lookup")
                      /\ UNCHANGED <<status, job, ev, acked, applied, outages>>

\* Mutant: any error of create is taken for a duplicate and answered with 200.
InsertErrorAnswered(d) ==
    /\ http[d] = "insert"
    /\ GoHttp(d, "reply")
    /\ UNCHANGED <<status, job, ev, acked, applied, outages>>

\* Any other error of create is rethrown and answers 500.
InsertError(d) ==
    /\ http[d] = "insert"
    /\ GoHttp(d, "idle")
    /\ FailedWrite(ev[d], IF status[ev[d]] = "absent" THEN "PROCESSING"
                                                      ELSE status[ev[d]])
    /\ UNCHANGED <<job, ev, acked, applied>>

LookupEvent(d) == /\ http[d] = "lookup"
                  /\ \/ /\ status[ev[d]] # "FAILED"
                        /\ Ignored(d)
                     \/ /\ status[ev[d]] = "FAILED"
                        /\ GoHttp(d, "claim")
                        /\ UNCHANGED <<status, job, ev, acked, applied, outages>>

LookupError(d) == /\ http[d] = "lookup"
                  /\ GoHttp(d, "idle")
                  /\ UNCHANGED <<status, job, ev, acked, applied, outages>>

\* Mutant: the update of the claim has no condition on the status.
ClaimRetryAlways(d) == http[d] = "claim" /\ Claimed(d)

\* updateMany where the status is still FAILED; count === 1 is the claim.
ClaimRetry(d) == /\ http[d] = "claim"
                 /\ \/ status[ev[d]] = "FAILED" /\ Claimed(d)
                    \/ status[ev[d]] # "FAILED" /\ Ignored(d)

ClaimError(d) ==
    /\ http[d] = "claim"
    /\ GoHttp(d, "idle")
    /\ FailedWrite(ev[d], IF status[ev[d]] = "FAILED" THEN "PROCESSING"
                                                      ELSE status[ev[d]])
    /\ UNCHANGED <<job, ev, acked, applied>>

\* The 200 reaches Stripe, or is lost on the way.
Reply(d) == /\ http[d] = "reply"
            /\ GoHttp(d, "idle")
            /\ \/ acked' = [acked EXCEPT ![ev[d]] = TRUE]
               \/ UNCHANGED acked
            /\ UNCHANGED <<status, job, ev, applied, outages>>

-----------------------------------------------------------------------------
(* The background job.                                                       *)

DispatchReturns(d) == /\ job[d] = "dispatch"
                      /\ GoJob(d, "markProcessed")
                      /\ applied' = [applied EXCEPT ![ev[d]] = TRUE]
                      /\ UNCHANGED <<status, http, ev, acked, outages>>

\* Mutant: the error is logged, and the event is PROCESSED all the same.
DispatchThrowsSwallowed(d) ==
    /\ job[d] = "dispatch"
    /\ GoJob(d, "markProcessed")
    /\ UNCHANGED <<status, http, ev, acked, applied, outages>>

\* Mutant: the error is logged, and the row is left as it is.
DispatchThrowsUnmarked(d) ==
    /\ job[d] = "dispatch"
    /\ GoJob(d, "none")
    /\ UNCHANGED <<status, http, ev, acked, applied, outages>>

DispatchThrows(d) == /\ job[d] = "dispatch"
                     /\ GoJob(d, "markFailed")
                     /\ UNCHANGED <<status, http, ev, acked, applied, outages>>

\* Mutant: the status of a payment instead of that of an event.
ProcessedMisnamed(s) == IF s = "PROCESSING" THEN "COMPLETED" ELSE s

\* What updateMany where PROCESSING leaves in the row.
ProcessedIfProcessing(s) == IF s = "PROCESSING" THEN "PROCESSED" ELSE s

MarkProcessed(d) == /\ job[d] = "markProcessed"
                    /\ SetStatus(ev[d], ProcessedIfProcessing(status[ev[d]]))
                    /\ GoJob(d, "none")
                    /\ UNCHANGED <<http, ev, acked, applied, outages>>

\* It is inside the try: its failure is taken for a failure of the handler.
MarkProcessedError(d) ==
    /\ job[d] = "markProcessed"
    /\ GoJob(d, "markFailed")
    /\ FailedWrite(ev[d], ProcessedIfProcessing(status[ev[d]]))
    /\ UNCHANGED <<http, ev, acked, applied>>

\* No condition on the status: the row is overwritten whatever it holds.
MarkFailed(d) == /\ job[d] = "markFailed"
                 /\ SetStatus(ev[d], "FAILED")
                 /\ GoJob(d, "none")
                 /\ UNCHANGED <<http, ev, acked, applied, outages>>

\* The process ends and a new one starts; nothing looks at the inbox then.
ProcessDies == /\ outages < MaxOutages
               /\ outages' = outages + 1
               /\ http' = [d \in Deliveries |-> "idle"]
               /\ job' = [d \in Deliveries |-> "none"]
               /\ UNCHANGED <<ev, acked, applied>>

\* It throws inside the catch of a promise nobody awaits: an unhandled
\* rejection, which ends the Node process.
MarkFailedError(d) == /\ job[d] = "markFailed"
                      /\ \/ UNCHANGED status
                         \/ SetStatus(ev[d], "FAILED")
                      /\ ProcessDies

Crash == ProcessDies /\ UNCHANGED status

-----------------------------------------------------------------------------
HttpStep(d) == \/ InsertEvent(d) \/ InsertDuplicate(d) \/ InsertError(d)
               \/ LookupEvent(d) \/ LookupError(d)
               \/ ClaimRetry(d) \/ ClaimError(d) \/ Reply(d)

JobStep(d) == \/ DispatchReturns(d) \/ DispatchThrows(d)
              \/ MarkProcessed(d) \/ MarkProcessedError(d)
              \/ MarkFailed(d) \/ MarkFailedError(d)

Next == \/ \E d \in Deliveries : \/ \E e \in Events : Receive(d, e)
                                 \/ HttpStep(d)
                                 \/ JobStep(d)
        \/ Crash

\* Promises settle: a job takes its next step unless the process dies.
Fairness == \A d \in Deliveries : WF_vars(JobStep(d))

Spec == Init /\ [][Next]_vars
FairSpec == Spec /\ Fairness

-----------------------------------------------------------------------------
(* Properties.                                                               *)

\* Every variable has its type.
TypeOK == /\ status \in [Events -> Statuses]
          /\ http \in [Deliveries -> HttpStates]
          /\ job \in [Deliveries -> JobStates]
          /\ ev \in [Deliveries -> Events]
          /\ acked \in [Events -> BOOLEAN]
          /\ applied \in [Events -> BOOLEAN]
          /\ outages \in 0..MaxOutages

\* However many times Stripe delivers an event, at once or after a failure,
\* two background jobs never handle it at the same time: the unique key on
\* eventId and the conditional update decide the claim.
OneHandlerPerEvent ==
    \A d1, d2 \in Deliveries :
        job[d1] # "none" /\ job[d2] # "none" /\ ev[d1] = ev[d2] => d1 = d2

\* A row that says PROCESSED is never wrong: some handler of that event ran to
\* its end, however the marks, the retries and the outages interleaved.
ProcessedWasApplied ==
    \A e \in Events : status[e] = "PROCESSED" => applied[e]

\* Stripe is only told 200 of an event the inbox holds, so that an event that
\* Stripe will not send again has left a trace.
AckedIsRecorded == \A e \in Events : acked[e] => status[e] # "absent"

\* What a job in hand says of the row of its event: only the job that owns the
\* row writes it, so a claim cannot be taken over.
JobOwnsRow ==
    \A d \in Deliveries :
        /\ job[d] \in {"dispatch", "markProcessed"}
              => status[ev[d]] = "PROCESSING"
        /\ job[d] = "markFailed" => status[ev[d]] \in {"PROCESSING", "PROCESSED"}
        /\ job[d] = "markProcessed" => applied[ev[d]]

\* Past the insert the row exists.
RowExists ==
    \A d \in Deliveries :
        http[d] \in {"lookup", "claim", "reply"} => status[ev[d]] # "absent"

\* A slot whose request has not been decided has no job: its event may change.
JobFollowsClaim ==
    \A d \in Deliveries :
        http[d] \in {"insert", "lookup", "claim"} => job[d] = "none"

\* The inductive invariant: the safety properties, and what they rest on.
InboxInv == /\ TypeOK
            /\ OneHandlerPerEvent
            /\ JobOwnsRow
            /\ RowExists
            /\ JobFollowsClaim
            /\ ProcessedWasApplied
            /\ AckedIsRecorded

\* Once an event is PROCESSED and its job is over no later delivery reopens
\* it, not even one that read the row when it was FAILED.
SettledStaysSettled ==
    [][\A e \in Events : status[e] = "PROCESSED" /\ ~Working(e)
                            => status'[e] = "PROCESSED" /\ ~Working(e)']_vars

\* The step in which a delivery is refused the claim.
Refused(d) == /\ http[d] \in {"lookup", "claim"}
              /\ http'[d] = "reply"
              /\ job'[d] = "none"

\* As long as there was no outage, a delivery that is ignored is one whose
\* event is processed or has a job in hand: none is dropped.
IgnoredIsInGoodHands ==
    [][\A d \in Deliveries :
          Refused(d) /\ outages = 0
             => status[ev[d]] = "PROCESSED" \/ Working(ev[d])]_vars

\* What the message of handleWebhook says of every ignored delivery, outages
\* or not: "already processed or in-flight" (payments.service.ts:372).
IgnoredIsProcessedOrInFlight ==
    [][\A d \in Deliveries :
          Refused(d) => status[ev[d]] = "PROCESSED" \/ Working(ev[d])]_vars

\* A claimed event gets a verdict, PROCESSED or FAILED, unless an outage
\* comes first.
ClaimEndsInVerdict ==
    \A e \in Events, n \in 0..MaxOutages :
        (Working(e) /\ outages = n)
            ~> (status[e] \in {"PROCESSED", "FAILED"} \/ outages > n)

-----------------------------------------------------------------------------
(* The promise the inbox keeps, as one phase per event.                      *)

Phase == [e \in Events |->
            IF Working(e) THEN "running"
            ELSE IF status[e] = "absent" THEN "unseen"
            ELSE IF status[e] = "PROCESSED" THEN "handled"
            ELSE IF status[e] = "FAILED" THEN "failed"
            ELSE "stranded"]

Lifecycle == INSTANCE EventLifecycle WITH phase <- Phase

\* The inbox implements the lifecycle of EventLifecycle.
ImplementsLifecycle == Lifecycle!Spec
=============================================================================
