# Verification of djonly-server

djonly-server is the NestJS backend of a shop of video downloads: users register and subscribe through Stripe (or are
given a subscription by an administrator), and as long as they have one they download videos, a few times each month;
administrators keep the catalogue, and a worker cuts previews of the videos. This directory holds TLA+ models of what
changes state in it, the TLC configurations that check them, and proofs checked by TLAPS.
Paths below are relative to the repository; `payments.service.ts` stands for `src/payments/payments.service.ts`, and
so on.

## The system

One Node process (possibly several) serves HTTP, runs a cron, and works a BullMQ queue. State is in PostgreSQL
(through Prisma), in Redis (cache and queue) and in two buckets of Cloudflare R2. There is no lock anywhere in the
code: what protects it are unique keys, conditional updates, and transactions at READ COMMITTED. No transaction spans
two stores.

| Component | State | Operations | Interacts with | What is hard | Correct when | Modelled |
|---|---|---|---|---|---|---|
| Webhook inbox (`payments.service.ts` 361-519) | `StripeWebhookEvent` | claim, answer, dispatch in the background, mark | Stripe (at least once), the handlers | concurrent deliveries, crashes, lost replies, unhandled rejections | one handler per event; PROCESSED and 200 tell the truth; settled events stay settled | `WebhookInbox` |
| Ledger: webhook handlers (`payments.service.ts` 555-925, 1298-1324) | `Subscription`, `Payment`, `User.subscriptionActive/End` | invoice.paid, payment_failed, subscription.updated, deleted, sync | Stripe's events, admin operations | events in any order, handlers at the same time, row locks and deadlocks, failure between two calls | access reaches at most one step beyond what was paid; one active Stripe subscription; the flag agrees with the rows | `SubscriptionLedger` |
| Ledger: admin and cron (`users.service.ts` 235-332, 654-691, 808-834) | the same | grant, cancel, daily expiry | Stripe (cancel), webhook handlers | check outside the transaction, one Stripe call of several failing | a grant spares Stripe's subscriptions; the flag agrees with the rows | `SubscriptionLedger` |
| Stripe (`stripe/stripe.service.ts`) | subscriptions, invoices, pending updates, events | external | all of the above | order and number of deliveries | - | `StripeBilling`, `UpgradeRequests` |
| Upgrade requests (`payments.service.ts` 138-212, 827-899, 1017-1085) | `UpgradeRequest` | request, applied, expired, failed | Stripe, inbox | check-then-insert around a call of Stripe; events that do not name their request, and overtake its row | the verdict is the right one and final; pending ones are bounded | `UpgradeRequests` |
| Download quota (`videos.service.ts` 533-668, 822-866) | `DownloadHistory`, URL cache in Redis | generateVideoDownloadUrl | ledger (window), R2 (signature) | count-then-insert race, captured `now`, partial failure | the limit, one URL per row, cached URLs open | `DownloadQuota` |
| Monthly windows (`videos.service.ts` 674-686, 868-898) | - | addMonthsToDate, resolveCurrentMonthWindow | quota, history | ends of months | windows tile the period, and are as many as its months | `MonthWindow` |
| Video pipeline (`videos.service.ts` 350-495, `video-processing/`, `scripts/reprocess-all-videos.ts`) | `Video`, queue, buckets | create, process, reprocess, delete | R2, ffmpeg, BullMQ | three stores, retries, two jobs of a video, deletes under a job, crash between row and job | no video is processing without a job; at rest it has a preview or a reason | `VideoPipeline` |
| Catalogue (`videos.service.ts` 350-367, 497-531, 753-804, `genres/`) | `Video.title`, `Genre` | create, update, delete of videos and genres | - | check-then-write, updates that write back what they read | titles are unique, up to the requests in flight; genres are what the keys say | `Catalogue` |
| Auth (`auth/`), Users (`users.service.ts` 643-712) | `User`, `AuthToken` | register, confirm, request and use a reset; login | mail | two calls to replace a link, two to use one; mail failing | a link is used once, up to the requests in flight; a user can confirm | `AuthTokens`, login no |
| Uploads (`uploads/`) | multipart uploads in R2 | create, sign, complete, abort, cleanup | R2 | cleanup against a live upload | only abandoned uploads are aborted | no: the state is R2's |
| Listings, statistics, mail, support, seeds, configuration, generated client | - | read-only, formatting, wiring | - | - | - | no: no state that changes over time |

The hazards of this code, each at its line and with the properties that watch it, are in `PROJECT.json`.

## Modules

Constants of a model are declared with named assumptions in its module, the values for TLC are in the `.cfg` files and
the `MC*` modules, and the proofs of a component are in a module of their own. Definitions whose comment begins with
*Mutant* are not part of a model: each is a plausible slip in the definition that follows it, and the property it is
paired with in `PROJECT.json` must fail when it takes that definition's place.

| Part | Model | Instances | Proofs |
|---|---|---|---|
| Webhook inbox | `WebhookInbox`, implements `EventLifecycle` | `MCWebhookInbox` | `WebhookInboxProofs` |
| Ledger | `SubscriptionLedger` on `StripeBilling` | `MCSubscriptionLedger` | `SubscriptionLedgerProofs` |
| Upgrades | `UpgradeRequests` | `MCUpgradeRequests` | `UpgradeRequestsProofs` |
| Downloads | `DownloadQuota`, `MonthWindow` | `MCDownloadQuota` (both) | `DownloadQuotaProofs`, `MonthWindowProofs` |
| Videos | `VideoPipeline`, `Catalogue` | `MCVideoPipeline`, `MCCatalogue` | `VideoPipelineProofs`, `CatalogueProofs` |
| Accounts | `AuthTokens` | `MCAuthTokens` | `AuthTokensProofs` |

In all of them an awaited call is an action: what other requests do between two calls of one is what the models are
about. A call that fails may have had no effect, or its effect may be committed and only the reply lost. Where a model
has *history variables*, which the program does not have, they exist for the properties alone: `lost`, `clean`,
`failed`, `uses`, `alone` below.

### EventLifecycle, WebhookInbox

`WebhookInbox` is `handleWebhook` and the job it starts, one action per awaited database call. A *delivery* is one POST
of Stripe: `http` says where its request stands (`insert`, `lookup`, `claim`, `reply`), `job` where its background job
does (`dispatch`, `markProcessed`, `markFailed`), `status` is the row of the event. The unique key on `eventId` is the
condition that tells `InsertEvent` from `InsertDuplicate`; the conditional `updateMany` is `ClaimRetry`; the update of
`markWebhookEventAsFailed`, which has no condition, is `MarkFailed`. Any call may fail, either without effect or after
the write was committed (`FailedWrite`), and the process may die at any time (`Crash`), also because the catch block
itself throws (`MarkFailedError`): the promise is not awaited and `main.ts` has no handler of rejections. What a handler
does to the ledger is left to `SubscriptionLedger`: here it returns or throws.

`EventLifecycle` is what the inbox promises, one phase per event: unseen, running, handled, failed, stranded. The inbox
implements it under the mapping `Phase`.

| Run | Bounds | Shows |
|---|---|---|
| `WebhookInbox.cfg` | 2 events, 3 deliveries, 1 outage | `OneHandlerPerEvent`, `ProcessedWasApplied`, `AckedIsRecorded`, the inductive invariant `InboxInv`; `SettledStaysSettled`, `IgnoredIsInGoodHands`, `ClaimEndsInVerdict`, `ImplementsLifecycle` |

Three deliveries let one settle an event while another holds what it read before and a third is answered; two events let
the slot of a delivery turn from one to the other. An *outage* is a crash or a lost reply; their number is bounded, otherwise
no progress could be promised. One is enough for each way a claim can be cut off; the theorems hold for any number.

Fairness: weak fairness of each background job. A promise that is awaited settles, and
nothing is assumed of Stripe or of the requests. `ClaimEndsInVerdict` promises PROCESSED or FAILED unless an outage
comes first.

### StripeBilling, SubscriptionLedger

`StripeBilling` is Stripe, modelled from the events `dispatchWebhookEvent` handles: subscriptions start, renew, fail to
renew, are collected late, are given up, end; each change emits the events Stripe would, with a snapshot of the
subscription. A renewal takes two steps, as at Stripe: the next period begins with a customer.subscription.updated that
says active and the new end (`BeginPeriod`), while its invoice is a draft (`Draft`); then the invoice is paid (`Renew`) or
not (`FailRenewal`). A subscription that is behind does not begin another period, so at most one is unpaid.
`bill[s].paid` is the end of the last period that was paid, which is what the properties compare with.
`mail` is what is not delivered yet; `InOrder` says whether events come in the order they were emitted.

`SubscriptionLedger` is everything that writes `Subscription`, `Payment` and the flag of the user. A *worker* is a
handler in flight, and each awaited call is an action. invoice.paid is `CheckPayment`, `ExpireOthers`, `FindOwn`,
`WritePaid`; customer.subscription.updated begins at `ExpireOthers` or `FindOwn` and ends in `WriteUpdated`;
invoice.payment_failed is `RecordFailure` and `MarkPastDue`, customer.subscription.deleted `MarkCanceled`; a grant is
`StartGrant` (its check), `ExpireOthers`, `WriteGranted`; an administrator's cancellation `StartCancel`,
`CancelAtStripe`, `CancelRows`; the cron `StartCron`, `ExpireManual`. All end in `SyncRead` and `SyncWrite`, once per
user. `access[u]` is `User.subscriptionEnd`, 0 for null; `subscriptionActive` is always written with it and is
`access[u] # 0`.

What the model takes from the database and the runtime:

- transactions run at READ COMMITTED, Prisma's and PostgreSQL's default: a statement sees what is committed when it
  runs. Rows that were updated stay locked until the commit (`held`), another writer waits for them (`Unlocked`), and
  its condition is evaluated when it gets them. Of two transactions that wait for each other one is aborted
  (`Deadlocked`, `Throw`). A statement gets the locks of all of its rows at once; longer cycles than two are not detected
  and do not arise, since at most two workers run.
- the last write of a transaction and its commit are one action: nobody else can see what is between them.
- a call may fail (`Throw`) and the process may die (`Crash`), `MaxFaults` times in a behaviour. An event whose handler
  threw is lost, or handled once more: the inbox marks it FAILED and lets a redelivery claim it. One whose process died
  stays PROCESSING and is lost.
- `externalId: { not: ... }` is never true of NULL, so the manual subscriptions are outside `PaidReplaces` and
  `UpdatedReplaces`.
- `Known`: a handler that finds no user skips the event. `Named` is the set of kinds whose metadata names the user.
- `Dated` says whether customer.subscription.updated carries `current_period_end`. The API versions whose invoices have
  `parent.subscription_details`, which the code reads (957), keep it in the items of the subscription, where
  `resolveSubscriptionPeriod` does not look; it then takes thirty days from now (1237, `Fallback`). So FALSE is what runs,
  and what all configurations take but `LedgerInOrder.cfg`, which checks the other branch. Invoices always carry the period
  of their line items.
- a period that has begun is taken for granted: the code's `currentPeriodStart <= now` holds of every row the handlers write.

| Run | Bounds | Shows |
|---|---|---|
| `LedgerInOrder.cfg` | 1 subscription of 3 invoices, a grant to another user; in order, no failures, one handler at a time; dated | `LedgerFollowsStripe` |
| `LedgerSerial.cfg` | 2 subscriptions of one user and a grant; any order, one failure or crash, one handler; undated | `PaidHasSubscription`, `OneActiveStripe`, `SubscriptionEndIsEndOfAccess`, `GrantSparesStripe` |
| `LedgerConcurrent.cfg` | 1 subscription of 2 invoices; two handlers, two failures or crashes; undated | `ActiveIsCovered`, `AccessIsCovered` |
| `LedgerLiveness.cfg` | 2 subscriptions, two handlers that lock each other's rows; undated | `HandlersFinish` |
| `LedgerDuplicate.cfg` | 1 subscription of 2 invoices, in order, one handler | violated: `DuplicateIsPaid` |

What is promised about access is less than one might wish. The handlers write the end of the period that a
subscription is in, paid or not, and without a dated subscription thirty days from whenever the event is handled.
`Covered` is what is left: an end is that of a paid period, or of the one after it (dated), or at most thirty days ahead
(undated). It is a bound on how long somebody has access without paying, and no order, delay, retry or overlap of
handlers exceeds it. In `LedgerConcurrent.cfg` two handlers take events in order, but run beside each other, and an event
whose handler failed comes again behind the later ones, twice.

Properties that hold for one handler at a time and fail for two (`SubscriptionEndIsEndOfAccess`, `GrantSparesStripe`) are
the point of these runs: the code is right as a sequential program and has no protection against a second handler of the
same user. `MaxTime` lets a period end and the next one begin; `MaxInvoices` lets an invoice fail between two that are
paid. Two handlers are enough for every pair of the races in the list of hazards; one failure puts a cut, and a retry of
what was half done, at every call. Their safety properties are proved for any number of subscriptions, users and
failures in `SubscriptionLedgerProofs`.

Fairness (`LedgerLiveness.cfg`): a call returns or throws, and a statement whose rows are free again and again gets them
(strong fairness): PostgreSQL queues the waiters of a lock in order. The queue is needed: with weak fairness alone TLC finds
a handler that is passed over for ever by redeliveries of another event. It matters in the one place where the code relies
on the database to get out of a cycle: two handlers that expire each other's rows.

### UpgradeRequests

One Stripe subscription, the requests of its user for a dearer price, what Stripe makes of them, and the handlers that
resolve them. A request is `StartUpgrade` (the active subscription is found), `CheckPending` or `RefusePending`,
`RetrievePrice` (Stripe's current price, `assertCanUpgradePrice`), the update at Stripe, `InsertRow`. With
`payment_behavior: 'pending_if_incomplete'` Stripe changes the price at once (`UpdateAtOnce`), keeps the update pending
(`UpdatePends`) until it is paid (`ApplyPending`) or expires (`ExpirePending`), or refuses (`EndsEarly`). `made` is the
list of updates Stripe accepted and what became of each, which is what the properties compare `rows` with. A handler is
`StartEvent`, `FindLatest`, `Resolve`; customer.subscription.updated writes the ledger first (`WriteLedger`, its status
only) and goes on if it tells of a failure (`IgnoredFailure`). Events are taken from `mail` in any order, also before
the row of their request is written; a handler that fails may be run again, one that dies with the process is not.

| Run | Bounds | Shows |
|---|---|---|
| `UpgradeRequests.cfg` | 2 requests and 2 handlers at a time, 2 updates, 3 prices, 1 renewal, 1 fault | `PendingOrCleared`, `VerdictIsTrue`, `CompletedWereApplied`, `VerdictIsFinal` |
| `UpgradeBlocked.cfg` | 1 request and 1 handler, no faults | violated: `RefusedIsPending` |

Two updates let the event of the first meet the row of the second, which is what can go wrong since no event names its
request; three prices let a second upgrade follow a first. `clean` says that requests came one at a time, nothing failed
and no renewal was unpaid: only then is the verdict on a request promised to be the right one (`VerdictIsTrue`). What is
left without it is `CompletedWereApplied`: as many requests are COMPLETED as updates were applied, and one more for each
handler that failed and was run again.

### DownloadQuota

The downloads of one video by one user; others have rows and cache keys of their own. A request captures `now` (`start`),
finds the window of the subscription, reads the cache, counts, inserts, signs, stores. Rows are stamped by the database
at some moment between the begin of the transaction and the insert. `MonthOf` says which window each moment falls in;
it is a parameter, and windows do not overlap. `Ttl` is `DOWNLOAD_URL_TTL_SECONDS`. Any call may fail; a committed row
stays. `Evict` is Redis dropping an entry.

| Run | Bounds | Shows |
|---|---|---|
| `DownloadQuota.cfg` | 3 requests, limit 2, the last moment of a month and the first of the next | `QuotaBound`, `UrlsAreCounted`, `CachedUrlStillOpens`, and the inductive invariant `QuotaInv` |

The limit does not hold for concurrent requests. What does is `QuotaBound`: one download too many for each further
request in flight, and the limit itself for one request at a time; both are proved for any number of requests.

### MonthWindow

The pure part of the quota: which month a download falls in. Dates are a month, counted from January 2000, and a day;
`addMonthsToDate` is `Date.setMonth`, which carries a day the month does not have into the next month;
`resolveCurrentMonthWindow` is the loop of the code as a recursive function; `GrantEnd` is the end of a manual grant and
`findDownloadHistoryMonthBoundary` the calendar month of the history. Times of day are left out: windows begin at that
of the period. The server's time zone is left out too; in one with daylight saving time a window may be an hour longer.

`MCDownloadQuota` brings the two together. The months of the download run are those of a subscription granted on 31
January for three months, whose first window ends on 3 March. And TLC evaluates, as assumptions of that module, what the
windows are for every period that begins on the 1st or around the end of a month, in four years with a leap year: grants
of 1, 3 and 6 months, and Stripe's months and years.

| Assumption | Says |
|---|---|
| `WindowsTilePeriods` | each day of a period is in exactly the window that is found for it; windows follow each other from the first day to the last. This is what `DownloadQuota` takes for granted. |
| `GrantsHaveTheirMonths` | a grant has as many windows as months, or one more of at most two days: six months from 31 August are seven windows, and a user has the limit once more. |
| `BillsHaveTheirMonths` | the same of Stripe's periods, where the window too many has up to three days: 28 February to 31 March has two. |
| `HistoryCountsByWindow` | the count in the history, by calendar month, agrees with the one that is enforced only for periods that begin on the first of a month. |

They are facts about a function, not properties of behaviours, and hold or fail before TLC takes a step; falsifying any
of them (a bound lower by one day, say) stops the run. The first, and the agreement that the last one states, are proved
for every period in `MonthWindowProofs`.

### VideoPipeline

A video is a row (`row`, `processing`, `preview`, `error`), objects in two buckets (`original`, `assets`) and jobs in a
queue (`job`), and no transaction spans the three. Requests: `Create` (row first, then `Enqueue`; `Unmark` and `Explain`
when the queue refuses; `CreateFails`, `EnqueueFails` and `NoteFails` when a call fails or only its reply is lost),
`Reprocess` with `Reset` and `Requeue` for each video (`reprocessFailedVideos`, `reprocessAllVideos` and the script,
which differ in whom they select, in what they forget and in what a refused job does), `Delete` with `DeleteFiles` and
`DeleteRow`. The worker: `StartJob`, `ReadOriginal` (download, ffmpeg), `PutPreview`, `PutThumbnail`, `MarkDone`,
`ClearError`; any of these may throw, its effect done or not (`ProcessingThrows`, `ReplyLost`), and the catch block is
`MarkFailed` and `RecordError`. The working directory is made before the `try` (`NoDirectory`), and an attempt without
one writes nothing at all; it is removed in the `finally`, and where that fails the queue repeats a job that has
succeeded. BullMQ repeats a job that threw (`attempts`), and gives one whose worker died to a worker again, `MaxStalls`
times (`Stalled`). `processVideo` writes the outcome in two calls, and so does `createVideo`.

| Run | Bounds | Shows |
|---|---|---|
| `VideoPipeline.cfg` | 1 video, 2 requests at a time, 2 jobs of 2 attempts, 1 stall, 2 workers, 1 fault | `ProcessingHasJob`, `RestHasVerdict`, `PreviewIsPublic`, and under `FairSpec` `ProcessingEnds` |

One video, because what videos share is only the loop of a reprocess and the number of workers; with two, and the three
jobs a loop over them needs, the instance is too large for TLC. The proofs cover loops over any number of videos.
Two jobs of one video run at the same time, which `concurrency` allows; two attempts let a failure be followed by a
retry; a job that stalls once more than it may is lost. The one fault is a call of a request that fails, a write of the
catch block that does, or a crash; that the note of a refused job fails as well (`NoteFails`) and what makes an attempt
throw need no bound of their own. `lost` has the videos whose processing a fault has cut off, and
the properties say that these are the only ones:

- a call between the row and its job that failed or whose reply was lost: a create or a reset that is committed and
  seems to have failed (`CreateFails`, `ResetFails`), a `Requeue` that is only logged (`RequeueFails`), the note of a new
  video that could not be queued (`NoteFails`);
- a crash there, or one more stall of the job than it survives (`Crash`);
- a last attempt that gets no directory (`NoDirectory`) or cannot write its verdict (`CatchFails`).

A video that one of these leaves processing is only taken up again by a reprocess of all: `reprocessFailedVideos` leaves
out what is processing. Not in the model are a worker that BullMQ takes for stalled and that is alive, and a Redis that
loses data.

`alone` marks jobs that never ran beside another one of
their video: the success of one wipes out the error of the other, and after a reprocess of all has forgotten the
preview a video may be left with neither, which `RestHasVerdict` therefore does not promise.

Fairness: weak fairness of the steps of each request and of each job. A call that was made returns or throws, and a
worker that is free takes a job that waits. `ProcessingEnds` needs the bound on faults, as every liveness property here;
attempts without a directory are bounded by `Attempts`.

### Catalogue

Titles and genres, by requests that check first and write in a later call. `createVideo` is `StartCreate`, `CheckGenre`,
`CheckTitle`, `WriteVideo`; `updateVideo` begins with `StartUpdate`, which fills in what the request leaves out from the
row it found, and skips the check of a title or genre that is the same. `CheckName` and `WriteName` create or rename a
genre. The unique key of the name and the foreign key from video to genre are guards of the writes; a title has no key.

| Run | Bounds | Shows |
|---|---|---|
| `Catalogue.cfg` | 2 requests, 3 videos, 2 titles, 2 genres, 2 names | `TitleBound`, `GenreKeysHold` |

Three videos are one more than the two that may share a title. `TitleBound` is the statement that survives concurrent
requests: as many videos share a title as requests can be in flight, however long they go on.

### AuthTokens

Rows of `User` and `AuthToken`. A registration is `Register`, `CreateUser` or `RefuseUser` (unique address), and with a
request for a reset shares `Retire` (older links of the type are marked as used), `Insert`, `SendMail`. A link is used by
`Open` (`findValidTokenRecord`), `Write` (the user), `Mark` (the link). Links expire at any time. `uses` counts what a
link has confirmed or reset.

| Run | Bounds | Shows |
|---|---|---|
| `AuthTokens.cfg` | 2 users, 2 requests at a time, 3 links, 2 requests that fail | `UnusedBound`, `UsesBound`, `CanConfirm` |

Three links are a registration's and two of resets, which may retire each other; two failures make a crash of both
requests possible. `CanConfirm` is about the way back: a user who is not verified cannot log in, cannot register again,
and nothing sends the link a second time. He has a link that is unused, unless his own registration failed after it had
made the row (`lost`); a link that expired before he used it is of no use to him either, and the code has no remedy.

## Experiments

Five more configurations are kept beside the project. TLC finds each property violated; they show what the code does
not promise, and why the properties above are stated the way they are.

| Configuration | Violated | Shows |
|---|---|---|
| `WebhookInboxStranded.cfg` | `IgnoredIsProcessedOrInFlight` | An event whose claim was cut off (crash, lost reply) is stranded: PROCESSING is never claimed again, and its deliveries are acknowledged as "already processed or in-flight". |
| `LedgerReordered.cfg` | `EndedAtStripeIsNotActive` | A customer.subscription.updated that comes after customer.subscription.deleted makes the subscription ACTIVE. |
| `LedgerStaleSync.cfg` | `SubscriptionEndIsEndOfAccess` | Two overlapping syncs leave a `subscriptionEnd` that is not the end of the access. |
| `LedgerGrantRace.cfg` | `GrantSparesStripe` | A grant replaces a Stripe subscription that arrived after its check. |
| `DownloadRace.cfg` | `QuotaHeld` | Two concurrent downloads exceed the limit. |

## What the checks found

Two statements of the repository are violated by what the code does even with one request, one handler and events in
order; `PROJECT.json` (findings) quotes them. The experiments show five more, under concurrency or a failure.

1. An invoice that failed first and is collected later is a "duplicated invoice.paid": it stays FAILED, and only the
   customer.subscription.updated that comes with it makes the subscription ACTIVE again (`LedgerDuplicate.cfg`).
2. An upgrade that Stripe applies at once is written as PENDING, and no event ever resolves it: `hasPendingUpdate`, which
   `upgradeSubscription` returns, is not used. The next upgrade is refused because one "is pending"
   (`UpgradeBlocked.cfg`).

## What is proved

The proofs hold for every value of the constants that satisfies the named assumptions.

`WebhookInboxProofs` (assumption: `MaxOutages` is a natural number). `OneHandlerPerEvent` is not inductive: a claim is
only safe because a row that is FAILED or absent has no job, so `InboxInv` adds what a job in hand says of its row
(`JobOwnsRow`), that the row exists past the insert (`RowExists`), and that a request that has not been decided has no
job yet (`JobFollowsClaim`; a slot's event may change only then). `InitInv` and `NextInv` show that it is inductive; the
invariants (`TypeCorrect`, `ExclusiveHandling`, `ProcessedIsTrue`, `AckedIsNotForgotten`) and the action property
(`SettledIsFinal`) follow. `InboxImplementsLifecycle` is the refinement of `EventLifecycle`: `NextRefines` maps every
action to a step of the abstract specification or to a stutter. `NoneIsDropped` (`IgnoredIsInGoodHands`) needs the
converse of `JobOwnsRow`, which an outage breaks: as long as there was none, a row that is PROCESSING has a job
(`Attended`).

`SubscriptionLedgerProofs` (assumptions `BillingAssumption` and `LedgerAssumption`, which says that there are finitely many
rows, each with its owner). `TypeInv` gives a worker the shape its step needs, and is what the other proofs start from.

- `PaymentsHaveSubscriptions`: `WritePaid` writes both rows in one commit, and no row becomes absent again.
- `ActiveRowsAreCovered` and `AccessStaysCovered` hold for both values of `Dated`. `ActiveIsCovered` is not inductive: an
  event in `mail` or in the hands of a worker may make a row ACTIVE later. `PaidInv` says of each of them that it is
  `Truthful`, that is, what its handler will take for the end is covered. `Covered` compares with `bill[s].paid` and
  `now`, which only grow (`CoveredGrows`), so no order, delay or repetition can undo it; and Stripe is never more than a
  period ahead of what was paid (`BillPromise`). `AccessInv` adds what a sync has read and not written yet.
- `OneAtATimeOneActive`, `OneAtATimeGrantSpares` and `OneAtATimeSubscriptionEnd` assume a single worker; two are known to
  break the last two. What a worker found out in an earlier step is then still true when it writes (`SerialInv`: a
  transaction that will make a row ACTIVE holds the other ACTIVE Stripe rows of its user, and a grant that is being made
  still has no current Stripe subscription against it). `SyncInv` says that, as long as nothing failed, the flag of each
  user agrees with the rows or a sync of that user is still owed, and that what a sync has read still agrees. Time
  alone breaks none of it, since the flag and the rows are compared with the same `now`. That there is a latest end at all
  (`LatestExists`) is where finiteness comes in, by well-founded induction on the sets of rows.
- `OneAtATimeInOrderFollows` assumes a single worker, `InOrder`, and that customer.subscription.updated names the user:
  the server itself puts `user_id` in the metadata of the subscription (`stripe.service.ts:376`). `LedgerFollowsStripe`
  looks at a moment when nothing is on its way, so `FollowInv` follows the last event of a subscription from its
  emission to its row: the last one in the mail is as the subscription stands at Stripe and writes that down
  (`LastIsFinal`), so is the one in hand when there is none in the mail, and with neither the row is right (`Tracks`).
  invoice.payment_failed writes a status that need not be Stripe's, and is never the last. invoice.paid writes ACTIVE,
  and is the last of a renewal; then the subscription is active at Stripe (`LastWord`). A row that does not exist yet
  has a customer.subscription.updated coming (`WillExist`), otherwise a deletion would be skipped for want of a user.
  And the one write to such a row that no event asks for, an administrator's, comes after the end at Stripe
  (`EndsFirst`); no transaction of another event holds it, by `HoldsOwn` of `SyncInv`.

`DownloadQuotaProofs` (assumption `QuotaAssumption`: finitely many requests, a positive limit, and months that follow
the clock). `QuotaBound` is not inductive: what is, is that the rows of a month and the requests that may still add one
to it stay together within the bound (`PendingBound`). A request is *pending* for a month when it has been found under
the limit and not inserted its row yet, or when it came in before the month began and has not counted yet: such a row
may be counted in one month and stamped in the next, so it must be charged to the later month before it is counted.
The count turns pending requests into at most the limit, each insert trades one pending request for one row, and
`ClockOrder` keeps rows and requests on this side of `now`. `DownloadsAreBounded`, `OneAtATimeHoldsTheQuota` and
`CacheIsHonest` follow. `UrlsHaveRows` is another count: URLs that were signed and requests that are about to sign one
(`Signing`) are together at most the rows (`UrlsInv`).

`MonthWindowProofs` (no assumptions) says of every period and every moment what `WindowsTilePeriods` checks over four
years. `WindowsAreMonthsLong`: a window that the end of the period does not cut off has as many days as the month it
begins in. `LoopAdvances`: an iteration of the loop moves on and stays within the period. `WindowsTile`: the loop comes
to a window that holds the moment and lies in the period; another moment in that window gets the same one; and the
window ends with the period or where the next begins. `WindowsCoverPeriod`: the first begins with the period, and outside
of it there is none. `HistoryAgreesFromTheFirst`: from the first of a month to the first of another, windows are calendar
months. The recursion is handled with sets in place of predicates, since no theorem with an operator for a
parameter can be used: `LoopInduction` goes from the end of a period to its beginning, by a least counterexample
(`Smallest`), and that the recursive equation has a solution at all (`LoopExists`) is shown by writing one down, from the
beginnings of the windows that lie ahead (`Onwards`), of which at most one holds the moment.

`UpgradeRequestsProofs` (`UpgradeAssumption`). The requests that passed the check and have not inserted their row
(`Cleared`) count against the same bound as the rows that are pending: `PendingOrCleared`, which with the types is
inductive. A check that lets a request pass finds no pending row, so only cleared requests count, and they are no more
than all. `PendingIsBounded` follows. `VerdictsAreFinal` rests on the condition of the `updateMany`.
`CompletedAreCounted` is a count as well: rows that are COMPLETED, events that will complete one and handlers that hold
such an event are together at most the updates that were applied and the faults (`CompletingBound`). An application
brings one event, a handler gives up its event for the row it completes, and only a fault completes a row and keeps the
event. `VerdictsAreTrue` is about requests one at a time with no fault (`clean`), and its invariant `TruthInv` about why
the handler, which takes the latest pending row, cannot miss: every update has its row or a request about to insert it,
and only the last row is pending (`RowPerUpdate`); at most one event is under way, and it tells of the last update
(`OneReport`); and until it is handled no request passes the check (`OpenWhileReported`).

`CatalogueProofs` (`CatalogueAssumption`: there are finitely many requests). `TitleBound` needs the requests that will
write a title they do not check any more (`Cleared`), among them updates that write back the title they read: the videos
that hold a title and those of such requests are at most the requests (`MayHoldBound`), since a check that passes leaves
only the videos of requests. `TitlesAreBounded` and `OneAtATimeKeepsTitlesUnique` follow.
`GenreKeysAreKept` rests on the guards of the writes, not on the checks before them.

`VideoPipelineProofs` (`PipelineAssumption`). `PreviewIsPublic` needs what a job has already put when it comes to its
later steps (`PutSoFar`); a reprocess or a delete only forgets the preview, nobody takes objects out of the public bucket.
`ProcessingHasJob` is not inductive: a job that has cleared the flag, or a request that explains, will not write it
again, and a reprocess may set it in between. `ProcessingInv` names who will: a job that has not decided yet
(`WillDecide`) or a request that still has to queue one or to clear the flag (`WillQueue`). `PreviewsArePublic` and
`ProcessingIsWorkedOn` follow. `RestedHaveVerdicts` (`RestHasVerdict`) needs `RestInv`: a job that clears the error takes
a verdict away, after it has set the preview; if a reprocess has forgotten the preview since, it has a job for the video
in hand or in the queue (`Cleared`), and that one is still waiting as long as the jobs of the video run one at a time. A
job that has run beside another says so (`alone`), and no request works on a video before its row is there (`Unqueued`).

`AuthTokensProofs` (`TokenAssumption`). `UnusedBound` is inductive with the types: after a retirement only requests
about to insert count. `UsesBound` needs `UsesInv`: uses and requests that are about to use a link stay within the bound
together, and as long as the link is unused each use is that of a request that will mark it or has failed; when it is
marked the requests that found it are all in flight, and no other will find it. `ConfirmInv` adds to `CanConfirm` that a
request that confirms belongs to a link of its user, so that marking it comes after the user is verified.
`UsesAreBounded`, `OneAtATimeUsesLinksOnce` and `UnverifiedCanConfirm` follow.

Every safety property and every action property that a passing run checks is proved. Only model-checked are the
liveness properties (`ClaimEndsInVerdict`, `HandlersFinish`, `ProcessingEnds`), which are beyond the prover, and how many
windows a period has (`GrantsHaveTheirMonths`, `BillsHaveTheirMonths`).

## Not modelled

- Uploads: the state of a multipart upload is R2's. The server signs its requests and aborts uploads older than two
  hours; whether one of them is alive is nothing the code knows.
- Login, the JWT, the roles guard, listings, statistics: they read. `updateUser` and the change of a role are single
  updates of one row.
- `User.stripeCustomerId` and what reads it (it is written before the transaction of the same handlers, and its unique key
  may make them throw, which `Throw` covers); invoices without a subscription; the fallback of an invoice without a dated
  line item; the two `new Date()` of one statement.
- An upgrade replaces the window a download is counted in; downloads are modelled for one subscription.
- The Prisma client under `src/generated/` is generated, and about seven tenths of the repository's lines. Its calls are
  the atomic actions of the models, and the keys of `prisma/schema.prisma` their guards.

## Plan

1. Composition of `WebhookInbox` and `SubscriptionLedger`, so that redelivery is what the inbox does.
2. Several videos in one instance of the pipeline, with the counts of jobs that their loops need.
3. A bound on the number of windows of a period, for every period.
