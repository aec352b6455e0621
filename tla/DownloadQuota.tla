--------------------------- MODULE DownloadQuota ----------------------------
(* The downloads of one video by one user: VideosService.                    *)
(* generateVideoDownloadUrl (src/videos/videos.service.ts) run by concurrent *)
(* requests against the rows of DownloadHistory and the shared URL cache.    *)
(* Users and videos do not affect each other: rows and cache keys carry both.*)
(*                                                                           *)
(* A month here is a monthly window of the user's subscription, as           *)
(* MonthWindow computes it; the windows of a subscription do not overlap.    *)
EXTENDS Naturals, FiniteSets

CONSTANTS
    Requests,     \* slots for requests in flight
    MaxDownloads, \* MAX_DOWNLOADS_PER_MONTH
    Ttl,          \* DOWNLOAD_URL_TTL_SECONDS
    MaxTime,      \* bound: the clock stops here
    MonthOf       \* the window each moment falls in

Times == 0..MaxTime
Months == {MonthOf[t] : t \in Times}

ASSUME QuotaAssumption ==
    /\ IsFiniteSet(Requests)
    /\ MaxDownloads \in Nat \ {0}
    /\ Ttl \in Nat
    /\ MaxTime \in Nat
    /\ MonthOf \in [Times -> Nat]
    /\ \A s, t \in Times : s <= t => MonthOf[s] <= MonthOf[t]

VARIABLES
    now,     \* the clock
    active,  \* the user has a subscription that is ACTIVE and not over
    rows,    \* the rows of DownloadHistory
    nextId,  \* the id of the next row
    cache,   \* the cached URL: when its entry and when its signature expire
    pc,      \* the next call of each request
    start,   \* `now` of the request, captured when it came in
    opened,  \* when its transaction began
    sig,     \* when the signature of the URL it has signed expires
    signed   \* how many URLs have been signed

vars == <<now, active, rows, nextId, cache, pc, start, opened, sig, signed>>
shared == <<now, active, rows, nextId, cache, signed>>

NoUrl == [exp |-> 0, sig |-> 0]

Init == /\ now = 0
        /\ active \in BOOLEAN
        /\ rows = {}
        /\ nextId = 1
        /\ cache = NoUrl
        /\ pc = [r \in Requests |-> "idle"]
        /\ start = [r \in Requests |-> 0]
        /\ opened = [r \in Requests |-> 0]
        /\ sig = [r \in Requests |-> 0]
        /\ signed = 0

RowsIn(k) == {x \in rows : MonthOf[x.at] = k}

Goto(r, p) == pc' = [pc EXCEPT ![r] = p]

\* The request is answered, with a URL or an error.
Answer(r) == /\ Goto(r, "idle")
             /\ start' = [start EXCEPT ![r] = 0]
             /\ opened' = [opened EXCEPT ![r] = 0]
             /\ sig' = [sig EXCEPT ![r] = 0]

Request(r) == /\ pc[r] = "idle"
              /\ Goto(r, "window")
              /\ start' = [start EXCEPT ![r] = now]
              /\ UNCHANGED <<shared, opened, sig>>

\* findActiveSubscriptionWindow; without one the answer is 403.
FindWindow(r) == /\ pc[r] = "window"
                 /\ \/ active /\ Goto(r, "cache") /\ UNCHANGED <<start, opened, sig>>
                    \/ ~active /\ Answer(r)
                 /\ UNCHANGED shared

\* A cached URL that had not expired when the request came in is served again:
\* no row is added.
ReadCache(r) == /\ pc[r] = "cache"
                /\ \/ cache.exp > start[r] /\ Answer(r)
                   \/ /\ cache.exp <= start[r]
                      /\ Goto(r, "count")
                      /\ UNCHANGED <<start, opened, sig>>
                /\ UNCHANGED shared

\* Mutant: the limit is off by one.
UnderLimitInclusive(r) == Cardinality(RowsIn(MonthOf[start[r]])) <= MaxDownloads

UnderLimit(r) == Cardinality(RowsIn(MonthOf[start[r]])) < MaxDownloads

\* The transaction begins with the count; at the limit it throws 403.
CountRows(r) == /\ pc[r] = "count"
                /\ \/ /\ UnderLimit(r)
                      /\ Goto(r, "create")
                      /\ opened' = [opened EXCEPT ![r] = now]
                      /\ UNCHANGED <<start, sig>>
                   \/ ~UnderLimit(r) /\ Answer(r)
                /\ UNCHANGED shared

\* The row is stamped with the time of the transaction or of the statement,
\* and committed.
CreateRow(r) == /\ pc[r] = "create"
                /\ \E t \in opened[r]..now :
                      rows' = rows \cup {[id |-> nextId, at |-> t]}
                /\ nextId' = nextId + 1
                /\ Goto(r, "sign")
                /\ UNCHANGED <<now, active, cache, start, opened, sig, signed>>

\* The signature counts from the moment of signing ...
SignUrl(r) == /\ pc[r] = "sign"
              /\ sig' = [sig EXCEPT ![r] = now + Ttl]
              /\ signed' = signed + 1
              /\ Goto(r, "store")
              /\ UNCHANGED <<now, active, rows, nextId, cache, start, opened>>

\* Mutant: the expiry in the cache counts from the moment of writing it.
StoreUrlLater(r) == /\ pc[r] = "store"
                    /\ cache' = [exp |-> now + Ttl, sig |-> sig[r]]
                    /\ Answer(r)
                    /\ UNCHANGED <<now, active, rows, nextId, signed>>

\* Mutant: the expiry is computed with the wrong sign.
StoreUrlPast(r) == /\ pc[r] = "store"
                   /\ cache' = [exp |-> start[r] - Ttl, sig |-> sig[r]]
                   /\ Answer(r)
                   /\ UNCHANGED <<now, active, rows, nextId, signed>>

\* ... and the expiry in the cache from the moment the request came in.
StoreUrl(r) == /\ pc[r] = "store"
               /\ cache' = [exp |-> start[r] + Ttl, sig |-> sig[r]]
               /\ Answer(r)
               /\ UNCHANGED <<now, active, rows, nextId, signed>>

\* Mutant: a row that cannot be written does not stop the download.
FailSoftly(r) == /\ pc[r] # "idle"
                 /\ \/ /\ pc[r] = "create"
                       /\ Goto(r, "sign")
                       /\ UNCHANGED <<start, opened, sig>>
                    \/ pc[r] # "create" /\ Answer(r)
                 /\ UNCHANGED shared

\* Any call may fail, and the request with it; a row that is committed stays.
Fail(r) == /\ pc[r] # "idle"
           /\ Answer(r)
           /\ UNCHANGED shared

Tick == /\ now < MaxTime
        /\ now' = now + 1
        /\ UNCHANGED <<active, rows, nextId, cache, pc, start, opened, sig, signed>>

\* The subscription starts or ends, elsewhere.
ToggleSubscription ==
    /\ active' = ~active
    /\ UNCHANGED <<now, rows, nextId, cache, pc, start, opened, sig, signed>>

\* The cache forgets the entry.
Evict == /\ cache # NoUrl
         /\ cache' = NoUrl
         /\ UNCHANGED <<now, active, rows, nextId, pc, start, opened, sig, signed>>

Next == \/ \E r \in Requests :
              \/ Request(r) \/ FindWindow(r) \/ ReadCache(r) \/ CountRows(r)
              \/ CreateRow(r) \/ SignUrl(r) \/ StoreUrl(r) \/ Fail(r)
        \/ Tick
        \/ ToggleSubscription
        \/ Evict

Spec == Init /\ [][Next]_vars

-----------------------------------------------------------------------------
(* Properties.                                                               *)

Steps == {"idle", "window", "cache", "count", "create", "sign", "store"}

\* Every variable has its type.
TypeOK == /\ now \in Times
          /\ active \in BOOLEAN
          /\ IsFiniteSet(rows)
          /\ rows \subseteq [id : Nat, at : Times]
          /\ nextId \in Nat
          /\ cache \in [exp : Nat, sig : Nat]
          /\ pc \in [Requests -> Steps]
          /\ start \in [Requests -> Times]
          /\ opened \in [Requests -> Times]
          /\ sig \in [Requests -> Nat]
          /\ signed \in Nat

\* The limit: "Ya alcanzaste el limite de descargas para este video en tu
\* periodo actual" (videos.service.ts:594) is the answer to any download of a
\* window beyond MaxDownloads.
QuotaHeld == \A k \in Months : Cardinality(RowsIn(k)) <= MaxDownloads

\* What the check and the insert keep between them: a window has at most one
\* download too many for each further request that can be in flight.  With one
\* request at a time this is the limit itself.
QuotaBound ==
    \A k \in Months :
        Cardinality(RowsIn(k)) <= MaxDownloads - 1 + Cardinality(Requests)

\* A URL is signed only on account of a row of its own, whatever fails.
UrlsAreCounted == signed <= Cardinality(rows)

\* An entry of the cache never promises more than the signature keeps, although
\* the two count from different moments and requests overwrite each other.
CachedUrlStillOpens == cache.exp <= cache.sig

\* Requests that may still add a row to window k without having found it under
\* the limit, or having done so already.
Pending(k) ==
    {r \in Requests :
        \/ pc[r] \in {"window", "cache", "count"} /\ MonthOf[start[r]] < k
        \/ pc[r] = "create" /\ MonthOf[start[r]] <= k}

\* The clock goes forward: within a request, and for the rows.
ClockOrder ==
    /\ \A r \in Requests : /\ start[r] <= now
                           /\ opened[r] <= now
                           /\ pc[r] = "create" => start[r] <= opened[r]
                           /\ pc[r] = "store" => start[r] + Ttl <= sig[r]
    /\ \A x \in rows : x.at <= now /\ x.id < nextId

\* The rows of each window, and the requests that may still add one, are
\* together within the bound.
PendingBound ==
    \A k \in Months :
        Cardinality(RowsIn(k)) + Cardinality(Pending(k))
            <= MaxDownloads - 1 + Cardinality(Requests)

\* The inductive invariant behind QuotaBound.
QuotaInv == TypeOK /\ ClockOrder /\ CachedUrlStillOpens /\ PendingBound
=============================================================================
