------------------------ MODULE DownloadQuotaProofs -------------------------
(* What DownloadQuota guarantees for every number of requests, every limit   *)
(* and every division of time into windows.                                  *)
EXTENDS DownloadQuota, FiniteSetTheorems, TLAPS

\* The sets that PendingBound counts are finite, and no more requests are
\* pending than there are.
LEMMA Finite ==
  ASSUME TypeOK, NEW k
  PROVE  /\ IsFiniteSet(RowsIn(k)) /\ Cardinality(RowsIn(k)) \in Nat
         /\ IsFiniteSet(Pending(k)) /\ Cardinality(Pending(k)) \in Nat
         /\ Cardinality(Pending(k)) <= Cardinality(Requests)
         /\ Cardinality(Requests) \in Nat
<1>1. IsFiniteSet(rows) /\ RowsIn(k) \in SUBSET rows
  BY DEF TypeOK, RowsIn
<1>2. IsFiniteSet(Requests) /\ Pending(k) \in SUBSET Requests
  BY QuotaAssumption DEF Pending
<1>3. IsFiniteSet(RowsIn(k))
  BY <1>1, FS_Subset
<1>4. /\ IsFiniteSet(Pending(k))
      /\ Cardinality(Pending(k)) <= Cardinality(Requests)
  BY <1>2, FS_Subset
<1> QED BY <1>2, <1>3, <1>4, FS_CardinalityType

\* Windows are numbered, and the clock runs through them in order.
LEMMA MonthsInOrder ==
  /\ Months \subseteq Nat
  /\ \A t \in Times : MonthOf[t] \in Months
  /\ \A s, t \in Times : s <= t => MonthOf[s] <= MonthOf[t]
  BY QuotaAssumption DEF Months

\* A step that adds no row and leaves no more requests pending than before
\* keeps the bound.
LEMMA FewerPending ==
  ASSUME TypeOK, TypeOK', PendingBound, rows' = rows,
         \A k \in Months : Pending(k)' \subseteq Pending(k)
  PROVE  PendingBound'
<1> SUFFICES ASSUME NEW k \in Months
             PROVE  Cardinality(RowsIn(k)') + Cardinality(Pending(k)')
                      <= MaxDownloads - 1 + Cardinality(Requests)
  BY DEF PendingBound
<1>1. RowsIn(k)' = RowsIn(k)
  BY DEF RowsIn
<1>2. Cardinality(Pending(k)') <= Cardinality(Pending(k))
  BY Finite, FS_Subset
<1>3. Cardinality(Pending(k)') \in Nat
  BY Finite, FS_Subset, FS_CardinalityType
<1>4. Cardinality(RowsIn(k)) + Cardinality(Pending(k))
        <= MaxDownloads - 1 + Cardinality(Requests)
  BY DEF PendingBound
<1> QED BY <1>1, <1>2, <1>3, <1>4, Finite, QuotaAssumption

\* The answer to a request takes it off the pending ones.
LEMMA AnswerPends ==
  ASSUME TypeOK, NEW r \in Requests, Answer(r), NEW k
  PROVE  Pending(k)' \subseteq Pending(k)
  BY QuotaAssumption DEF Answer, Goto, Pending, TypeOK

\* Every initial state satisfies the inductive invariant: no row, no request.
LEMMA InitInv == Init => QuotaInv
<1> SUFFICES ASSUME Init PROVE QuotaInv
  OBVIOUS
<1>1. TypeOK
  BY QuotaAssumption, FS_EmptySet DEF Init, TypeOK, Times, Steps, NoUrl
<1>2. ClockOrder /\ CachedUrlStillOpens
  BY DEF Init, ClockOrder, CachedUrlStillOpens, NoUrl
<1>3. \A k \in Months : RowsIn(k) = {} /\ Pending(k) = {}
  BY DEF Init, RowsIn, Pending
<1>4. PendingBound
  <2>1. Cardinality(Requests) \in Nat
    BY <1>1, Finite
  <2>2. \A k \in Months :
           Cardinality(RowsIn(k)) = 0 /\ Cardinality(Pending(k)) = 0
    BY <1>3, FS_EmptySet
  <2>3. 0 + 0 <= MaxDownloads - 1 + Cardinality(Requests)
    BY <2>1, QuotaAssumption
  <2> QED BY <2>2, <2>3 DEF PendingBound
<1> QED BY <1>1, <1>2, <1>4 DEF QuotaInv

-----------------------------------------------------------------------------
\* Every step keeps the types.
LEMMA NextType == TypeOK /\ ClockOrder /\ [Next]_vars => TypeOK'
<1> SUFFICES ASSUME TypeOK, ClockOrder, [Next]_vars PROVE TypeOK'
  OBVIOUS
<1> USE QuotaAssumption DEF TypeOK, Goto, Steps, shared, Times
<1>1. ASSUME NEW r \in Requests, Request(r) PROVE TypeOK'
  BY <1>1 DEF Request
<1>2. ASSUME NEW r \in Requests, Answer(r), UNCHANGED <<now, active, rows, nextId>>,
             cache' \in [exp : Nat, sig : Nat], signed' = signed
      PROVE  TypeOK'
  BY <1>2 DEF Answer
<1>3. ASSUME NEW r \in Requests, FindWindow(r) \/ ReadCache(r) \/ CountRows(r)
      PROVE  TypeOK'
  <2>1. CASE Answer(r) /\ UNCHANGED shared
    BY <1>2, <2>1
  <2>2. CASE ~Answer(r)
    BY <1>3, <2>2 DEF FindWindow, ReadCache, CountRows
  <2>3. UNCHANGED shared
    BY <1>3 DEF FindWindow, ReadCache, CountRows
  <2> QED BY <2>1, <2>2, <2>3
<1>4. ASSUME NEW r \in Requests, CreateRow(r) PROVE TypeOK'
  <2>1. PICK t \in opened[r]..now : rows' = rows \cup {[id |-> nextId, at |-> t]}
    BY <1>4 DEF CreateRow
  <2>2. IsFiniteSet(rows')
    BY <2>1, FS_AddElement
  <2>3. rows' \subseteq [id : Nat, at : Times]
    BY <2>1
  <2> QED BY <1>4, <2>2, <2>3 DEF CreateRow
<1>5. ASSUME NEW r \in Requests, SignUrl(r) PROVE TypeOK'
  BY <1>5 DEF SignUrl
<1>6. ASSUME NEW r \in Requests, StoreUrl(r) PROVE TypeOK'
  BY <1>2, <1>6 DEF StoreUrl
<1>7. ASSUME NEW r \in Requests, Fail(r) PROVE TypeOK'
  BY <1>2, <1>7 DEF Fail
<1>8. CASE Tick
  BY <1>8 DEF Tick
<1>9. CASE ToggleSubscription
  <2>1. active' \in BOOLEAN
    BY <1>9, Zenon DEF ToggleSubscription
  <2> QED BY <1>9, <2>1 DEF ToggleSubscription
<1>10. CASE Evict
  BY <1>10 DEF Evict, NoUrl
<1>11. CASE UNCHANGED vars
  BY <1>11 DEF vars
<1> QED BY <1>1, <1>3, <1>4, <1>5, <1>6, <1>7, <1>8, <1>9, <1>10, <1>11 DEF Next

\* Every step keeps the order of the clock, and the cache within it.
LEMMA NextClock ==
  TypeOK /\ ClockOrder /\ CachedUrlStillOpens /\ [Next]_vars
    => ClockOrder' /\ CachedUrlStillOpens'
<1> SUFFICES ASSUME TypeOK, ClockOrder, CachedUrlStillOpens, [Next]_vars
             PROVE  ClockOrder' /\ CachedUrlStillOpens'
  OBVIOUS
<1> USE QuotaAssumption DEF TypeOK, Goto, Steps, shared, Times, ClockOrder,
                            CachedUrlStillOpens
<1>1. ASSUME NEW r \in Requests, Request(r)
      PROVE  ClockOrder' /\ CachedUrlStillOpens'
  BY <1>1 DEF Request
<1>2. ASSUME NEW r \in Requests, Answer(r), UNCHANGED <<now, rows, nextId>>
      PROVE  ClockOrder'
  BY <1>2 DEF Answer
<1>3. ASSUME NEW r \in Requests, FindWindow(r) \/ ReadCache(r) \/ CountRows(r)
      PROVE  ClockOrder' /\ CachedUrlStillOpens'
  <2>1. CASE Answer(r)
    BY <1>2, <1>3, <2>1 DEF FindWindow, ReadCache, CountRows
  <2>2. CASE /\ opened' = [opened EXCEPT ![r] = now] /\ Goto(r, "create")
             /\ UNCHANGED <<start, sig, shared>>
    BY <2>2
  <2>3. CASE /\ Goto(r, "cache") \/ Goto(r, "count")
             /\ UNCHANGED <<start, opened, sig, shared>>
    BY <2>3
  <2>4. UNCHANGED shared
    BY <1>3 DEF FindWindow, ReadCache, CountRows
  <2> QED BY <1>3, <2>1, <2>2, <2>3, <2>4 DEF FindWindow, ReadCache, CountRows
<1>4. ASSUME NEW r \in Requests, CreateRow(r)
      PROVE  ClockOrder' /\ CachedUrlStillOpens'
  <2>1. PICK t \in opened[r]..now : rows' = rows \cup {[id |-> nextId, at |-> t]}
    BY <1>4 DEF CreateRow
  <2>2. \A x \in rows' : x.at <= now /\ x.id < nextId + 1
    BY <2>1
  <2> QED BY <1>4, <2>2 DEF CreateRow
<1>5. ASSUME NEW r \in Requests, SignUrl(r)
      PROVE  ClockOrder' /\ CachedUrlStillOpens'
  BY <1>5 DEF SignUrl
<1>6. ASSUME NEW r \in Requests, StoreUrl(r)
      PROVE  ClockOrder' /\ CachedUrlStillOpens'
  BY <1>2, <1>6 DEF StoreUrl
<1>7. ASSUME NEW r \in Requests, Fail(r)
      PROVE  ClockOrder' /\ CachedUrlStillOpens'
  BY <1>2, <1>7 DEF Fail
<1>8. CASE Tick \/ ToggleSubscription \/ Evict
  BY <1>8 DEF Tick, ToggleSubscription, Evict, NoUrl
<1>9. CASE UNCHANGED vars
  BY <1>9 DEF vars
<1> QED BY <1>1, <1>3, <1>4, <1>5, <1>6, <1>7, <1>8, <1>9 DEF Next

-----------------------------------------------------------------------------
\* A request that comes in is pending only for windows that lie ahead, and those
\* have no row yet.
LEMMA RequestBound ==
  ASSUME QuotaInv, TypeOK', NEW r \in Requests, Request(r)
  PROVE  PendingBound'
<1> USE DEF QuotaInv
<1> SUFFICES ASSUME NEW k \in Months
             PROVE  Cardinality(RowsIn(k)') + Cardinality(Pending(k)')
                      <= MaxDownloads - 1 + Cardinality(Requests)
  BY DEF PendingBound
<1>1. RowsIn(k)' = RowsIn(k)
  BY DEF Request, shared, RowsIn
<1>2. /\ Cardinality(Pending(k)') \in Nat
      /\ Cardinality(Pending(k)') <= Cardinality(Requests)
      /\ Cardinality(Requests) \in Nat
  <2>1. IsFiniteSet(Requests) /\ Pending(k)' \in SUBSET Requests
    BY QuotaAssumption DEF Pending
  <2> QED BY <2>1, FS_Subset, FS_CardinalityType
<1>3. CASE MonthOf[now] < k
  <2>1. RowsIn(k) = {}
    <3> SUFFICES ASSUME NEW x \in RowsIn(k) PROVE FALSE
      OBVIOUS
    <3>1. x.at \in Times /\ x.at <= now /\ MonthOf[x.at] = k /\ now \in Times
      BY DEF RowsIn, ClockOrder, TypeOK
    <3>2. MonthOf[x.at] <= MonthOf[now] /\ k \in Nat /\ MonthOf[now] \in Nat
      BY <3>1, MonthsInOrder, QuotaAssumption
    <3> QED BY <1>3, <3>1, <3>2
  <2> QED BY <1>1, <1>2, <2>1, FS_EmptySet, QuotaAssumption
<1>4. CASE ~(MonthOf[now] < k)
  <2>1. Pending(k)' \subseteq Pending(k)
    BY <1>4 DEF Request, Goto, Pending, TypeOK
  <2>2. Cardinality(Pending(k)') <= Cardinality(Pending(k))
    BY <2>1, Finite, FS_Subset
  <2>3. Cardinality(RowsIn(k)) + Cardinality(Pending(k))
          <= MaxDownloads - 1 + Cardinality(Requests)
    BY DEF PendingBound
  <2> QED BY <1>1, <1>2, <2>2, <2>3, Finite, QuotaAssumption
<1> QED BY <1>3, <1>4

\* A request that passes the check is pending for its own window from then on;
\* that window was under the limit.  For a later window it was pending already.
LEMMA CheckBound ==
  ASSUME QuotaInv, TypeOK', NEW r \in Requests, CountRows(r), UnderLimit(r)
  PROVE  PendingBound'
<1> USE DEF QuotaInv
<1> SUFFICES ASSUME NEW k \in Months
             PROVE  Cardinality(RowsIn(k)') + Cardinality(Pending(k)')
                      <= MaxDownloads - 1 + Cardinality(Requests)
  BY DEF PendingBound
<1>1. RowsIn(k)' = RowsIn(k)
  BY DEF CountRows, shared, RowsIn
<1>2. /\ Cardinality(Pending(k)') \in Nat
      /\ Cardinality(Pending(k)') <= Cardinality(Requests)
      /\ Cardinality(Requests) \in Nat
  <2>1. IsFiniteSet(Requests) /\ Pending(k)' \in SUBSET Requests
    BY QuotaAssumption DEF Pending
  <2> QED BY <2>1, FS_Subset, FS_CardinalityType
<1>3. CASE k = MonthOf[start[r]]
  BY <1>1, <1>2, <1>3, Finite, QuotaAssumption DEF UnderLimit
<1>4. CASE k # MonthOf[start[r]]
  <2>1. MonthOf[start[r]] \in Nat /\ k \in Nat
    BY MonthsInOrder, QuotaAssumption DEF TypeOK
  <2>2. /\ pc[r] = "count"
        /\ pc' = [pc EXCEPT ![r] = "create"]
        /\ start' = start
    BY DEF CountRows, Goto, Answer
  <2>3. Pending(k)' \subseteq Pending(k)
    BY <1>4, <2>1, <2>2 DEF Pending, TypeOK
  <2>4. Cardinality(Pending(k)') <= Cardinality(Pending(k))
    BY <2>3, Finite, FS_Subset
  <2>5. Cardinality(RowsIn(k)) + Cardinality(Pending(k))
          <= MaxDownloads - 1 + Cardinality(Requests)
    BY DEF PendingBound
  <2> QED BY <1>1, <1>2, <2>4, <2>5, Finite, QuotaAssumption
<1> QED BY <1>3, <1>4

\* The row that is added takes the place of the pending request that adds it.
LEMMA CreateBound ==
  ASSUME QuotaInv, TypeOK', NEW r \in Requests, CreateRow(r)
  PROVE  PendingBound'
<1> USE DEF QuotaInv
<1>1. PICK t \in opened[r]..now : rows' = rows \cup {[id |-> nextId, at |-> t]}
  BY DEF CreateRow
<1>2. t \in Times /\ start[r] \in Times /\ start[r] <= t
  BY QuotaAssumption DEF TypeOK, ClockOrder, CreateRow, Times
<1>3. [id |-> nextId, at |-> t] \notin rows
  BY DEF ClockOrder, TypeOK
<1> SUFFICES ASSUME NEW k \in Months
             PROVE  Cardinality(RowsIn(k)') + Cardinality(Pending(k)')
                      <= MaxDownloads - 1 + Cardinality(Requests)
  BY DEF PendingBound
<1>4. Pending(k)' = Pending(k) \ {r}
  BY DEF CreateRow, Goto, Pending, TypeOK
<1>5. Cardinality(RowsIn(k)) + Cardinality(Pending(k))
        <= MaxDownloads - 1 + Cardinality(Requests)
  BY DEF PendingBound
<1>6. Cardinality(Pending(k)') =
        IF r \in Pending(k) THEN Cardinality(Pending(k)) - 1
                            ELSE Cardinality(Pending(k))
  BY <1>4, Finite, FS_RemoveElement
<1>7. CASE MonthOf[t] = k
  <2>1. RowsIn(k)' = RowsIn(k) \cup {[id |-> nextId, at |-> t]}
    BY <1>1, <1>7 DEF RowsIn
  <2>2. [id |-> nextId, at |-> t] \notin RowsIn(k)
    BY <1>3 DEF RowsIn
  <2>3. Cardinality(RowsIn(k)') = Cardinality(RowsIn(k)) + 1
    BY <2>1, <2>2, Finite, FS_AddElement
  <2>4. r \in Pending(k)
    BY <1>2, <1>7, MonthsInOrder DEF CreateRow, Pending
  <2> QED BY <1>5, <1>6, <2>3, <2>4, Finite, QuotaAssumption
<1>8. CASE MonthOf[t] # k
  <2>1. RowsIn(k)' = RowsIn(k)
    BY <1>1, <1>8 DEF RowsIn
  <2> QED BY <1>5, <1>6, <2>1, Finite, QuotaAssumption
<1> QED BY <1>7, <1>8

\* Every step keeps the inductive invariant.
LEMMA NextInv == QuotaInv /\ [Next]_vars => QuotaInv'
<1> SUFFICES ASSUME QuotaInv, [Next]_vars PROVE QuotaInv'
  OBVIOUS
<1>1. TypeOK /\ TypeOK' /\ ClockOrder' /\ CachedUrlStillOpens' /\ PendingBound
  BY NextType, NextClock DEF QuotaInv
<1>2. ASSUME NEW r \in Requests, Request(r) PROVE PendingBound'
  BY <1>1, <1>2, RequestBound
<1>3. ASSUME NEW r \in Requests, Answer(r), rows' = rows PROVE PendingBound'
  BY <1>1, <1>3, AnswerPends, FewerPending
<1>4. ASSUME NEW r \in Requests, FindWindow(r) \/ ReadCache(r) PROVE PendingBound'
  <2>1. rows' = rows
    BY <1>4 DEF FindWindow, ReadCache, shared
  <2>2. CASE Answer(r)
    BY <1>3, <2>1, <2>2
  <2>3. CASE ~Answer(r)
    <3>1. \A k \in Months : Pending(k)' \subseteq Pending(k)
      BY <1>1, <1>4, <2>3 DEF FindWindow, ReadCache, Goto, Pending, TypeOK
    <3> QED BY <1>1, <2>1, <3>1, FewerPending
  <2> QED BY <2>2, <2>3
<1>5. ASSUME NEW r \in Requests, CountRows(r) PROVE PendingBound'
  <2>1. CASE UnderLimit(r)
    BY <1>1, <1>5, <2>1, CheckBound
  <2>2. CASE ~UnderLimit(r)
    BY <1>3, <1>5, <2>2 DEF CountRows, shared
  <2> QED BY <2>1, <2>2
<1>6. ASSUME NEW r \in Requests, CreateRow(r) PROVE PendingBound'
  BY <1>1, <1>6, CreateBound
<1>7. ASSUME NEW r \in Requests, SignUrl(r) PROVE PendingBound'
  <2>1. rows' = rows /\ \A k \in Months : Pending(k)' \subseteq Pending(k)
    BY <1>1, <1>7 DEF SignUrl, Goto, Pending, TypeOK
  <2> QED BY <1>1, <2>1, FewerPending
<1>8. ASSUME NEW r \in Requests, StoreUrl(r) \/ Fail(r) PROVE PendingBound'
  BY <1>3, <1>8 DEF StoreUrl, Fail, shared
<1>9. ASSUME Tick \/ ToggleSubscription \/ Evict \/ UNCHANGED vars
      PROVE  PendingBound'
  <2>1. rows' = rows /\ \A k \in Months : Pending(k)' \subseteq Pending(k)
    BY <1>9 DEF Tick, ToggleSubscription, Evict, vars, Pending
  <2> QED BY <1>1, <2>1, FewerPending
<1>10. PendingBound'
  BY <1>2, <1>4, <1>5, <1>6, <1>7, <1>8, <1>9 DEF Next
<1> QED BY <1>1, <1>10 DEF QuotaInv

\* The inductive invariant holds in every reachable state.
THEOREM QuotaInvariant == Spec => []QuotaInv
  BY InitInv, NextInv, PTL DEF Spec

\* Every variable keeps its type.
THEOREM TypeCorrect == Spec => []TypeOK
<1>1. QuotaInv => TypeOK
  BY DEF QuotaInv
<1> QED BY <1>1, QuotaInvariant, PTL

\* However many requests race, and wherever a month ends between their steps, a
\* window has at most MaxDownloads - 1 rows plus one for each request that can
\* be in flight.
THEOREM DownloadsAreBounded == Spec => []QuotaBound
<1>1. QuotaInv => QuotaBound
  <2> SUFFICES ASSUME QuotaInv, NEW k \in Months
               PROVE  Cardinality(RowsIn(k))
                        <= MaxDownloads - 1 + Cardinality(Requests)
    BY DEF QuotaBound
  <2>1. Cardinality(RowsIn(k)) + Cardinality(Pending(k))
          <= MaxDownloads - 1 + Cardinality(Requests)
    BY DEF QuotaInv, PendingBound
  <2> QED BY <2>1, Finite, QuotaAssumption DEF QuotaInv
<1> QED BY <1>1, QuotaInvariant, PTL

\* The limit itself holds when requests come one at a time.
THEOREM OneAtATimeHoldsTheQuota ==
  ASSUME Cardinality(Requests) = 1
  PROVE  Spec => []QuotaHeld
<1>1. QuotaBound => QuotaHeld
  BY QuotaAssumption DEF QuotaBound, QuotaHeld
<1> QED BY <1>1, DownloadsAreBounded, PTL

\* No cached entry outlives the signature of the URL it holds.
THEOREM CacheIsHonest == Spec => []CachedUrlStillOpens
<1>1. QuotaInv => CachedUrlStillOpens
  BY DEF QuotaInv
<1> QED BY <1>1, QuotaInvariant, PTL
-----------------------------------------------------------------------------
\* Requests that have added a row and not signed the URL it is for.
Signing == {r \in Requests : pc[r] = "sign"}

\* Each of those has a row that no URL has used up.
UrlsInv == signed + Cardinality(Signing) <= Cardinality(rows)

LEMMA SigningFinite ==
  ASSUME TypeOK
  PROVE  /\ IsFiniteSet(Signing) /\ Cardinality(Signing) \in Nat
         /\ IsFiniteSet(rows) /\ Cardinality(rows) \in Nat /\ signed \in Nat
<1>1. Signing \in SUBSET Requests
  BY DEF Signing
<1> QED BY <1>1, QuotaAssumption, FS_Subset, FS_CardinalityType DEF TypeOK

\* A step that signs nothing and lets no request go on to sign keeps the rows
\* that are owed.
LEMMA FewerSigning ==
  ASSUME TypeOK, TypeOK', UrlsInv, rows' = rows, signed' = signed,
         Signing' \subseteq Signing
  PROVE  UrlsInv'
<1>1. Cardinality(Signing') <= Cardinality(Signing) /\ Cardinality(Signing') \in Nat
  BY SigningFinite, FS_Subset, FS_CardinalityType
<1> QED BY <1>1, SigningFinite DEF UrlsInv

\* Every step keeps them.
LEMMA NextUrls == QuotaInv /\ UrlsInv /\ [Next]_vars => UrlsInv'
<1> SUFFICES ASSUME QuotaInv, UrlsInv, [Next]_vars PROVE UrlsInv'
  OBVIOUS
<1>1. TypeOK /\ TypeOK' /\ ClockOrder
  BY NextType DEF QuotaInv
<1> USE DEF shared
<1>2. ASSUME NEW r \in Requests, Answer(r) PROVE Signing' \subseteq Signing
  BY <1>1, <1>2 DEF Answer, Goto, Signing, TypeOK
<1>3. ASSUME NEW r \in Requests,
             Request(r) \/ FindWindow(r) \/ ReadCache(r) \/ CountRows(r)
      PROVE  UrlsInv'
  <2>1. rows' = rows /\ signed' = signed
    BY <1>3 DEF Request, FindWindow, ReadCache, CountRows
  <2>2. CASE Answer(r)
    BY <1>1, <1>2, <2>1, <2>2, FewerSigning
  <2>3. CASE ~Answer(r)
    <3>1. \E p \in {"window", "cache", "count", "create"} : pc' = [pc EXCEPT ![r] = p]
      BY <1>3, <2>3 DEF Request, FindWindow, ReadCache, CountRows, Goto
    <3>2. Signing' \subseteq Signing
      BY <1>1, <3>1 DEF Signing, TypeOK
    <3> QED BY <1>1, <2>1, <3>2, FewerSigning
  <2> QED BY <2>2, <2>3
<1>4. ASSUME NEW r \in Requests, CreateRow(r) PROVE UrlsInv'
  <2>1. PICK t \in opened[r]..now : rows' = rows \cup {[id |-> nextId, at |-> t]}
    BY <1>4 DEF CreateRow
  <2>2. [id |-> nextId, at |-> t] \notin rows
    BY <1>1 DEF ClockOrder, TypeOK
  <2>3. Cardinality(rows') = Cardinality(rows) + 1
    BY <1>1, <2>1, <2>2, SigningFinite, FS_AddElement
  <2>4. Signing' = Signing \cup {r} /\ r \notin Signing /\ signed' = signed
    BY <1>1, <1>4 DEF CreateRow, Goto, Signing, TypeOK
  <2>5. Cardinality(Signing') = Cardinality(Signing) + 1
    BY <1>1, <2>4, SigningFinite, FS_AddElement
  <2> QED BY <1>1, <2>3, <2>4, <2>5, SigningFinite DEF UrlsInv
<1>5. ASSUME NEW r \in Requests, SignUrl(r) PROVE UrlsInv'
  <2>1. Signing' = Signing \ {r} /\ r \in Signing /\ signed' = signed + 1 /\ rows' = rows
    BY <1>1, <1>5 DEF SignUrl, Goto, Signing, TypeOK
  <2>2. Cardinality(Signing') = Cardinality(Signing) - 1
    BY <1>1, <2>1, SigningFinite, FS_RemoveElement
  <2> QED BY <1>1, <2>1, <2>2, SigningFinite DEF UrlsInv
<1>6. ASSUME NEW r \in Requests, StoreUrl(r) \/ Fail(r) PROVE UrlsInv'
  <2>1. Answer(r) /\ rows' = rows /\ signed' = signed
    BY <1>6 DEF StoreUrl, Fail
  <2> QED BY <1>1, <1>2, <2>1, FewerSigning
<1>7. ASSUME Tick \/ ToggleSubscription \/ Evict \/ UNCHANGED vars PROVE UrlsInv'
  <2>1. rows' = rows /\ signed' = signed /\ Signing' = Signing
    BY <1>7 DEF Tick, ToggleSubscription, Evict, vars, Signing
  <2> QED BY <1>1, <2>1, FewerSigning
<1> QED BY <1>3, <1>4, <1>5, <1>6, <1>7 DEF Next

\* No URL is signed that is not counted: whatever fails between the row and the
\* signature, there are at least as many rows as URLs.
THEOREM UrlsHaveRows == Spec => []UrlsAreCounted
<1>1. Init => UrlsInv
  <2> SUFFICES ASSUME Init PROVE UrlsInv
    OBVIOUS
  <2>1. Signing = {} /\ rows = {} /\ signed = 0
    BY DEF Init, Signing
  <2> QED BY <2>1, FS_EmptySet DEF UrlsInv
<1>2. QuotaInv /\ UrlsInv => UrlsAreCounted
  BY SigningFinite DEF QuotaInv, UrlsInv, UrlsAreCounted
<1> QED BY <1>1, <1>2, InitInv, NextInv, NextUrls, PTL DEF Spec
=============================================================================
