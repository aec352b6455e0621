------------------------ MODULE UpgradeRequestsProofs -------------------------
(* What UpgradeRequests guarantees for any number of requests, handlers,     *)
(* prices, updates and faults.                                               *)
EXTENDS UpgradeRequests, FiniteSetTheorems, TLAPS

Row == [update : 1..MaxUpgrades, status : Statuses]
Update == [to : Prices, outcome : Outcomes]

\* A step of a sequence of records that rewrites one field of one of them.
LEMMA SettleType ==
  ASSUME TypeOK, pending # 0, NEW outcome \in Outcomes, Settle(outcome)
  PROVE  made' \in Seq(Update) /\ Len(made') = Len(made)
<1> DEFINE new == [made[pending] EXCEPT !.outcome = outcome]
<1>1. made \in Seq(Update) /\ pending \in DOMAIN made
  BY DEF TypeOK, Update
<1>2. made[pending] \in Update
  BY <1>1
<1>3. new \in Update
  BY <1>2 DEF Update
<1>4. made' = [made EXCEPT ![pending] = new]
  BY DEF Settle
<1> HIDE DEF new
<1> QED BY <1>1, <1>3, <1>4

\* The same of the rows, where the status is all that a handler changes, and
\* only a row that is PENDING changes.
LEMMA ResolveType ==
  ASSUME TypeOK, NEW h \in Handlers, ResolveFound(h)
  PROVE  /\ rows' \in Seq(Row)
         /\ Len(rows') = Len(rows)
         /\ \A i \in DOMAIN rows : rows[i].status # "PENDING" => rows'[i] = rows[i]
<1>1. /\ found[h] \in DOMAIN rows
      /\ event[h].kind \in {"applied", "expired", "updated"}
  BY DEF TypeOK, ResolveFound, Events
<1>2. Verdict(event[h]) \in Statuses \ {"PENDING"}
  BY <1>1 DEF Verdict, Statuses
<1>3. rows \in Seq(Row)
  BY DEF TypeOK, Row
<1> DEFINE new == [rows[found[h]] EXCEPT !.status =
                      IF @ = "PENDING" THEN Verdict(event[h]) ELSE @]
<1>4. rows[found[h]] \in Row
  BY <1>1, <1>3
<1>5. new \in Row /\ (rows[found[h]].status # "PENDING" => new = rows[found[h]])
  BY <1>2, <1>4 DEF Row
<1>6. rows' = [rows EXCEPT ![found[h]] = new]
  BY DEF ResolveFound
<1> HIDE DEF new
<1>7. rows' \in Seq(Row) /\ Len(rows') = Len(rows)
  BY <1>1, <1>3, <1>5, <1>6
<1>8. ASSUME NEW i \in DOMAIN rows, rows[i].status # "PENDING"
      PROVE  rows'[i] = rows[i]
  <2>1. CASE i = found[h]
    BY <1>1, <1>3, <1>5, <1>6, <1>8, <2>1
  <2>2. CASE i # found[h]
    BY <1>3, <1>6, <2>2
  <2> QED BY <2>1, <2>2
<1> QED BY <1>7, <1>8

\* Every initial state has the types.
LEMMA InitType == Init => TypeOK
  BY UpgradeAssumption DEF Init, TypeOK, Prices, Events, NoEvent

\* The insert of a row keeps the types.
LEMMA InsertType ==
  ASSUME TypeOK, NEW r \in Requests, pc[r] = "insert",
         rows' = Append(rows, [update |-> req[r], status |-> "PENDING"])
  PROVE  rows' \in Seq(Row) /\ Len(rows') = Len(rows) + 1
<1>1. req[r] \in 1..MaxUpgrades
  BY UpgradeAssumption DEF TypeOK
<1>2. [update |-> req[r], status |-> "PENDING"] \in Row
  BY <1>1 DEF Row, Statuses
<1> QED BY <1>2 DEF TypeOK, Row

\* What Stripe accepts keeps the types.
LEMMA AcceptType ==
  ASSUME TypeOK, NEW r \in Requests, NEW outcome \in Outcomes, Accept(r, outcome)
  PROVE  /\ made' \in Seq(Update) /\ Len(made') = Len(made) + 1
         /\ req' = [req EXCEPT ![r] = Len(made) + 1]
         /\ pc' = [pc EXCEPT ![r] = "insert"]
         /\ pc[r] = "update" /\ Len(made') <= MaxUpgrades
<1> DEFINE kept == [i \in DOMAIN made |->
                      IF i = pending THEN [made[i] EXCEPT !.outcome = "replaced"]
                      ELSE made[i]]
           new == [to |-> req[r], outcome |-> outcome]
<1>1. made \in Seq(Update)
  BY DEF TypeOK, Update
<1>2. ASSUME NEW i \in DOMAIN made PROVE kept[i] \in Update
  <2>1. made[i] \in Update
    BY <1>1
  <2>2. [made[i] EXCEPT !.outcome = "replaced"] \in Update
    BY <2>1 DEF Update, Outcomes
  <2> QED BY <2>1, <2>2
<1>3. kept \in Seq(Update) /\ Len(kept) = Len(made)
  BY <1>1, <1>2
<1>4. pc[r] = "update" /\ new \in Update
  BY DEF Accept, TypeOK, Update
<1>5. made' = Append(kept, new) /\ req' = [req EXCEPT ![r] = Len(made')]
  BY DEF Accept
<1> HIDE DEF kept, new
<1>6. made' \in Seq(Update) /\ Len(made') = Len(made) + 1
  BY <1>3, <1>4, <1>5
<1>7. Len(made) < MaxUpgrades /\ Len(made) \in Nat
  BY <1>1 DEF Accept
<1>8. pc' = [pc EXCEPT ![r] = "insert"]
  BY DEF Accept, Goto
<1>9. Len(made') <= MaxUpgrades
  BY <1>6, <1>7, UpgradeAssumption
<1>10. req' = [req EXCEPT ![r] = Len(made) + 1]
  BY <1>5, <1>6
<1> QED BY <1>4, <1>6, <1>8, <1>9, <1>10

\* A fault keeps the types of what counts them.
LEMMA LuckType ==
  ASSUME TypeOK, Fault \/ UNCHANGED luck
  PROVE  clean' \in BOOLEAN /\ faults' \in 0..MaxFaults
<1>1. CASE Fault
  <2>1. clean' \in BOOLEAN
    BY <1>1, Zenon DEF Fault
  <2>2. faults' \in 0..MaxFaults
    BY <1>1, UpgradeAssumption DEF Fault, TypeOK
  <2> QED BY <2>1, <2>2
<1>2. CASE UNCHANGED luck
  BY <1>2 DEF luck, TypeOK
<1> QED BY <1>1, <1>2

\* Every step keeps the types.
LEMMA NextType == TypeOK /\ [Next]_vars => TypeOK'
<1> SUFFICES ASSUME TypeOK, [Next]_vars PROVE TypeOK'
  OBVIOUS
<1> USE UpgradeAssumption DEF stripe, requests, handling, luck, Goto, Answer, HGoto, Finish
<1>1. CASE ApplyPending \/ ExpirePending
  <2>1. PICK outcome \in {"applied", "expired"} :
           /\ pending # 0 /\ Settle(outcome)
           /\ mail' = mail \cup {[NoEvent EXCEPT !.kind = outcome, !.update = pending]}
    BY <1>1 DEF ApplyPending, ExpirePending
  <2>2. made' \in Seq(Update) /\ Len(made') = Len(made)
    BY <2>1, SettleType DEF Outcomes
  <2>3. [NoEvent EXCEPT !.kind = outcome, !.update = pending] \in Events
    <3>1. pending \in Nat
      BY DEF TypeOK
    <3> QED BY <3>1 DEF NoEvent, Events
  <2>4. price' \in Prices
    <3>1. made \in Seq(Update) /\ pending \in 1..Len(made) /\ price \in Prices
      BY <2>1 DEF TypeOK, Update
    <3>2. made[pending] \in Update
      BY <3>1
    <3>3. made[pending].to \in Prices
      BY <3>2 DEF Update
    <3>4. price' \in {price, made[pending].to}
      BY <1>1 DEF ApplyPending, ExpirePending
    <3> QED BY <3>1, <3>3, <3>4
  <2>5. /\ pending' = 0
        /\ UNCHANGED <<renewals, ledger, rows, requests, handling, luck>>
    BY <1>1 DEF ApplyPending, ExpirePending
  <2> QED BY <2>1, <2>2, <2>3, <2>4, <2>5 DEF TypeOK, Update
<1>2. CASE Renewal
  <2>1. [NoEvent EXCEPT !.kind = "updated", !.behind = renewals % 2 = 0,
                        !.pending = pending # 0] \in Events
    BY DEF NoEvent, Events
  <2>2. renewals' \in 0..MaxRenewals
    BY <1>2 DEF TypeOK, Renewal
  <2>3. mail' \subseteq Events
    BY <1>2, <2>1 DEF TypeOK, Renewal
  <2>4. /\ clean' \in BOOLEAN
        /\ UNCHANGED <<price, pending, made, ledger, rows, requests, handling, faults>>
    BY <1>2 DEF Renewal
  <2> QED BY <2>2, <2>3, <2>4 DEF TypeOK
<1>3. ASSUME NEW r \in Requests, NEW to \in Prices, StartUpgrade(r, to)
      PROVE  TypeOK'
  <2>1. clean' \in BOOLEAN
    BY <1>3, Zenon DEF TypeOK, StartUpgrade
  <2> QED BY <1>3, <2>1 DEF TypeOK, StartUpgrade, Prices
<1>4. ASSUME NEW r \in Requests,
             CheckPending(r) \/ RefusePending(r) \/ RetrievePrice(r) \/ EndsEarly(r)
      PROVE  TypeOK'
  <2>1. /\ pc' \in [Requests -> {"idle", "check", "retrieve", "update", "insert"}]
        /\ req' \in [Requests -> Nat]
    <3>1. \/ pc' = [pc EXCEPT ![r] = "idle"]
          \/ pc' = [pc EXCEPT ![r] = "retrieve"]
          \/ pc' = [pc EXCEPT ![r] = "update"]
      BY <1>4 DEF CheckPending, RefusePending, RetrievePrice, EndsEarly
    <3>2. req' = req \/ req' = [req EXCEPT ![r] = 0]
      BY <1>4 DEF CheckPending, RefusePending, RetrievePrice, EndsEarly
    <3>3. /\ pc \in [Requests -> {"idle", "check", "retrieve", "update", "insert"}]
          /\ req \in [Requests -> Nat]
      BY DEF TypeOK
    <3>4. pc' \in [Requests -> {"idle", "check", "retrieve", "update", "insert"}]
      BY <3>1, <3>3
    <3>5. req' \in [Requests -> Nat]
      BY <3>2, <3>3
    <3> QED BY <3>4, <3>5
  <2>2. ASSUME NEW q \in Requests
        PROVE  /\ pc'[q] \in {"check", "retrieve", "update"} => req'[q] \in Prices
               /\ pc'[q] = "insert" => req'[q] \in 1..Len(made)
    <3>1. CASE q = r
      BY <1>4, <3>1 DEF TypeOK, CheckPending, RefusePending, RetrievePrice, EndsEarly
    <3>2. CASE q # r
      BY <1>4, <3>2 DEF TypeOK, CheckPending, RefusePending, RetrievePrice, EndsEarly
    <3> QED BY <3>1, <3>2
  <2>3. UNCHANGED <<stripe, mail, ledger, rows, handling, luck>>
    BY <1>4 DEF CheckPending, RefusePending, RetrievePrice, EndsEarly
  <2> QED BY <2>1, <2>2, <2>3 DEF TypeOK
<1>5. ASSUME NEW r \in Requests, UpdateAtOnce(r) \/ UpdatePends(r)
      PROVE  TypeOK'
  <2>1. PICK outcome \in Outcomes : Accept(r, outcome)
    BY <1>5 DEF UpdateAtOnce, UpdatePends, Outcomes
  <2>2. /\ made' \in Seq(Update) /\ Len(made') = Len(made) + 1
        /\ req' = [req EXCEPT ![r] = Len(made) + 1]
        /\ pc' = [pc EXCEPT ![r] = "insert"]
        /\ pc[r] = "update" /\ Len(made') <= MaxUpgrades
    BY <2>1, AcceptType
  <2>3. price' \in Prices /\ pending' \in 0..Len(made')
    <3>1. price' = price \/ price' = req[r]
      BY <1>5 DEF UpdateAtOnce, UpdatePends
    <3>2. pending' = 0 \/ pending' = Len(made')
      BY <1>5 DEF UpdateAtOnce, UpdatePends
    <3>3. price \in Prices /\ req[r] \in Prices /\ Len(made') \in Nat
      BY <2>2 DEF TypeOK
    <3> QED BY <3>1, <3>2, <3>3
  <2>4. UNCHANGED <<renewals, mail, ledger, rows, handling, luck>>
    BY <1>5 DEF UpdateAtOnce, UpdatePends
  <2>5. Len(made) \in Nat
    BY DEF TypeOK
  <2>6. /\ pc' \in [Requests -> {"idle", "check", "retrieve", "update", "insert"}]
        /\ req' \in [Requests -> Nat]
        /\ \A q \in Requests :
              /\ pc'[q] \in {"check", "retrieve", "update"} => req'[q] \in Prices
              /\ pc'[q] = "insert" => req'[q] \in 1..Len(made')
    BY <2>2, <2>5 DEF TypeOK
  <2> QED BY <2>2, <2>3, <2>4, <2>6 DEF TypeOK, Update
<1>6. ASSUME NEW r \in Requests, InsertRow(r) \/ RequestFails(r)
      PROVE  TypeOK'
  <2>1. rows' \in Seq(Row) /\ Len(rows') \in Nat /\ Len(rows') >= Len(rows)
    <3>1. CASE UNCHANGED rows
      BY <3>1 DEF TypeOK, Row
    <3>2. CASE rows' = Append(rows, [update |-> req[r], status |-> "PENDING"])
      <4>1. pc[r] = "insert"
        BY <1>6 DEF InsertRow, RequestFails
      <4>2. rows' \in Seq(Row) /\ Len(rows') = Len(rows) + 1
        BY <3>2, <4>1, InsertType
      <4>3. Len(rows) \in Nat
        BY DEF TypeOK
      <4> QED BY <4>2, <4>3
    <3> QED BY <1>6, <3>1, <3>2 DEF InsertRow, RequestFails
  <2>2. \A h \in Handlers : found[h] \in 0..Len(rows')
    BY <2>1 DEF TypeOK
  <2>3. Answer(r) /\ UNCHANGED <<stripe, mail, ledger, handling>>
    BY <1>6 DEF InsertRow, RequestFails
  <2>4. clean' \in BOOLEAN /\ faults' \in 0..MaxFaults
    BY <1>6, LuckType DEF InsertRow, RequestFails
  <2> QED BY <2>1, <2>2, <2>3, <2>4 DEF TypeOK, Row
<1>7. ASSUME NEW h \in Handlers, StartEvent(h) PROVE TypeOK'
  BY <1>7 DEF TypeOK, StartEvent
<1>8. ASSUME NEW h \in Handlers, WriteLedger(h) PROVE TypeOK'
  <2>1. ledger' \in BOOLEAN
    BY <1>8, Zenon DEF WriteLedger
  <2>2. CASE IgnoredFailure(event[h])
    <3>1. Finish(h) /\ UNCHANGED <<stripe, mail, rows, requests, luck>>
      BY <1>8, <2>2 DEF WriteLedger
    <3>2. 0 \in 0..Len(rows)
      BY DEF TypeOK
    <3> QED BY <2>1, <3>1, <3>2 DEF TypeOK
  <2>3. CASE ~IgnoredFailure(event[h])
    BY <1>8, <2>1, <2>3 DEF TypeOK, WriteLedger
  <2> QED BY <2>2, <2>3
<1>9. ASSUME NEW h \in Handlers, FindLatest(h) PROVE TypeOK'
  <2>1. UNCHANGED <<stripe, mail, ledger, rows, requests, luck>>
    BY <1>9 DEF FindLatest
  <2>2. CASE Finish(h)
    BY <2>1, <2>2 DEF TypeOK
  <2>3. ASSUME NEW i \in PendingRows, found' = [found EXCEPT ![h] = i],
               hpc' = [hpc EXCEPT ![h] = "resolve"], hpc[h] = "find", event' = event
        PROVE  TypeOK'
    <3>1. i \in 1..Len(rows)
      BY DEF PendingRows, TypeOK
    <3> QED BY <2>1, <2>3, <3>1 DEF TypeOK
  <2> QED BY <1>9, <2>2, <2>3 DEF FindLatest
<1>10. ASSUME NEW h \in Handlers, Resolve(h) \/ HandlerFails(h) PROVE TypeOK'
  <2>1. rows' \in Seq(Row) /\ Len(rows') = Len(rows)
    <3>1. CASE ResolveFound(h)
      BY <3>1, ResolveType
    <3>2. CASE UNCHANGED rows
      BY <3>2 DEF TypeOK, Row
    <3> QED BY <1>10, <3>1, <3>2 DEF Resolve, HandlerFails
  <2>2. Finish(h) /\ UNCHANGED <<stripe, ledger, requests>>
    BY <1>10 DEF Resolve, HandlerFails
  <2>3. mail' \subseteq Events
    BY <1>10 DEF Resolve, HandlerFails, TypeOK
  <2>4. clean' \in BOOLEAN /\ faults' \in 0..MaxFaults
    BY <1>10, LuckType DEF Resolve, HandlerFails
  <2> QED BY <2>1, <2>2, <2>3, <2>4 DEF TypeOK, Row
<1>11. CASE Crash
  <2>1. clean' \in BOOLEAN /\ faults' \in 0..MaxFaults
    BY <1>11, LuckType DEF Crash
  <2>2. UNCHANGED <<stripe, mail, ledger, rows>>
    BY <1>11 DEF Crash
  <2>3. /\ pc' = [r \in Requests |-> "idle"]
        /\ req' = [r \in Requests |-> 0]
        /\ hpc' = [h \in Handlers |-> "idle"]
        /\ event' = [h \in Handlers |-> NoEvent]
        /\ found' = [h \in Handlers |-> 0]
    BY <1>11 DEF Crash
  <2>4. Len(rows) \in Nat
    BY DEF TypeOK
  <2> QED BY <2>1, <2>2, <2>3, <2>4 DEF TypeOK
<1>12. CASE UNCHANGED vars
  BY <1>12 DEF TypeOK, vars
<1> QED BY <1>1, <1>2, <1>3, <1>4, <1>5, <1>6, <1>7, <1>8, <1>9, <1>10, <1>11, <1>12
        DEF Next

-----------------------------------------------------------------------------
\* The sets that PendingOrCleared counts are finite.
LEMMA Finite ==
  ASSUME TypeOK
  PROVE  /\ IsFiniteSet(PendingRows) /\ Cardinality(PendingRows) \in Nat
         /\ IsFiniteSet(Cleared) /\ Cardinality(Cleared) \in Nat
         /\ Cardinality(Cleared) <= Cardinality(Requests)
         /\ Cardinality(Requests) \in Nat
<1>1. DOMAIN rows = 1..Len(rows) /\ Len(rows) \in Int
  BY DEF TypeOK
<1>2. IsFiniteSet(DOMAIN rows)
  BY <1>1, FS_Interval
<1>3. IsFiniteSet(PendingRows)
  BY <1>2, FS_Subset DEF PendingRows
<1>4. IsFiniteSet(Cleared) /\ Cardinality(Cleared) <= Cardinality(Requests)
  BY UpgradeAssumption, FS_Subset DEF Cleared
<1> QED BY <1>3, <1>4, UpgradeAssumption, FS_CardinalityType

\* A step that makes no row PENDING and clears no request keeps the bound.
LEMMA NoMore ==
  ASSUME TypeOK, TypeOK', PendingOrCleared,
         PendingRows' \subseteq PendingRows, Cleared' \subseteq Cleared
  PROVE  PendingOrCleared'
<1>1. /\ Cardinality(PendingRows') <= Cardinality(PendingRows)
      /\ Cardinality(Cleared') <= Cardinality(Cleared)
  BY Finite, FS_Subset
<1>2. Cardinality(PendingRows') \in Nat /\ Cardinality(Cleared') \in Nat
  BY Finite, FS_Subset, FS_CardinalityType
<1> QED BY <1>1, <1>2, Finite DEF PendingOrCleared

\* The insert trades a request that was cleared for a row that is PENDING.
LEMMA InsertTrades ==
  ASSUME TypeOK, PendingOrCleared, NEW r \in Requests, pc[r] = "insert", Answer(r),
         rows' = Append(rows, [update |-> req[r], status |-> "PENDING"])
  PROVE  PendingOrCleared'
<1>1. Cleared' = Cleared \ {r} /\ r \in Cleared
  BY DEF Cleared, Answer, Goto, TypeOK
<1>2. PendingRows' = PendingRows \cup {Len(rows) + 1} /\ Len(rows) + 1 \notin PendingRows
  BY DEF PendingRows, TypeOK
<1>3. Cardinality(Cleared') = Cardinality(Cleared) - 1
  BY <1>1, Finite, FS_RemoveElement
<1>4. Cardinality(PendingRows') = Cardinality(PendingRows) + 1
  BY <1>2, Finite, FS_AddElement
<1> QED BY <1>3, <1>4, Finite DEF PendingOrCleared

\* Every step keeps the bound: a request is cleared when nothing is PENDING.
LEMMA NextPending == TypeOK /\ PendingOrCleared /\ [Next]_vars => PendingOrCleared'
<1> SUFFICES ASSUME TypeOK, PendingOrCleared, [Next]_vars PROVE PendingOrCleared'
  OBVIOUS
<1>1. TypeOK'
  BY NextType
<1> USE DEF stripe, requests, handling, luck, Goto, Answer, HGoto, Finish
<1>2. CASE UNCHANGED <<rows, pc>>
  <2>1. PendingRows' = PendingRows /\ Cleared' = Cleared
    BY <1>2 DEF PendingRows, Cleared
  <2> QED BY <1>1, <2>1, NoMore
<1>3. ASSUME NEW r \in Requests, CheckPending(r) PROVE PendingOrCleared'
  <2>1. PendingRows' = {}
    BY <1>3 DEF CheckPending, PendingRows
  <2>2. Cardinality(PendingRows') = 0
    BY <2>1, FS_EmptySet
  <2>3. Cleared' \subseteq Requests
    BY DEF Cleared
  <2>4. /\ Cardinality(Cleared') <= Cardinality(Requests)
        /\ Cardinality(Cleared') \in Nat
    BY <2>3, UpgradeAssumption, FS_Subset, FS_CardinalityType
  <2> QED BY <2>2, <2>4, Finite DEF PendingOrCleared
<1>4. ASSUME NEW r \in Requests, NEW to \in Prices,
             StartUpgrade(r, to) \/ RefusePending(r) \/ RetrievePrice(r) \/ EndsEarly(r)
      PROVE  PendingOrCleared'
  <2>1. PendingRows' = PendingRows
    BY <1>4 DEF PendingRows, StartUpgrade, RefusePending, RetrievePrice, EndsEarly
  <2>2. Cleared' \subseteq Cleared
    BY <1>4 DEF TypeOK, Cleared, StartUpgrade, RefusePending, RetrievePrice, EndsEarly
  <2> QED BY <1>1, <2>1, <2>2, NoMore
<1>5. ASSUME NEW r \in Requests, UpdateAtOnce(r) \/ UpdatePends(r)
      PROVE  PendingOrCleared'
  <2>1. PendingRows' = PendingRows /\ Cleared' \subseteq Cleared
    BY <1>5 DEF TypeOK, PendingRows, Cleared, UpdateAtOnce, UpdatePends, Accept
  <2> QED BY <1>1, <2>1, NoMore
<1>6. ASSUME NEW r \in Requests, InsertRow(r) \/ RequestFails(r)
      PROVE  PendingOrCleared'
  <2>1. pc[r] = "insert" /\ Answer(r)
    BY <1>6 DEF InsertRow, RequestFails
  <2>2. CASE rows' = Append(rows, [update |-> req[r], status |-> "PENDING"])
    BY <2>1, <2>2, InsertTrades
  <2>3. CASE UNCHANGED rows
    <3>1. PendingRows' = PendingRows /\ Cleared' \subseteq Cleared
      BY <2>1, <2>3 DEF TypeOK, PendingRows, Cleared
    <3> QED BY <1>1, <3>1, NoMore
  <2> QED BY <1>6, <2>2, <2>3 DEF InsertRow, RequestFails
<1>7. ASSUME NEW h \in Handlers, ResolveFound(h), UNCHANGED requests
      PROVE  PendingOrCleared'
  <2>1. rows' \in Seq(Row) /\ Len(rows') = Len(rows) /\ rows \in Seq(Row)
    BY <1>7, ResolveType DEF TypeOK, Row
  <2>2. \A i \in DOMAIN rows : rows[i].status # "PENDING" => rows'[i] = rows[i]
    BY <1>7, ResolveType
  <2>3. PendingRows' \subseteq PendingRows /\ Cleared' = Cleared
    BY <1>7, <2>1, <2>2 DEF PendingRows, Cleared
  <2> QED BY <1>1, <2>3, NoMore
<1>8. CASE Crash
  <2>1. PendingRows' = PendingRows /\ Cleared' \subseteq Cleared
    BY <1>8 DEF Crash, PendingRows, Cleared
  <2> QED BY <1>1, <2>1, NoMore
<1>9. CASE ApplyPending \/ ExpirePending \/ Renewal \/ UNCHANGED vars
  BY <1>2, <1>9 DEF ApplyPending, ExpirePending, Renewal, vars
<1>10. ASSUME NEW h \in Handlers,
              StartEvent(h) \/ WriteLedger(h) \/ FindLatest(h) \/ Resolve(h)
                \/ HandlerFails(h)
       PROVE  PendingOrCleared'
  BY <1>2, <1>7, <1>10 DEF StartEvent, WriteLedger, FindLatest, Resolve, HandlerFails
<1>11. ASSUME NEW r \in Requests, RefusePending(r) \/ RetrievePrice(r) \/ EndsEarly(r)
       PROVE  PendingOrCleared'
  <2>1. 1 \in Prices
    BY UpgradeAssumption DEF Prices
  <2> QED BY <1>4, <1>11, <2>1
<1> QED BY <1>3, <1>4, <1>5, <1>6, <1>8, <1>9, <1>10, <1>11 DEF Next

-----------------------------------------------------------------------------
\* The types and the bound are an inductive invariant.
LEMMA AlwaysUpgradeInv == Spec => [](TypeOK /\ PendingOrCleared)
<1>1. Init => PendingOrCleared
  <2> SUFFICES ASSUME Init PROVE PendingOrCleared
    OBVIOUS
  <2>1. PendingRows = {} /\ Cleared = {}
    BY DEF Init, PendingRows, Cleared
  <2>2. Cardinality(Requests) \in Nat
    BY UpgradeAssumption, FS_CardinalityType
  <2> QED BY <2>1, <2>2, FS_EmptySet DEF PendingOrCleared
<1> QED BY <1>1, InitType, NextType, NextPending, PTL DEF Spec

\* Upgrades are well typed: a request that is done at Stripe names one of its
\* updates, and a handler that is about to write names a row.
THEOREM TypeCorrect == Spec => []TypeOK
<1> QED BY AlwaysUpgradeInv, PTL

\* The rows that are PENDING and the requests that may add one stay within the
\* number of requests.
THEOREM PendingAndClearedAreBounded == Spec => []PendingOrCleared
<1> QED BY AlwaysUpgradeInv, PTL

\* As many upgrades of one subscription may be PENDING as requests run at once.
THEOREM PendingIsBounded == Spec => []PendingBound
<1>1. TypeOK /\ PendingOrCleared => PendingBound
  BY Finite DEF PendingOrCleared, PendingBound
<1> QED BY <1>1, AlwaysUpgradeInv, PTL

\* A verdict is final, however late and however often events come.
THEOREM VerdictsAreFinal == Spec => VerdictIsFinal
<1>1. TypeOK /\ [Next]_vars =>
        [\A i \in DOMAIN rows : rows[i].status # "PENDING" => rows'[i] = rows[i]]_vars
  <2> SUFFICES ASSUME TypeOK, [Next]_vars, NEW i \in DOMAIN rows,
                      rows[i].status # "PENDING"
               PROVE  rows'[i] = rows[i]
    OBVIOUS
  <2> USE DEF stripe, requests, handling, luck
  <2>1. CASE UNCHANGED rows
    BY <2>1
  <2>2. ASSUME NEW r \in Requests,
               rows' = Append(rows, [update |-> req[r], status |-> "PENDING"])
        PROVE  rows'[i] = rows[i]
    BY <2>2 DEF TypeOK
  <2>3. ASSUME NEW h \in Handlers, ResolveFound(h) PROVE rows'[i] = rows[i]
    BY <2>3, ResolveType
  <2>4. ASSUME NEW r \in Requests, InsertRow(r) \/ RequestFails(r)
        PROVE  rows'[i] = rows[i]
    BY <2>1, <2>2, <2>4 DEF InsertRow, RequestFails
  <2>5. ASSUME NEW h \in Handlers, Resolve(h) \/ HandlerFails(h) PROVE rows'[i] = rows[i]
    BY <2>1, <2>3, <2>5 DEF Resolve, HandlerFails
  <2>6. ASSUME NEW r \in Requests,
               \/ \E to \in Prices : StartUpgrade(r, to)
               \/ CheckPending(r) \/ RefusePending(r) \/ RetrievePrice(r)
               \/ UpdateAtOnce(r) \/ UpdatePends(r) \/ EndsEarly(r)
        PROVE  UNCHANGED rows
    BY <2>6 DEF StartUpgrade, CheckPending, RefusePending, RetrievePrice, UpdateAtOnce,
                UpdatePends, EndsEarly
  <2>7. ASSUME NEW h \in Handlers, StartEvent(h) \/ WriteLedger(h) \/ FindLatest(h)
        PROVE  UNCHANGED rows
    BY <2>7 DEF StartEvent, WriteLedger, FindLatest
  <2>8. CASE ApplyPending \/ ExpirePending \/ Renewal \/ Crash \/ UNCHANGED vars
    BY <2>8 DEF ApplyPending, ExpirePending, Renewal, Crash, vars
  <2> QED BY <2>1, <2>4, <2>5, <2>6, <2>7, <2>8 DEF Next
<1> QED BY <1>1, AlwaysUpgradeInv, PTL DEF Spec, VerdictIsFinal

-----------------------------------------------------------------------------
(* How many requests are completed.                                          *)

\* Events that will complete a request, in the mail and in hand.
AppliedMail == {e \in mail : e.kind = "applied"}
Completing == {h \in Handlers : hpc[h] # "idle" /\ event[h].kind = "applied"}

\* Stripe sends one such event for an update, and only a fault sends it again.
CompletingBound ==
    Cardinality(Completed) + Cardinality(AppliedMail) + Cardinality(Completing)
        <= Cardinality(Applied) + faults

\* An update that is pending has not been applied yet.
CompletedInv == /\ pending # 0 => made[pending].outcome = "pending"
                /\ IsFiniteSet(AppliedMail)
                /\ CompletingBound

\* A set that gains at most one element.
LEMMA OneMore ==
  ASSUME NEW S, IsFiniteSet(S), NEW x, NEW T \in SUBSET (S \cup {x})
  PROVE  /\ IsFiniteSet(T) /\ Cardinality(T) \in Nat /\ Cardinality(S) \in Nat
         /\ Cardinality(T) <= Cardinality(S) + 1
         /\ T \subseteq S => Cardinality(T) <= Cardinality(S)
<1>1. IsFiniteSet(S \cup {x}) /\ Cardinality(S \cup {x}) <= Cardinality(S) + 1
  <2>1. Cardinality(S) \in Nat
    BY FS_CardinalityType
  <2> QED BY <2>1, FS_AddElement
<1>2. IsFiniteSet(T) /\ Cardinality(T) <= Cardinality(S \cup {x})
  BY <1>1, FS_Subset
<1>3. /\ Cardinality(T) \in Nat /\ Cardinality(S) \in Nat
      /\ Cardinality(S \cup {x}) \in Nat
  BY <1>1, <1>2, FS_CardinalityType
<1>4. T \subseteq S => Cardinality(T) <= Cardinality(S)
  BY FS_Subset
<1> QED BY <1>1, <1>2, <1>3, <1>4

\* What CompletingBound counts is finite.
LEMMA CountsAreFinite ==
  ASSUME TypeOK, CompletedInv
  PROVE  /\ IsFiniteSet(Completed) /\ Cardinality(Completed) \in Nat
         /\ IsFiniteSet(AppliedMail) /\ Cardinality(AppliedMail) \in Nat
         /\ IsFiniteSet(Completing) /\ Cardinality(Completing) \in Nat
         /\ IsFiniteSet(Applied) /\ Cardinality(Applied) \in Nat
         /\ faults \in Nat
<1>1. /\ DOMAIN rows = 1..Len(rows) /\ Len(rows) \in Int
      /\ DOMAIN made = 1..Len(made) /\ Len(made) \in Int
      /\ faults \in Nat
  BY UpgradeAssumption DEF TypeOK
<1>2. IsFiniteSet(DOMAIN rows) /\ IsFiniteSet(DOMAIN made)
  BY <1>1, FS_Interval
<1>3. IsFiniteSet(Completed) /\ IsFiniteSet(Applied)
  BY <1>2, FS_Subset DEF Completed, Applied
<1>4. IsFiniteSet(Completing) /\ IsFiniteSet(AppliedMail)
  BY UpgradeAssumption, FS_Subset DEF Completing, CompletedInv
<1> QED BY <1>1, <1>3, <1>4, FS_CardinalityType

\* A step after which no more is counted.
LEMMA NoMoreCompleting ==
  ASSUME TypeOK, CompletedInv,
         Completed' \subseteq Completed, AppliedMail' \subseteq AppliedMail,
         Completing' \subseteq Completing, Applied \subseteq Applied',
         IsFiniteSet(Applied'), faults' \in Nat, faults <= faults'
  PROVE  CompletingBound' /\ IsFiniteSet(AppliedMail')
<1>1. /\ Cardinality(Completed') <= Cardinality(Completed)
      /\ Cardinality(Completed') \in Nat
      /\ Cardinality(AppliedMail') <= Cardinality(AppliedMail)
      /\ Cardinality(AppliedMail') \in Nat /\ IsFiniteSet(AppliedMail')
      /\ Cardinality(Completing') <= Cardinality(Completing)
      /\ Cardinality(Completing') \in Nat
  BY CountsAreFinite, FS_Subset, FS_CardinalityType
<1>2. Cardinality(Applied) <= Cardinality(Applied') /\ Cardinality(Applied') \in Nat
  BY FS_Subset, FS_CardinalityType
<1> QED BY <1>1, <1>2, CountsAreFinite DEF CompletedInv, CompletingBound

\* A handler completes a request only with the event it holds, and lets go of it.
LEMMA ResolveCompletes ==
  ASSUME TypeOK, CompletedInv, NEW h \in Handlers, ResolveFound(h), Finish(h)
  PROVE  /\ \/ Completed' \subseteq Completed
            \/ h \in Completing /\ Completed' \subseteq Completed \cup {found[h]}
         /\ Completing' = Completing \ {h}
<1>1. /\ rows' \in Seq(Row) /\ Len(rows') = Len(rows) /\ rows \in Seq(Row)
      /\ found[h] \in DOMAIN rows
  <2>1. rows \in Seq(Row) /\ found[h] \in DOMAIN rows
    BY DEF TypeOK, Row, ResolveFound
  <2> QED BY <2>1, ResolveType
<1>2. \A i \in DOMAIN rows : i # found[h] => rows'[i] = rows[i]
  BY <1>1 DEF ResolveFound
<1>3. DOMAIN rows' = DOMAIN rows
  BY <1>1
<1>4. Completed' \subseteq Completed \cup {found[h]}
  BY <1>2, <1>3 DEF Completed
<1>5. CASE h \in Completing
  BY <1>4, <1>5 DEF Completing, Finish, HGoto, TypeOK
<1>6. CASE h \notin Completing
  <2>1. event[h].kind \in {"expired", "updated"}
    BY <1>6 DEF Completing, ResolveFound, TypeOK, Events
  <2>2. Verdict(event[h]) # "COMPLETED"
    BY <2>1 DEF Verdict
  <2>3. rows[found[h]] \in Row
    BY <1>1
  <2> DEFINE new == [rows[found[h]] EXCEPT !.status =
                        IF @ = "PENDING" THEN Verdict(event[h]) ELSE @]
  <2>4. new.status = "COMPLETED" => rows[found[h]].status = "COMPLETED"
    BY <2>2, <2>3 DEF Row
  <2>5. rows' = [rows EXCEPT ![found[h]] = new]
    BY DEF ResolveFound
  <2>6. rows'[found[h]] = new
    BY <1>1, <2>5
  <2>7. Completed' \subseteq Completed
    BY <1>1, <1>4, <2>4, <2>6 DEF Completed
  <2> QED BY <1>6, <2>7 DEF Completing, Finish, HGoto, TypeOK
<1> QED BY <1>5, <1>6

\* What Stripe settles was pending.
LEMMA SettleApplies ==
  ASSUME TypeOK, CompletedInv, pending # 0, NEW outcome \in Outcomes, Settle(outcome)
  PROVE  /\ Applied' = IF outcome = "applied" THEN Applied \cup {pending} ELSE Applied
         /\ pending \notin Applied
<1>1. /\ made \in Seq(Update) /\ pending \in DOMAIN made
      /\ made[pending].outcome = "pending"
  BY DEF TypeOK, Update, CompletedInv
<1> DEFINE new == [made[pending] EXCEPT !.outcome = outcome]
<1>2. made[pending] \in Update
  BY <1>1
<1>3. new.outcome = outcome
  BY <1>2 DEF Update
<1>4. made' = [made EXCEPT ![pending] = new]
  BY DEF Settle
<1> HIDE DEF new
<1>5. DOMAIN made' = DOMAIN made
  BY <1>4
<1>6. \A i \in DOMAIN made : made'[i] = IF i = pending THEN new ELSE made[i]
  BY <1>1, <1>4
<1> QED BY <1>1, <1>3, <1>5, <1>6 DEF Applied

\* Accepting an update applies nothing that was pending, and makes it the last.
LEMMA AcceptApplies ==
  ASSUME TypeOK, CompletedInv, NEW r \in Requests, NEW outcome \in Outcomes,
         outcome # "applied", Accept(r, outcome)
  PROVE  /\ Applied' = Applied
         /\ made'[Len(made')].outcome = outcome
<1> DEFINE kept == [i \in DOMAIN made |->
                      IF i = pending THEN [made[i] EXCEPT !.outcome = "replaced"]
                      ELSE made[i]]
           new == [to |-> req[r], outcome |-> outcome]
<1>1. made \in Seq(Update)
  BY DEF TypeOK, Update
<1>2. ASSUME NEW i \in DOMAIN made
      PROVE  /\ kept[i] \in Update
             /\ kept[i].outcome = "applied" <=> made[i].outcome = "applied"
  <2>1. made[i] \in Update
    BY <1>1
  <2>2. /\ [made[i] EXCEPT !.outcome = "replaced"] \in Update
        /\ [made[i] EXCEPT !.outcome = "replaced"].outcome = "replaced"
    BY <2>1 DEF Update, Outcomes
  <2>3. i = pending => made[i].outcome = "pending"
    <3>1. i \in 1..Len(made)
      BY <1>1
    <3> QED BY <3>1 DEF CompletedInv
  <2> QED BY <2>1, <2>2, <2>3
<1>3. kept \in Seq(Update) /\ Len(kept) = Len(made) /\ DOMAIN kept = DOMAIN made
  BY <1>1, <1>2
<1>4. made' = Append(kept, new)
  BY DEF Accept
<1>5. new \in Update /\ new.outcome = outcome
  BY DEF Accept, TypeOK, Update, Outcomes
<1> HIDE DEF kept, new
<1>6. /\ Len(made') = Len(made) + 1
      /\ DOMAIN made' = DOMAIN made \cup {Len(made) + 1}
      /\ made'[Len(made) + 1] = new
      /\ \A i \in DOMAIN made : made'[i] = kept[i]
  BY <1>1, <1>3, <1>4, <1>5
<1> QED BY <1>2, <1>5, <1>6 DEF Applied

\* Stripe's steps: an update that is applied brings one event.
LEMMA SettleCompleting ==
  ASSUME TypeOK, CompletedInv, ApplyPending \/ ExpirePending
  PROVE  CompletedInv'
<1>1. PICK outcome \in {"applied", "expired"} :
         /\ pending # 0 /\ Settle(outcome) /\ pending' = 0
         /\ mail' = mail \cup {[NoEvent EXCEPT !.kind = outcome, !.update = pending]}
         /\ UNCHANGED <<rows, hpc, event, faults>>
  BY DEF ApplyPending, ExpirePending, handling, luck
<1> DEFINE e == [NoEvent EXCEPT !.kind = outcome, !.update = pending]
<1>2. Completed' = Completed /\ Completing' = Completing
  BY <1>1 DEF Completed, Completing
<1>3. e.kind = outcome
  BY DEF NoEvent
<1>4. CASE outcome = "expired"
  <2>1. AppliedMail' = AppliedMail
    BY <1>1, <1>3, <1>4 DEF AppliedMail
  <2>2. Applied' = Applied
    BY <1>1, <1>4, SettleApplies DEF Outcomes
  <2> QED BY <1>1, <1>2, <2>1, <2>2 DEF CompletedInv, CompletingBound
<1>5. CASE outcome = "applied"
  <2>1. Applied' = Applied \cup {pending} /\ pending \notin Applied
    BY <1>1, <1>5, SettleApplies DEF Outcomes
  <2>2. Cardinality(Applied') = Cardinality(Applied) + 1
    BY <2>1, CountsAreFinite, FS_AddElement
  <2>3. AppliedMail' \subseteq AppliedMail \cup {e}
    BY <1>1 DEF AppliedMail
  <2> HIDE DEF e
  <2>4. /\ IsFiniteSet(AppliedMail') /\ Cardinality(AppliedMail') \in Nat
        /\ Cardinality(AppliedMail') <= Cardinality(AppliedMail) + 1
    BY <2>3, CountsAreFinite, OneMore
  <2> QED BY <1>1, <1>2, <2>2, <2>4, CountsAreFinite DEF CompletedInv, CompletingBound
<1> QED BY <1>4, <1>5

\* A handler takes an event out of the mail into its hand.
LEMMA StartCompleting ==
  ASSUME TypeOK, CompletedInv, NEW h \in Handlers, StartEvent(h)
  PROVE  CompletedInv'
<1>1. PICK e \in mail : mail' = mail \ {e} /\ event' = [event EXCEPT ![h] = e]
  BY DEF StartEvent
<1>2. /\ hpc[h] = "idle" /\ UNCHANGED <<pending, made, rows, faults>>
      /\ \A g \in Handlers \ {h} : hpc'[g] = hpc[g] /\ event'[g] = event[g]
      /\ event'[h] = e
  BY <1>1 DEF StartEvent, HGoto, stripe, luck, TypeOK
<1>3. Completed' = Completed /\ Applied' = Applied
  BY <1>2 DEF Completed, Applied
<1>4. CASE e.kind = "applied"
  <2>1. AppliedMail' = AppliedMail \ {e} /\ e \in AppliedMail
    BY <1>1, <1>4 DEF AppliedMail
  <2>2. /\ Cardinality(AppliedMail') = Cardinality(AppliedMail) - 1
        /\ IsFiniteSet(AppliedMail')
    BY <2>1, CountsAreFinite, FS_RemoveElement
  <2>3. Completing' \subseteq Completing \cup {h}
    BY <1>2 DEF Completing
  <2>4. /\ Cardinality(Completing') <= Cardinality(Completing) + 1
        /\ Cardinality(Completing') \in Nat
    BY <2>3, CountsAreFinite, OneMore
  <2> QED BY <1>2, <1>3, <2>2, <2>4, CountsAreFinite DEF CompletedInv, CompletingBound
<1>5. CASE e.kind # "applied"
  <2>1. AppliedMail' \subseteq AppliedMail /\ Completing' \subseteq Completing
    BY <1>1, <1>2, <1>5 DEF AppliedMail, Completing
  <2> QED BY <1>2, <1>3, <2>1, CountsAreFinite, NoMoreCompleting DEF CompletedInv
<1> QED BY <1>4, <1>5

\* A handler that resolves a request, and is not run again.
LEMMA ResolveCompleting ==
  ASSUME TypeOK, CompletedInv, NEW h \in Handlers, Resolve(h)
  PROVE  CompletedInv'
<1>1. UNCHANGED <<pending, made, mail, faults>> /\ ResolveFound(h) /\ Finish(h)
  BY DEF Resolve, stripe, luck
<1>2. Applied' = Applied /\ AppliedMail' = AppliedMail
  BY <1>1 DEF Applied, AppliedMail
<1>3. Completing' = Completing \ {h}
  BY <1>1, ResolveCompletes
<1>4. CASE Completed' \subseteq Completed
  BY <1>1, <1>2, <1>3, <1>4, CountsAreFinite, NoMoreCompleting DEF CompletedInv
<1>5. CASE h \in Completing /\ Completed' \subseteq Completed \cup {found[h]}
  <2>1. Cardinality(Completing') = Cardinality(Completing) - 1
    BY <1>3, <1>5, CountsAreFinite, FS_RemoveElement
  <2>2. /\ Cardinality(Completed') <= Cardinality(Completed) + 1
        /\ Cardinality(Completed') \in Nat
    BY <1>5, CountsAreFinite, OneMore
  <2> QED BY <1>1, <1>2, <2>1, <2>2, CountsAreFinite DEF CompletedInv, CompletingBound
<1> QED BY <1>1, <1>4, <1>5, ResolveCompletes

\* A handler that fails may have resolved a request and be run again: it is
\* what faults pays for.
LEMMA FailureCompleting ==
  ASSUME TypeOK, CompletedInv, NEW h \in Handlers, HandlerFails(h)
  PROVE  CompletedInv'
<1>1. /\ UNCHANGED <<pending, made>> /\ faults' = faults + 1 /\ Finish(h)
      /\ ResolveFound(h) \/ UNCHANGED rows
      /\ mail' \in {mail, mail \cup {event[h]}}
  BY DEF HandlerFails, stripe, Fault
<1>2. Applied' = Applied
  BY <1>1 DEF Applied
<1>3. Completing' = Completing \ {h}
  BY <1>1, ResolveCompletes DEF Completing, Finish, HGoto, TypeOK
<1>4. CASE h \in Completing
  <2>1. Cardinality(Completing') = Cardinality(Completing) - 1
    BY <1>3, <1>4, CountsAreFinite, FS_RemoveElement
  <2>2. Completed' \subseteq Completed \cup {found[h]}
    BY <1>1, ResolveCompletes DEF Completed
  <2>3. AppliedMail' \subseteq AppliedMail \cup {event[h]}
    BY <1>1 DEF AppliedMail
  <2>4. /\ Cardinality(Completed') <= Cardinality(Completed) + 1
        /\ Cardinality(Completed') \in Nat
    BY <2>2, CountsAreFinite, OneMore
  <2>5. /\ Cardinality(AppliedMail') <= Cardinality(AppliedMail) + 1
        /\ Cardinality(AppliedMail') \in Nat /\ IsFiniteSet(AppliedMail')
    BY <2>3, CountsAreFinite, OneMore
  <2> QED BY <1>1, <1>2, <2>1, <2>4, <2>5, CountsAreFinite DEF CompletedInv, CompletingBound
<1>5. CASE h \notin Completing
  <2>1. Completed' \subseteq Completed
    BY <1>1, <1>5, ResolveCompletes DEF Completed
  <2>2. event[h].kind # "applied"
    BY <1>5 DEF Completing, HandlerFails
  <2>3. AppliedMail' \subseteq AppliedMail
    BY <1>1, <2>2 DEF AppliedMail
  <2> QED BY <1>1, <1>2, <1>3, <2>1, <2>3, CountsAreFinite, NoMoreCompleting
          DEF CompletedInv
<1> QED BY <1>4, <1>5

\* Every step keeps the count.
LEMMA NextCompleting == TypeOK /\ CompletedInv /\ [Next]_vars => CompletedInv'
<1> SUFFICES ASSUME TypeOK, CompletedInv, [Next]_vars PROVE CompletedInv'
  OBVIOUS
<1> USE DEF stripe, handling, luck
<1>1. ASSUME Completed' \subseteq Completed, AppliedMail' \subseteq AppliedMail,
             Completing' \subseteq Completing, UNCHANGED <<pending, made>>,
             faults' \in {faults, faults + 1}
      PROVE  CompletedInv'
  <2>1. Applied' = Applied
    BY <1>1 DEF Applied
  <2> QED BY <1>1, <2>1, CountsAreFinite, NoMoreCompleting DEF CompletedInv
<1>2. ASSUME UNCHANGED <<rows, mail, pending, made, handling>>,
             faults' \in {faults, faults + 1}
      PROVE  CompletedInv'
  BY <1>1, <1>2 DEF Completed, AppliedMail, Completing
<1>3. CASE Renewal
  <2>1. AppliedMail' = AppliedMail
    BY <1>3 DEF AppliedMail, Renewal, NoEvent
  <2>2. UNCHANGED <<rows, pending, made, handling, faults>>
    BY <1>3 DEF Renewal
  <2> QED BY <1>1, <2>1, <2>2 DEF Completed, Completing
<1>4. ASSUME NEW r \in Requests,
             \/ \E to \in Prices : StartUpgrade(r, to)
             \/ CheckPending(r) \/ RefusePending(r) \/ RetrievePrice(r) \/ EndsEarly(r)
      PROVE  CompletedInv'
  BY <1>2, <1>4 DEF StartUpgrade, CheckPending, RefusePending, RetrievePrice, EndsEarly
<1>5. ASSUME NEW r \in Requests, UpdateAtOnce(r) \/ UpdatePends(r)
      PROVE  CompletedInv'
  <2>1. PICK outcome \in {"applied at once", "pending"} :
           /\ Accept(r, outcome)
           /\ pending' # 0 => outcome = "pending" /\ pending' = Len(made')
    BY <1>5 DEF UpdateAtOnce, UpdatePends
  <2>2. UNCHANGED <<rows, mail, handling, faults>>
    BY <1>5 DEF UpdateAtOnce, UpdatePends
  <2>3. Applied' = Applied /\ made'[Len(made')].outcome = outcome
    BY <2>1, AcceptApplies DEF Outcomes
  <2>4. Completed' = Completed /\ AppliedMail' = AppliedMail /\ Completing' = Completing
    BY <2>2 DEF Completed, AppliedMail, Completing
  <2> QED BY <2>1, <2>2, <2>3, <2>4 DEF CompletedInv, CompletingBound
<1>6. ASSUME NEW r \in Requests, InsertRow(r) \/ RequestFails(r)
      PROVE  CompletedInv'
  <2>1. UNCHANGED <<mail, pending, made, handling>> /\ faults' \in {faults, faults + 1}
    BY <1>6 DEF InsertRow, RequestFails, Fault
  <2>2. CASE UNCHANGED rows
    BY <1>2, <2>1, <2>2
  <2>3. CASE rows' = Append(rows, [update |-> req[r], status |-> "PENDING"])
    <3>1. Completed' = Completed
      BY <2>3 DEF Completed, TypeOK
    <3> QED BY <1>1, <2>1, <3>1 DEF AppliedMail, Completing
  <2> QED BY <1>6, <2>2, <2>3 DEF InsertRow, RequestFails
<1>7. ASSUME NEW h \in Handlers, WriteLedger(h) \/ FindLatest(h)
      PROVE  CompletedInv'
  <2>1. UNCHANGED <<rows, mail, pending, made, faults>>
    BY <1>7 DEF WriteLedger, FindLatest
  <2>2. hpc[h] # "idle"
    BY <1>7 DEF WriteLedger, FindLatest
  <2>3. \/ Finish(h)
        \/ event' = event /\ \A g \in Handlers \ {h} : hpc'[g] = hpc[g]
    BY <1>7 DEF WriteLedger, FindLatest, HGoto, TypeOK
  <2>4. Completing' \subseteq Completing
    BY <2>2, <2>3 DEF Completing, Finish, HGoto, TypeOK
  <2> QED BY <1>1, <2>1, <2>4 DEF Completed, AppliedMail
<1>8. CASE Crash
  <2>1. UNCHANGED <<rows, mail, pending, made>> /\ faults' = faults + 1
    BY <1>8 DEF Crash, Fault
  <2>2. Completing' = {}
    BY <1>8 DEF Crash, Completing
  <2> QED BY <1>1, <2>1, <2>2 DEF Completed, AppliedMail
<1>9. CASE UNCHANGED vars
  BY <1>2, <1>9 DEF vars
<1> QED BY <1>3, <1>4, <1>5, <1>6, <1>7, <1>8, <1>9, SettleCompleting, StartCompleting,
           ResolveCompleting, FailureCompleting DEF Next

\* An update that was applied completes one request, whichever row its event
\* gets, and one more only for a handler that failed and was run again.
THEOREM CompletedAreCounted == Spec => []CompletedWereApplied
<1>1. Init => CompletedInv
  <2> SUFFICES ASSUME Init PROVE CompletedInv
    OBVIOUS
  <2>1. Completed = {} /\ AppliedMail = {} /\ Completing = {} /\ Applied = {}
    BY DEF Init, Completed, AppliedMail, Completing, Applied
  <2>2. pending = 0 /\ faults = 0
    BY DEF Init
  <2> QED BY <2>1, <2>2, FS_EmptySet DEF CompletedInv, CompletingBound
<1>2. TypeOK /\ CompletedInv => CompletedWereApplied
  BY CountsAreFinite DEF CompletedInv, CompletingBound, CompletedWereApplied
<1> QED BY <1>1, <1>2, NextCompleting, AlwaysUpgradeInv, PTL DEF Spec

-----------------------------------------------------------------------------
(* Verdicts.                                                                 *)

\* VerdictIsTrue is not inductive: it says nothing of the row that the next
\* verdict will hit.  While there is one request at a time and no fault, ...
Working == {h \in Handlers : hpc[h] # "idle"}
Inserting == \E r \in Requests : pc[r] = "insert"

Alone == \A r, q \in Requests : pc[r] # "idle" /\ pc[q] # "idle" => r = q

\* ... every update has its row or a request about to insert it, and only the
\* row of the last may be PENDING, ...
RowPerUpdate ==
    /\ Len(made) = IF Inserting THEN Len(rows) + 1 ELSE Len(rows)
    /\ \A r \in Requests : pc[r] = "insert" => req[r] = Len(made)
    /\ \A i \in DOMAIN rows : /\ rows[i].update = i
                              /\ rows[i].status = "PENDING" => i = Len(made)

\* ... the one event there is, in the mail or in the hand of a handler, tells
\* what became of the last update, which is not pending any more, ...
Tells(e) == e.kind \in {"applied", "expired"} /\ made[Len(made)].outcome = e.kind

OneReport ==
    /\ \A e \in mail : Tells(e) /\ Working = {} /\ mail = {e}
    /\ \A h \in Working : /\ Tells(event[h]) /\ Working = {h}
                          /\ hpc[h] # "ledger"
                          /\ hpc[h] = "resolve" => found[h] \in PendingRows
    /\ pending # 0 => /\ pending = Len(made) /\ made[pending].outcome = "pending"
                      /\ mail = {} /\ Working = {}

\* ... and no request gets past the check before that event is handled.
OpenWhileReported ==
    /\ pending # 0 \/ mail # {} \/ Working # {} => Inserting \/ PendingRows # {}
    /\ \A r \in Requests : pc[r] \in {"retrieve", "update"} => PendingRows = {}

RowsAreTrue ==
    \A i \in DOMAIN rows :
       /\ rows[i].status = "COMPLETED" => made[rows[i].update].outcome = "applied"
       /\ rows[i].status = "EXPIRED" => made[rows[i].update].outcome = "expired"
       /\ rows[i].status # "FAILED"

Truth == Alone /\ RowPerUpdate /\ OneReport /\ OpenWhileReported /\ RowsAreTrue
TruthInv == clean => Truth

\* Updates and rows are numbered from 1.
LEMMA Domains ==
  ASSUME TypeOK PROVE DOMAIN made = 1..Len(made) /\ DOMAIN rows = 1..Len(rows)
BY DEF TypeOK

\* What Stripe settles is one update.
LEMMA SettlesOne ==
  ASSUME TypeOK, pending # 0, NEW outcome \in Outcomes, Settle(outcome)
  PROVE  /\ Len(made') = Len(made) /\ made'[pending].outcome = outcome
         /\ \A i \in DOMAIN made \ {pending} : made'[i] = made[i]
<1>1. made \in Seq(Update) /\ pending \in DOMAIN made
  BY DEF TypeOK, Update
<1> DEFINE new == [made[pending] EXCEPT !.outcome = outcome]
<1>2. made[pending] \in Update
  BY <1>1
<1>3. new.outcome = outcome
  BY <1>2 DEF Update
<1>4. made' = [made EXCEPT ![pending] = new]
  BY DEF Settle
<1> HIDE DEF new
<1>5. made'[pending] = new /\ \A i \in DOMAIN made \ {pending} : made'[i] = made[i]
  BY <1>1, <1>4
<1> QED BY <1>3, <1>5, SettleType

\* What Stripe accepts while nothing is pending is the last update, and changes
\* no other.
LEMMA AcceptsLast ==
  ASSUME TypeOK, pending = 0, NEW r \in Requests, NEW outcome, Accept(r, outcome)
  PROVE  /\ Len(made') = Len(made) + 1
         /\ made'[Len(made')].outcome = outcome
         /\ \A i \in DOMAIN made : made'[i] = made[i]
<1> DEFINE kept == [i \in DOMAIN made |->
                      IF i = pending THEN [made[i] EXCEPT !.outcome = "replaced"]
                      ELSE made[i]]
           new == [to |-> req[r], outcome |-> outcome]
<1>1. made \in Seq(Update) /\ Len(made) \in Nat /\ DOMAIN made = 1..Len(made)
  BY DEF TypeOK, Update
<1>2. \A i \in DOMAIN made : kept[i] = made[i]
  BY <1>1
<1>3. kept = made
  BY <1>1, <1>2
<1>4. made' = Append(made, new) /\ new.outcome = outcome
  BY <1>3 DEF Accept
<1> HIDE DEF kept, new
<1>5. Len(made') = Len(made) + 1 /\ made'[Len(made) + 1] = new
  BY <1>1, <1>4
<1>6. \A i \in DOMAIN made : made'[i] = made[i]
  BY <1>1, <1>4
<1> QED BY <1>4, <1>5, <1>6

\* A handler that found a row that is still PENDING gives it its verdict.
LEMMA ResolvesOne ==
  ASSUME TypeOK, NEW h \in Handlers, ResolveFound(h), found[h] \in PendingRows
  PROVE  /\ Len(rows') = Len(rows)
         /\ rows'[found[h]].update = rows[found[h]].update
         /\ rows'[found[h]].status = Verdict(event[h])
         /\ \A i \in DOMAIN rows \ {found[h]} : rows'[i] = rows[i]
<1>1. /\ found[h] \in DOMAIN rows /\ rows \in Seq(Row)
      /\ rows[found[h]].status = "PENDING"
  BY DEF PendingRows, TypeOK, Row
<1> DEFINE new == [rows[found[h]] EXCEPT !.status =
                      IF @ = "PENDING" THEN Verdict(event[h]) ELSE @]
<1>2. rows[found[h]] \in Row
  BY <1>1
<1>3. new.update = rows[found[h]].update /\ new.status = Verdict(event[h])
  BY <1>1, <1>2 DEF Row
<1>4. rows' = [rows EXCEPT ![found[h]] = new]
  BY DEF ResolveFound
<1> HIDE DEF new
<1>5. rows'[found[h]] = new /\ \A i \in DOMAIN rows \ {found[h]} : rows'[i] = rows[i]
  BY <1>1, <1>4
<1> QED BY <1>3, <1>5, ResolveType

\* Stripe's steps: there is nothing in flight before, and one event after.
LEMMA SettleTruth ==
  ASSUME TypeOK, Truth, ApplyPending \/ ExpirePending
  PROVE  Truth'
<1>1. PICK outcome \in {"applied", "expired"} :
         /\ pending # 0 /\ Settle(outcome) /\ pending' = 0
         /\ mail' = mail \cup {[NoEvent EXCEPT !.kind = outcome, !.update = pending]}
         /\ UNCHANGED <<rows, pc, req, hpc, event, found>>
  BY DEF ApplyPending, ExpirePending, handling, requests
<1> DEFINE e == [NoEvent EXCEPT !.kind = outcome, !.update = pending]
<1>2. e.kind = outcome
  BY DEF NoEvent
<1>3. /\ pending = Len(made) /\ mail = {} /\ Working = {}
      /\ Inserting \/ PendingRows # {}
  BY <1>1 DEF Truth, OneReport, OpenWhileReported
<1>4. mail' = {e}
  BY <1>1, <1>3
<1> HIDE DEF e
<1>5. /\ Len(made') = Len(made) /\ made'[Len(made)].outcome = outcome
      /\ \A i \in DOMAIN made \ {Len(made)} : made'[i] = made[i]
  BY <1>1, <1>3, SettlesOne DEF Outcomes
<1>6. /\ Working' = {} /\ Inserting' = Inserting /\ PendingRows' = PendingRows
  BY <1>1, <1>3 DEF Working, Inserting, PendingRows
<1>7. Alone'
  BY <1>1 DEF Truth, Alone
<1>8. RowPerUpdate'
  BY <1>1, <1>5, <1>6 DEF Truth, RowPerUpdate
<1>9. OneReport'
  BY <1>1, <1>2, <1>4, <1>5, <1>6 DEF OneReport, Tells
<1>10. OpenWhileReported'
  BY <1>1, <1>3, <1>6 DEF Truth, OpenWhileReported
<1>11. RowsAreTrue'
  <2> SUFFICES ASSUME NEW i \in DOMAIN rows
               PROVE  /\ rows[i].status = "COMPLETED" =>
                            made'[rows[i].update].outcome = "applied"
                      /\ rows[i].status = "EXPIRED" =>
                            made'[rows[i].update].outcome = "expired"
                      /\ rows[i].status # "FAILED"
    BY <1>1 DEF RowsAreTrue
  <2>1. rows[i].update = i /\ i \in 1..Len(rows) /\ Len(rows) \in Nat
    BY DEF Truth, RowPerUpdate, TypeOK
  <2>2. DOMAIN made = 1..Len(made) /\ Len(made) \in Nat
    BY DEF TypeOK
  <2>3. CASE i = Len(made)
    <3>1. ~Inserting
      BY <2>1, <2>2, <2>3 DEF Truth, RowPerUpdate
    <3>2. i \in PendingRows
      BY <1>3, <2>3, <3>1 DEF Truth, RowPerUpdate, PendingRows
    <3> QED BY <3>2 DEF PendingRows
  <2>4. CASE i # Len(made)
    <3>1. i \in DOMAIN made \ {Len(made)}
      BY <2>1, <2>2, <2>4 DEF Truth, RowPerUpdate
    <3> QED BY <1>5, <2>1, <3>1 DEF Truth, RowsAreTrue
  <2> QED BY <2>3, <2>4
<1> QED BY <1>7, <1>8, <1>9, <1>10, <1>11 DEF Truth

\* The steps of a request up to its update, and a request that ends there.
LEMMA EarlyTruth ==
  ASSUME TypeOK, Truth, clean', NEW r \in Requests,
         \/ \E to \in Prices : StartUpgrade(r, to)
         \/ CheckPending(r) \/ RefusePending(r) \/ RetrievePrice(r) \/ EndsEarly(r)
  PROVE  Truth'
<1> USE DEF stripe, handling, Goto, Answer
<1>1. /\ UNCHANGED <<pending, made, mail, rows, hpc, event, found>>
      /\ \A q \in Requests \ {r} : pc'[q] = pc[q] /\ req'[q] = req[q]
      /\ pc[r] # "insert" /\ pc'[r] # "insert"
      /\ pc'[r] \in {"retrieve", "update"} => PendingRows = {}
      /\ pc[r] # "idle" \/ \A q \in Requests : pc[q] = "idle"
  BY DEF StartUpgrade, CheckPending, RefusePending, RetrievePrice, EndsEarly, TypeOK,
         Truth, OpenWhileReported
<1>2. Working' = Working /\ Inserting' = Inserting /\ PendingRows' = PendingRows
  BY <1>1 DEF Working, Inserting, PendingRows
<1>3. Alone'
  BY <1>1 DEF Truth, Alone
<1>4. RowPerUpdate'
  BY <1>1, <1>2 DEF Truth, RowPerUpdate
<1>5. OneReport'
  BY <1>1, <1>2 DEF Truth, OneReport, Tells
<1>6. OpenWhileReported'
  BY <1>1, <1>2 DEF Truth, OpenWhileReported
<1>7. RowsAreTrue'
  BY <1>1 DEF Truth, RowsAreTrue
<1> QED BY <1>3, <1>4, <1>5, <1>6, <1>7 DEF Truth

\* An update is accepted while nothing is in flight.
LEMMA UpdateTruth ==
  ASSUME TypeOK, Truth, NEW r \in Requests, UpdateAtOnce(r) \/ UpdatePends(r)
  PROVE  Truth'
<1>1. PICK outcome \in {"applied at once", "pending"} :
         /\ Accept(r, outcome)
         /\ pending' = IF outcome = "pending" THEN Len(made') ELSE 0
         /\ UNCHANGED <<rows, mail, hpc, event, found>>
  BY DEF UpdateAtOnce, UpdatePends, handling
<1>2. pc[r] = "update" /\ pc' = [pc EXCEPT ![r] = "insert"]
      /\ req' = [req EXCEPT ![r] = Len(made')]
  BY <1>1 DEF Accept, Goto
<1>3. PendingRows = {} /\ ~Inserting
  BY <1>2 DEF Truth, OpenWhileReported, Alone, Inserting
<1>4. pending = 0 /\ mail = {} /\ Working = {}
  BY <1>3 DEF Truth, OpenWhileReported
<1>5. /\ Len(made') = Len(made) + 1
      /\ made'[Len(made')].outcome = outcome
      /\ \A i \in DOMAIN made : made'[i] = made[i]
  BY <1>1, <1>4, AcceptsLast
<1>6. Working' = {} /\ mail' = {} /\ PendingRows' = {} /\ Inserting'
  BY <1>1, <1>2, <1>3, <1>4 DEF Working, PendingRows, Inserting, TypeOK
<1>7. Alone'
  BY <1>2 DEF Truth, Alone, TypeOK
<1>8. RowPerUpdate'
  <2>1. Len(made') = Len(rows') + 1
    BY <1>1, <1>3, <1>5 DEF Truth, RowPerUpdate
  <2>2. \A q \in Requests : pc'[q] = "insert" => req'[q] = Len(made')
    BY <1>2, <1>3 DEF Inserting, TypeOK
  <2>3. \A i \in DOMAIN rows' : rows'[i].update = i /\ rows'[i].status # "PENDING"
    BY <1>1, <1>3 DEF Truth, RowPerUpdate, PendingRows
  <2> QED BY <1>6, <2>1, <2>2, <2>3 DEF RowPerUpdate
<1>9. OneReport'
  BY <1>1, <1>5, <1>6 DEF OneReport
<1>10. OpenWhileReported'
  BY <1>6 DEF OpenWhileReported
<1>11. RowsAreTrue'
  <2>1. \A i \in DOMAIN rows : rows[i].update \in DOMAIN made
    <3>1. Len(made) = Len(rows) /\ \A i \in DOMAIN rows : rows[i].update = i
      BY <1>3 DEF Truth, RowPerUpdate
    <3>2. DOMAIN made = DOMAIN rows
      BY <3>1, Domains
    <3> QED BY <3>1, <3>2, Zenon
  <2> QED BY <1>1, <1>5, <2>1 DEF Truth, RowsAreTrue
<1> QED BY <1>7, <1>8, <1>9, <1>10, <1>11 DEF Truth

\* The insert: the row of the last update is PENDING, whatever has become of it.
LEMMA InsertTruth ==
  ASSUME TypeOK, Truth, NEW r \in Requests, InsertRow(r)
  PROVE  Truth'
<1> DEFINE new == [update |-> req[r], status |-> "PENDING"]
<1>1. /\ UNCHANGED <<pending, made, mail, hpc, event, found>>
      /\ pc[r] = "insert" /\ Answer(r) /\ rows' = Append(rows, new)
  BY DEF InsertRow, stripe, handling
<1>2. /\ \A q \in Requests : pc'[q] = "idle"
      /\ Inserting /\ ~Inserting'
  BY <1>1 DEF Truth, Alone, Inserting, Answer, Goto, TypeOK
<1>3. Len(made) = Len(rows) + 1 /\ req[r] = Len(made) /\ rows \in Seq(Row) /\ Len(rows) \in Nat
  BY <1>1, <1>2 DEF Truth, RowPerUpdate, TypeOK, Row
<1>4. new.update = Len(rows) + 1 /\ new.status = "PENDING"
  BY <1>3
<1> HIDE DEF new
<1>5. /\ Len(rows') = Len(rows) + 1 /\ rows'[Len(rows) + 1] = new
      /\ DOMAIN rows' = DOMAIN rows \cup {Len(rows) + 1}
      /\ \A i \in DOMAIN rows : rows'[i] = rows[i]
  BY <1>1, <1>3
<1>6. PendingRows' = PendingRows \cup {Len(rows) + 1} /\ Working' = Working
  BY <1>1, <1>4, <1>5 DEF PendingRows, Working
<1>7. Alone'
  BY <1>2 DEF Alone
<1>8. RowPerUpdate'
  <2>1. \A i \in DOMAIN rows' : /\ rows'[i].update = i
                                /\ rows'[i].status = "PENDING" => i = Len(made')
    BY <1>1, <1>3, <1>4, <1>5 DEF Truth, RowPerUpdate
  <2>2. Len(made') = Len(rows')
    BY <1>1, <1>3, <1>5
  <2> QED BY <1>2, <2>1, <2>2 DEF RowPerUpdate
<1>9. OneReport'
  BY <1>1, <1>6 DEF Truth, OneReport, Tells
<1>10. OpenWhileReported'
  BY <1>2, <1>6 DEF OpenWhileReported
<1>11. RowsAreTrue'
  BY <1>1, <1>4, <1>5 DEF Truth, RowsAreTrue
<1> QED BY <1>7, <1>8, <1>9, <1>10, <1>11 DEF Truth

\* A handler takes the event: nothing else is in flight.
LEMMA StartTruth ==
  ASSUME TypeOK, Truth, NEW h \in Handlers, StartEvent(h)
  PROVE  Truth'
<1>1. PICK e \in mail : /\ mail' = mail \ {e} /\ event' = [event EXCEPT ![h] = e]
                        /\ HGoto(h, IF e.kind = "updated" THEN "ledger" ELSE "find")
  BY DEF StartEvent
<1>2. UNCHANGED <<pending, made, rows, pc, req, found>>
  BY DEF StartEvent, stripe, requests
<1>3. Tells(e) /\ Working = {} /\ mail = {e}
  BY DEF Truth, OneReport
<1>4. /\ mail' = {} /\ hpc'[h] = "find" /\ event'[h] = e
      /\ \A g \in Handlers \ {h} : hpc'[g] = "idle"
  BY <1>1, <1>3 DEF HGoto, TypeOK, Working, Tells
<1>5. Working' = {h} /\ Inserting' = Inserting /\ PendingRows' = PendingRows
  BY <1>2, <1>4 DEF Working, Inserting, PendingRows
<1>6. pending = 0 /\ (Inserting \/ PendingRows # {})
  BY <1>3 DEF Truth, OneReport, OpenWhileReported
<1>7. Alone' /\ RowPerUpdate' /\ RowsAreTrue'
  BY <1>2, <1>5 DEF Truth, Alone, RowPerUpdate, RowsAreTrue
<1>8. OneReport'
  BY <1>2, <1>3, <1>4, <1>5, <1>6 DEF OneReport, Tells
<1>9. OpenWhileReported'
  BY <1>2, <1>5, <1>6 DEF Truth, OpenWhileReported
<1> QED BY <1>7, <1>8, <1>9 DEF Truth

\* A handler that finds the row, or none, when the event has overtaken it.
LEMMA FindTruth ==
  ASSUME TypeOK, Truth, NEW h \in Handlers, FindLatest(h)
  PROVE  Truth'
<1>1. UNCHANGED <<pending, made, mail, rows, pc, req>> /\ hpc[h] = "find"
  BY DEF FindLatest, stripe, requests
<1>2. h \in Working /\ Working = {h} /\ mail = {} /\ pending = 0 /\ Tells(event[h])
  <2>1. h \in Working
    BY <1>1 DEF Working
  <2> QED BY <2>1 DEF Truth, OneReport
<1>3. Inserting' = Inserting /\ PendingRows' = PendingRows
  BY <1>1 DEF Inserting, PendingRows
<1>4. Alone' /\ RowPerUpdate' /\ RowsAreTrue'
  BY <1>1, <1>3 DEF Truth, Alone, RowPerUpdate, RowsAreTrue
<1>5. CASE Finish(h)
  <2>1. Working' = {}
    BY <1>2, <1>5 DEF Working, Finish, HGoto, TypeOK
  <2>2. OneReport'
    BY <1>1, <1>2, <2>1 DEF OneReport
  <2>3. OpenWhileReported'
    BY <1>1, <1>2, <1>3, <2>1 DEF Truth, OpenWhileReported
  <2> QED BY <1>4, <2>2, <2>3 DEF Truth
<1>6. ASSUME NEW i \in PendingRows, found' = [found EXCEPT ![h] = i],
             HGoto(h, "resolve"), UNCHANGED event
      PROVE  Truth'
  <2>1. /\ hpc'[h] = "resolve" /\ found'[h] = i
        /\ Working' = {h}
    BY <1>2, <1>6 DEF Working, HGoto, TypeOK
  <2>2. OneReport'
    BY <1>1, <1>2, <1>3, <1>6, <2>1 DEF OneReport, Tells
  <2>3. OpenWhileReported'
    BY <1>1, <1>2, <1>3, <2>1 DEF Truth, OpenWhileReported
  <2> QED BY <1>4, <2>2, <2>3 DEF Truth
<1> QED BY <1>5, <1>6 DEF FindLatest

\* The verdict: the row is that of the last update, of which the event tells.
LEMMA ResolveTruth ==
  ASSUME TypeOK, Truth, NEW h \in Handlers, Resolve(h)
  PROVE  Truth'
<1>1. /\ UNCHANGED <<pending, made, mail, pc, req>>
      /\ hpc[h] = "resolve" /\ ResolveFound(h) /\ Finish(h)
  BY DEF Resolve, ResolveFound, stripe, requests
<1>2. /\ Working = {h} /\ mail = {} /\ pending = 0 /\ Tells(event[h])
      /\ found[h] \in PendingRows
  <2>1. h \in Working
    BY <1>1 DEF Working
  <2> QED BY <1>1, <2>1 DEF Truth, OneReport
<1>3. found[h] \in DOMAIN rows /\ found[h] = Len(made) /\ rows[found[h]].update = found[h]
  BY <1>2 DEF PendingRows, Truth, RowPerUpdate
<1>4. /\ Len(rows') = Len(rows)
      /\ rows'[found[h]].update = found[h]
      /\ rows'[found[h]].status = Verdict(event[h])
      /\ \A i \in DOMAIN rows \ {found[h]} : rows'[i] = rows[i]
      /\ DOMAIN rows' = DOMAIN rows
  <2>1. rows' \in Seq(Row) /\ rows \in Seq(Row)
    BY <1>1, ResolveType DEF TypeOK, Row
  <2> QED BY <1>1, <1>2, <1>3, <2>1, ResolvesOne
<1>5. \/ Verdict(event[h]) = "COMPLETED" /\ made[Len(made)].outcome = "applied"
      \/ Verdict(event[h]) = "EXPIRED" /\ made[Len(made)].outcome = "expired"
  BY <1>2 DEF Tells, Verdict
<1>6. Working' = {} /\ Inserting' = Inserting /\ PendingRows' = {}
  <2>1. Working' = {}
    BY <1>1, <1>2 DEF Working, Finish, HGoto, TypeOK
  <2>2. Inserting' = Inserting
    BY <1>1 DEF Inserting
  <2>3. ASSUME NEW i \in DOMAIN rows PROVE rows'[i].status # "PENDING"
    <3>1. CASE i = found[h]
      BY <1>4, <1>5, <3>1
    <3>2. CASE i # found[h]
      BY <1>3, <1>4, <3>2 DEF Truth, RowPerUpdate
    <3> QED BY <3>1, <3>2
  <2> QED BY <1>4, <2>1, <2>2, <2>3 DEF PendingRows
<1>7. Alone'
  BY <1>1 DEF Truth, Alone
<1>8. RowPerUpdate'
  <2>1. \A i \in DOMAIN rows' : rows'[i].update = i /\ rows'[i].status # "PENDING"
    BY <1>4, <1>6 DEF Truth, RowPerUpdate, PendingRows
  <2> QED BY <1>1, <1>4, <1>6, <2>1 DEF Truth, RowPerUpdate
<1>9. OneReport'
  BY <1>1, <1>2, <1>6 DEF OneReport
<1>10. OpenWhileReported'
  BY <1>1, <1>2, <1>6 DEF OpenWhileReported
<1>11. RowsAreTrue'
  <2> SUFFICES ASSUME NEW i \in DOMAIN rows
               PROVE  /\ rows'[i].status = "COMPLETED" =>
                            made[rows'[i].update].outcome = "applied"
                      /\ rows'[i].status = "EXPIRED" =>
                            made[rows'[i].update].outcome = "expired"
                      /\ rows'[i].status # "FAILED"
    BY <1>1, <1>4 DEF RowsAreTrue
  <2>1. CASE i = found[h]
    BY <1>3, <1>4, <1>5, <2>1
  <2>2. CASE i # found[h]
    BY <1>4, <2>2 DEF Truth, RowsAreTrue
  <2> QED BY <2>1, <2>2
<1> QED BY <1>7, <1>8, <1>9, <1>10, <1>11 DEF Truth

LEMMA NextTruth == TypeOK /\ TruthInv /\ [Next]_vars => TruthInv'
<1> SUFFICES ASSUME TypeOK, TruthInv, [Next]_vars, clean' PROVE Truth'
  BY DEF TruthInv
<1>1. clean
  BY DEF Next, ApplyPending, ExpirePending, Renewal, StartUpgrade, CheckPending,
         RefusePending, RetrievePrice, UpdateAtOnce, UpdatePends, EndsEarly, InsertRow,
         RequestFails, StartEvent, WriteLedger, FindLatest, Resolve, HandlerFails, Crash,
         Fault, luck, vars
<1>2. Truth
  BY <1>1 DEF TruthInv
<1>3. ~Renewal /\ ~Crash
  BY DEF Renewal, Crash, Fault
<1>4. ASSUME NEW r \in Requests PROVE ~RequestFails(r)
  BY DEF RequestFails, Fault
<1>5. ASSUME NEW h \in Handlers PROVE ~HandlerFails(h) /\ ~WriteLedger(h)
  BY <1>2 DEF HandlerFails, WriteLedger, Fault, Truth, OneReport, Working
<1>6. CASE UNCHANGED vars
  BY <1>2, <1>6 DEF vars, stripe, requests, handling, Truth, Alone, RowPerUpdate,
                    OneReport, Tells, OpenWhileReported, RowsAreTrue, Working, Inserting,
                    PendingRows
<1> QED BY <1>2, <1>3, <1>4, <1>5, <1>6, SettleTruth, EarlyTruth, UpdateTruth, InsertTruth,
           StartTruth, FindTruth, ResolveTruth DEF Next

\* With one request at a time, a customer who is not behind and no fault, the
\* verdict of a request is what became of it at Stripe, although no event names
\* the request it is about.
THEOREM VerdictsAreTrue == Spec => []VerdictIsTrue
<1>1. Init => TruthInv
  BY DEF Init, TruthInv, Truth, Alone, RowPerUpdate, OneReport, OpenWhileReported,
         RowsAreTrue, Working, Inserting, PendingRows
<1>2. TruthInv => VerdictIsTrue
  BY DEF TruthInv, Truth, RowsAreTrue, VerdictIsTrue
<1> QED BY <1>1, <1>2, NextTruth, AlwaysUpgradeInv, PTL DEF Spec
=============================================================================
