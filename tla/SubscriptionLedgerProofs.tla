----------------------- MODULE SubscriptionLedgerProofs -----------------------
(* What SubscriptionLedger guarantees for any number of users, rows, workers *)
(* and faults.                                                               *)
EXTENDS SubscriptionLedger, FiniteSetTheorems, WellFoundedInduction, TLAPS

-----------------------------------------------------------------------------
(* Ends of periods and events.                                               *)

\* Of finitely many rows one has the latest end.
LEMMA LatestExists ==
  ASSUME NEW Q, IsFiniteSet(Q), Q # {}, NEW f \in [Q -> Nat]
  PROVE  \E q \in Q : \A r \in Q : f[r] <= f[q]
<1> DEFINE Peaked(T) == \E q \in T : \A r \in T : f[r] <= f[q]
           Bad == {T \in FiniteSubsetsOf(Q) : T # {} /\ ~Peaked(T)}
<1>1. SUFFICES ASSUME Bad # {}
               PROVE  FALSE
  <2>1. Q \in FiniteSubsetsOf(Q)
    BY DEF FiniteSubsetsOf
  <2> QED
    BY <2>1
<1>2. PICK T \in Bad : \A S \in Bad : ~(<<S, T>> \in StrictSubsetOrdering(Q))
  <2>1. IsWellFoundedOn(StrictSubsetOrdering(Q), FiniteSubsetsOf(Q))
    BY FS_StrictSubsetOrderingWellFounded
  <2>2. Bad \subseteq FiniteSubsetsOf(Q)
    OBVIOUS
  <2> HIDE DEF Bad
  <2> QED
    BY <1>1, <2>1, <2>2, WFMin
<1>3. T \in SUBSET Q /\ IsFiniteSet(T) /\ T # {} /\ ~Peaked(T)
  BY DEF FiniteSubsetsOf
<1>4. PICK x \in T : TRUE
  BY <1>3
<1>5. T \ {x} \in FiniteSubsetsOf(Q) /\ <<T \ {x}, T>> \in StrictSubsetOrdering(Q)
  BY <1>3, <1>4, FS_RemoveElement DEF FiniteSubsetsOf, StrictSubsetOrdering
<1>6. T \ {x} = {} \/ Peaked(T \ {x})
  BY <1>2, <1>5
<1>7. \A q \in T : f[q] \in Nat
  BY <1>3
<1>8. CASE T \ {x} = {}
  BY <1>3, <1>4, <1>7, <1>8
<1>9. CASE Peaked(T \ {x})
  <2>1. PICK q \in T \ {x} : \A r \in T \ {x} : f[r] <= f[q]
    BY <1>9
  <2>2. CASE f[x] <= f[q]
    BY <1>3, <2>1, <2>2
  <2>3. CASE f[q] <= f[x]
    BY <1>3, <1>4, <1>7, <2>1, <2>3
  <2> QED
    BY <1>4, <1>7, <2>1, <2>2, <2>3
<1> QED
  BY <1>6, <1>8, <1>9

\* An event as it is in the mail.
Letter == [kind : Webhooks, row : Subs, n : 1..MaxInvoices, st : Live \cup {"canceled"},
           end : Nat]

\* The mail when an event is taken, emitted or delivered once more.
LEMMA MailShrinks ==
  ASSUME NEW S, mail \in Seq(S), NEW i \in 1..Len(mail), mail' = RemoveAt(mail, i)
  PROVE  mail' \in Seq(S)
  BY DEF RemoveAt

LEMMA MailGrows ==
  ASSUME NEW S, mail \in Seq(S), NEW kinds \in Seq(Webhooks), NEW s, NEW b,
         \A i \in 1..Len(kinds) : Event(kinds[i], s, b) \in S,
         Emit(s, b, kinds)
  PROVE  mail' \in Seq(S)
<1>1. [i \in 1..Len(kinds) |-> Event(kinds[i], s, b)] \in Seq(S)
  OBVIOUS
<1> QED
  BY <1>1 DEF Emit

-----------------------------------------------------------------------------
(* Types.                                                                    *)

GrantJob == [kind : {"grant"}, row : Grants, end : Nat]
CancelJob == [kind : {"cancel"}, user : Users]
CronJob == [kind : {"cron"}, end : Nat]
Jobs == Letter \cup GrantJob \cup CancelJob \cup CronJob

Steps == {"idle", "check", "expire", "find", "create", "update", "record", "mark",
          "cancelAtStripe", "cancelRows", "expireManual", "syncRead", "syncWrite"}

BillOK == /\ now \in 0..MaxTime
          /\ bill \in [Subs -> [st : {"none", "session", "canceled"} \cup Live, n : Nat,
                                end : Nat, paid : Nat]]
          /\ \A s \in Subs : bill[s].st \in Live => bill[s].n \in 1..MaxInvoices
          /\ mail \in Seq(Letter)

TablesOK == /\ status \in [Rows -> Statuses \cup {"absent"}]
            /\ end \in [Rows -> Nat]
            /\ payment \in [Subs \X (1..MaxInvoices) -> {"absent", "COMPLETED", "FAILED"}]
            /\ access \in [Users -> Nat]

\* A job j, a list t and a read r suit the next call p.
HandOK(p, j, t, r) ==
    /\ p \in {"check", "record", "mark"} => j \in Letter
    /\ p = "check" => j.kind = "paid"
    /\ p \in {"find", "update"} => j \in Letter /\ j.kind \in {"paid", "updated"}
    /\ p \in {"expire", "create"} =>
          \/ j \in Letter /\ j.kind \in {"paid", "updated"}
          \/ j \in GrantJob
    /\ p \in {"cancelAtStripe", "cancelRows"} => j \in CancelJob
    /\ p = "cancelAtStripe" => t \subseteq Subs
    /\ p \in {"expireManual", "syncRead", "syncWrite"} => t \subseteq Users
    /\ p = "syncWrite" => r \in [user : Users, end : Nat]
    /\ p = "expireManual" => j \in CronJob

StepOK(w) == /\ (pc[w] = "idle") = (job[w] = NoJob)
             /\ HandOK(pc[w], job[w], todo[w], seen[w])

WorkersOK == /\ pc \in [Workers -> Steps]
             /\ job \in [Workers -> Jobs \cup {NoJob}]
             /\ held \in [Workers -> SUBSET Rows]
             /\ todo \in [Workers -> SUBSET (Users \cup Subs)]
             /\ seen \in [Workers -> [user : Users, end : Nat] \cup {NoRead}]
             /\ \A w \in Workers : StepOK(w)

LuckOK == clean \in BOOLEAN /\ faults \in 0..MaxFaults

\* TypeOK says nothing of what workers and events carry, on which the types of
\* the tables rest.
TypeInv == BillOK /\ TablesOK /\ WorkersOK /\ LuckOK

LEMMA TypeInvIsEnough == TypeInv => TypeOK
  BY DEF TypeInv, BillOK, TablesOK, WorkersOK, LuckOK, StepOK, HandOK, TypeOK

LEMMA InitType == Init => TypeInv
<1> SUFFICES ASSUME Init PROVE TypeInv
  OBVIOUS
<1> USE LedgerAssumption, BillingAssumption
<1>1. BillOK
  BY DEF Init, BillingInit, BillOK, Live
<1>2. TablesOK /\ LuckOK
  BY DEF Init, TablesOK, LuckOK
<1>3. WorkersOK
  BY DEF Init, WorkersOK, StepOK, HandOK, Steps, NoJob, NoRead
<1> QED
  BY <1>1, <1>2, <1>3 DEF TypeInv

\* Stripe moves on, or is told to.
LEMMA EmitType ==
  ASSUME BillOK, NEW s \in Subs, NEW kinds \in Seq(Webhooks),
         NEW b \in [st : Live \cup {"canceled"}, n : 1..MaxInvoices, end : Nat, paid : Nat],
         Emit(s, b, kinds), UNCHANGED now
  PROVE  BillOK'
<1>1. \A i \in 1..Len(kinds) : Event(kinds[i], s, b) \in Letter
  BY DEF Event, Letter
<1>2. mail' \in Seq(Letter)
  BY <1>1, MailGrows DEF BillOK
<1> QED
  BY <1>2, BillingAssumption DEF BillOK, Emit, Live

LEMMA EndType ==
  ASSUME BillOK, NEW s \in Subs, EndAtStripe(s), UNCHANGED now
  PROVE  BillOK'
<1>1. [bill[s] EXCEPT !.st = "canceled"]
         \in [st : Live \cup {"canceled"}, n : 1..MaxInvoices, end : Nat, paid : Nat]
  BY DEF BillOK, EndAtStripe
<1>2. <<"deleted">> \in Seq(Webhooks)
  BY DEF Webhooks
<1> QED
  BY <1>1, <1>2, EmitType DEF EndAtStripe

LEMMA BillingType ==
  ASSUME BillOK, BillingNext
  PROVE  BillOK'
<1> USE BillingAssumption
<1> DEFINE B == [st : Live \cup {"canceled"}, n : 1..MaxInvoices, end : Nat, paid : Nat]
<1>1. /\ <<"paid", "updated">> \in Seq(Webhooks)
      /\ <<"failed", "updated">> \in Seq(Webhooks)
      /\ <<"updated">> \in Seq(Webhooks) /\ <<"paid">> \in Seq(Webhooks)
  BY DEF Webhooks
<1>2. CASE Tick
  BY <1>2 DEF Tick, BillOK
<1>3. ASSUME NEW s \in Subs, Subscribe(s)
      PROVE  BillOK'
  <2>1. [st |-> "active", n |-> 1, end |-> now + Period, paid |-> now + Period] \in B
    BY <1>3 DEF Subscribe, BillOK, Live
  <2> QED
    BY <1>1, <1>3, <2>1, EmitType DEF Subscribe
<1>4. ASSUME NEW s \in Subs, BeginPeriod(s)
      PROVE  BillOK'
  <2>1. bill[s] \in B /\ bill[s].n + 1 \in 1..MaxInvoices /\ bill[s].end + Period \in Nat
    BY <1>4 DEF BeginPeriod, BillOK, Live
  <2>2. [bill[s] EXCEPT !.n = @ + 1, !.end = @ + Period] \in B
    BY <2>1
  <2> QED
    BY <1>1, <1>4, <2>2, EmitType DEF BeginPeriod
<1>5. ASSUME NEW s \in Subs, Renew(s)
      PROVE  BillOK'
  <2>1. [bill[s] EXCEPT !.paid = bill[s].end] \in B
    BY <1>5 DEF Renew, Draft, BillOK, Live
  <2> QED
    BY <1>1, <1>5, <2>1, EmitType DEF Renew
<1>9. ASSUME NEW s \in Subs, FailRenewal(s)
      PROVE  BillOK'
  <2>1. [bill[s] EXCEPT !.st = "past_due"] \in B
    BY <1>9 DEF FailRenewal, Draft, BillOK, Live
  <2> QED
    BY <1>1, <1>9, <2>1, EmitType DEF FailRenewal
<1>6. ASSUME NEW s \in Subs, CollectLate(s)
      PROVE  BillOK'
  <2>1. [bill[s] EXCEPT !.st = "active", !.paid = bill[s].end] \in B
    BY <1>6 DEF CollectLate, BillOK, Live
  <2> QED
    BY <1>1, <1>6, <2>1, EmitType DEF CollectLate
<1>7. ASSUME NEW s \in Subs, GiveUp(s)
      PROVE  BillOK'
  <2>1. [bill[s] EXCEPT !.st = "unpaid"] \in B
    BY <1>7 DEF GiveUp, BillOK, Live
  <2> QED
    BY <1>1, <1>7, <2>1, EmitType DEF GiveUp
<1>8. ASSUME NEW s \in Subs, Terminate(s)
      PROVE  BillOK'
  BY <1>8, EndType DEF Terminate
<1> QED
  BY <1>2, <1>3, <1>4, <1>5, <1>6, <1>7, <1>8, <1>9 DEF BillingNext

\* A worker comes to its end, or to its next call; the others stay.
LEMMA FinishType ==
  ASSUME WorkersOK, NEW w \in Workers, Finish(w)
  PROVE  WorkersOK'
  BY DEF WorkersOK, Finish, StepOK, HandOK, Steps, NoRead, NoJob

LEMMA GotoType ==
  ASSUME WorkersOK, NEW w \in Workers, NEW p \in Steps, p # "idle", Goto(w, p),
         NEW j \in Jobs, job' = [job EXCEPT ![w] = j],
         NEW h \in SUBSET Rows, held' = [held EXCEPT ![w] = h],
         NEW t \in SUBSET (Users \cup Subs), todo' = [todo EXCEPT ![w] = t],
         NEW r \in [user : Users, end : Nat] \cup {NoRead}, seen' = [seen EXCEPT ![w] = r],
         HandOK(p, j, t, r)
  PROVE  WorkersOK'
<1>1. j # NoJob
  BY DEF Jobs, Letter, GrantJob, CancelJob, CronJob, NoJob, Webhooks
<1>2. /\ pc'[w] = p /\ job'[w] = j /\ todo'[w] = t /\ seen'[w] = r
      /\ \A v \in Workers \ {w} : /\ pc'[v] = pc[v] /\ job'[v] = job[v]
                                  /\ todo'[v] = todo[v] /\ seen'[v] = seen[v]
  BY DEF WorkersOK, Goto
<1>3. StepOK(w)'
  BY <1>1, <1>2 DEF StepOK
<1>4. ASSUME NEW v \in Workers \ {w}
      PROVE  StepOK(v)'
  <2>1. StepOK(v)
    BY DEF WorkersOK
  <2> QED
    BY <1>2, <2>1 DEF StepOK
<1>5. /\ pc' \in [Workers -> Steps]
      /\ job' \in [Workers -> Jobs \cup {NoJob}]
      /\ held' \in [Workers -> SUBSET Rows]
      /\ todo' \in [Workers -> SUBSET (Users \cup Subs)]
      /\ seen' \in [Workers -> [user : Users, end : Nat] \cup {NoRead}]
  BY DEF WorkersOK, Goto
<1> QED
  BY <1>3, <1>4, <1>5 DEF WorkersOK

\* The end of a user's access is the latest end of his ACTIVE subscriptions.
LEMMA LatestEndIs ==
  ASSUME TablesOK, NEW u \in Users
  PROVE  /\ \/ LatestEnd(u) = 0
            \/ \E r \in RowsOf(u) : /\ status[r] = "ACTIVE" /\ end[r] > now
                                     /\ LatestEnd(u) = end[r]
         /\ \A r \in RowsOf(u) : status[r] = "ACTIVE" /\ end[r] > now => end[r] <= LatestEnd(u)
<1> DEFINE Q == {q \in RowsOf(u) : status[q] = "ACTIVE" /\ end[q] > now}
           ends == {end[r] : r \in Q}
<1>1. LatestEnd(u) = IF ends = {} THEN 0 ELSE CHOOSE e \in ends : \A f \in ends : f <= e
  BY DEF LatestEnd
<1>2. CASE ends # {}
  <2>1. IsFiniteSet(Q) /\ Q # {} /\ Q \subseteq Rows
    BY <1>2, LedgerAssumption, FS_Union, FS_Subset DEF RowsOf, Rows
  <2>2. [q \in Q |-> end[q]] \in [Q -> Nat]
    BY <2>1 DEF TablesOK
  <2>3. \E q \in Q : \A r \in Q : end[r] <= end[q]
    <3> DEFINE f == [q \in Q |-> end[q]]
    <3>1. \E q \in Q : \A r \in Q : f[r] <= f[q]
      <4> HIDE DEF f, Q
      <4> QED
        BY <2>1, <2>2, LatestExists DEF f
    <3> QED
      BY <3>1
  <2>4. \E e \in ends : \A f \in ends : f <= e
    BY <2>3
  <2>5. LatestEnd(u) \in ends /\ \A f \in ends : f <= LatestEnd(u)
    <3> HIDE DEF ends
    <3> QED
      BY <1>1, <1>2, <2>4
  <2> QED
    BY <2>5
<1> QED
  BY <1>1, <1>2

LEMMA LatestEndType ==
  ASSUME TablesOK, NEW u \in Users
  PROVE  LatestEnd(u) \in Nat
  BY LatestEndIs DEF TablesOK, RowsOf, Rows

LEMMA InHand ==
  ASSUME WorkersOK, NEW w \in Workers
  PROVE  /\ job = [job EXCEPT ![w] = job[w]] /\ job[w] \in Jobs \cup {NoJob}
         /\ held = [held EXCEPT ![w] = held[w]] /\ held[w] \in SUBSET Rows
         /\ todo = [todo EXCEPT ![w] = todo[w]] /\ todo[w] \in SUBSET (Users \cup Subs)
         /\ seen = [seen EXCEPT ![w] = seen[w]]
         /\ seen[w] \in [user : Users, end : Nat] \cup {NoRead}
         /\ pc[w] # "idle" => job[w] \in Jobs
         /\ StepOK(w)
  BY DEF WorkersOK, StepOK

\* The end of a handler: the users it syncs.
LEMMA SyncType ==
  ASSUME WorkersOK, NEW w \in Workers, pc[w] # "idle", NEW users \in SUBSET Users,
         GotoSync(w, users), UNCHANGED <<job, seen>>,
         NEW h \in SUBSET Rows, held' = [held EXCEPT ![w] = h]
  PROVE  WorkersOK'
<1>1. /\ Goto(w, "syncRead") /\ todo' = [todo EXCEPT ![w] = users]
      /\ job' = [job EXCEPT ![w] = job[w]] /\ seen' = [seen EXCEPT ![w] = seen[w]]
      /\ job[w] \in Jobs /\ seen[w] \in [user : Users, end : Nat] \cup {NoRead}
  BY InHand DEF GotoSync
<1>2. HandOK("syncRead", job[w], users, seen[w])
  BY DEF HandOK
<1> QED
  BY <1>1, <1>2, GotoType DEF Steps

LEMMA OwnerType == \A r \in Rows : Owner[r] \in Users
  BY LedgerAssumption

\* An idle worker takes up j.
LEMMA TakesUp ==
  ASSUME WorkersOK, NEW w \in Workers, NEW p \in Steps, p # "idle", Goto(w, p),
         NEW j \in Jobs, job' = [job EXCEPT ![w] = j], UNCHANGED <<held, seen>>,
         NEW t \in SUBSET (Users \cup Subs), todo' = [todo EXCEPT ![w] = t],
         HandOK(p, j, t, seen[w])
  PROVE  WorkersOK'
<1>1. /\ held' = [held EXCEPT ![w] = held[w]] /\ seen' = [seen EXCEPT ![w] = seen[w]]
      /\ held[w] \in SUBSET Rows /\ seen[w] \in [user : Users, end : Nat] \cup {NoRead}
  BY InHand
<1> QED
  BY <1>1, GotoType

\* Workers that start.
LEMMA StartType ==
  ASSUME TypeInv, NEW w \in Workers, Start(w)
  PROVE  TypeInv'
<1> USE DEF TypeInv
<1>1. ASSUME NEW i \in 1..Len(mail), Take(w, i)
      PROVE  TypeInv'
  <2>1. mail[i] \in Letter
    BY DEF BillOK
  <2>2. BillOK'
    <3>1. mail' \in Seq(Letter)
      BY <1>1, MailShrinks DEF Take, BillOK
    <3> QED
      BY <1>1, <3>1 DEF Take, BillOK
  <2>3. WorkersOK'
    <3>1. CASE UNCHANGED <<pc, job>>
      BY <1>1, <3>1 DEF Take, WorkersOK, StepOK
    <3>2. CASE Goto(w, FirstStep(mail[i])) /\ job' = [job EXCEPT ![w] = mail[i]]
      <4>1. /\ FirstStep(mail[i]) \in {"check", "record", "expire", "find", "mark"}
            /\ FirstStep(mail[i]) = "check" => mail[i].kind = "paid"
            /\ FirstStep(mail[i]) = "find" => mail[i].kind = "updated"
            /\ FirstStep(mail[i]) = "expire" => mail[i].kind = "updated"
        BY <2>1 DEF FirstStep, Letter, Webhooks
      <4>2. UNCHANGED <<held, todo, seen>>
        BY <1>1 DEF Take
      <4>3. mail[i] \in Jobs
        BY <2>1 DEF Jobs
      <4>4. HandOK(FirstStep(mail[i]), mail[i], todo[w], seen[w])
        BY <2>1, <4>1 DEF HandOK
      <4>5. todo' = [todo EXCEPT ![w] = todo[w]] /\ todo[w] \in SUBSET (Users \cup Subs)
        BY <4>2, InHand
      <4>6. FirstStep(mail[i]) \in Steps /\ FirstStep(mail[i]) # "idle"
        BY <4>1 DEF Steps
      <4> QED
        BY <3>2, <4>2, <4>3, <4>4, <4>5, <4>6, TakesUp
    <3> QED
      BY <1>1, <3>1, <3>2 DEF Take
  <2> QED
    BY <1>1, <2>2, <2>3 DEF Take, TablesOK, LuckOK, tables, luck
<1>2. ASSUME NEW g \in Grants, NEW m \in GrantTime, StartGrant(w, g, m)
      PROVE  TypeInv'
  <2> DEFINE j == [kind |-> "grant", row |-> g, end |-> now + m]
  <2>1. j \in GrantJob
    BY LedgerAssumption DEF GrantJob, BillOK
  <2>2. WorkersOK'
    <3>1. j \in Jobs
      BY <2>1 DEF Jobs
    <3>2. Goto(w, "expire") /\ job' = [job EXCEPT ![w] = j] /\ UNCHANGED <<held, todo, seen>>
      BY <1>2 DEF StartGrant
    <3>3. HandOK("expire", j, todo[w], seen[w])
      BY <2>1 DEF HandOK
    <3>4. todo' = [todo EXCEPT ![w] = todo[w]] /\ todo[w] \in SUBSET (Users \cup Subs)
      BY <3>2, InHand
    <3> HIDE DEF j
    <3> QED
      BY <3>1, <3>2, <3>3, <3>4, TakesUp DEF Steps
  <2> QED
    BY <1>2, <2>2 DEF StartGrant, BillOK, TablesOK, LuckOK, billing, tables, luck
<1>3. ASSUME NEW u \in Users, StartCancel(w, u)
      PROVE  TypeInv'
  <2> DEFINE j == [kind |-> "cancel", user |-> u]
             t == {r \in RowsOf(u) \cap Subs : status[r] \in Current}
             p == IF t = {} THEN "cancelRows" ELSE "cancelAtStripe"
  <2>1. j \in CancelJob /\ j \in Jobs
    BY DEF CancelJob, Jobs
  <2>2. WorkersOK'
    <3>1. /\ Goto(w, p) /\ job' = [job EXCEPT ![w] = j]
          /\ todo' = [todo EXCEPT ![w] = t] /\ UNCHANGED <<held, seen>>
      BY <1>3 DEF StartCancel
    <3>2. t \subseteq Subs /\ t \in SUBSET (Users \cup Subs)
      OBVIOUS
    <3>3. p \in {"cancelRows", "cancelAtStripe"}
      OBVIOUS
    <3>4. HandOK(p, j, t, seen[w])
      BY <2>1, <3>2, <3>3 DEF HandOK
    <3> HIDE DEF j, t, p
    <3> QED
      BY <2>1, <3>1, <3>2, <3>3, <3>4, TakesUp DEF Steps
  <2> QED
    BY <1>3, <2>2 DEF StartCancel, BillOK, TablesOK, LuckOK, billing, tables, luck
<1>4. ASSUME StartCron(w)
      PROVE  TypeInv'
  <2> DEFINE j == [kind |-> "cron", end |-> now]
             t == {Owner[g] : g \in Overdue(now)}
  <2>1. j \in CronJob /\ j \in Jobs
    BY DEF CronJob, Jobs, BillOK
  <2>2. WorkersOK'
    <3>1. /\ Goto(w, "expireManual") /\ job' = [job EXCEPT ![w] = j]
          /\ todo' = [todo EXCEPT ![w] = t] /\ UNCHANGED <<held, seen>>
      BY <1>4 DEF StartCron
    <3>2. t \subseteq Users /\ t \in SUBSET (Users \cup Subs)
      BY OwnerType DEF Overdue, Rows
    <3>3. HandOK("expireManual", j, t, seen[w])
      BY <2>1, <3>2 DEF HandOK
    <3> HIDE DEF j, t
    <3> QED
      BY <2>1, <3>1, <3>2, <3>3, TakesUp DEF Steps
  <2> QED
    BY <1>4, <2>2 DEF StartCron, BillOK, TablesOK, LuckOK, billing, tables, luck
<1> QED
  BY <1>1, <1>2, <1>3, <1>4 DEF Start

\* The next call of a handler that keeps what it has in hand.
LEMMA GoesOn ==
  ASSUME WorkersOK, NEW w \in Workers, pc[w] # "idle",
         NEW p \in Steps, p # "idle", Goto(w, p), UNCHANGED <<job, todo, seen>>,
         NEW h \in SUBSET Rows, held' = [held EXCEPT ![w] = h],
         HandOK(p, job[w], todo[w], seen[w])
  PROVE  WorkersOK'
<1>1. /\ job' = [job EXCEPT ![w] = job[w]] /\ todo' = [todo EXCEPT ![w] = todo[w]]
      /\ seen' = [seen EXCEPT ![w] = seen[w]]
      /\ job[w] \in Jobs /\ todo[w] \in SUBSET (Users \cup Subs)
      /\ seen[w] \in [user : Users, end : Nat] \cup {NoRead}
  BY InHand
<1> QED
  BY <1>1, GotoType

LEMMA CheckType ==
  ASSUME TypeInv, NEW w \in Workers, CheckPayment(w) \/ ExpireOthers(w) \/ FindOwn(w)
  PROVE  TypeInv'
<1> USE DEF TypeInv
<1>1. BillOK' /\ TablesOK' /\ LuckOK'
  BY DEF CheckPayment, ExpireOthers, FindOwn, BillOK, TablesOK, LuckOK, billing, tables, luck
<1>2. /\ pc[w] # "idle" /\ HandOK(pc[w], job[w], todo[w], seen[w])
      /\ held = [held EXCEPT ![w] = held[w]] /\ held[w] \in SUBSET Rows
  BY InHand DEF StepOK, CheckPayment, ExpireOthers, FindOwn
<1>3. CASE CheckPayment(w)
  <2>1. job[w] \in Letter /\ job[w].kind = "paid" /\ UNCHANGED <<job, held, seen>>
    BY <1>2, <1>3 DEF CheckPayment, HandOK
  <2>2. CASE Goto(w, "expire") /\ UNCHANGED todo
    <3>1. HandOK("expire", job[w], todo[w], seen[w])
      BY <2>1 DEF HandOK
    <3> QED
      BY <1>1, <1>2, <2>1, <2>2, <3>1, GoesOn DEF Steps
  <2>3. CASE GotoSync(w, {Owner[job[w].row]})
    <3>1. {Owner[job[w].row]} \in SUBSET Users
      BY <2>1, OwnerType DEF Letter, Rows
    <3> QED
      BY <1>1, <1>2, <2>1, <2>3, <3>1, SyncType
  <2> QED
    BY <1>3, <2>2, <2>3 DEF CheckPayment
<1>4. CASE ExpireOthers(w)
  <2> DEFINE p == IF job[w].kind = "grant" THEN "create" ELSE "find"
  <2>1. \/ job[w] \in Letter /\ job[w].kind \in {"paid", "updated"}
        \/ job[w] \in GrantJob /\ job[w].kind = "grant"
    BY <1>2, <1>4 DEF ExpireOthers, HandOK, GrantJob
  <2>2. Replaced(w) \in SUBSET Rows
    BY <2>1 DEF Replaced, PaidReplaces, UpdatedReplaces, GrantReplaces, RowsOf
  <2>3. HandOK(p, job[w], todo[w], seen[w])
    BY <2>1 DEF HandOK
  <2>4. /\ Goto(w, p) /\ held' = [held EXCEPT ![w] = Replaced(w)] /\ UNCHANGED <<job, todo, seen>>
        /\ p \in Steps /\ p # "idle"
    BY <1>4 DEF ExpireOthers, Steps
  <2> HIDE DEF p
  <2> QED
    BY <1>1, <1>2, <2>2, <2>3, <2>4, GoesOn
<1>5. CASE FindOwn(w)
  <2> DEFINE p == IF status[job[w].row] = "absent" THEN "create" ELSE "update"
  <2>1. HandOK(p, job[w], todo[w], seen[w])
    BY <1>2, <1>5 DEF FindOwn, HandOK
  <2>2. Goto(w, p) /\ UNCHANGED local /\ p \in Steps /\ p # "idle"
    BY <1>5 DEF FindOwn, Steps
  <2> HIDE DEF p
  <2> QED
    BY <1>1, <1>2, <2>1, <2>2, GoesOn DEF local
<1> QED
  BY <1>3, <1>4, <1>5

\* A transaction that commits.
LEMMA CommitType ==
  ASSUME TypeInv, NEW w \in Workers, NEW st \in Statuses, NEW e \in Nat, Commit(w, st, e)
  PROVE  /\ BillOK' /\ WorkersOK' /\ LuckOK'
         /\ status' \in [Rows -> Statuses \cup {"absent"}]
         /\ end' \in [Rows -> Nat] /\ UNCHANGED access
<1> USE DEF TypeInv
<1>1. BillOK' /\ LuckOK' /\ UNCHANGED access
  BY DEF Commit, BillOK, LuckOK, billing, luck
<1>2. job[w].row \in Rows /\ pc[w] # "idle"
  BY InHand DEF StepOK, Commit, HandOK, Letter, GrantJob, Rows
<1>3. WorkersOK'
  <2>1. {Owner[job[w].row]} \in SUBSET Users
    BY <1>2, OwnerType
  <2>2. GotoSync(w, {Owner[job[w].row]}) /\ UNCHANGED <<job, seen>>
    BY DEF Commit
  <2>3. held' = [held EXCEPT ![w] = {}] /\ {} \in SUBSET Rows
    BY DEF Commit
  <2> QED
    BY <1>2, <2>1, <2>2, <2>3, SyncType
<1>4. status' \in [Rows -> Statuses \cup {"absent"}] /\ end' \in [Rows -> Nat]
  BY DEF Commit, TablesOK, Statuses
<1> QED
  BY <1>1, <1>3, <1>4

LEMMA WriteType ==
  ASSUME TypeInv, NEW w \in Workers, WritePaid(w) \/ WriteUpdated(w) \/ WriteGranted(w)
  PROVE  TypeInv'
<1> USE DEF TypeInv
<1>1. \/ job[w] \in Letter /\ job[w].kind \in {"paid", "updated"}
      \/ job[w] \in GrantJob /\ job[w].kind = "grant"
  BY InHand DEF StepOK, HandOK, WritePaid, WriteUpdated, WriteGranted, Commit, GrantJob
<1>2. job[w].end \in Nat /\ "ACTIVE" \in Statuses
  BY <1>1 DEF Letter, GrantJob, Statuses
<1>3. CASE WritePaid(w)
  <2>1. Invoice(w) \in Subs \X (1..MaxInvoices)
    BY <1>1, <1>3 DEF WritePaid, Invoice, Letter
  <2>2. payment' \in [Subs \X (1..MaxInvoices) -> {"absent", "COMPLETED", "FAILED"}]
    BY <1>3, <2>1 DEF WritePaid, TablesOK
  <2>3. Commit(w, "ACTIVE", job[w].end)
    BY <1>3 DEF WritePaid
  <2> QED
    BY <1>2, <2>2, <2>3, CommitType DEF TablesOK
<1>4. CASE WriteUpdated(w)
  <2>1. MapStatus(job[w].st) \in Statuses
    BY <1>1, <1>4 DEF WriteUpdated, MapStatus, Letter, GrantJob, Live, Statuses
  <2>2. SubscriptionPeriod(w) \in Nat
    BY <1>2, LedgerAssumption DEF SubscriptionPeriod, BillOK
  <2>3. Commit(w, MapStatus(job[w].st), SubscriptionPeriod(w)) /\ UNCHANGED payment
    BY <1>4 DEF WriteUpdated
  <2> QED
    BY <2>1, <2>2, <2>3, CommitType DEF TablesOK
<1>5. CASE WriteGranted(w)
  BY <1>2, <1>5, CommitType DEF WriteGranted, TablesOK
<1> QED
  BY <1>3, <1>4, <1>5

LEMMA MarkType ==
  ASSUME TypeInv, NEW w \in Workers, RecordFailure(w) \/ MarkPastDue(w) \/ MarkCanceled(w)
  PROVE  TypeInv'
<1> USE DEF TypeInv
<1>1. BillOK' /\ LuckOK'
  BY DEF RecordFailure, MarkPastDue, MarkCanceled, Mark, BillOK, LuckOK, billing, luck
<1>2. /\ pc[w] # "idle" /\ job[w] \in Letter
      /\ held = [held EXCEPT ![w] = held[w]] /\ held[w] \in SUBSET Rows
  BY InHand DEF StepOK, HandOK, RecordFailure, MarkPastDue, MarkCanceled, Mark
<1>3. CASE RecordFailure(w)
  <2>1. Invoice(w) \in Subs \X (1..MaxInvoices)
    BY <1>2 DEF Invoice, Letter
  <2>2. TablesOK'
    BY <1>3, <2>1 DEF RecordFailure, TablesOK
  <2>3. HandOK("mark", job[w], todo[w], seen[w])
    BY <1>2 DEF HandOK
  <2>4. Goto(w, "mark") /\ UNCHANGED local
    BY <1>3 DEF RecordFailure
  <2> QED
    BY <1>1, <1>2, <2>2, <2>3, <2>4, GoesOn DEF local, Steps
<1>4. ASSUME NEW kind, NEW st \in Statuses, Mark(w, kind, st),
             GotoSync(w, {Owner[job[w].row]}), UNCHANGED <<job, held, seen>>
      PROVE  TypeInv'
  <2>1. TablesOK'
    BY <1>4 DEF Mark, TablesOK
  <2>2. {Owner[job[w].row]} \in SUBSET Users
    BY <1>2, OwnerType DEF Letter, Rows
  <2> QED
    BY <1>1, <1>2, <1>4, <2>1, <2>2, SyncType
<1> QED
  BY <1>3, <1>4 DEF MarkPastDue, MarkCanceled, Statuses

LEMMA SyncStepType ==
  ASSUME TypeInv, NEW w \in Workers, SyncRead(w) \/ SyncWrite(w)
  PROVE  TypeInv'
<1> USE DEF TypeInv
<1>1. BillOK' /\ LuckOK'
  BY DEF SyncRead, SyncWrite, BillOK, LuckOK, billing, luck
<1>2. /\ pc[w] # "idle" /\ todo[w] \in SUBSET Users
      /\ pc[w] = "syncWrite" => seen[w] \in [user : Users, end : Nat]
      /\ job[w] \in Jobs /\ job = [job EXCEPT ![w] = job[w]]
      /\ held = [held EXCEPT ![w] = held[w]] /\ held[w] \in SUBSET Rows
  BY InHand DEF StepOK, HandOK, SyncRead, SyncWrite
<1>3. CASE SyncRead(w)
  <2>1. PICK u \in todo[w] : /\ seen' = [seen EXCEPT ![w] = [user |-> u, end |-> LatestEnd(u)]]
                             /\ todo' = [todo EXCEPT ![w] = todo[w] \ {u}]
    BY <1>3 DEF SyncRead
  <2> DEFINE r == [user |-> u, end |-> LatestEnd(u)]
             t == todo[w] \ {u}
  <2>2. r \in [user : Users, end : Nat]
    BY <1>2, LatestEndType
  <2>3. t \in SUBSET Users /\ t \in SUBSET (Users \cup Subs)
    BY <1>2
  <2>4. HandOK("syncWrite", job[w], t, r)
    BY <2>2, <2>3 DEF HandOK
  <2>5. /\ Goto(w, "syncWrite") /\ seen' = [seen EXCEPT ![w] = r]
        /\ todo' = [todo EXCEPT ![w] = t] /\ UNCHANGED <<job, held, tables, access>>
    BY <1>3, <2>1 DEF SyncRead
  <2>6. WorkersOK'
    <3> HIDE DEF r, t
    <3> QED
      BY <1>2, <2>2, <2>3, <2>4, <2>5, GotoType DEF Steps
  <2> QED
    BY <1>1, <2>5, <2>6 DEF TablesOK, tables
<1>4. CASE SyncWrite(w)
  <2>1. TablesOK'
    BY <1>2, <1>4 DEF SyncWrite, TablesOK, tables
  <2>2. CASE Finish(w)
    BY <1>1, <2>1, <2>2, FinishType
  <2>3. CASE Goto(w, "syncRead") /\ UNCHANGED local
    <3>1. HandOK("syncRead", job[w], todo[w], seen[w])
      BY <1>2 DEF HandOK
    <3> QED
      BY <1>1, <1>2, <2>1, <2>3, <3>1, GoesOn DEF local, Steps
  <2> QED
    BY <1>4, <2>2, <2>3 DEF SyncWrite
<1> QED
  BY <1>3, <1>4

LEMMA AdminType ==
  ASSUME TypeInv, NEW w \in Workers, CancelAtStripe(w) \/ CancelRows(w) \/ ExpireManual(w)
  PROVE  TypeInv'
<1> USE DEF TypeInv
<1>1. LuckOK'
  BY DEF CancelAtStripe, CancelRows, ExpireManual, LuckOK, luck
<1>2. /\ pc[w] # "idle" /\ HandOK(pc[w], job[w], todo[w], seen[w])
      /\ job[w] \in Jobs /\ job = [job EXCEPT ![w] = job[w]]
      /\ held = [held EXCEPT ![w] = held[w]] /\ held[w] \in SUBSET Rows
      /\ seen = [seen EXCEPT ![w] = seen[w]]
      /\ seen[w] \in [user : Users, end : Nat] \cup {NoRead}
  BY InHand DEF StepOK, CancelAtStripe, CancelRows, ExpireManual
<1>3. CASE CancelAtStripe(w)
  <2>1. job[w] \in CancelJob /\ todo[w] \in SUBSET Subs
    BY <1>2, <1>3 DEF CancelAtStripe, HandOK
  <2>2. TablesOK' /\ UNCHANGED now
    BY <1>3 DEF CancelAtStripe, TablesOK, tables
  <2>3. ASSUME NEW s \in todo[w], EndAtStripe(s), todo' = [todo EXCEPT ![w] = todo[w] \ {s}],
               IF todo[w] = {s} THEN Goto(w, "cancelRows") ELSE UNCHANGED pc,
               UNCHANGED <<job, held, seen>>
        PROVE  TypeInv'
    <3> DEFINE p == IF todo[w] = {s} THEN "cancelRows" ELSE "cancelAtStripe"
               t == todo[w] \ {s}
    <3>1. BillOK'
      BY <2>1, <2>2, <2>3, EndType
    <3>2. pc = [pc EXCEPT ![w] = pc[w]] /\ pc[w] = "cancelAtStripe"
      BY <1>3 DEF CancelAtStripe, WorkersOK
    <3>3. Goto(w, p) /\ p \in Steps /\ p # "idle"
      BY <2>3, <3>2 DEF Goto, Steps
    <3>4. t \in SUBSET Subs /\ t \in SUBSET (Users \cup Subs)
      BY <2>1
    <3>5. HandOK(p, job[w], t, seen[w])
      BY <2>1, <3>4 DEF HandOK
    <3>6. todo' = [todo EXCEPT ![w] = t]
      BY <2>3
    <3>7. WorkersOK'
      <4> HIDE DEF p, t
      <4> QED
        BY <1>2, <2>3, <3>3, <3>4, <3>5, <3>6, GotoType
    <3> QED
      BY <1>1, <2>2, <3>1, <3>7
  <2>4. CASE Finish(w) /\ UNCHANGED <<bill, mail>>
    BY <1>1, <2>2, <2>4, FinishType DEF BillOK
  <2> QED
    BY <1>3, <2>3, <2>4 DEF CancelAtStripe
<1>4. CASE CancelRows(w)
  <2>1. job[w].user \in Users
    BY <1>2, <1>4 DEF CancelRows, HandOK, CancelJob
  <2>2. BillOK' /\ now \in Nat
    BY <1>4 DEF CancelRows, BillOK, billing
  <2>3. TablesOK'
    BY <1>4, <2>2 DEF CancelRows, TablesOK, Statuses
  <2>4. GotoSync(w, {job[w].user}) /\ UNCHANGED <<job, held, seen>>
    BY <1>4 DEF CancelRows
  <2> QED
    BY <1>1, <1>2, <2>1, <2>2, <2>3, <2>4, SyncType
<1>5. CASE ExpireManual(w)
  <2>1. todo[w] \in SUBSET Users
    BY <1>2, <1>5 DEF ExpireManual, HandOK
  <2>2. BillOK'
    BY <1>5 DEF ExpireManual, BillOK, billing
  <2>3. TablesOK'
    BY <1>5 DEF ExpireManual, TablesOK, Statuses
  <2>4. GotoSync(w, todo[w]) /\ UNCHANGED <<job, held, seen>>
    BY <1>5 DEF ExpireManual
  <2> QED
    BY <1>1, <1>2, <2>1, <2>2, <2>3, <2>4, SyncType
<1> QED
  BY <1>3, <1>4, <1>5

LEMMA FailType ==
  ASSUME TypeInv, Crash \/ \E w \in Workers : Throw(w)
  PROVE  TypeInv'
<1> USE DEF TypeInv
<1>1. TablesOK' /\ LuckOK'
  <2>1. UNCHANGED <<tables, access>> /\ clean' = FALSE
    BY DEF Crash, Throw
  <2>2. faults' = faults \/ (faults < MaxFaults /\ faults' = faults + 1)
    BY DEF Crash, Throw, CallFails
  <2>3. TablesOK'
    BY <2>1 DEF TablesOK, tables
  <2>4. faults' \in 0..MaxFaults
    BY <2>2, LedgerAssumption DEF LuckOK
  <2> QED
    BY <2>1, <2>3, <2>4 DEF LuckOK
<1>2. CASE Crash
  BY <1>1, <1>2 DEF Crash, BillOK, billing, WorkersOK, StepOK, HandOK, Steps, NoJob, NoRead
<1>3. ASSUME NEW w \in Workers, Throw(w)
      PROVE  TypeInv'
  <2>1. WorkersOK'
    BY <1>3, FinishType DEF Throw
  <2>2. mail' \in Seq(Letter)
    <3>1. CASE UNCHANGED mail
      BY <3>1 DEF BillOK
    <3>2. CASE job[w].kind \in Webhooks /\ mail' = Append(mail, job[w])
      <4>1. job[w] \in Jobs
        BY <1>3, InHand DEF Throw
      <4>2. job[w] \in Letter
        BY <3>2, <4>1 DEF Jobs, GrantJob, CancelJob, CronJob, Webhooks
      <4> QED
        BY <3>2, <4>2 DEF BillOK
    <3> QED
      BY <1>3, <3>1, <3>2 DEF Throw
  <2> QED
    BY <1>1, <1>3, <2>1, <2>2 DEF Throw, BillOK
<1> QED
  BY <1>2, <1>3

LEMMA TypeNext == TypeInv /\ [Next]_vars => TypeInv'
<1> SUFFICES ASSUME TypeInv, [Next]_vars PROVE TypeInv'
  OBVIOUS
<1>1. CASE UNCHANGED vars
  BY <1>1 DEF vars, billing, tables, local, luck, TypeInv, BillOK, TablesOK, WorkersOK, LuckOK,
              StepOK
<1>2. CASE BillingNext /\ UNCHANGED <<tables, access, pc, local, luck>>
  BY <1>2, BillingType DEF tables, local, luck, TypeInv, TablesOK, WorkersOK, LuckOK, StepOK
<1>3. ASSUME NEW s \in Subs, CreateCheckoutSession(s)
      PROVE  TypeInv'
  BY <1>3 DEF CreateCheckoutSession, tables, local, luck, TypeInv, BillOK, TablesOK, WorkersOK,
              LuckOK, StepOK, Live
<1>4. ASSUME NEW w \in Workers, Handle(w)
      PROVE  TypeInv'
  BY <1>4, CheckType, WriteType, MarkType, SyncStepType, AdminType DEF Handle
<1> QED
  BY <1>1, <1>2, <1>3, <1>4, StartType, FailType DEF Next

LEMMA TypeInvariant == Spec => []TypeInv
  BY InitType, TypeNext, PTL DEF Spec

\* Every variable has its type.
THEOREM TypeCorrect == Spec => []TypeOK
  BY TypeInvariant, TypeInvIsEnough, PTL

-----------------------------------------------------------------------------
(* Rows and payments.                                                        *)

\* The actions that write the tables.
Writes(w) == \/ WritePaid(w) \/ WriteUpdated(w) \/ WriteGranted(w)
             \/ RecordFailure(w) \/ MarkPastDue(w) \/ MarkCanceled(w)
             \/ CancelRows(w) \/ ExpireManual(w)

LEMMA Writers ==
  ASSUME [Next]_vars
  PROVE  UNCHANGED tables \/ \E w \in Workers : Writes(w)
<1>1. CASE UNCHANGED vars \/ Crash
  BY <1>1 DEF vars, Crash
<1>2. CASE BillingNext /\ UNCHANGED <<tables, access, pc, local, luck>>
  BY <1>2
<1>3. CASE \E s \in Subs : CreateCheckoutSession(s)
  BY <1>3 DEF CreateCheckoutSession
<1>4. ASSUME NEW w \in Workers, Start(w) \/ Throw(w)
      PROVE  UNCHANGED tables
  BY <1>4 DEF Start, Throw, Take, StartGrant, StartCancel, StartCron
<1>5. ASSUME NEW w \in Workers, Handle(w)
      PROVE  UNCHANGED tables \/ Writes(w)
  BY <1>5 DEF Handle, Writes, CheckPayment, ExpireOthers, FindOwn, SyncRead, SyncWrite,
              CancelAtStripe
<1> QED
  BY <1>1, <1>2, <1>3, <1>4, <1>5 DEF Next

\* No row is ever removed.
LEMMA RowsStay ==
  ASSUME TypeInv, [Next]_vars, NEW r \in Rows, status[r] # "absent"
  PROVE  status'[r] # "absent"
<1>1. CASE UNCHANGED tables
  BY <1>1 DEF tables
<1>2. ASSUME NEW w \in Workers, NEW st \in Statuses, NEW e, Commit(w, st, e)
      PROVE  status'[r] # "absent"
  BY <1>2 DEF Commit, Statuses
<1>3. ASSUME NEW w \in Workers, WritePaid(w) \/ WriteUpdated(w) \/ WriteGranted(w)
      PROVE  status'[r] # "absent"
  <2>1. "ACTIVE" \in Statuses
    BY DEF Statuses
  <2>2. WriteUpdated(w) => MapStatus(job[w].st) \in Statuses
    BY InHand DEF TypeInv, WriteUpdated, Commit, StepOK, HandOK, MapStatus, Letter, GrantJob,
                  Live, Statuses
  <2> QED
    BY <1>2, <1>3, <2>1, <2>2 DEF WritePaid, WriteUpdated, WriteGranted
<1>4. ASSUME NEW w \in Workers,
             \/ RecordFailure(w) \/ MarkPastDue(w) \/ MarkCanceled(w)
             \/ CancelRows(w) \/ ExpireManual(w)
      PROVE  status'[r] # "absent"
  BY <1>4 DEF TypeInv, TablesOK, RecordFailure, MarkPastDue, MarkCanceled, Mark, CancelRows,
              ExpireManual
<1> QED
  BY <1>1, <1>3, <1>4, Writers DEF Writes

\* The payment of an invoice and its subscription are written together: no
\* COMPLETED payment is without its subscription.
THEOREM PaymentsHaveSubscriptions == Spec => []PaidHasSubscription
<1>1. Init => PaidHasSubscription
  BY DEF Init, PaidHasSubscription
<1>2. TypeInv /\ PaidHasSubscription /\ [Next]_vars => PaidHasSubscription'
  <2> SUFFICES ASSUME TypeInv, PaidHasSubscription, [Next]_vars,
                      NEW s \in Subs, NEW n \in 1..MaxInvoices,
                      payment'[<<s, n>>] = "COMPLETED"
               PROVE  status'[s] # "absent"
    BY DEF PaidHasSubscription
  <2>1. s \in Rows
    BY DEF Rows
  <2>2. CASE payment[<<s, n>>] = "COMPLETED"
    BY <2>1, <2>2, RowsStay DEF PaidHasSubscription
  <2>3. CASE payment[<<s, n>>] # "COMPLETED"
    <3>1. PICK w \in Workers : Writes(w) /\ payment' # payment
      BY <2>3, Writers DEF tables
    <3>2. WritePaid(w) \/ RecordFailure(w)
      BY <3>1 DEF Writes, WriteUpdated, WriteGranted, MarkPastDue, MarkCanceled, Mark,
                  CancelRows, ExpireManual
    <3>3. CASE RecordFailure(w)
      BY <2>3, <3>3 DEF RecordFailure, TypeInv, TablesOK
    <3>4. CASE WritePaid(w)
      <4>1. Invoice(w) = <<s, n>>
        BY <2>3, <3>4 DEF WritePaid, TypeInv, TablesOK
      <4>2. job[w].row = s
        BY <4>1 DEF Invoice
      <4> QED
        BY <2>1, <3>4, <4>2 DEF WritePaid, Commit
    <3> QED
      BY <3>2, <3>3, <3>4
  <2> QED
    BY <2>2, <2>3
<1> QED
  BY <1>1, <1>2, TypeInvariant, PTL DEF Spec

-----------------------------------------------------------------------------
(* Credit does not add up.                                                   *)

\* An event tells of a period that was paid, or of the one after it.
Truthful(e) == /\ e.kind = "paid" => e.end <= bill[e.row].paid
               /\ e.end <= bill[e.row].paid + Period

TruthfulMail == {e \in Letter : Truthful(e)}

BillPromise == \A s \in Subs : /\ bill[s].paid <= bill[s].end
                               /\ bill[s].end <= bill[s].paid + Period
                               /\ bill[s].st \in {"none", "session"} => bill[s].paid = 0

\* Why ActiveIsCovered holds whatever the order of the events: what they tell
\* was true, what has been paid for stays paid for, and no time comes back.
PaidInv == /\ BillPromise
           /\ mail \in Seq(TruthfulMail)
           /\ \A w \in Workers : job[w] \in Letter => Truthful(job[w])
           /\ ActiveIsCovered

PaidGrows == now <= now' /\ \A s \in Subs : bill[s].paid <= bill'[s].paid

LEMMA SumGrows ==
  ASSUME NEW a \in Nat, NEW b \in Nat, NEW c \in Nat, NEW e \in Nat,
         a <= b, e <= a + c
  PROVE  e <= b + c
OBVIOUS

LEMMA CoveredGrows ==
  ASSUME BillOK, BillOK', PaidGrows, NEW s \in Subs, NEW e \in Nat, Covered(s, e)
  PROVE  Covered(s, e)'
<1>1. /\ bill[s].paid \in Nat /\ bill'[s].paid \in Nat /\ bill[s].paid <= bill'[s].paid
      /\ now \in Nat /\ now' \in Nat /\ now <= now'
  BY BillingAssumption DEF BillOK, PaidGrows
<1>2. Period \in Nat /\ Fallback \in Nat
  BY BillingAssumption, LedgerAssumption
<1>3. CASE e <= bill[s].paid
  BY <1>1, <1>3 DEF Covered
<1>4. CASE Dated /\ e <= bill[s].paid + Period
  <2>1. e <= bill'[s].paid + Period
    BY <1>1, <1>2, <1>4, SumGrows
  <2> QED BY <1>4, <2>1 DEF Covered
<1>5. CASE ~Dated /\ e <= now + Fallback
  <2>1. e <= now' + Fallback
    BY <1>1, <1>2, <1>5, SumGrows
  <2> QED BY <1>5, <2>1 DEF Covered
<1> QED
  BY <1>3, <1>4, <1>5 DEF Covered

LEMMA TruthStays ==
  ASSUME BillOK, BillOK', PaidGrows, NEW e \in Letter, Truthful(e)
  PROVE  Truthful(e)'
<1>1. /\ e.row \in Subs /\ e.end \in Nat
      /\ bill[e.row].paid \in Nat /\ bill'[e.row].paid \in Nat
      /\ bill[e.row].paid <= bill'[e.row].paid /\ Period \in Nat
  BY BillingAssumption DEF Letter, BillOK, PaidGrows
<1> QED
  BY <1>1 DEF Truthful

LEMMA MailStays ==
  ASSUME BillOK, BillOK', PaidGrows, NEW q \in Seq(TruthfulMail)
  PROVE  q \in Seq(TruthfulMail')
<1>1. \A e \in TruthfulMail : e \in TruthfulMail'
  BY TruthStays DEF TruthfulMail
<1> QED
  BY <1>1

LEMMA EmitPaid ==
  ASSUME BillOK, BillOK', BillPromise, mail \in Seq(TruthfulMail), NEW s \in Subs,
         NEW kinds \in Seq(Webhooks),
         NEW b \in [st : Live \cup {"canceled"}, n : 1..MaxInvoices, end : Nat, paid : Nat],
         Emit(s, b, kinds), UNCHANGED now,
         bill[s].paid <= b.paid, b.paid <= b.end, b.end <= b.paid + Period,
         \A i \in 1..Len(kinds) : kinds[i] = "paid" => b.paid = b.end
  PROVE  BillPromise' /\ PaidGrows /\ mail' \in Seq(TruthfulMail')
<1>1. bill'[s] = b /\ \A t \in Subs \ {s} : bill'[t] = bill[t]
  BY DEF Emit, BillOK
<1>2. BillPromise'
  BY <1>1 DEF BillPromise, Live
<1>3. PaidGrows
  <2>1. now \in Nat /\ \A t \in Subs : bill[t].paid \in Nat
    BY BillingAssumption DEF BillOK
  <2> QED
    BY <1>1, <2>1 DEF PaidGrows
<1>4. mail \in Seq(TruthfulMail')
  BY <1>3, MailStays
<1>5. \A i \in 1..Len(kinds) : Event(kinds[i], s, b) \in TruthfulMail'
  BY <1>1 DEF TruthfulMail, Truthful, Event, Letter
<1>6. mail' \in Seq(TruthfulMail')
  <2> DEFINE S == TruthfulMail'
  <2>1. mail \in Seq(S) /\ \A i \in 1..Len(kinds) : Event(kinds[i], s, b) \in S
    BY <1>4, <1>5
  <2> HIDE DEF S
  <2>2. mail' \in Seq(S)
    BY <2>1, MailGrows
  <2> QED
    BY <2>2 DEF S
<1> QED
  BY <1>2, <1>3, <1>6

LEMMA EndPaid ==
  ASSUME BillOK, BillPromise, mail \in Seq(TruthfulMail), NEW s \in Subs,
         EndAtStripe(s), UNCHANGED now
  PROVE  BillPromise' /\ PaidGrows /\ mail' \in Seq(TruthfulMail')
<1> DEFINE b == [bill[s] EXCEPT !.st = "canceled"]
<1>1. b \in [st : Live \cup {"canceled"}, n : 1..MaxInvoices, end : Nat, paid : Nat]
  BY DEF BillOK, EndAtStripe
<1>2. /\ bill[s].paid = b.paid /\ b.paid <= b.end /\ b.st = "canceled"
      /\ b.end <= b.paid + Period /\ Emit(s, b, <<"deleted">>)
  BY DEF BillOK, BillPromise, EndAtStripe
<1>3. /\ bill[s].paid \in Nat /\ <<"deleted">> \in Seq(Webhooks)
      /\ \A i \in 1..Len(<<"deleted">>) : <<"deleted">>[i] # "paid"
  BY DEF BillOK, Webhooks
<1>4. BillOK' /\ bill[s].paid <= b.paid
  BY <1>2, <1>3, EndType
<1> HIDE DEF b
<1> QED
  BY <1>1, <1>2, <1>3, <1>4, EmitPaid

LEMMA BillingPaid ==
  ASSUME BillOK, BillPromise, mail \in Seq(TruthfulMail), BillingNext
  PROVE  BillPromise' /\ PaidGrows /\ mail' \in Seq(TruthfulMail')
<1> DEFINE B == [st : Live \cup {"canceled"}, n : 1..MaxInvoices, end : Nat, paid : Nat]
<1>1. /\ <<"paid", "updated">> \in Seq(Webhooks)
      /\ <<"failed", "updated">> \in Seq(Webhooks)
      /\ <<"updated">> \in Seq(Webhooks) /\ <<"paid">> \in Seq(Webhooks)
      /\ \A i \in 1..Len(<<"failed", "updated">>) : <<"failed", "updated">>[i] # "paid"
      /\ \A i \in 1..Len(<<"updated">>) : <<"updated">>[i] # "paid"
  BY DEF Webhooks
<1>2. BillOK' /\ now \in Nat /\ Period \in Nat \ {0}
  BY BillingType, BillingAssumption DEF BillOK
<1>3. ASSUME UNCHANGED <<bill, mail>>, now <= now'
      PROVE  BillPromise' /\ PaidGrows /\ mail' \in Seq(TruthfulMail')
  <2>1. BillPromise' /\ PaidGrows
    BY <1>3 DEF BillPromise, PaidGrows, BillOK
  <2> QED
    BY <1>2, <1>3, <2>1, MailStays
<1>4. ASSUME NEW s \in Subs, Subscribe(s)
      PROVE  BillPromise' /\ PaidGrows /\ mail' \in Seq(TruthfulMail')
  <2> DEFINE b == [st |-> "active", n |-> 1, end |-> now + Period, paid |-> now + Period]
  <2>1. b \in B /\ Emit(s, b, <<"paid", "updated">>) /\ b.paid = b.end /\ b.paid <= b.end
    BY <1>2, <1>4, BillingAssumption DEF Subscribe, BillOK, Live
  <2>2. bill[s].paid <= b.paid /\ b.end <= b.paid + Period
    BY <1>2, <1>4, <2>1 DEF Subscribe, BillPromise
  <2>3. UNCHANGED now
    BY <1>4 DEF Subscribe
  <2> HIDE DEF b
  <2> QED
    BY <1>1, <1>2, <2>1, <2>2, <2>3, EmitPaid
<1>5. ASSUME NEW s \in Subs, BeginPeriod(s)
      PROVE  BillPromise' /\ PaidGrows /\ mail' \in Seq(TruthfulMail')
  <2> DEFINE b == [bill[s] EXCEPT !.n = @ + 1, !.end = @ + Period]
  <2>1. /\ bill[s] \in B /\ bill[s].n + 1 \in 1..MaxInvoices /\ bill[s].end + Period \in Nat
        /\ bill[s].paid = bill[s].end
    BY <1>2, <1>5, BillingAssumption DEF BeginPeriod, BillOK, Live
  <2>2. /\ b \in B /\ Emit(s, b, <<"updated">>) /\ UNCHANGED now
        /\ b.paid = bill[s].paid /\ b.end = bill[s].end + Period
    BY <1>5, <2>1 DEF BeginPeriod, Live
  <2>3. bill[s].paid <= b.paid /\ b.paid <= b.end /\ b.end <= b.paid + Period
    BY <1>2, <2>1, <2>2
  <2> HIDE DEF b
  <2> QED
    BY <1>1, <1>2, <2>2, <2>3, EmitPaid
<1>6. ASSUME NEW s \in Subs, Renew(s)
      PROVE  BillPromise' /\ PaidGrows /\ mail' \in Seq(TruthfulMail')
  <2> DEFINE b == [bill[s] EXCEPT !.paid = bill[s].end]
  <2>1. /\ b \in B /\ Emit(s, b, <<"paid">>) /\ UNCHANGED now
        /\ b.paid = bill[s].end /\ b.end = bill[s].end
    BY <1>6 DEF Renew, Draft, BillOK, Live
  <2>2. bill[s].paid <= b.paid /\ b.paid <= b.end /\ b.end <= b.paid + Period
    BY <1>2, <2>1 DEF BillOK, BillPromise
  <2> HIDE DEF b
  <2> QED
    BY <1>1, <1>2, <2>1, <2>2, EmitPaid
<1>7. ASSUME NEW s \in Subs, FailRenewal(s)
      PROVE  BillPromise' /\ PaidGrows /\ mail' \in Seq(TruthfulMail')
  <2> DEFINE b == [bill[s] EXCEPT !.st = "past_due"]
  <2>1. /\ b \in B /\ Emit(s, b, <<"failed", "updated">>) /\ UNCHANGED now
        /\ b.paid = bill[s].paid /\ b.end = bill[s].end
    BY <1>7 DEF FailRenewal, Draft, BillOK, Live
  <2>2. bill[s].paid <= b.paid /\ b.paid <= b.end /\ b.end <= b.paid + Period
    BY <2>1 DEF BillOK, BillPromise
  <2> HIDE DEF b
  <2> QED
    BY <1>1, <1>2, <2>1, <2>2, EmitPaid
<1>8. ASSUME NEW s \in Subs, CollectLate(s)
      PROVE  BillPromise' /\ PaidGrows /\ mail' \in Seq(TruthfulMail')
  <2> DEFINE b == [bill[s] EXCEPT !.st = "active", !.paid = bill[s].end]
  <2>1. /\ b \in B /\ Emit(s, b, <<"paid", "updated">>) /\ UNCHANGED now
        /\ b.paid = bill[s].end /\ b.end = bill[s].end
    BY <1>8 DEF CollectLate, BillOK, Live
  <2>2. bill[s].paid <= b.paid /\ b.paid <= b.end /\ b.end <= b.paid + Period
    BY <1>2, <2>1 DEF BillOK, BillPromise
  <2> HIDE DEF b
  <2> QED
    BY <1>1, <1>2, <2>1, <2>2, EmitPaid
<1>9. ASSUME NEW s \in Subs, GiveUp(s)
      PROVE  BillPromise' /\ PaidGrows /\ mail' \in Seq(TruthfulMail')
  <2> DEFINE b == [bill[s] EXCEPT !.st = "unpaid"]
  <2>1. /\ b \in B /\ Emit(s, b, <<"updated">>) /\ UNCHANGED now
        /\ b.paid = bill[s].paid /\ b.end = bill[s].end
    BY <1>9 DEF GiveUp, BillOK, Live
  <2>2. bill[s].paid <= b.paid /\ b.paid <= b.end /\ b.end <= b.paid + Period
    BY <2>1 DEF BillOK, BillPromise
  <2> HIDE DEF b
  <2> QED
    BY <1>1, <1>2, <2>1, <2>2, EmitPaid
<1>10. CASE Tick
  BY <1>2, <1>3, <1>10 DEF Tick
<1> QED
  BY <1>4, <1>5, <1>6, <1>7, <1>8, <1>9, <1>10, EndPaid DEF BillingNext, Terminate

LEMMA InitPaid == Init => PaidInv
  BY BillingAssumption
     DEF Init, BillingInit, PaidInv, BillPromise, ActiveIsCovered, NoJob, Letter, Webhooks, Rows

\* What a worker has in hand stays true.
LEMMA JobsPaid ==
  ASSUME TypeInv, TypeInv', PaidGrows, PaidInv, [Next]_vars
  PROVE  \A w \in Workers : (job[w] \in Letter => Truthful(job[w]))'
<1> SUFFICES ASSUME NEW v \in Workers, NEW e \in Letter, job'[v] = e
             PROVE  Truthful(e)'
  BY DEF Truthful, Letter
<1>1. job'[v] = job[v] \/ (\E i \in 1..Len(mail) : job'[v] = mail[i])
  <2> USE DEF TypeInv, WorkersOK
  <2>1. NoJob \notin Letter /\ \A g, t : [kind |-> "grant", row |-> g, end |-> t] \notin Letter
    BY DEF Letter, NoJob, Webhooks
  <2>2. \A u, t : /\ [kind |-> "cancel", user |-> u] \notin Letter
                  /\ [kind |-> "cron", end |-> t] \notin Letter
    BY DEF Letter, Webhooks
  <2>3. CASE UNCHANGED job
    BY <2>3
  <2>4. CASE Crash
    BY <2>1, <2>4 DEF Crash
  <2>5. ASSUME NEW w \in Workers, Start(w)
        PROVE  job'[v] = job[v] \/ (\E i \in 1..Len(mail) : job'[v] = mail[i])
    <3>1. ASSUME NEW i \in 1..Len(mail), Take(w, i)
          PROVE  job'[v] = job[v] \/ job'[v] = mail[i]
      BY <3>1 DEF Take
    <3>2. ASSUME NEW g \in Grants, NEW m \in GrantTime, StartGrant(w, g, m)
          PROVE  job'[v] = job[v]
      BY <2>1, <3>2 DEF StartGrant
    <3>3. ASSUME NEW u \in Users, StartCancel(w, u)
          PROVE  job'[v] = job[v]
      BY <2>2, <3>3 DEF StartCancel
    <3>4. ASSUME StartCron(w)
          PROVE  job'[v] = job[v]
      BY <2>2, <3>4 DEF StartCron
    <3> QED
      BY <2>5, <3>1, <3>2, <3>3, <3>4 DEF Start
  <2>6. ASSUME NEW w \in Workers, Finish(w)
        PROVE  job'[v] = job[v]
    BY <2>1, <2>6 DEF Finish
  <2>7. ASSUME NEW w \in Workers, Handle(w) \/ Throw(w)
        PROVE  UNCHANGED job \/ Finish(w)
    BY <2>7 DEF Handle, Throw, CheckPayment, ExpireOthers, FindOwn, WritePaid, WriteUpdated,
                WriteGranted, Commit, RecordFailure, MarkPastDue, MarkCanceled, SyncRead,
                SyncWrite, CancelAtStripe, CancelRows, ExpireManual, local
  <2>8. CASE \/ UNCHANGED vars
             \/ BillingNext /\ UNCHANGED <<tables, access, pc, local, luck>>
             \/ \E s \in Subs : CreateCheckoutSession(s)
    BY <2>3, <2>8 DEF vars, local, CreateCheckoutSession
  <2> QED
    BY <2>3, <2>4, <2>5, <2>6, <2>7, <2>8 DEF Next
<1>2. CASE job[v] = e
  BY <1>2, TruthStays DEF TypeInv, PaidInv
<1>3. ASSUME NEW i \in 1..Len(mail), mail[i] = e
      PROVE  Truthful(e)'
  <2>1. mail[i] \in TruthfulMail
    BY DEF PaidInv
  <2>2. Truthful(e)
    BY <1>3, <2>1 DEF TruthfulMail
  <2> QED
    BY <2>2, TruthStays DEF TypeInv
<1> QED
  BY <1>1, <1>2, <1>3

LEMMA MailPaid ==
  ASSUME TypeInv, TypeInv', PaidInv, [Next]_vars
  PROVE  BillPromise' /\ PaidGrows /\ mail' \in Seq(TruthfulMail')
<1> USE DEF TypeInv
<1>1. ASSUME \A s \in Subs : /\ bill'[s].paid = bill[s].paid /\ bill'[s].end = bill[s].end
                             /\ \/ bill'[s].st = bill[s].st
                                \/ {bill[s].st, bill'[s].st} \subseteq {"none", "session"},
             mail' \in Seq(TruthfulMail), UNCHANGED now
      PROVE  BillPromise' /\ PaidGrows /\ mail' \in Seq(TruthfulMail')
  <2>1. now \in Nat
    BY BillingAssumption DEF BillOK
  <2>2. BillPromise' /\ PaidGrows
    BY <1>1, <2>1 DEF PaidInv, BillPromise, PaidGrows, BillOK
  <2> QED
    BY <1>1, <2>2, MailStays
<1>2. mail \in Seq(TruthfulMail)
  BY DEF PaidInv
<1>3. CASE BillingNext
  BY <1>2, <1>3, BillingPaid DEF PaidInv
<1>4. ASSUME NEW s \in Subs, CreateCheckoutSession(s)
      PROVE  BillPromise' /\ PaidGrows /\ mail' \in Seq(TruthfulMail')
  BY <1>1, <1>2, <1>4 DEF CreateCheckoutSession, BillOK
<1>5. CASE UNCHANGED billing
  BY <1>1, <1>2, <1>5 DEF billing
<1>6. ASSUME NEW w \in Workers, NEW i \in 1..Len(mail), Take(w, i)
      PROVE  BillPromise' /\ PaidGrows /\ mail' \in Seq(TruthfulMail')
  <2>1. mail' \in Seq(TruthfulMail) /\ bill' = bill /\ now' = now
    BY <1>2, <1>6, MailShrinks DEF Take
  <2> QED
    BY <1>1, <2>1
<1>7. ASSUME NEW w \in Workers, Throw(w)
      PROVE  BillPromise' /\ PaidGrows /\ mail' \in Seq(TruthfulMail')
  <2>1. job[w] \in Letter \/ UNCHANGED mail
    BY <1>7, InHand DEF Throw, Jobs, GrantJob, CancelJob, CronJob, Webhooks
  <2>2. job[w] \in Letter => job[w] \in TruthfulMail
    BY DEF PaidInv, TruthfulMail
  <2>3. mail' \in Seq(TruthfulMail) /\ bill' = bill /\ now' = now
    BY <1>2, <1>7, <2>1, <2>2 DEF Throw
  <2> QED
    BY <1>1, <2>3
<1>8. ASSUME NEW w \in Workers, CancelAtStripe(w)
      PROVE  BillPromise' /\ PaidGrows /\ mail' \in Seq(TruthfulMail')
  <2>1. PICK s \in todo[w] : EndAtStripe(s) \/ UNCHANGED billing
    BY <1>8 DEF CancelAtStripe, billing
  <2>2. s \in Subs /\ UNCHANGED now
    BY <1>8, InHand DEF CancelAtStripe, StepOK, HandOK
  <2> QED
    BY <1>2, <1>5, <2>1, <2>2, EndPaid DEF PaidInv
<1>9. ASSUME NEW w \in Workers, Handle(w)
      PROVE  UNCHANGED billing \/ CancelAtStripe(w)
  BY <1>9 DEF Handle, CheckPayment, ExpireOthers, FindOwn, WritePaid, WriteUpdated,
              WriteGranted, Commit, RecordFailure, MarkPastDue, MarkCanceled, Mark, SyncRead,
              SyncWrite, CancelRows, ExpireManual, billing
<1>10. ASSUME NEW w \in Workers, Start(w)
       PROVE  UNCHANGED billing \/ \E i \in 1..Len(mail) : Take(w, i)
  BY <1>10 DEF Start, StartGrant, StartCancel, StartCron, billing
<1> QED
  BY <1>3, <1>4, <1>5, <1>6, <1>7, <1>8, <1>9, <1>10 DEF Next, Crash, vars, billing

\* A row becomes ACTIVE, or an ACTIVE row gets another end, only when an event
\* is written that tells of it.
LEMMA ActiveNext ==
  ASSUME TypeInv, TypeInv', PaidGrows, PaidInv, [Next]_vars
  PROVE  ActiveIsCovered'
<1> SUFFICES ASSUME NEW s \in Subs, status'[s] = "ACTIVE"
             PROVE  Covered(s, end[s])'
  BY DEF ActiveIsCovered
<1>1. /\ s \in Rows /\ s \notin Grants
      /\ bill[s].paid \in Nat /\ bill'[s].paid \in Nat /\ bill[s].paid <= bill'[s].paid
      /\ end[s] \in Nat /\ Period \in Nat /\ Fallback \in Nat /\ now \in Nat
  BY LedgerAssumption, BillingAssumption DEF Rows, TypeInv, BillOK, TablesOK, PaidGrows
<1>10. ASSUME NEW e \in Nat, end'[s] = e, Covered(s, e)
       PROVE  Covered(s, end[s])'
  <2>1. Covered(s, e)'
    BY <1>10, CoveredGrows DEF TypeInv
  <2> QED
    BY <1>10, <2>1 DEF Covered
<1>2. CASE status[s] = "ACTIVE" /\ end'[s] = end[s]
  BY <1>1, <1>2, <1>10 DEF PaidInv, ActiveIsCovered
<1>3. ASSUME NEW w \in Workers, NEW st, NEW e, Commit(w, st, e),
             job[w].row # s \/ st # "ACTIVE"
      PROVE  status[s] = "ACTIVE" /\ end'[s] = end[s]
  BY <1>1, <1>3 DEF Commit, TypeInv, TablesOK
<1>4. ASSUME NEW w \in Workers, NEW st, NEW e, Commit(w, st, e), job[w].row = s
      PROVE  end'[s] = e
  BY <1>1, <1>4 DEF Commit, TypeInv, TablesOK
<1>5. ASSUME NEW w \in Workers, WritePaid(w)
      PROVE  Covered(s, end[s])'
  <2>1. job[w] \in Letter /\ Commit(w, "ACTIVE", job[w].end)
    BY <1>5, InHand DEF WritePaid, Commit, TypeInv, StepOK, HandOK, GrantJob
  <2>2. CASE job[w].row = s
    <3>1. end'[s] = job[w].end
      BY <1>4, <2>1, <2>2
    <3>2. job[w].end <= bill[s].paid /\ job[w].end \in Nat
      BY <1>5, <2>1, <2>2 DEF WritePaid, PaidInv, Truthful, Letter
    <3>3. Covered(s, job[w].end)
      BY <1>1, <3>2 DEF Covered
    <3> QED
      BY <1>10, <3>1, <3>2, <3>3
  <2> QED
    BY <1>2, <1>3, <2>1, <2>2
<1>6. ASSUME NEW w \in Workers, WriteUpdated(w)
      PROVE  Covered(s, end[s])'
  <2>1. /\ job[w] \in Letter
        /\ Commit(w, MapStatus(job[w].st), SubscriptionPeriod(w))
    BY <1>6, InHand DEF WriteUpdated, Commit, TypeInv, StepOK, HandOK, GrantJob
  <2>2. CASE job[w].row = s /\ MapStatus(job[w].st) = "ACTIVE"
    <3>1. end'[s] = SubscriptionPeriod(w)
      BY <1>4, <2>1, <2>2
    <3>2. job[w].end <= bill[s].paid + Period /\ job[w].end \in Nat
      BY <2>1, <2>2 DEF PaidInv, Truthful, Letter
    <3>3. SubscriptionPeriod(w) \in Nat /\ Covered(s, SubscriptionPeriod(w))
      BY <1>1, <3>2 DEF SubscriptionPeriod, Covered
    <3> QED
      BY <1>10, <3>1, <3>3
  <2> QED
    BY <1>2, <1>3, <2>1, <2>2
<1>7. ASSUME NEW w \in Workers, WriteGranted(w)
      PROVE  Covered(s, end[s])'
  <2>1. job[w] \in GrantJob /\ Commit(w, "ACTIVE", job[w].end)
    BY <1>7, InHand DEF WriteGranted, Commit, TypeInv, StepOK, HandOK
  <2>2. job[w].row # s
    BY <1>1, <2>1 DEF GrantJob
  <2> QED
    BY <1>2, <1>3, <2>1, <2>2
<1>8. ASSUME NEW w \in Workers,
             \/ RecordFailure(w) \/ MarkPastDue(w) \/ MarkCanceled(w)
             \/ CancelRows(w) \/ ExpireManual(w)
      PROVE  status[s] = "ACTIVE" /\ end'[s] = end[s]
  BY <1>1, <1>8 DEF TypeInv, TablesOK, RecordFailure, MarkPastDue, MarkCanceled, Mark,
                    CancelRows, ExpireManual
<1> QED
  BY <1>2, <1>5, <1>6, <1>7, <1>8, Writers DEF Writes, tables

LEMMA PaidNext == TypeInv /\ TypeInv' /\ PaidInv /\ [Next]_vars => PaidInv'
  BY MailPaid, JobsPaid, ActiveNext DEF PaidInv

LEMMA PaidInvariant == Spec => []PaidInv
  BY InitPaid, PaidNext, TypeInvariant, PTL DEF Spec

\* Whatever the order of the events, the handlers at the same time, the retries
\* and the failures, an ACTIVE Stripe subscription runs no further than what
\* Stripe was paid for and one step more: the period Stripe has begun where the
\* events carry the ends of periods, thirty days from now where they do not.
THEOREM ActiveRowsAreCovered == Spec => []ActiveIsCovered
<1>1. PaidInv => ActiveIsCovered
  BY DEF PaidInv
<1> QED
  BY <1>1, PaidInvariant, PTL

\* A subscription of u covers access that ends at e, or it may have been granted.
Afforded(u, e) ==
    (\A g \in RowsOf(u) \cap Grants : status[g] = "absent")
        => e = 0 \/ \E s \in RowsOf(u) \cap Subs : Covered(s, e)

\* What a sync has read is still covered when it is written.
SeenIsCovered ==
    \A w \in Workers : pc[w] = "syncWrite" => Afforded(seen[w].user, seen[w].end)

AccessInv == AccessIsCovered /\ SeenIsCovered

LEMMA AffordedStays ==
  ASSUME TypeInv, TypeInv', PaidGrows, [Next]_vars, NEW u \in Users, NEW e \in Nat,
         Afforded(u, e)
  PROVE  Afforded(u, e)'
<1>1. \A r \in Rows : status'[r] = "absent" => status[r] = "absent"
  BY RowsStay
<1>2. \A s \in Subs : Covered(s, e) => Covered(s, e)'
  BY CoveredGrows DEF TypeInv
<1> QED
  BY <1>1, <1>2 DEF Afforded, RowsOf, Rows

LEMMA LatestEndAfforded ==
  ASSUME TypeInv, ActiveIsCovered, NEW u \in Users
  PROVE  Afforded(u, LatestEnd(u))
<1>1. CASE LatestEnd(u) = 0
  BY <1>1 DEF Afforded
<1>2. ASSUME NEW r \in RowsOf(u), status[r] = "ACTIVE", LatestEnd(u) = end[r]
      PROVE  Afforded(u, LatestEnd(u))
  <2>1. r \in Subs \/ r \in RowsOf(u) \cap Grants
    BY DEF RowsOf, Rows
  <2> QED
    BY <1>2, <2>1 DEF Afforded, ActiveIsCovered
<1> QED
  BY <1>1, <1>2, LatestEndIs DEF TypeInv

LEMMA SeenNext ==
  ASSUME TypeInv, TypeInv', PaidGrows, ActiveIsCovered, AccessInv, [Next]_vars
  PROVE  SeenIsCovered'
<1> SUFFICES ASSUME NEW v \in Workers, pc'[v] = "syncWrite", NEW r, seen'[v] = r
             PROVE  Afforded(r.user, r.end)'
  BY DEF SeenIsCovered, Afforded
<1> USE DEF TypeInv
<1>1. r.user \in Users /\ r.end \in Nat
  BY DEF WorkersOK, StepOK, HandOK
<1>2. SUFFICES Afforded(r.user, r.end)
  BY <1>1, AffordedStays
<1>3. CASE pc[v] = "syncWrite" /\ seen[v] = r
  BY <1>3 DEF AccessInv, SeenIsCovered
<1>4. ASSUME NEW w \in Workers, SyncRead(w)
      PROVE  Afforded(r.user, r.end)
  <2>1. PICK u \in todo[w] : seen' = [seen EXCEPT ![w] = [user |-> u, end |-> LatestEnd(u)]]
    BY <1>4 DEF SyncRead
  <2>2. u \in Users
    BY <1>4, InHand DEF SyncRead, StepOK, HandOK
  <2>3. CASE v = w
    <3>1. r = [user |-> u, end |-> LatestEnd(u)]
      BY <2>1, <2>3 DEF WorkersOK
    <3> QED
      BY <2>2, <3>1, LatestEndAfforded
  <2>4. CASE v # w
    BY <1>3, <1>4, <2>1, <2>4 DEF SyncRead, Goto, WorkersOK
  <2> QED
    BY <2>3, <2>4
<1>5. CASE UNCHANGED <<pc, seen>>
  BY <1>3, <1>5
<1>6. ASSUME NEW w \in Workers, Finish(w)
      PROVE  Afforded(r.user, r.end)
  BY <1>3, <1>6 DEF Finish, WorkersOK
<1>7. ASSUME NEW w \in Workers, NEW p, Goto(w, p), p # "syncWrite", UNCHANGED seen
      PROVE  Afforded(r.user, r.end)
  BY <1>3, <1>7 DEF Goto, WorkersOK
<1>8. ASSUME NEW w \in Workers, Start(w)
      PROVE  Afforded(r.user, r.end)
  <2>1. ASSUME NEW i \in 1..Len(mail), Take(w, i)
        PROVE  Afforded(r.user, r.end)
    <3>1. mail[i] \in Letter
      BY DEF BillOK
    <3>2. FirstStep(mail[i]) # "syncWrite"
      BY <3>1 DEF FirstStep, Letter, Webhooks
    <3> QED
      BY <1>5, <1>7, <2>1, <3>2 DEF Take
  <2> QED
    BY <1>7, <1>8, <2>1 DEF Start, StartGrant, StartCancel, StartCron
<1>9. ASSUME NEW w \in Workers, Handle(w)
      PROVE  Afforded(r.user, r.end)
  <2>1. CASE CheckPayment(w) \/ ExpireOthers(w) \/ FindOwn(w)
    BY <1>7, <2>1 DEF CheckPayment, ExpireOthers, FindOwn, GotoSync, local
  <2>2. CASE WritePaid(w) \/ WriteUpdated(w) \/ WriteGranted(w)
    BY <1>7, <2>2 DEF WritePaid, WriteUpdated, WriteGranted, Commit, GotoSync
  <2>3. CASE RecordFailure(w) \/ MarkPastDue(w) \/ MarkCanceled(w)
    BY <1>7, <2>3 DEF RecordFailure, MarkPastDue, MarkCanceled, GotoSync, local
  <2>4. CASE SyncWrite(w)
    BY <1>6, <1>7, <2>4 DEF SyncWrite, local
  <2>5. CASE CancelAtStripe(w)
    BY <1>5, <1>6, <1>7, <2>5 DEF CancelAtStripe
  <2>6. CASE CancelRows(w) \/ ExpireManual(w)
    BY <1>7, <2>6 DEF CancelRows, ExpireManual, GotoSync
  <2> QED
    BY <1>4, <1>9, <2>1, <2>2, <2>3, <2>4, <2>5, <2>6 DEF Handle
<1>10. CASE Crash
  BY <1>10 DEF Crash
<1> QED
  BY <1>5, <1>6, <1>8, <1>9, <1>10 DEF Next, vars, local, CreateCheckoutSession, Throw

LEMMA AccessNext ==
  ASSUME TypeInv, TypeInv', PaidGrows, ActiveIsCovered, AccessInv, [Next]_vars
  PROVE  AccessInv'
<1>1. ASSUME NEW u \in Users, NEW e \in Nat, access'[u] = e
      PROVE  Afforded(u, e)'
  <2>1. SUFFICES Afforded(u, e)
    BY AffordedStays
  <2>2. CASE access[u] = e
    BY <2>2 DEF AccessInv, AccessIsCovered, Afforded
  <2>3. ASSUME NEW w \in Workers, SyncWrite(w)
        PROVE  Afforded(u, e)
    BY <1>1, <2>2, <2>3 DEF SyncWrite, AccessInv, SeenIsCovered, TypeInv, TablesOK
  <2>4. UNCHANGED access \/ \E w \in Workers : SyncWrite(w)
    <3>1. ASSUME NEW w \in Workers, Handle(w)
          PROVE  UNCHANGED access \/ SyncWrite(w)
      BY <3>1 DEF Handle, CheckPayment, ExpireOthers, FindOwn, WritePaid, WriteUpdated,
                  WriteGranted, Commit, RecordFailure, MarkPastDue, MarkCanceled, Mark,
                  SyncRead, CancelAtStripe, CancelRows, ExpireManual
    <3>2. ASSUME NEW w \in Workers, Start(w) \/ Throw(w)
          PROVE  UNCHANGED access
      BY <3>2 DEF Start, Throw, Take, StartGrant, StartCancel, StartCron
    <3> QED
      BY <3>1, <3>2 DEF Next, vars, CreateCheckoutSession, Crash
  <2> QED
    BY <1>1, <2>2, <2>3, <2>4
<1>2. \A u \in Users : access'[u] \in Nat
  BY DEF TypeInv, TablesOK
<1> QED
  BY <1>1, <1>2, SeenNext DEF AccessInv, AccessIsCovered, Afforded

\* Nor does the flag of a user who was never granted anything, however late a
\* sync writes what it has read.
THEOREM AccessStaysCovered == Spec => []AccessIsCovered
<1>1. Init => AccessInv
  BY DEF Init, AccessInv, AccessIsCovered, SeenIsCovered
<1>2. TypeInv /\ TypeInv' /\ PaidInv /\ AccessInv /\ [Next]_vars => AccessInv'
  BY MailPaid, AccessNext DEF PaidInv
<1>3. AccessInv => AccessIsCovered
  BY DEF AccessInv
<1> QED
  BY <1>1, <1>2, <1>3, TypeInvariant, PaidInvariant, PTL DEF Spec

-----------------------------------------------------------------------------
(* One handler at a time.                                                    *)

\* The worker makes its row ACTIVE when it commits.
Activates(w) == job[w].kind = "paid" \/ MapStatus(job[w].st) = "ACTIVE"

\* What was true when a transaction began is still true when it commits: it
\* holds the other ACTIVE rows of the user, and a grant found no current one.
SerialInv ==
    \A w \in Workers :
        /\ pc[w] \in {"find", "create", "update"} /\ job[w].kind # "grant" /\ Activates(w) =>
              \A q \in (RowsOf(Owner[job[w].row]) \cap Subs) \ {job[w].row} :
                  status[q] = "ACTIVE" => q \in held[w]
        /\ pc[w] \in {"expire", "create"} /\ job[w].kind = "grant" =>
              \A q \in RowsOf(Owner[job[w].row]) \cap Subs : status[q] \notin Current

LEMMA SerialNext ==
  ASSUME NEW w, Workers = {w}, TypeInv, SerialInv, [Next]_vars
  PROVE  SerialInv'
<1> USE DEF TypeInv
<1>1. CASE UNCHANGED <<tables, pc, job, held>>
  BY <1>1 DEF SerialInv, Activates, tables, RowsOf
<1>2. CASE pc'[w] \notin {"find", "create", "update", "expire"}
  BY <1>2 DEF SerialInv
<1>3. CASE Crash
  BY <1>2, <1>3 DEF Crash
<1>4. CASE Finish(w)
  BY <1>2, <1>4 DEF Finish, WorkersOK
<1>5. CASE Start(w)
  <2>1. ASSUME NEW i \in 1..Len(mail), Take(w, i)
        PROVE  SerialInv'
    <3>1. mail[i] \in Letter
      BY DEF BillOK
    <3>2. CASE UNCHANGED <<pc, job>>
      BY <1>1, <2>1, <3>2 DEF Take
    <3>3. CASE Goto(w, FirstStep(mail[i])) /\ job' = [job EXCEPT ![w] = mail[i]]
      <4>1. pc'[w] = FirstStep(mail[i]) /\ job'[w] = mail[i]
        BY <3>3 DEF Goto, WorkersOK
      <4>2. mail[i].kind # "grant" /\ FirstStep(mail[i]) \notin {"create", "update"}
        BY <3>1 DEF FirstStep, Letter, Webhooks
      <4>3. FirstStep(mail[i]) = "find" =>
              mail[i].kind = "updated" /\ MapStatus(mail[i].st) # "ACTIVE"
        BY <3>1 DEF FirstStep, Letter, Webhooks
      <4> QED
        BY <4>1, <4>2, <4>3 DEF SerialInv, Activates
    <3> QED
      BY <2>1, <3>2, <3>3 DEF Take
  <2>2. ASSUME NEW g \in Grants, NEW m \in GrantTime, StartGrant(w, g, m)
        PROVE  SerialInv'
    <3>1. pc'[w] = "expire" /\ job'[w] = [kind |-> "grant", row |-> g, end |-> now + m]
      BY <2>2 DEF StartGrant, Goto, WorkersOK
    <3>2. \A q \in RowsOf(Owner[g]) \cap Subs : status'[q] \notin Current
      BY <2>2 DEF StartGrant, tables
    <3> QED
      BY <3>1, <3>2 DEF SerialInv, RowsOf
  <2> QED
    BY <1>2, <1>5, <2>1, <2>2 DEF Start, StartCancel, StartCron, Goto, WorkersOK
<1>6. CASE ExpireOthers(w)
  <2>1. /\ held'[w] = Replaced(w) /\ job'[w] = job[w] /\ UNCHANGED status
        /\ pc[w] = "expire" /\ pc'[w] = IF job[w].kind = "grant" THEN "create" ELSE "find"
    BY <1>6 DEF ExpireOthers, Goto, WorkersOK, tables
  <2>2. \/ job[w] \in Letter /\ job[w].kind \in {"paid", "updated"}
        \/ job[w] \in GrantJob /\ job[w].kind = "grant"
    BY <2>1, InHand DEF StepOK, HandOK, GrantJob
  <2>3. ASSUME job[w].kind # "grant",
               NEW q \in (RowsOf(Owner[job[w].row]) \cap Subs) \ {job[w].row},
               status[q] = "ACTIVE"
        PROVE  q \in Replaced(w)
    BY <2>2, <2>3 DEF Replaced, PaidReplaces, UpdatedReplaces, Current
  <2>4. job[w].kind = "grant" =>
          \A q \in RowsOf(Owner[job[w].row]) \cap Subs : status[q] \notin Current
    BY <2>1 DEF SerialInv
  <2> QED
    BY <2>1, <2>3, <2>4 DEF SerialInv, RowsOf
<1>7. CASE FindOwn(w)
  <2>1. /\ UNCHANGED <<status, job, held>> /\ pc[w] = "find"
        /\ pc'[w] \in {"create", "update"}
    BY <1>7 DEF FindOwn, Goto, WorkersOK, tables, local
  <2>2. job[w].kind # "grant"
    BY <2>1, InHand DEF StepOK, HandOK
  <2> QED
    BY <2>1, <2>2 DEF SerialInv, Activates, RowsOf
<1>8. CASE CheckPayment(w)
  <2>1. job'[w] = job[w] /\ pc'[w] \in {"expire", "syncRead"} /\ job[w].kind # "grant"
    BY <1>8, InHand DEF CheckPayment, StepOK, HandOK, Goto, GotoSync, WorkersOK
  <2> QED
    BY <2>1 DEF SerialInv
<1>9. ASSUME NEW p \in {"syncRead", "syncWrite", "mark", "cancelRows"}, Goto(w, p)
      PROVE  SerialInv'
  BY <1>2, <1>9 DEF Goto, WorkersOK
<1>10. CASE Handle(w)
  <2>1. CASE \/ WritePaid(w) \/ WriteUpdated(w) \/ WriteGranted(w)
             \/ RecordFailure(w) \/ MarkPastDue(w) \/ MarkCanceled(w)
             \/ CancelRows(w) \/ ExpireManual(w) \/ SyncRead(w)
    BY <1>9, <2>1 DEF WritePaid, WriteUpdated, WriteGranted, Commit, GotoSync, RecordFailure,
                      MarkPastDue, MarkCanceled, CancelRows, ExpireManual, SyncRead
  <2>2. CASE SyncWrite(w)
    BY <1>4, <1>9, <2>2 DEF SyncWrite
  <2>3. CASE CancelAtStripe(w)
    BY <1>2, <1>4, <1>9, <2>3 DEF CancelAtStripe
  <2> QED
    BY <1>6, <1>7, <1>8, <1>10, <2>1, <2>2, <2>3 DEF Handle
<1> QED
  BY <1>1, <1>3, <1>4, <1>5, <1>10 DEF Next, vars, local, CreateCheckoutSession, Throw

\* A Stripe subscription is ACTIVE because it was, or because a handler that
\* held the others has made it so.
LEMMA ActiveComesFrom ==
  ASSUME TypeInv, SerialInv, [Next]_vars, NEW s \in Subs, status'[s] = "ACTIVE"
  PROVE  \/ status[s] = "ACTIVE"
         \/ \E w \in Workers :
              /\ job[w].row = s
              /\ \A q \in (RowsOf(Owner[s]) \cap Subs) \ {s} : status'[q] # "ACTIVE"
<1> USE DEF TypeInv
<1>1. s \in Rows /\ s \notin Grants
  BY LedgerAssumption DEF Rows
<1>2. ASSUME NEW w \in Workers, NEW st, NEW e, Commit(w, st, e), job[w].row # s \/ st # "ACTIVE"
      PROVE  status[s] = "ACTIVE"
  BY <1>1, <1>2 DEF Commit
<1>3. ASSUME NEW w \in Workers, NEW e, Commit(w, "ACTIVE", e), job[w].row = s,
             job[w].kind # "grant", Activates(w)
      PROVE  \A q \in (RowsOf(Owner[s]) \cap Subs) \ {s} : status'[q] # "ACTIVE"
  <2> SUFFICES ASSUME NEW q \in (RowsOf(Owner[s]) \cap Subs) \ {s}
               PROVE  status'[q] # "ACTIVE"
    OBVIOUS
  <2>1. status[q] = "ACTIVE" => q \in held[w]
    BY <1>3 DEF SerialInv, Commit
  <2>2. status'[q] = IF q \in held[w] THEN "EXPIRED" ELSE status[q]
    BY <1>3 DEF Commit, Rows
  <2> QED
    BY <2>1, <2>2
<1>4. ASSUME NEW w \in Workers, WritePaid(w) \/ WriteUpdated(w)
      PROVE  \/ status[s] = "ACTIVE"
             \/ /\ job[w].row = s
                /\ \A q \in (RowsOf(Owner[s]) \cap Subs) \ {s} : status'[q] # "ACTIVE"
  <2>1. CASE WritePaid(w)
    BY <1>2, <1>3, <2>1 DEF WritePaid, Activates
  <2>2. CASE WriteUpdated(w)
    <3>1. Commit(w, MapStatus(job[w].st), SubscriptionPeriod(w)) /\ job[w].kind # "grant"
      BY <2>2 DEF WriteUpdated
    <3> QED
      BY <1>2, <1>3, <3>1 DEF Activates
  <2> QED
    BY <1>4, <2>1, <2>2
<1>5. ASSUME NEW w \in Workers, WriteGranted(w)
      PROVE  status[s] = "ACTIVE"
  <2>1. job[w] \in GrantJob /\ Commit(w, "ACTIVE", job[w].end)
    BY <1>5, InHand DEF WriteGranted, Commit, StepOK, HandOK
  <2> QED
    BY <1>1, <1>2, <2>1 DEF GrantJob
<1>6. ASSUME NEW w \in Workers,
             \/ RecordFailure(w) \/ MarkPastDue(w) \/ MarkCanceled(w)
             \/ CancelRows(w) \/ ExpireManual(w)
      PROVE  status[s] = "ACTIVE"
  BY <1>1, <1>6 DEF TablesOK, RecordFailure, MarkPastDue, MarkCanceled, Mark, CancelRows,
                    ExpireManual
<1> QED
  BY <1>4, <1>5, <1>6, Writers DEF Writes, tables

LEMMA OneActiveNext ==
  ASSUME TypeInv, SerialInv, OneActiveStripe, [Next]_vars
  PROVE  OneActiveStripe'
<1> SUFFICES ASSUME NEW r \in Subs, NEW s \in Subs, Owner[r] = Owner[s],
                    status'[r] = "ACTIVE", status'[s] = "ACTIVE"
             PROVE  r = s
  BY DEF OneActiveStripe
<1>1. r \in RowsOf(Owner[s]) /\ s \in RowsOf(Owner[r])
  BY DEF RowsOf, Rows
<1>2. status[r] = "ACTIVE" \/ r = s
  BY <1>1, ActiveComesFrom
<1>3. status[s] = "ACTIVE" \/ r = s
  BY <1>1, ActiveComesFrom
<1> QED
  BY <1>2, <1>3 DEF OneActiveStripe

LEMMA SerialInvariant == ASSUME NEW w, Workers = {w} PROVE Spec => []SerialInv
<1>1. Init => SerialInv
  BY DEF Init, SerialInv
<1> QED
  BY <1>1, SerialNext, TypeInvariant, PTL DEF Spec

\* One handler at a time, in any order and with any failures: a user never has
\* two ACTIVE Stripe subscriptions, however many were bought.
THEOREM OneAtATimeOneActive == ASSUME NEW w, Workers = {w} PROVE Spec => []OneActiveStripe
<1>1. Init => OneActiveStripe
  BY DEF Init, OneActiveStripe, Rows
<1> QED
  BY <1>1, OneActiveNext, SerialInvariant, TypeInvariant, PTL DEF Spec

LEMMA GrantStep ==
  ASSUME TypeInv, SerialInv, [Next]_vars,
         NEW g \in Grants, status[g] = "absent", status'[g] = "ACTIVE"
  PROVE  \A s \in RowsOf(Owner[g]) \cap Subs : status[s] \notin Current
<1> USE DEF TypeInv
<1>1. g \in Rows /\ g \notin Subs
  BY LedgerAssumption DEF Rows
<1>2. ASSUME NEW w \in Workers, NEW st, NEW e, Commit(w, st, e), job[w].row # g
      PROVE  FALSE
  BY <1>1, <1>2 DEF Commit
<1>3. ASSUME NEW w \in Workers, WritePaid(w) \/ WriteUpdated(w)
      PROVE  FALSE
  <2>1. job[w] \in Letter
    BY <1>3, InHand DEF WritePaid, WriteUpdated, Commit, StepOK, HandOK, GrantJob
  <2> QED
    BY <1>1, <1>2, <1>3, <2>1 DEF WritePaid, WriteUpdated, Letter
<1>4. ASSUME NEW w \in Workers, WriteGranted(w)
      PROVE  \A s \in RowsOf(Owner[g]) \cap Subs : status[s] \notin Current
  <2>1. Commit(w, "ACTIVE", job[w].end) /\ job[w].kind = "grant"
    BY <1>4 DEF WriteGranted
  <2>2. job[w].row = g
    BY <1>2, <2>1
  <2>3. pc[w] = "create"
    BY <2>1, InHand DEF Commit, StepOK, HandOK
  <2> QED
    BY <2>1, <2>2, <2>3 DEF SerialInv
<1>5. ASSUME NEW w \in Workers,
             \/ RecordFailure(w) \/ MarkPastDue(w) \/ MarkCanceled(w)
             \/ CancelRows(w) \/ ExpireManual(w)
      PROVE  FALSE
  BY <1>1, <1>5 DEF TablesOK, RecordFailure, MarkPastDue, MarkCanceled, Mark, CancelRows,
                    ExpireManual
<1> QED
  BY <1>3, <1>4, <1>5, Writers DEF Writes, tables

\* One handler at a time: a manual subscription never replaces a current Stripe
\* subscription.
THEOREM OneAtATimeGrantSpares == ASSUME NEW w, Workers = {w} PROVE Spec => GrantSparesStripe
<1>1. TypeInv /\ SerialInv /\ [Next]_vars =>
        [\A g \in Grants : status[g] = "absent" /\ status'[g] = "ACTIVE"
            => \A s \in RowsOf(Owner[g]) \cap Subs : status[s] \notin Current]_vars
  BY GrantStep
<1> QED
  BY <1>1, SerialInvariant, TypeInvariant, PTL DEF Spec, GrantSparesStripe

\* The access that ends at e is that of the rows of the user, now and for as
\* long as they do not change.
Right(u, e) == /\ \A r \in RowsOf(u) : status[r] = "ACTIVE" /\ end[r] > now => end[r] <= e
               /\ e > now => \E r \in RowsOf(u) : status[r] = "ACTIVE" /\ end[r] = e

\* The sync of u is yet to come, or to write what it has read.
Owed(w, u) == \/ pc[w] \in {"syncRead", "syncWrite"} /\ u \in todo[w]
              \/ pc[w] = "syncWrite" /\ seen[w].user = u

\* The flag of u is right or will be written, and what will be written is right.
Agrees(w, u) == /\ Right(u, access[u]) \/ Owed(w, u)
                /\ pc[w] = "syncWrite" /\ seen[w].user = u => Right(u, seen[w].end)

\* A transaction holds rows of the user it will sync.
HoldsOwn(w) ==
    /\ pc[w] = "idle" => held[w] = {}
    /\ pc[w] \in {"find", "create", "update"} => held[w] \subseteq RowsOf(Owner[job[w].row])

CronIsPast(w) == pc[w] = "expireManual" => job[w].end <= now

SyncInv == \A w \in Workers : /\ clean => \A u \in Users : Agrees(w, u)
                              /\ HoldsOwn(w)
                              /\ CronIsPast(w)

LEMMA LatestEndRight ==
  ASSUME TypeInv, NEW u \in Users
  PROVE  Right(u, LatestEnd(u))
<1>1. LatestEnd(u) = 0 => ~(LatestEnd(u) > now)
  BY DEF TypeInv, BillOK
<1> QED
  BY <1>1, LatestEndIs DEF Right, TypeInv

LEMMA RightIsLatest ==
  ASSUME TypeInv, NEW u \in Users, NEW e \in Nat, Right(u, e)
  PROVE  LatestEnd(u) = IF e > now THEN e ELSE 0
<1>1. LatestEnd(u) \in Nat /\ now \in Nat /\ \A r \in RowsOf(u) : end[r] \in Nat
  BY LatestEndType DEF TypeInv, TablesOK, BillOK, RowsOf
<1>2. CASE e > now
  <2>1. e <= LatestEnd(u)
    BY <1>2, LatestEndIs DEF Right, TypeInv
  <2>2. LatestEnd(u) <= e
    BY <1>1, <1>2, <2>1, LatestEndIs DEF Right, TypeInv
  <2> QED
    BY <1>1, <1>2, <2>1, <2>2
<1>3. CASE ~(e > now)
  <2>1. \A r \in RowsOf(u) : status[r] = "ACTIVE" => ~(end[r] > now)
    BY <1>1, <1>3 DEF Right
  <2> QED
    BY <1>3, <2>1, LatestEndIs DEF TypeInv
<1> QED
  BY <1>2, <1>3

\* Time passes, and rows of others change.
LEMMA RightStays ==
  ASSUME TypeInv, TypeInv', NEW u \in Users, NEW e \in Nat, Right(u, e), now <= now',
         \A r \in RowsOf(u) : \/ status'[r] = status[r] /\ end'[r] = end[r]
                              \/ status[r] # "ACTIVE" /\ status'[r] # "ACTIVE"
                              \/ end'[r] = end[r] /\ end[r] <= now /\ status'[r] # "ACTIVE"
  PROVE  Right(u, e)'
<1>1. /\ now \in Nat /\ now' \in Nat
      /\ \A r \in RowsOf(u) : end[r] \in Nat /\ end'[r] \in Nat
  BY DEF TypeInv, TablesOK, BillOK, RowsOf
<1>2. RowsOf(u)' = RowsOf(u)
  BY DEF RowsOf
<1>3. ASSUME NEW r \in RowsOf(u), status'[r] = "ACTIVE", end'[r] > now'
      PROVE  end'[r] <= e
  BY <1>1, <1>3 DEF Right
<1>4. ASSUME e > now'
      PROVE  \E r \in RowsOf(u) : status'[r] = "ACTIVE" /\ end'[r] = e
  <2>1. e > now
    BY <1>1, <1>4
  <2>2. PICK r \in RowsOf(u) : status[r] = "ACTIVE" /\ end[r] = e
    BY <2>1 DEF Right
  <2> QED
    BY <1>1, <2>1, <2>2
<1> QED
  BY <1>2, <1>3, <1>4 DEF Right

\* A step does to the rows of u what leaves the end of his access right.
KeepsRight(u) == \A r \in RowsOf(u) :
    \/ status'[r] = status[r] /\ end'[r] = end[r]
    \/ status[r] # "ACTIVE" /\ status'[r] # "ACTIVE"
    \/ end'[r] = end[r] /\ end[r] <= now /\ status'[r] # "ACTIVE"

\* Before its sync a handler changes the rows of users it will sync, if any.
LEMMA WorkAgrees ==
  ASSUME TypeInv, TypeInv', NEW w \in Workers, NEW u \in Users, Agrees(w, u),
         pc[w] \notin {"syncRead", "syncWrite"}, UNCHANGED <<now, access>>,
         pc'[w] # "syncWrite", KeepsRight(u) \/ (pc'[w] = "syncRead" /\ u \in todo'[w])
  PROVE  Agrees(w, u)'
<1>1. CASE KeepsRight(u)
  <2>1. PICK e \in Nat : access[u] = e
    BY DEF TypeInv, TablesOK
  <2>2. Right(u, e) /\ now <= now'
    BY <2>1 DEF Agrees, Owed, TypeInv, BillOK
  <2>3. Right(u, e)'
    BY <1>1, <2>2, RightStays DEF KeepsRight
  <2> QED
    BY <2>1, <2>3 DEF Agrees, Right
<1>2. CASE pc'[w] = "syncRead" /\ u \in todo'[w]
  BY <1>2 DEF Agrees, Owed
<1> QED
  BY <1>1, <1>2

\* Stripe and other things that are not the worker's.
LEMMA WaitAgrees ==
  ASSUME TypeInv, TypeInv', NEW w \in Workers, NEW u \in Users, Agrees(w, u),
         now <= now', UNCHANGED <<tables, access, pc, todo, seen>>
  PROVE  Agrees(w, u)'
<1>1. KeepsRight(u)
  BY DEF KeepsRight, tables
<1>2. ASSUME NEW e \in Nat, Right(u, e)
      PROVE  Right(u, e)'
  BY <1>1, <1>2, RightStays DEF KeepsRight
<1>3. Right(u, access[u]) => Right(u, access[u])'
  <2>1. PICK e \in Nat : access[u] = e
    BY DEF TypeInv, TablesOK
  <2> QED
    BY <1>2, <2>1 DEF Right
<1>4. ASSUME pc[w] = "syncWrite", seen[w].user = u
      PROVE  Right(u, seen[w].end)'
  <2>1. PICK e \in Nat : seen[w].end = e
    BY <1>4, InHand DEF TypeInv, StepOK, HandOK
  <2> QED
    BY <1>2, <1>4, <2>1 DEF Agrees, Right
<1> QED
  BY <1>3, <1>4 DEF Agrees, Owed

LEMMA SyncAgrees ==
  ASSUME TypeInv, TypeInv', NEW w \in Workers, \A u \in Users : Agrees(w, u),
         SyncRead(w) \/ SyncWrite(w)
  PROVE  \A u \in Users : Agrees(w, u)'
<1> SUFFICES ASSUME NEW u \in Users
             PROVE  Agrees(w, u)'
  OBVIOUS
<1> USE DEF TypeInv
<1>1. UNCHANGED <<now, tables>>
  BY DEF SyncRead, SyncWrite, billing
<1>2. ASSUME NEW e, Right(u, e)
      PROVE  Right(u, e)'
  BY <1>1, <1>2 DEF Right, RowsOf, tables
<1>3. CASE SyncRead(w)
  <2>1. PICK v \in todo[w] : /\ seen' = [seen EXCEPT ![w] = [user |-> v, end |-> LatestEnd(v)]]
                             /\ todo' = [todo EXCEPT ![w] = todo[w] \ {v}]
    BY <1>3 DEF SyncRead
  <2>2. pc[w] = "syncRead" /\ pc'[w] = "syncWrite" /\ access' = access
    BY <1>3 DEF SyncRead, Goto, WorkersOK
  <2>3. seen'[w] = [user |-> v, end |-> LatestEnd(v)] /\ todo'[w] = todo[w] \ {v}
    BY <2>1 DEF WorkersOK
  <2>4. CASE u = v
    <3>1. PICK e : e = LatestEnd(u)
      OBVIOUS
    <3>2. Right(u, e)'
      BY <1>2, <3>1, LatestEndRight
    <3> QED
      BY <2>2, <2>3, <2>4, <3>1, <3>2 DEF Agrees, Owed, Right
  <2>5. CASE u # v /\ u \in todo[w]
    BY <2>2, <2>3, <2>5 DEF Agrees, Owed
  <2>6. CASE u # v /\ Right(u, access[u])
    <3>1. PICK e : e = access[u]
      OBVIOUS
    <3> QED
      BY <1>2, <2>2, <2>3, <2>6, <3>1 DEF Agrees, Right
  <2> QED
    BY <2>2, <2>4, <2>5, <2>6 DEF Agrees, Owed
<1>4. CASE SyncWrite(w)
  <2>1. /\ pc[w] = "syncWrite" /\ seen[w].user \in Users
        /\ access' = [access EXCEPT ![seen[w].user] = seen[w].end]
    BY <1>4, InHand DEF SyncWrite, StepOK, HandOK
  <2>2. pc'[w] # "syncWrite"
    BY <1>4 DEF SyncWrite, Goto, Finish, WorkersOK
  <2>3. CASE u \in todo[w]
    <3>1. pc'[w] = "syncRead" /\ todo'[w] = todo[w]
      BY <1>4, <2>3 DEF SyncWrite, Goto, local, WorkersOK
    <3> QED
      BY <2>3, <3>1 DEF Agrees, Owed
  <2>4. CASE seen[w].user = u
    <3>1. PICK e : e = seen[w].end
      OBVIOUS
    <3>2. Right(u, e)
      BY <2>1, <2>4, <3>1 DEF Agrees
    <3>3. Right(u, e)' /\ access'[u] = e
      BY <1>2, <2>1, <2>4, <3>1, <3>2 DEF TablesOK
    <3> QED
      BY <2>2, <3>3 DEF Agrees, Right
  <2>5. CASE Right(u, access[u]) /\ seen[w].user # u
    <3>1. PICK e : e = access[u]
      OBVIOUS
    <3>2. Right(u, e)' /\ access'[u] = e
      BY <1>2, <2>1, <2>5, <3>1 DEF TablesOK
    <3> QED
      BY <2>2, <3>2 DEF Agrees, Right
  <2> QED
    BY <2>1, <2>3, <2>4, <2>5 DEF Agrees, Owed
<1> QED
  BY <1>3, <1>4

LEMMA TimePasses ==
  ASSUME BillOK, BillingNext
  PROVE  now <= now'
<1>1. now \in Nat
  BY BillingAssumption DEF BillOK
<1>2. CASE Tick
  BY <1>1, <1>2 DEF Tick
<1>3. ASSUME NEW s \in Subs, \/ Subscribe(s) \/ BeginPeriod(s) \/ Renew(s)
                             \/ FailRenewal(s) \/ CollectLate(s) \/ GiveUp(s)
                             \/ Terminate(s)
      PROVE  UNCHANGED now
  BY <1>3 DEF Subscribe, BeginPeriod, Renew, FailRenewal, CollectLate, GiveUp, Terminate
<1> QED
  BY <1>1, <1>2, <1>3 DEF BillingNext

LEMMA HoldsNext ==
  ASSUME NEW w, Workers = {w}, TypeInv, TypeInv', HoldsOwn(w), CronIsPast(w), [Next]_vars
  PROVE  HoldsOwn(w)' /\ CronIsPast(w)'
<1> USE DEF TypeInv
<1>1. ASSUME UNCHANGED <<pc, job, held>>, now <= now'
      PROVE  HoldsOwn(w)' /\ CronIsPast(w)'
  <2>1. pc[w] = "expireManual" => job[w].end \in Nat
    BY InHand DEF StepOK, HandOK, CronJob
  <2>2. now \in Nat /\ now' \in Nat
    BY BillingAssumption DEF BillOK
  <2>3. pc[w] = "expireManual" => job[w].end <= now'
    BY <1>1, <2>1, <2>2 DEF CronIsPast
  <2> QED
    BY <1>1, <2>3 DEF HoldsOwn, CronIsPast, RowsOf
<1>2. now <= now
  BY DEF BillOK
<1>3. CASE Finish(w) \/ Crash
  BY <1>3 DEF Finish, Crash, HoldsOwn, CronIsPast, WorkersOK
<1>4. ASSUME NEW p, Goto(w, p), p \notin {"idle", "find", "create", "update", "expireManual"}
      PROVE  HoldsOwn(w)' /\ CronIsPast(w)'
  BY <1>4 DEF Goto, HoldsOwn, CronIsPast, WorkersOK
<1>5. CASE Start(w)
  <2>1. pc[w] = "idle" /\ held[w] = {} /\ UNCHANGED held
    BY <1>5 DEF Start, Take, StartGrant, StartCancel, StartCron, HoldsOwn
  <2>2. HoldsOwn(w)'
    BY <2>1 DEF HoldsOwn
  <2>3. CASE StartCron(w)
    <3>1. job'[w].end = now /\ now' = now
      BY <2>3 DEF StartCron, WorkersOK, billing
    <3> QED
      BY <1>2, <2>2, <3>1 DEF CronIsPast
  <2>4. ASSUME NEW i \in 1..Len(mail), Take(w, i)
        PROVE  CronIsPast(w)'
    <3>1. mail[i] \in Letter
      BY DEF BillOK
    <3>2. FirstStep(mail[i]) # "expireManual"
      BY <3>1 DEF FirstStep, Letter, Webhooks
    <3> QED
      BY <2>1, <2>4, <3>2 DEF Take, CronIsPast, Goto, WorkersOK
  <2>5. ASSUME \/ \E g \in Grants, m \in GrantTime : StartGrant(w, g, m)
               \/ \E u \in Users : StartCancel(w, u)
        PROVE  CronIsPast(w)'
    BY <1>4, <2>5 DEF StartGrant, StartCancel
  <2> QED
    BY <1>5, <2>2, <2>3, <2>4, <2>5 DEF Start
<1>6. CASE ExpireOthers(w)
  <2>1. /\ held'[w] = Replaced(w) /\ job'[w] = job[w] /\ pc[w] = "expire"
        /\ pc'[w] \in {"create", "find"}
    BY <1>6 DEF ExpireOthers, Goto, WorkersOK
  <2>2. \/ job[w] \in Letter /\ job[w].kind \in {"paid", "updated"}
        \/ job[w] \in GrantJob /\ job[w].kind = "grant"
    BY <2>1, InHand DEF StepOK, HandOK, GrantJob
  <2>3. Replaced(w) \subseteq RowsOf(Owner[job[w].row])
    BY <2>2 DEF Replaced, PaidReplaces, UpdatedReplaces, GrantReplaces
  <2> QED
    BY <2>1, <2>3 DEF HoldsOwn, CronIsPast, RowsOf
<1>7. CASE FindOwn(w)
  <2>1. UNCHANGED <<job, held>> /\ pc[w] = "find" /\ pc'[w] \in {"create", "update"}
    BY <1>7 DEF FindOwn, Goto, WorkersOK, local
  <2> QED
    BY <2>1 DEF HoldsOwn, CronIsPast, RowsOf
<1>8. CASE Handle(w)
  <2>1. CASE \/ CheckPayment(w) \/ WritePaid(w) \/ WriteUpdated(w) \/ WriteGranted(w)
             \/ RecordFailure(w) \/ MarkPastDue(w) \/ MarkCanceled(w)
             \/ CancelRows(w) \/ ExpireManual(w) \/ SyncRead(w)
    BY <1>4, <2>1 DEF CheckPayment, WritePaid, WriteUpdated, WriteGranted, Commit, GotoSync,
                      RecordFailure, MarkPastDue, MarkCanceled, CancelRows, ExpireManual,
                      SyncRead
  <2>2. CASE SyncWrite(w)
    BY <1>3, <1>4, <2>2 DEF SyncWrite
  <2>3. CASE CancelAtStripe(w)
    <3>1. CASE UNCHANGED <<pc, job, held>>
      BY <1>1, <1>2, <2>3, <3>1 DEF CancelAtStripe
    <3> QED
      BY <1>3, <1>4, <2>3, <3>1 DEF CancelAtStripe
  <2> QED
    BY <1>6, <1>7, <1>8, <2>1, <2>2, <2>3 DEF Handle
<1>9. CASE BillingNext /\ UNCHANGED <<pc, job, held>>
  <2>1. now <= now'
    BY <1>9, TimePasses
  <2> QED
    BY <1>1, <1>9, <2>1
<1> QED
  BY <1>1, <1>2, <1>3, <1>5, <1>8, <1>9 DEF Next, vars, local, billing, CreateCheckoutSession,
                                            Throw

LEMMA SyncNext ==
  ASSUME NEW w, Workers = {w}, TypeInv, TypeInv', SyncInv, [Next]_vars
  PROVE  SyncInv'
<1> USE DEF TypeInv
<1>1. HoldsOwn(w)' /\ CronIsPast(w)'
  BY HoldsNext DEF SyncInv
<1> SUFFICES ASSUME clean' = TRUE
             PROVE  \A u \in Users : Agrees(w, u)'
  BY <1>1 DEF SyncInv, LuckOK
<1>2. CASE Crash \/ Throw(w)
  BY <1>2 DEF Crash, Throw
<1>3. CASE UNCHANGED clean
  <2>1. \A u \in Users : Agrees(w, u)
    BY <1>3 DEF SyncInv
  <2>2. now \in Nat /\ now' \in Nat
    BY BillingAssumption DEF BillOK
  <2>3. CASE UNCHANGED <<tables, access, pc, todo, seen>> /\ now <= now'
    BY <2>1, <2>3, WaitAgrees
  <2>4. ASSUME pc[w] \notin {"syncRead", "syncWrite"}, pc'[w] # "syncWrite",
               UNCHANGED <<now, status, end, access>>
        PROVE  \A u \in Users : Agrees(w, u)'
    BY <2>1, <2>4, WorkAgrees DEF KeepsRight
  <2>5. ASSUME pc[w] \notin {"syncRead", "syncWrite"}, UNCHANGED <<now, access>>,
               pc'[w] = "syncRead",
               \A u \in Users : KeepsRight(u) \/ u \in todo'[w]
        PROVE  \A u \in Users : Agrees(w, u)'
    BY <2>1, <2>5, WorkAgrees
  <2>6. CASE BillingNext /\ UNCHANGED <<tables, access, pc, local, luck>>
    <3>1. now <= now'
      BY <2>6, TimePasses
    <3> QED
      BY <2>3, <2>6, <3>1 DEF local
  <2>7. CASE Start(w)
    <3>1. pc[w] = "idle" /\ UNCHANGED <<now, status, end, access>>
      BY <2>7 DEF Start, Take, StartGrant, StartCancel, StartCron, tables, billing
    <3>2. ASSUME NEW i \in 1..Len(mail), Take(w, i)
          PROVE  pc'[w] # "syncWrite"
      <4>1. mail[i] \in Letter
        BY DEF BillOK
      <4>2. FirstStep(mail[i]) # "syncWrite"
        BY <4>1 DEF FirstStep, Letter, Webhooks
      <4> QED
        BY <3>1, <3>2, <4>2 DEF Take, Goto, WorkersOK
    <3>3. pc'[w] # "syncWrite"
      BY <2>7, <3>2 DEF Start, StartGrant, StartCancel, StartCron, Goto, WorkersOK
    <3> QED
      BY <2>4, <3>1, <3>3
  <2>8. CASE CheckPayment(w) \/ ExpireOthers(w) \/ FindOwn(w) \/ RecordFailure(w)
    <3>1. /\ pc[w] \notin {"syncRead", "syncWrite"} /\ pc'[w] # "syncWrite"
          /\ UNCHANGED <<now, status, end, access>>
      BY <2>8 DEF CheckPayment, ExpireOthers, FindOwn, RecordFailure, Goto, GotoSync, tables,
                  billing, WorkersOK
    <3> QED
      BY <2>4, <3>1
  <2>9. CASE CancelAtStripe(w)
    <3>1. /\ pc[w] = "cancelAtStripe" /\ pc'[w] # "syncWrite"
          /\ UNCHANGED <<now, status, end, access>>
      BY <2>9 DEF CancelAtStripe, Goto, Finish, tables, WorkersOK
    <3> QED
      BY <2>4, <3>1
  <2>10. ASSUME NEW st, NEW e, Commit(w, st, e)
         PROVE  \A u \in Users : Agrees(w, u)'
    <3>1. /\ pc[w] \in {"create", "update"} /\ pc'[w] = "syncRead"
          /\ todo'[w] = {Owner[job[w].row]} /\ UNCHANGED <<now, access>>
      BY <2>10 DEF Commit, GotoSync, Goto, WorkersOK, billing
    <3>2. held[w] \subseteq RowsOf(Owner[job[w].row])
      BY <3>1 DEF SyncInv, HoldsOwn
    <3>3. ASSUME NEW u \in Users, u # Owner[job[w].row]
          PROVE  KeepsRight(u)
      <4> SUFFICES ASSUME NEW r \in RowsOf(u)
                   PROVE  status'[r] = status[r] /\ end'[r] = end[r]
        BY DEF KeepsRight
      <4>1. r # job[w].row /\ r \notin held[w]
        BY <3>2, <3>3 DEF RowsOf
      <4> QED
        BY <2>10, <4>1 DEF Commit, RowsOf, TablesOK
    <3> QED
      BY <2>5, <3>1, <3>3
  <2>11. ASSUME NEW kind, NEW st, Mark(w, kind, st), GotoSync(w, {Owner[job[w].row]})
         PROVE  \A u \in Users : Agrees(w, u)'
    <3>1. /\ pc[w] = "mark" /\ pc'[w] = "syncRead"
          /\ todo'[w] = {Owner[job[w].row]} /\ UNCHANGED <<now, access>>
      BY <2>11 DEF Mark, GotoSync, Goto, WorkersOK, billing
    <3>2. ASSUME NEW u \in Users, u # Owner[job[w].row]
          PROVE  KeepsRight(u)
      BY <2>11, <3>2 DEF Mark, KeepsRight, RowsOf, TablesOK
    <3> QED
      BY <2>5, <3>1, <3>2
  <2>12. CASE CancelRows(w)
    <3>1. /\ pc[w] = "cancelRows" /\ pc'[w] = "syncRead"
          /\ todo'[w] = {job[w].user} /\ UNCHANGED <<now, access>>
      BY <2>12 DEF CancelRows, GotoSync, Goto, WorkersOK, billing
    <3>2. ASSUME NEW u \in Users, u # job[w].user
          PROVE  KeepsRight(u)
      BY <2>12, <3>2 DEF CancelRows, CurrentOf, KeepsRight, RowsOf
    <3> QED
      BY <2>5, <3>1, <3>2
  <2>13. CASE ExpireManual(w)
    <3>1. /\ pc[w] = "expireManual" /\ pc'[w] = "syncRead" /\ UNCHANGED <<now, access, end>>
      BY <2>13 DEF ExpireManual, GotoSync, Goto, WorkersOK, billing
    <3>2. job[w].end <= now /\ job[w].end \in Nat
      BY <3>1, InHand DEF SyncInv, CronIsPast, StepOK, HandOK, CronJob
    <3>3. ASSUME NEW u \in Users
          PROVE  KeepsRight(u)
      <4> SUFFICES ASSUME NEW r \in RowsOf(u)
                   PROVE  status'[r] = status[r] \/ (end[r] <= now /\ status'[r] # "ACTIVE")
        BY <3>1 DEF KeepsRight
      <4>1. r \in Rows /\ end[r] \in Nat
        BY DEF RowsOf, TablesOK
      <4>2. CASE r \in Overdue(job[w].end)
        BY <2>2, <2>13, <3>2, <4>1, <4>2 DEF ExpireManual, Overdue
      <4>3. CASE r \notin Overdue(job[w].end)
        BY <2>13, <4>1, <4>3 DEF ExpireManual
      <4> QED
        BY <4>2, <4>3
    <3> QED
      BY <2>5, <3>1, <3>3
  <2>14. CASE SyncRead(w) \/ SyncWrite(w)
    BY <2>1, <2>14, SyncAgrees
  <2>15. CASE Handle(w)
    <3>1. CASE WritePaid(w) \/ WriteUpdated(w) \/ WriteGranted(w)
      BY <2>10, <3>1 DEF WritePaid, WriteUpdated, WriteGranted
    <3>2. CASE MarkPastDue(w) \/ MarkCanceled(w)
      BY <2>11, <3>2 DEF MarkPastDue, MarkCanceled
    <3> QED
      BY <2>8, <2>9, <2>12, <2>13, <2>14, <2>15, <3>1, <3>2 DEF Handle
  <2>16. now <= now
    BY <2>2
  <2> QED
    BY <1>2, <2>3, <2>6, <2>7, <2>15, <2>16 DEF Next, vars, local, billing, tables,
                                                CreateCheckoutSession
<1>4. UNCHANGED clean \/ Crash \/ Throw(w)
  BY DEF Next, vars, luck, CreateCheckoutSession, Start, Take, StartGrant, StartCancel, StartCron,
         Handle, CheckPayment, ExpireOthers, FindOwn, WritePaid, WriteUpdated, WriteGranted,
         Commit, RecordFailure, MarkPastDue, MarkCanceled, Mark, SyncRead, SyncWrite,
         CancelAtStripe, CancelRows, ExpireManual
<1> QED
  BY <1>2, <1>3, <1>4

LEMMA SyncInvariant == ASSUME NEW w, Workers = {w} PROVE Spec => []SyncInv
<1>1. Init => SyncInv
  <2> SUFFICES ASSUME Init
               PROVE  SyncInv
    OBVIOUS
  <2>1. \A u \in Users : Right(u, access[u])
    BY DEF Init, BillingInit, Right, RowsOf
  <2> QED
    BY <2>1 DEF Init, SyncInv, Agrees, HoldsOwn, CronIsPast
<1> QED
  BY <1>1, SyncNext, TypeInvariant, PTL DEF Spec

\* One handler at a time: when nothing runs and nothing failed, subscriptionEnd
\* is the end of the user's access.
THEOREM OneAtATimeSubscriptionEnd ==
  ASSUME NEW w, Workers = {w}
  PROVE  Spec => []SubscriptionEndIsEndOfAccess
<1>1. TypeInv /\ SyncInv => SubscriptionEndIsEndOfAccess
  <2> SUFFICES ASSUME TypeInv, SyncInv, Quiet, NEW u \in Users
               PROVE  LatestEnd(u) = IF access[u] > now THEN access[u] ELSE 0
    BY DEF SubscriptionEndIsEndOfAccess
  <2>1. Right(u, access[u]) /\ access[u] \in Nat
    BY DEF SyncInv, Agrees, Owed, Quiet, TypeInv, TablesOK
  <2> QED
    BY <2>1, RightIsLatest
<1> QED
  BY <1>1, SyncInvariant, TypeInvariant, PTL

-----------------------------------------------------------------------------
(* The ledger and Stripe.                                                  *)

\* The states of a subscription that events tell of.
Ever == Live \cup {"canceled"}

\* An event that is not a paid invoice settles how the row of s stands; a paid
\* invoice leaves an active subscription active.
Settles(e, s) == e.row = s /\ e.kind # "paid"

InMail(s) == \E i \in 1..Len(mail) : Settles(mail[i], s)

\* The worker has an event of s before it, and has not settled it.
Busy(w, s) == /\ job[w].kind \in Webhooks
              /\ job[w].row = s
              /\ pc[w] \notin {"syncRead", "syncWrite"}

Handling(w, s) == Busy(w, s) /\ job[w].kind # "paid"

\* The event tells how s stands, and its handler writes it down.
Final(e, s) == /\ e.st = bill[s].st
               /\ e.kind = "updated" \/ (e.kind = "deleted" /\ e.st = "canceled")

\* What e tells is true when nothing comes after it.
LastWord(e, s) == IF e.kind = "paid" THEN bill[s].st = "active" ELSE Final(e, s)

LastIsFinal(s) ==
    \A i \in 1..Len(mail) :
        mail[i].row = s /\ (\A j \in 1..Len(mail) : j > i => ~Settles(mail[j], s))
            => LastWord(mail[i], s)

\* Some event will make the row of s.
WillExist(w, s) == \/ \E i \in 1..Len(mail) : mail[i].row = s /\ mail[i].kind = "updated"
                   \/ Handling(w, s) /\ job[w].kind = "updated"

\* The last event of s that is not settled yet is as s stands, and when there
\* is none the row is.
Tracks(w, s) ==
    /\ LastIsFinal(s)
    /\ Busy(w, s) /\ ~InMail(s) => LastWord(job[w], s)
    /\ ~Handling(w, s) /\ ~InMail(s) /\ bill[s].st \in Ever
          => status[s] = MapStatus(bill[s].st)
    /\ status[s] = "absent" /\ bill[s].st \in Ever => WillExist(w, s)

\* An admin who cancels has ended at Stripe what he will cancel here.
EndsFirst(w, s) ==
    /\ pc[w] \in {"cancelAtStripe", "cancelRows"}
    /\ Owner[s] = job[w].user
    /\ status[s] \in Current
    => bill[s].st = "canceled" \/ (pc[w] = "cancelAtStripe" /\ s \in todo[w])

Follows(w, s) == Tracks(w, s) /\ EndsFirst(w, s)

FollowInv ==
    \A w \in Workers : clean => \A s \in Subs : RowsOf(Owner[s]) = {s} => Follows(w, s)

\* Stripe tells of s in the events it emits, and of nothing else.
LEMMA EmitTracks ==
  ASSUME TypeInv, NEW w \in Workers, NEW s \in Subs, Tracks(w, s),
         NEW o \in Subs, NEW b, NEW kinds \in Seq(Webhooks), Len(kinds) > 0, Emit(o, b, kinds),
         \/ kinds[Len(kinds)] = "updated"
         \/ kinds[Len(kinds)] = "deleted" /\ b.st = "canceled" /\ bill[o].st \in Live
         \/ kinds = <<"paid">> /\ b.st = "active" /\ bill[o].st = "active",
         status' = status, job' = job, Busy(w, s)' <=> Busy(w, s)
  PROVE  Tracks(w, s)'
<1> DEFINE new == [i \in 1..Len(kinds) |-> Event(kinds[i], o, b)]
<1>1. mail \in Seq(Letter)
  BY DEF TypeInv, BillOK
<1>2. /\ Len(new) = Len(kinds) /\ new \in Seq({Event(kinds[i], o, b) : i \in 1..Len(kinds)})
      /\ \A i \in 1..Len(kinds) : new[i] = Event(kinds[i], o, b)
  OBVIOUS
<1>3. mail' = mail \o new
  BY DEF Emit
<1>4. /\ Len(mail') = Len(mail) + Len(kinds)
      /\ \A i \in 1..Len(mail) : mail'[i] = mail[i]
      /\ \A i \in 1..Len(kinds) : mail'[Len(mail) + i] = Event(kinds[i], o, b)
  <2>1. PICK T : mail \in Seq(T)
    BY <1>1
  <2>2. PICK U : new \in Seq(U)
    BY <1>2
  <2> HIDE DEF new
  <2>3. Len(mail) \in Nat /\ Len(new) \in Nat
    BY <2>1, <2>2
  <2>4. \A i \in 1..Len(mail) : (mail \o new)[i] = mail[i]
    BY <2>1, <2>2
  <2>5. \A i \in 1..Len(new) : (mail \o new)[Len(mail) + i] = new[i]
    BY <2>1, <2>2
  <2>6. Len(mail \o new) = Len(mail) + Len(new)
    BY <2>1, <2>2
  <2> QED
    BY <1>2, <1>3, <2>4, <2>5, <2>6
<1>5. /\ Len(mail) \in Nat /\ Len(kinds) \in Nat
      /\ \A i \in 1..Len(mail') : i \in 1..Len(mail) \/ i - Len(mail) \in 1..Len(kinds)
      /\ \A i \in 1..Len(mail) : i \in 1..Len(mail')
      /\ \A i \in 1..Len(kinds) : Len(mail) + i \in 1..Len(mail')
  BY <1>1, <1>4
<1>6. \A i \in 1..Len(mail') : i \notin 1..Len(mail) =>
         mail'[i] = Event(kinds[i - Len(mail)], o, b)
  <2> SUFFICES ASSUME NEW i \in 1..Len(mail'), i \notin 1..Len(mail)
               PROVE  mail'[i] = Event(kinds[i - Len(mail)], o, b)
    OBVIOUS
  <2>1. i - Len(mail) \in 1..Len(kinds) /\ Len(mail) + (i - Len(mail)) = i
    BY <1>5
  <2> QED
    BY <1>4, <2>1
<1>7. CASE s # o
  <2>1. bill'[s] = bill[s]
    BY <1>7 DEF Emit, TypeInv, BillOK
  <2>2. \A i \in 1..Len(mail') : mail'[i].row = s => i \in 1..Len(mail)
    <3> SUFFICES ASSUME NEW i \in 1..Len(mail'), i \notin 1..Len(mail)
                 PROVE  mail'[i].row # s
      OBVIOUS
    <3>1. mail'[i] = Event(kinds[i - Len(mail)], o, b)
      BY <1>6
    <3> QED
      BY <1>7, <3>1 DEF Event
  <2>3. InMail(s)' <=> InMail(s)
    BY <1>4, <1>5, <2>2 DEF InMail, Settles
  <2>4. LastIsFinal(s)'
    <3> SUFFICES ASSUME NEW i \in 1..Len(mail'), mail'[i].row = s,
                        \A j \in 1..Len(mail') : j > i => ~Settles(mail'[j], s)
                 PROVE  LastWord(mail[i], s) /\ mail'[i] = mail[i]
      BY <2>1 DEF LastIsFinal, LastWord, Final, Settles
    <3>1. i \in 1..Len(mail) /\ mail'[i] = mail[i]
      BY <1>4, <2>2
    <3>2. \A j \in 1..Len(mail) : j > i => ~Settles(mail[j], s)
      BY <1>4, <1>5
    <3> QED
      BY <3>1, <3>2 DEF Tracks, LastIsFinal
  <2>5. WillExist(w, s) => WillExist(w, s)'
    BY <1>4, <1>5 DEF WillExist, Handling
  <2>6. Handling(w, s)' <=> Handling(w, s)
    BY DEF Handling
  <2> QED
    BY <2>1, <2>3, <2>4, <2>5, <2>6 DEF Tracks, LastWord, Final
<1>8. CASE s = o /\ kinds # <<"paid">>
  <2>1. bill'[s] = b
    BY <1>8 DEF Emit, TypeInv, BillOK
  <2> DEFINE last == Len(mail) + Len(kinds)
  <2>2. /\ last \in 1..Len(mail') /\ mail'[last] = Event(kinds[Len(kinds)], s, b)
        /\ last = Len(mail')
    BY <1>4, <1>5, <1>8
  <2>3. mail'[last].row = s /\ mail'[last].kind = kinds[Len(kinds)] /\ mail'[last].st = b.st
    BY <2>2 DEF Event
  <2>4. Settles(mail'[last], s) /\ InMail(s)'
    BY <1>8, <2>2, <2>3 DEF InMail, Settles
  <2>5. LastIsFinal(s)'
    <3> SUFFICES ASSUME NEW i \in 1..Len(mail'), mail'[i].row = s,
                        \A j \in 1..Len(mail') : j > i => ~Settles(mail'[j], s)
                 PROVE  LastWord(mail[i], s)'
      BY DEF LastIsFinal, Settles
    <3>1. i \in Nat /\ last \in Nat /\ i <= last
      BY <1>5, <2>2
    <3>2. ~(last > i)
      BY <2>2, <2>4
    <3>3. i = last
      <4> HIDE DEF last
      <4> QED
        BY <3>1, <3>2
    <3> QED
      BY <1>8, <2>1, <2>2, <2>3, <3>3 DEF LastWord, Final
  <2>6. ASSUME status[s] = "absent"
        PROVE  WillExist(w, s)'
    <3>1. CASE kinds[Len(kinds)] = "updated"
      BY <2>2, <2>3, <3>1 DEF WillExist
    <3>2. CASE bill[o].st \in Live
      <4>1. WillExist(w, s)
        BY <1>8, <2>6, <3>2 DEF Tracks, Ever
      <4> QED
        BY <1>4, <1>5, <4>1 DEF WillExist, Handling
    <3> QED
      BY <1>8, <3>1, <3>2
  <2>7. Handling(w, s)' <=> Handling(w, s)
    BY DEF Handling
  <2> QED
    BY <2>4, <2>5, <2>6, <2>7 DEF Tracks
<1>9. CASE s = o /\ kinds = <<"paid">>
  <2>1. bill'[s] = b /\ b.st = "active" /\ bill[s].st = "active"
    BY <1>9 DEF Emit, TypeInv, BillOK
  <2>2. \A i \in 1..Len(mail') : i \notin 1..Len(mail) =>
           mail'[i].row = s /\ mail'[i].kind = "paid"
    <3> SUFFICES ASSUME NEW i \in 1..Len(mail'), i \notin 1..Len(mail)
                 PROVE  mail'[i].row = s /\ mail'[i].kind = "paid"
      OBVIOUS
    <3>1. i - Len(mail) \in 1..Len(kinds) /\ mail'[i] = Event(kinds[i - Len(mail)], o, b)
      BY <1>5, <1>6
    <3>2. kinds[i - Len(mail)] = "paid"
      BY <1>9, <3>1
    <3> QED
      BY <1>9, <3>1, <3>2 DEF Event
  <2>3. InMail(s)' <=> InMail(s)
    BY <1>4, <1>5, <2>2 DEF InMail, Settles
  <2>4. LastIsFinal(s)'
    <3> SUFFICES ASSUME NEW i \in 1..Len(mail'), mail'[i].row = s,
                        \A j \in 1..Len(mail') : j > i => ~Settles(mail'[j], s)
                 PROVE  LastWord(mail'[i], s) /\ bill'[s].st = bill[s].st
      BY <2>1 DEF LastIsFinal, LastWord, Final, Settles
    <3>1. CASE i \in 1..Len(mail)
      <4>1. \A j \in 1..Len(mail) : j > i => ~Settles(mail[j], s)
        BY <1>4, <1>5
      <4>2. mail'[i] = mail[i]
        BY <1>4, <3>1
      <4> QED
        BY <2>1, <3>1, <4>1, <4>2 DEF Tracks, LastIsFinal
    <3>2. CASE i \notin 1..Len(mail)
      BY <2>1, <2>2, <3>2 DEF LastWord
    <3> QED
      BY <3>1, <3>2
  <2>5. WillExist(w, s) => WillExist(w, s)'
    BY <1>4, <1>5 DEF WillExist, Handling
  <2>6. Handling(w, s)' <=> Handling(w, s)
    BY DEF Handling
  <2> QED
    BY <2>1, <2>3, <2>4, <2>5, <2>6 DEF Tracks, LastWord, Final
<1> QED
  BY <1>7, <1>8, <1>9

LEMMA EndTracks ==
  ASSUME TypeInv, NEW w \in Workers, NEW s \in Subs, Tracks(w, s),
         NEW o \in Subs, EndAtStripe(o),
         status' = status, job' = job, Busy(w, s)' <=> Busy(w, s)
  PROVE  Tracks(w, s)' /\ bill'[o].st = "canceled"
                       /\ (bill[s].st = "canceled" => bill'[s].st = "canceled")
<1> DEFINE b == [bill[o] EXCEPT !.st = "canceled"]
<1>1. <<"deleted">> \in Seq(Webhooks) /\ Len(<<"deleted">>) = 1 /\ <<"deleted">>[1] = "deleted"
  BY DEF Webhooks
<1>2. b.st = "canceled" /\ bill' = [bill EXCEPT ![o] = b]
  BY DEF TypeInv, BillOK, EndAtStripe, Emit
<1>3. Emit(o, b, <<"deleted">>) /\ bill[o].st \in Live
  BY DEF EndAtStripe
<1>4. bill'[o].st = "canceled" /\ (bill[s].st = "canceled" => bill'[s].st = "canceled")
  BY <1>2 DEF TypeInv, BillOK
<1>5. Tracks(w, s)'
  <2>1. PICK c : c = b
    OBVIOUS
  <2>2. PICK kinds : kinds = <<"deleted">>
    OBVIOUS
  <2>3. c.st = "canceled" /\ bill[o].st \in Live
    BY <1>2, <1>3, <2>1
  <2>4. Emit(o, c, kinds)
    BY <1>3, <2>1, <2>2
  <2>5. kinds \in Seq(Webhooks) /\ Len(kinds) > 0 /\ kinds[Len(kinds)] = "deleted"
    BY <1>1, <2>2
  <2> HIDE DEF b
  <2> QED
    BY <2>3, <2>4, <2>5, EmitTracks
<1> QED
  BY <1>4, <1>5

\* What Stripe does is the same whoever works.
LEMMA BillingTracks ==
  ASSUME TypeInv, NEW w \in Workers, NEW s \in Subs, Tracks(w, s), BillingNext,
         status' = status, job' = job, pc' = pc
  PROVE  Tracks(w, s)' /\ (bill[s].st = "canceled" => bill'[s].st = "canceled")
<1> USE DEF TypeInv
<1>1. /\ <<"paid", "updated">> \in Seq(Webhooks) /\ <<"failed", "updated">> \in Seq(Webhooks)
      /\ <<"updated">> \in Seq(Webhooks) /\ <<"paid">> \in Seq(Webhooks)
      /\ Len(<<"paid", "updated">>) = 2 /\ <<"paid", "updated">>[2] = "updated"
      /\ Len(<<"failed", "updated">>) = 2 /\ <<"failed", "updated">>[2] = "updated"
      /\ Len(<<"updated">>) = 1 /\ <<"updated">>[1] = "updated"
      /\ Len(<<"paid">>) = 1
  BY DEF Webhooks
<1>2. Busy(w, s)' <=> Busy(w, s)
  BY DEF Busy
<1>3. ASSUME NEW o \in Subs, NEW b, NEW kinds \in {<<"paid", "updated">>, <<"failed", "updated">>,
                                                   <<"updated">>},
             Emit(o, b, kinds), bill[o].st # "canceled"
      PROVE  Tracks(w, s)' /\ (bill[s].st = "canceled" => bill'[s].st = "canceled")
  <2>1. kinds \in Seq(Webhooks) /\ Len(kinds) > 0 /\ kinds[Len(kinds)] = "updated"
    <3>1. CASE kinds = <<"paid", "updated">>
      BY <1>1, <3>1
    <3>2. CASE kinds = <<"failed", "updated">>
      BY <1>1, <3>2
    <3>3. CASE kinds = <<"updated">>
      BY <1>1, <3>3
    <3> QED
      BY <1>3, <3>1, <3>2, <3>3
  <2>2. bill[s].st = "canceled" => bill'[s].st = "canceled"
    BY <1>3 DEF Emit, BillOK
  <2> QED
    BY <1>2, <1>3, <2>1, <2>2, EmitTracks
<1>4. CASE Tick
  BY <1>2, <1>4 DEF Tick, Tracks, LastIsFinal, InMail, Handling, LastWord, Final, WillExist
<1>5. ASSUME NEW o \in Subs,
             \/ Subscribe(o) \/ BeginPeriod(o) \/ FailRenewal(o)
             \/ CollectLate(o) \/ GiveUp(o)
      PROVE  Tracks(w, s)' /\ (bill[s].st = "canceled" => bill'[s].st = "canceled")
  <2>1. bill[o].st # "canceled"
    BY <1>5 DEF Subscribe, BeginPeriod, Draft, FailRenewal, CollectLate, GiveUp
  <2> QED
    BY <1>3, <1>5, <2>1 DEF Subscribe, BeginPeriod, FailRenewal, CollectLate, GiveUp
<1>7. ASSUME NEW o \in Subs, Renew(o)
      PROVE  Tracks(w, s)' /\ (bill[s].st = "canceled" => bill'[s].st = "canceled")
  <2>1. PICK b : b = [bill[o] EXCEPT !.paid = bill[o].end]
    OBVIOUS
  <2>2. bill[o].st = "active" /\ b.st = "active" /\ Emit(o, b, <<"paid">>)
    BY <1>7, <2>1 DEF Renew, Draft, BillOK
  <2>3. PICK kinds : kinds = <<"paid">>
    OBVIOUS
  <2>4. kinds \in Seq(Webhooks) /\ Len(kinds) > 0 /\ Emit(o, b, kinds)
    BY <1>1, <2>2, <2>3
  <2>5. Tracks(w, s)'
    BY <1>2, <2>2, <2>3, <2>4, EmitTracks
  <2>6. bill[s].st = "canceled" => bill'[s].st = "canceled"
    BY <2>2 DEF Emit, BillOK
  <2> QED
    BY <2>5, <2>6
<1>6. ASSUME NEW o \in Subs, Terminate(o)
      PROVE  Tracks(w, s)' /\ (bill[s].st = "canceled" => bill'[s].st = "canceled")
  BY <1>2, <1>6, EndTracks DEF Terminate
<1> QED
  BY <1>4, <1>5, <1>6, <1>7 DEF BillingNext

\* The oldest event goes from the mail to a handler, or is skipped.
LEMMA TakeTracks ==
  ASSUME InOrder, "updated" \in Named, TypeInv, TypeInv', NEW w \in Workers, NEW s \in Subs,
         Tracks(w, s), NEW i \in 1..Len(mail), Take(w, i)
  PROVE  Tracks(w, s)'
<1> USE DEF TypeInv
<1>1. i = 1 /\ mail \in Seq(Letter) /\ Len(mail) \in Nat /\ Len(mail) > 0
  BY DEF Take, BillOK
<1>2. /\ Len(mail') = Len(mail) - 1
      /\ \A j \in 1..Len(mail') : mail'[j] = mail[j + 1]
  <2>1. mail' = SubSeq(mail, 1, 0) \o SubSeq(mail, 2, Len(mail))
    BY <1>1 DEF Take, RemoveAt
  <2> DEFINE tail == SubSeq(mail, 2, Len(mail))
  <2>2. /\ SubSeq(mail, 1, 0) \in Seq(Letter) /\ Len(SubSeq(mail, 1, 0)) = 0
        /\ tail \in Seq(Letter) /\ Len(tail) = Len(mail) - 1
        /\ \A j \in 1..Len(tail) : tail[j] = mail[j + 1]
    <3>1. SubSeq(mail, 1, 0) \in Seq(Letter) /\ Len(SubSeq(mail, 1, 0)) = 0
      BY <1>1
    <3>2. tail = [j \in 1..(Len(mail) - 1) |-> mail[j + 1]]
      BY <1>1
    <3>3. tail \in Seq(Letter)
      BY <1>1, <3>2
    <3>4. Len(tail) = Len(mail) - 1
      <4>1. PICK n \in Nat : n = Len(mail) - 1
        BY <1>1
      <4>2. tail = [j \in 1..n |-> mail[j + 1]]
        BY <3>2, <4>1
      <4> HIDE DEF tail
      <4> QED
        BY <4>1, <4>2
    <3> QED
      BY <3>1, <3>2, <3>3, <3>4
  <2>3. Len(mail') = Len(tail) /\ \A j \in 1..Len(tail) : mail'[j] = tail[j]
    <3> HIDE DEF tail
    <3> QED
      BY <2>1, <2>2 DEF tail
  <2> HIDE DEF tail
  <2> QED
    BY <2>2, <2>3
<1>3. /\ \A j \in 1..Len(mail') : j + 1 \in 1..Len(mail) /\ mail'[j] = mail[j + 1]
      /\ \A j \in 1..Len(mail) : j = 1 \/ (j - 1 \in 1..Len(mail') /\ mail'[j - 1] = mail[j])
  BY <1>1, <1>2
<1>4. UNCHANGED <<bill, status>> /\ pc[w] = "idle" /\ job[w] = NoJob /\ ~Handling(w, s)
  BY InHand DEF Take, tables, StepOK, Handling, Busy, NoJob, Webhooks
<1> DEFINE e == mail[1]
<1>5. e \in Letter /\ 1 \in 1..Len(mail)
  BY <1>1
<1>6. \/ /\ Known(e) /\ pc'[w] = FirstStep(e) /\ job'[w] = e
      \/ /\ ~Known(e) /\ pc'[w] = "idle" /\ job'[w] = NoJob
  BY <1>1, <1>4 DEF Take, Goto, WorkersOK
<1>7. FirstStep(e) \notin {"syncRead", "syncWrite"}
  BY <1>5 DEF FirstStep, Letter, Webhooks
<1>8. /\ Busy(w, s)' <=> e.row = s /\ Known(e)
      /\ Busy(w, s)' => job'[w] = e
      /\ Handling(w, s)' <=> Settles(e, s) /\ Known(e)
  BY <1>5, <1>6, <1>7 DEF Handling, Busy, Settles, NoJob, Webhooks, Letter
<1>9. LastIsFinal(s)'
  <2> SUFFICES ASSUME NEW j \in 1..Len(mail'), mail'[j].row = s,
                      \A k \in 1..Len(mail') : k > j => ~Settles(mail'[k], s)
               PROVE  LastWord(mail[j], s)'
    BY DEF LastIsFinal, Settles
  <2>1. j + 1 \in 1..Len(mail) /\ mail[j + 1] = mail'[j]
    BY <1>3
  <2>2. ASSUME NEW k \in 1..Len(mail), k > j + 1
        PROVE  ~Settles(mail[k], s)
    <3>1. k - 1 \in 1..Len(mail') /\ mail'[k - 1] = mail[k] /\ k - 1 > j
      BY <1>3, <2>2
    <3> QED
      BY <3>1
  <2>3. LastWord(mail[j + 1], s)
    BY <2>1, <2>2 DEF Tracks, LastIsFinal
  <2> QED
    BY <1>4, <2>1, <2>3 DEF LastWord, Final
<1>10. ASSUME e.row = s, ~InMail(s)'
       PROVE  LastWord(e, s)
  <2>1. \A j \in 1..Len(mail) : j > 1 => ~Settles(mail[j], s)
    BY <1>3, <1>10 DEF InMail, Settles
  <2> QED
    BY <1>5, <1>10, <2>1 DEF Tracks, LastIsFinal
<1>11. InMail(s) => InMail(s)' \/ Settles(e, s)
  BY <1>3 DEF InMail, Settles
<1>13. ASSUME status[s] = "absent", bill[s].st \in Ever
       PROVE  WillExist(w, s)'
  <2>1. PICK j \in 1..Len(mail) : mail[j].row = s /\ mail[j].kind = "updated"
    BY <1>4, <1>13 DEF Tracks, WillExist
  <2>2. CASE j = 1
    BY <1>8, <2>1, <2>2 DEF WillExist, Known, Settles
  <2>3. CASE j # 1
    BY <1>3, <2>1, <2>3 DEF WillExist
  <2> QED
    BY <2>2, <2>3
<1>14. ASSUME ~Handling(w, s)', ~InMail(s)', bill[s].st \in Ever
       PROVE  status[s] = MapStatus(bill[s].st)
  <2>1. CASE ~Settles(e, s)
    BY <1>4, <1>11, <1>14, <2>1 DEF Tracks
  <2>2. CASE Settles(e, s)
    <3>1. ~Known(e) /\ status[s] = "absent"
      BY <1>8, <1>14, <2>2 DEF Known, Settles
    <3>2. PICK j \in 1..Len(mail) : mail[j].row = s /\ mail[j].kind = "updated"
      BY <1>4, <1>14, <3>1 DEF Tracks, WillExist
    <3>3. j # 1
      BY <3>1, <3>2 DEF Known
    <3> QED
      BY <1>3, <1>14, <3>2, <3>3 DEF InMail, Settles
  <2> QED
    BY <2>1, <2>2
<1> QED
  BY <1>4, <1>8, <1>9, <1>10, <1>13, <1>14 DEF Tracks, LastWord, Final

\* A step that neither touches the row nor ends a handler of its events.
LEMMA WorkTracks ==
  ASSUME NEW w \in Workers, NEW s \in Subs, Tracks(w, s), UNCHANGED <<bill, mail>>,
         status'[s] = status[s], Busy(w, s)' <=> Busy(w, s),
         Busy(w, s) => job'[w] = job[w]
  PROVE  Tracks(w, s)'
  BY DEF Tracks, LastIsFinal, InMail, Handling, Settles, LastWord, Final, WillExist

\* A handler of events of s comes to its sync.
LEMMA SettleTracks ==
  ASSUME NEW w \in Workers, NEW s \in Subs, Tracks(w, s), UNCHANGED <<bill, mail>>,
         ~Busy(w, s)',
         ~InMail(s) /\ bill[s].st \in Ever => status'[s] = MapStatus(bill[s].st),
         status'[s] = "absent" /\ bill[s].st \in Ever =>
            \E i \in 1..Len(mail) : mail[i].row = s /\ mail[i].kind = "updated"
  PROVE  Tracks(w, s)'
  BY DEF Tracks, LastIsFinal, InMail, Handling, Settles, LastWord, Final, WillExist

\* The only row of its user is in no transaction but that of its own events.
LEMMA CommitTracks ==
  ASSUME TypeInv, TypeInv', NEW w \in Workers, HoldsOwn(w),
         NEW s \in Subs, RowsOf(Owner[s]) = {s}, Tracks(w, s),
         WritePaid(w) \/ WriteUpdated(w) \/ WriteGranted(w)
  PROVE  Tracks(w, s)' /\ pc'[w] = "syncRead"
<1> USE DEF TypeInv
<1>1. PICK st, e : /\ Commit(w, st, e)
                   /\ job[w].kind = "updated" => st = MapStatus(job[w].st)
                   /\ job[w].kind = "paid" => st = "ACTIVE"
  BY DEF WritePaid, WriteUpdated, WriteGranted
<1>2. /\ pc[w] \in {"create", "update"} /\ pc'[w] = "syncRead" /\ UNCHANGED <<bill, mail>>
  BY <1>1 DEF Commit, GotoSync, Goto, WorkersOK, billing
<1>3. \/ job[w] \in Letter /\ job[w].kind \in {"paid", "updated"}
      \/ job[w] \in GrantJob
  BY <1>2, InHand DEF StepOK, HandOK
<1>4. ~Busy(w, s)'
  BY <1>2 DEF Busy
<1>5. s \in Rows
  BY DEF Rows
<1>6. CASE job[w].row # s
  <2>1. job[w].row \in Rows
    BY <1>3 DEF Letter, GrantJob, Rows
  <2>2. Owner[job[w].row] # Owner[s]
    BY <1>6, <2>1 DEF RowsOf
  <2>3. s \notin held[w]
    BY <1>2, <2>2 DEF HoldsOwn, RowsOf
  <2>4. status'[s] = status[s]
    BY <1>1, <1>5, <1>6, <2>3 DEF Commit
  <2>5. ~Busy(w, s)
    BY <1>6 DEF Busy
  <2> QED
    BY <1>2, <1>4, <2>4, <2>5, WorkTracks
<1>7. CASE job[w].row = s
  <2>1. job[w] \in Letter /\ job[w].kind \in {"paid", "updated"}
    BY <1>3, <1>7, LedgerAssumption DEF GrantJob
  <2>2. Busy(w, s)
    BY <1>2, <1>7, <2>1 DEF Busy, Webhooks
  <2>3. status'[s] = st
    BY <1>1, <1>5, <1>7 DEF Commit
  <2>4. ASSUME ~InMail(s)
        PROVE  status'[s] = MapStatus(bill[s].st)
    <3>1. LastWord(job[w], s)
      BY <2>2, <2>4 DEF Tracks
    <3> QED
      BY <1>1, <2>1, <2>3, <3>1 DEF LastWord, Final, MapStatus
  <2>5. status'[s] # "absent"
    <3>1. CASE job[w].kind = "updated"
      <4>1. st = MapStatus(job[w].st) /\ job[w].st \in Live \cup {"canceled"}
        BY <1>1, <2>1, <3>1 DEF Letter
      <4> QED
        BY <2>3, <4>1 DEF MapStatus, Live
    <3>2. CASE job[w].kind = "paid"
      <4>1. WritePaid(w)
        BY <1>3, <2>1, <3>2 DEF WritePaid, WriteUpdated, WriteGranted
      <4> QED
        BY <1>5, <1>7, <4>1 DEF WritePaid, Commit
    <3> QED
      BY <2>1, <3>1, <3>2
  <2> QED
    BY <1>2, <1>4, <2>4, <2>5, SettleTracks
<1> QED
  BY <1>2, <1>6, <1>7

\* A failed invoice is followed by the update that tells of it; a deletion is
\* the end.
LEMMA MarkTracks ==
  ASSUME TypeInv, TypeInv', NEW w \in Workers, NEW s \in Subs, Tracks(w, s),
         MarkPastDue(w) \/ MarkCanceled(w)
  PROVE  Tracks(w, s)' /\ pc'[w] = "syncRead"
<1> USE DEF TypeInv
<1>1. /\ pc[w] = "mark" /\ pc'[w] = "syncRead" /\ UNCHANGED <<bill, mail>>
      /\ job[w].kind \in {"failed", "deleted"} /\ job[w] \in Letter
      /\ job[w].kind = "deleted" =>
            status' = [status EXCEPT ![job[w].row] = IF @ = "absent" THEN @ ELSE "CANCELED"]
      /\ job[w].kind = "failed" =>
            status' = [status EXCEPT ![job[w].row] = IF @ = "absent" THEN @ ELSE "PAST_DUE"]
  BY InHand DEF MarkPastDue, MarkCanceled, Mark, GotoSync, Goto, WorkersOK, billing, StepOK, HandOK
<1>2. ~Busy(w, s)' /\ s \in Rows
  BY <1>1 DEF Busy, Rows
<1>3. CASE job[w].row # s
  <2>1. status'[s] = status[s] /\ ~Busy(w, s)
    BY <1>1, <1>2, <1>3 DEF TablesOK, Busy
  <2> QED
    BY <1>1, <1>2, <2>1, WorkTracks
<1>4. CASE job[w].row = s
  <2>1. Busy(w, s)
    BY <1>1, <1>4 DEF Busy, Webhooks
  <2>2. ASSUME status'[s] = "absent", bill[s].st \in Ever
        PROVE  \E i \in 1..Len(mail) : mail[i].row = s /\ mail[i].kind = "updated"
    <3>1. status[s] = "absent"
      BY <1>1, <1>2, <1>4, <2>2 DEF TablesOK
    <3> QED
      BY <1>1, <2>2, <3>1 DEF Tracks, WillExist
  <2>3. ASSUME ~InMail(s), bill[s].st \in Ever
        PROVE  status'[s] = MapStatus(bill[s].st)
    <3>1. job[w].kind = "deleted" /\ bill[s].st = "canceled"
      BY <1>1, <2>1, <2>3 DEF Tracks, LastWord, Final
    <3>2. status[s] # "absent"
      BY <2>3, <3>1 DEF Tracks, WillExist, InMail, Settles
    <3> QED
      BY <1>1, <1>2, <1>4, <3>1, <3>2 DEF TablesOK, MapStatus
  <2> QED
    BY <1>1, <1>2, <2>2, <2>3, SettleTracks
<1> QED
  BY <1>1, <1>3, <1>4

\* What an admin cancels has ended at Stripe by then.
LEMMA CancelRowsTracks ==
  ASSUME TypeInv, TypeInv', NEW w \in Workers, NEW s \in Subs, Follows(w, s), CancelRows(w)
  PROVE  Tracks(w, s)' /\ pc'[w] = "syncRead"
<1> USE DEF TypeInv
<1>1. /\ pc[w] = "cancelRows" /\ pc'[w] = "syncRead" /\ UNCHANGED <<bill, mail>>
      /\ status' = [r \in Rows |-> IF r \in CurrentOf(job[w].user) THEN "CANCELED" ELSE status[r]]
  BY DEF CancelRows, GotoSync, Goto, WorkersOK, billing
<1>2. ~Busy(w, s)' /\ ~Busy(w, s) /\ s \in Rows
  BY <1>1, InHand DEF Busy, Rows, StepOK, HandOK, CancelJob, Webhooks
<1>3. CASE s \in CurrentOf(job[w].user)
  <2>1. bill[s].st = "canceled" /\ status'[s] = "CANCELED"
    BY <1>1, <1>2, <1>3 DEF Follows, EndsFirst, CurrentOf, RowsOf
  <2> QED
    BY <1>1, <1>2, <2>1, SettleTracks DEF Follows, MapStatus
<1>4. CASE s \notin CurrentOf(job[w].user)
  <2>1. status'[s] = status[s]
    BY <1>1, <1>2, <1>4
  <2> QED
    BY <1>1, <1>2, <2>1, WorkTracks DEF Follows
<1> QED
  BY <1>1, <1>3, <1>4

\* He ends them one by one, and stops where one has ended already.
LEMMA CancelAtStripeFollows ==
  ASSUME TypeInv, TypeInv', NEW w \in Workers, NEW s \in Subs, Follows(w, s), CancelAtStripe(w)
  PROVE  Follows(w, s)'
<1> USE DEF TypeInv
<1>1. /\ pc[w] = "cancelAtStripe" /\ status' = status /\ job[w] \in CancelJob
      /\ todo[w] \subseteq Subs
  BY InHand DEF CancelAtStripe, tables, StepOK, HandOK
<1>2. job[w].kind \notin Webhooks /\ ~Busy(w, s)
  BY <1>1 DEF Busy, CancelJob, Webhooks
<1>3. ASSUME NEW o \in todo[w], EndAtStripe(o), todo' = [todo EXCEPT ![w] = @ \ {o}],
             IF todo[w] = {o} THEN Goto(w, "cancelRows") ELSE UNCHANGED pc, job' = job
      PROVE  Follows(w, s)'
  <2>1. o \in Subs /\ todo'[w] = todo[w] \ {o}
    BY <1>1, <1>3 DEF WorkersOK
  <2>2. Busy(w, s)' <=> Busy(w, s)
    BY <1>2, <1>3 DEF Busy
  <2>3. /\ Tracks(w, s)' /\ bill'[o].st = "canceled"
        /\ bill[s].st = "canceled" => bill'[s].st = "canceled"
    BY <1>1, <1>3, <2>1, <2>2, EndTracks DEF Follows
  <2>4. CASE todo[w] = {o}
    BY <1>1, <1>3, <2>1, <2>3, <2>4 DEF Follows, EndsFirst
  <2>5. CASE todo[w] # {o}
    BY <1>1, <1>3, <2>1, <2>3, <2>5 DEF Follows, EndsFirst
  <2> QED
    BY <2>4, <2>5
<1>4. CASE Finish(w) /\ UNCHANGED <<bill, mail>>
  <2>1. pc'[w] = "idle" /\ job'[w] = NoJob
    BY <1>4 DEF Finish, WorkersOK
  <2>2. ~Busy(w, s)'
    BY <2>1 DEF Busy, NoJob, Webhooks
  <2>3. Tracks(w, s)'
    BY <1>1, <1>2, <1>4, <2>2, WorkTracks DEF Follows
  <2> QED
    BY <2>1, <2>3 DEF Follows, EndsFirst
<1> QED
  BY <1>3, <1>4 DEF CancelAtStripe

\* A worker starts.
LEMMA StartFollows ==
  ASSUME InOrder, "updated" \in Named, TypeInv, TypeInv', NEW w \in Workers,
         NEW s \in Subs, Follows(w, s), Start(w)
  PROVE  Follows(w, s)'
<1> USE DEF TypeInv
<1>1. ASSUME NEW i \in 1..Len(mail), Take(w, i)
      PROVE  Follows(w, s)'
  <2>1. mail[i] \in Letter /\ pc[w] = "idle"
    BY <1>1 DEF BillOK, Take
  <2>2. pc'[w] \notin {"cancelAtStripe", "cancelRows"}
    BY <1>1, <2>1 DEF Take, Goto, WorkersOK, FirstStep, Letter, Webhooks
  <2> QED
    BY <1>1, <2>2, TakeTracks DEF Follows, EndsFirst
<1>2. ASSUME pc[w] = "idle", UNCHANGED <<bill, mail, status>>, job'[w].kind \notin Webhooks
      PROVE  Tracks(w, s)'
  <2>1. ~Busy(w, s)' /\ ~Busy(w, s)
    BY <1>2, InHand DEF Busy, StepOK, NoJob, Webhooks
  <2> QED
    BY <1>2, <2>1, WorkTracks DEF Follows
<1>3. ASSUME NEW g \in Grants, NEW m \in GrantTime, StartGrant(w, g, m)
      PROVE  Follows(w, s)'
  <2>1. /\ pc[w] = "idle" /\ UNCHANGED <<bill, mail, status>>
        /\ job'[w].kind = "grant" /\ pc'[w] = "expire"
    BY <1>3 DEF StartGrant, Goto, WorkersOK, billing, tables
  <2> QED
    BY <1>2, <2>1 DEF Follows, EndsFirst, Webhooks
<1>4. CASE StartCron(w)
  <2>1. /\ pc[w] = "idle" /\ UNCHANGED <<bill, mail, status>>
        /\ job'[w].kind = "cron" /\ pc'[w] = "expireManual"
    BY <1>4 DEF StartCron, Goto, WorkersOK, billing, tables
  <2> QED
    BY <1>2, <2>1 DEF Follows, EndsFirst, Webhooks
<1>5. ASSUME NEW u \in Users, StartCancel(w, u)
      PROVE  Follows(w, s)'
  <2> DEFINE current == {r \in RowsOf(u) \cap Subs : status[r] \in Current}
  <2>1. /\ pc[w] = "idle" /\ UNCHANGED <<bill, mail, status>>
        /\ job'[w] = [kind |-> "cancel", user |-> u] /\ todo'[w] = current
        /\ pc'[w] = IF current = {} THEN "cancelRows" ELSE "cancelAtStripe"
    BY <1>5 DEF StartCancel, Goto, WorkersOK, billing, tables
  <2>2. Tracks(w, s)'
    BY <1>2, <2>1 DEF Webhooks
  <2>3. Owner[s] = u /\ status[s] \in Current => s \in current
    BY DEF RowsOf, Rows
  <2> HIDE DEF current
  <2>4. EndsFirst(w, s)'
    BY <2>1, <2>3 DEF EndsFirst
  <2> QED
    BY <2>2, <2>4 DEF Follows
<1> QED
  BY <1>1, <1>3, <1>4, <1>5 DEF Start

LEMMA HandleFollows ==
  ASSUME TypeInv, TypeInv', NEW w \in Workers, HoldsOwn(w),
         NEW s \in Subs, RowsOf(Owner[s]) = {s}, Follows(w, s), Handle(w)
  PROVE  Follows(w, s)'
<1> USE DEF TypeInv
<1>1. ASSUME Tracks(w, s)', pc'[w] \notin {"cancelAtStripe", "cancelRows"}
      PROVE  Follows(w, s)'
  BY <1>1 DEF Follows, EndsFirst
<1>2. ASSUME pc[w] \notin {"syncRead", "syncWrite"}, UNCHANGED <<bill, mail, status, job>>,
             pc'[w] \notin {"syncRead", "syncWrite", "cancelAtStripe", "cancelRows"}
      PROVE  Follows(w, s)'
  <2>1. Busy(w, s)' <=> Busy(w, s)
    BY <1>2 DEF Busy
  <2>2. Tracks(w, s)'
    BY <1>2, <2>1, WorkTracks DEF Follows
  <2> QED
    BY <1>1, <1>2, <2>2
<1>3. CASE ExpireOthers(w) \/ FindOwn(w) \/ RecordFailure(w)
  BY <1>2, <1>3 DEF ExpireOthers, FindOwn, RecordFailure, Goto, tables, billing, local, WorkersOK
<1>4. CASE CheckPayment(w)
  <2>1. /\ pc[w] = "check" /\ job[w].kind = "paid" /\ UNCHANGED <<bill, mail, status, job>>
        /\ pc'[w] \in {"expire", "syncRead"}
    BY <1>4, InHand DEF CheckPayment, Goto, GotoSync, tables, billing, WorkersOK, StepOK, HandOK
  <2>2. CASE pc'[w] = "expire"
    BY <1>2, <2>1, <2>2
  <2>3. CASE pc'[w] = "syncRead"
    <3>1. ~Busy(w, s)'
      BY <2>3 DEF Busy
    <3>2. ~Handling(w, s)
      BY <2>1 DEF Handling
    <3>3. Tracks(w, s)'
      BY <2>1, <3>1, <3>2, SettleTracks DEF Follows, Tracks, WillExist
    <3> QED
      BY <1>1, <2>3, <3>3
  <2> QED
    BY <2>1, <2>2, <2>3
<1>5. CASE WritePaid(w) \/ WriteUpdated(w) \/ WriteGranted(w)
  BY <1>1, <1>5, CommitTracks DEF Follows
<1>6. CASE MarkPastDue(w) \/ MarkCanceled(w)
  BY <1>1, <1>6, MarkTracks DEF Follows
<1>7. CASE SyncRead(w) \/ SyncWrite(w)
  <2>1. /\ UNCHANGED <<bill, mail, status>> /\ ~Busy(w, s)
        /\ pc'[w] \in {"syncRead", "syncWrite"} \/ (pc'[w] = "idle" /\ job'[w] = NoJob)
    BY <1>7 DEF SyncRead, SyncWrite, Busy, Goto, Finish, billing, tables, WorkersOK
  <2>2. ~Busy(w, s)'
    BY <2>1 DEF Busy, NoJob, Webhooks
  <2>3. Tracks(w, s)'
    BY <2>1, <2>2, WorkTracks DEF Follows
  <2> QED
    BY <1>1, <2>1, <2>3
<1>8. CASE CancelRows(w)
  BY <1>1, <1>8, CancelRowsTracks
<1>9. CASE ExpireManual(w)
  <2>1. /\ pc[w] = "expireManual" /\ pc'[w] = "syncRead" /\ UNCHANGED <<bill, mail>>
        /\ job[w].kind \notin Webhooks
    BY <1>9, InHand DEF ExpireManual, Goto, GotoSync, billing, WorkersOK, StepOK, HandOK, CronJob,
                        Webhooks
  <2>2. status'[s] = status[s]
    BY <1>9, LedgerAssumption DEF ExpireManual, Overdue, Rows
  <2>3. ~Busy(w, s)' /\ ~Busy(w, s)
    BY <2>1 DEF Busy
  <2>4. Tracks(w, s)'
    BY <2>1, <2>2, <2>3, WorkTracks DEF Follows
  <2> QED
    BY <1>1, <2>1, <2>4
<1> QED
  BY <1>3, <1>4, <1>5, <1>6, <1>7, <1>8, <1>9, CancelAtStripeFollows DEF Handle

LEMMA FollowNext ==
  ASSUME NEW w, Workers = {w}, InOrder, "updated" \in Named, TypeInv, TypeInv', SyncInv,
         FollowInv, [Next]_vars
  PROVE  FollowInv'
<1> USE DEF TypeInv
<1>1. UNCHANGED clean \/ Crash \/ Throw(w)
  BY DEF Next, vars, luck, CreateCheckoutSession, Start, Take, StartGrant, StartCancel, StartCron,
         Handle, CheckPayment, ExpireOthers, FindOwn, WritePaid, WriteUpdated, WriteGranted,
         Commit, RecordFailure, MarkPastDue, MarkCanceled, Mark, SyncRead, SyncWrite,
         CancelAtStripe, CancelRows, ExpireManual
<1> SUFFICES ASSUME clean' = TRUE, NEW s \in Subs, RowsOf(Owner[s]) = {s}
             PROVE  Follows(w, s)'
  BY DEF FollowInv, LuckOK, RowsOf
<1>2. ~Crash /\ ~Throw(w) /\ UNCHANGED clean
  BY <1>1 DEF Crash, Throw
<1>3. Follows(w, s)
  BY <1>2 DEF FollowInv
<1>4. ASSUME UNCHANGED <<status, job, pc, todo>>, Tracks(w, s)',
             bill[s].st = "canceled" => bill'[s].st = "canceled"
      PROVE  Follows(w, s)'
  BY <1>3, <1>4 DEF Follows, EndsFirst
<1>5. CASE UNCHANGED vars
  <2>1. UNCHANGED <<bill, mail, status, job, pc, todo>>
    BY <1>5 DEF vars, billing, tables, local
  <2>2. Busy(w, s)' <=> Busy(w, s)
    BY <2>1 DEF Busy
  <2> QED
    BY <1>3, <1>4, <2>1, <2>2, WorkTracks DEF Follows
<1>6. CASE BillingNext /\ UNCHANGED <<tables, access, pc, local, luck>>
  <2>1. UNCHANGED <<status, job, pc, todo>>
    BY <1>6 DEF tables, local
  <2> QED
    BY <1>3, <1>4, <1>6, <2>1, BillingTracks DEF Follows
<1>7. ASSUME NEW o \in Subs, CreateCheckoutSession(o)
      PROVE  Follows(w, s)'
  <2>1. /\ UNCHANGED <<mail, status, job, pc, todo>>
        /\ bill' = [bill EXCEPT ![o].st = "session"] /\ bill[o].st = "none"
    BY <1>7 DEF CreateCheckoutSession, tables, local
  <2>2. Busy(w, s)' <=> Busy(w, s)
    BY <2>1 DEF Busy
  <2>3. CASE o # s
    <3>1. bill'[s] = bill[s]
      BY <2>1, <2>3 DEF BillOK
    <3>2. Tracks(w, s)'
      BY <1>3, <2>1, <2>2, <3>1
         DEF Follows, Tracks, LastIsFinal, InMail, Handling, LastWord, Final, WillExist
    <3> QED
      BY <1>4, <2>1, <3>1, <3>2
  <2>4. CASE o = s
    <3>1. bill'[s].st = "session" /\ bill[s].st = "none"
      BY <2>1, <2>4 DEF BillOK
    <3>2. ASSUME NEW e \in Letter
          PROVE  ~LastWord(e, s)
      BY <3>1 DEF Letter, LastWord, Final, Live
    <3>3. \A i \in 1..Len(mail) : mail[i] \in Letter
      BY DEF BillOK
    <3>4. LastIsFinal(s)'
      BY <1>3, <2>1, <3>2, <3>3 DEF Follows, Tracks, LastIsFinal
    <3>5. Busy(w, s) => job[w] \in Letter
      BY InHand DEF Busy, Jobs, GrantJob, CancelJob, CronJob, NoJob, Webhooks
    <3>6. Busy(w, s) => InMail(s)
      BY <1>3, <3>2, <3>5 DEF Follows, Tracks
    <3>7. InMail(s)' <=> InMail(s)
      BY <2>1 DEF InMail
    <3>8. Tracks(w, s)'
      BY <2>2, <3>1, <3>4, <3>6, <3>7 DEF Tracks, Handling, Ever, Live
    <3> QED
      BY <1>4, <2>1, <3>1, <3>8
  <2> QED
    BY <2>3, <2>4
<1>8. CASE Start(w)
  BY <1>3, <1>8, StartFollows
<1>9. CASE Handle(w)
  BY <1>3, <1>9, HandleFollows DEF SyncInv
<1> QED
  BY <1>2, <1>5, <1>6, <1>7, <1>8, <1>9 DEF Next

\* One handler at a time, the events in order and the metadata on the
\* subscription itself: the row of a user's only subscription ends up as it
\* stands at Stripe.
THEOREM OneAtATimeInOrderFollows ==
  ASSUME NEW w, Workers = {w}, InOrder, "updated" \in Named
  PROVE  Spec => []LedgerFollowsStripe
<1>1. Init => FollowInv
  <2> SUFFICES ASSUME Init, NEW s \in Subs
               PROVE  Follows(w, s)
    BY DEF FollowInv
  <2>1. mail = <<>> /\ Len(mail) = 0 /\ bill[s].st = "none" /\ pc[w] = "idle" /\ job[w] = NoJob
    BY DEF Init, BillingInit
  <2>2. ~Busy(w, s) /\ ~Handling(w, s) /\ ~InMail(s) /\ bill[s].st \notin Ever
    BY <2>1 DEF Busy, Handling, InMail, NoJob, Webhooks, Ever, Live
  <2> QED
    BY <2>1, <2>2 DEF Follows, Tracks, EndsFirst, LastIsFinal
<1>2. TypeInv /\ FollowInv => LedgerFollowsStripe
  <2> SUFFICES ASSUME TypeInv, FollowInv, Quiet, mail = <<>>, NEW s \in Subs,
                      RowsOf(Owner[s]) = {s}, bill[s].st \in Ever
               PROVE  status[s] = MapStatus(bill[s].st)
    BY DEF LedgerFollowsStripe, Ever
  <2>1. job[w] = NoJob
    BY InHand DEF TypeInv, StepOK, Quiet
  <2>2. ~Handling(w, s) /\ ~InMail(s)
    BY <2>1 DEF Busy, Handling, InMail, NoJob, Webhooks
  <2> QED
    BY <2>2 DEF FollowInv, Follows, Tracks, Quiet
<1> QED
  BY <1>1, <1>2, FollowNext, SyncInvariant, TypeInvariant, PTL DEF Spec
=============================================================================
