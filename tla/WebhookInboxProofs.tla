------------------------- MODULE WebhookInboxProofs -------------------------
(* What WebhookInbox guarantees for every set of events and deliveries and   *)
(* every number of outages.                                                  *)
EXTENDS WebhookInbox, TLAPS

\* Every initial state satisfies the inductive invariant: no row, no job.
LEMMA InitInv == Init => InboxInv
  BY MaxOutagesAssumption
  DEF Init, InboxInv, TypeOK, OneHandlerPerEvent, JobOwnsRow, RowExists,
      JobFollowsClaim, ProcessedWasApplied, AckedIsRecorded,
      Statuses, HttpStates, JobStates

\* Claiming an event nobody works on keeps the invariant; the claim of the
\* insert and the claim of the retry both rest on it.
LEMMA ClaimedInv ==
  ASSUME InboxInv, NEW d \in Deliveries, Claimed(d), job[d] = "none",
         status[ev[d]] \in {"absent", "FAILED"}
  PROVE  InboxInv'
<1> USE DEF Claimed, SetStatus, GoHttp, GoJob
<1>1. TypeOK'
  BY DEF InboxInv, TypeOK, Statuses, HttpStates, JobStates
<1>2. \A c \in Deliveries : job[c] # "none" => ev[c] # ev[d]
  BY DEF InboxInv, JobOwnsRow, TypeOK, JobStates
<1>3. OneHandlerPerEvent'
  BY <1>2 DEF InboxInv, OneHandlerPerEvent, TypeOK
<1>4. JobOwnsRow'
  BY <1>2 DEF InboxInv, JobOwnsRow, TypeOK
<1>5. RowExists' /\ JobFollowsClaim'
  BY DEF InboxInv, RowExists, JobFollowsClaim, TypeOK
<1>6. ProcessedWasApplied' /\ AckedIsRecorded'
  BY DEF InboxInv, ProcessedWasApplied, AckedIsRecorded, TypeOK
<1> QED BY <1>1, <1>3, <1>4, <1>5, <1>6 DEF InboxInv

\* A request step that starts no job, and writes at most a claim that nobody
\* will act on, keeps the invariant.
LEMMA RequestInv ==
  ASSUME InboxInv, NEW d \in Deliveries, NEW s \in HttpStates \ {"insert"},
         NEW t \in Statuses,
         GoHttp(d, s), http[d] # "idle",
         s \in {"lookup", "claim", "reply"} => status[ev[d]] # "absent",
         s \in {"lookup", "claim"} => job[d] = "none",
         UNCHANGED <<job, ev, acked, applied>>,
         FailedWrite(ev[d], t),
         \/ t = status[ev[d]]
         \/ t = "PROCESSING" /\ status[ev[d]] \in {"absent", "FAILED"}
  PROVE  InboxInv'
<1> USE DEF SetStatus, GoHttp, FailedWrite
<1>1. TypeOK'
  BY MaxOutagesAssumption DEF InboxInv, TypeOK, Statuses
<1>2. OneHandlerPerEvent'
  BY DEF InboxInv, OneHandlerPerEvent
<1>3. JobOwnsRow'
  BY DEF InboxInv, JobOwnsRow, TypeOK
<1>4. RowExists' /\ JobFollowsClaim'
  BY DEF InboxInv, RowExists, JobFollowsClaim, TypeOK
<1>5. ProcessedWasApplied' /\ AckedIsRecorded'
  BY DEF InboxInv, ProcessedWasApplied, AckedIsRecorded, TypeOK
<1> QED BY <1>1, <1>2, <1>3, <1>4, <1>5 DEF InboxInv

-----------------------------------------------------------------------------
\* Every step keeps the invariant.
LEMMA NextInv == InboxInv /\ [Next]_vars => InboxInv'
<1> SUFFICES ASSUME InboxInv, [Next]_vars PROVE InboxInv'
  OBVIOUS
<1>t. TypeOK
  BY DEF InboxInv
<1>1. ASSUME NEW d \in Deliveries, NEW e \in Events, Receive(d, e)
      PROVE  InboxInv'
  <2>1. TypeOK' /\ OneHandlerPerEvent'
    BY <1>1 DEF InboxInv, Receive, GoHttp, TypeOK, HttpStates, OneHandlerPerEvent
  <2>2. JobOwnsRow' /\ RowExists' /\ JobFollowsClaim'
    BY <1>1 DEF InboxInv, Receive, GoHttp, TypeOK, JobOwnsRow, RowExists,
                JobFollowsClaim
  <2>3. ProcessedWasApplied' /\ AckedIsRecorded'
    BY <1>1 DEF InboxInv, Receive, ProcessedWasApplied, AckedIsRecorded
  <2> QED BY <2>1, <2>2, <2>3 DEF InboxInv
<1>2. ASSUME NEW d \in Deliveries, InsertEvent(d) PROVE InboxInv'
  BY <1>2, ClaimedInv DEF InsertEvent, InboxInv, JobFollowsClaim
<1>3. ASSUME NEW d \in Deliveries,
             \/ InsertDuplicate(d) \/ InsertError(d) \/ LookupError(d)
             \/ ClaimError(d)
      PROVE  InboxInv'
  <2>1. status[ev[d]] \in Statuses
    BY <1>t DEF TypeOK
  <2>2. CASE InsertDuplicate(d)
    <3>1. job[d] = "none" /\ http[d] # "idle"
      BY <2>2 DEF InsertDuplicate, InboxInv, JobFollowsClaim
    <3> QED BY <2>1, <2>2, <3>1, RequestInv
            DEF InsertDuplicate, HttpStates, FailedWrite
  <2>3. CASE InsertError(d)
    BY <2>1, <2>3, RequestInv DEF InsertError, HttpStates, Statuses
  <2>4. CASE LookupError(d)
    BY <2>1, <2>4, RequestInv DEF LookupError, HttpStates, FailedWrite
  <2>5. CASE ClaimError(d)
    BY <2>1, <2>5, RequestInv DEF ClaimError, HttpStates, Statuses
  <2> QED BY <1>3, <2>2, <2>3, <2>4, <2>5
<1>4. ASSUME NEW d \in Deliveries, LookupEvent(d) PROVE InboxInv'
  <2>1. /\ job[d] = "none" /\ http[d] # "idle"
        /\ status[ev[d]] \in Statuses \ {"absent"}
    BY <1>4, <1>t DEF LookupEvent, InboxInv, JobFollowsClaim, RowExists, TypeOK
  <2> QED BY <1>4, <2>1, RequestInv
          DEF LookupEvent, Ignored, HttpStates, FailedWrite
<1>5. ASSUME NEW d \in Deliveries, ClaimRetry(d) PROVE InboxInv'
  <2>1. /\ job[d] = "none" /\ http[d] # "idle"
        /\ status[ev[d]] \in Statuses \ {"absent"}
    BY <1>5, <1>t DEF ClaimRetry, InboxInv, JobFollowsClaim, RowExists, TypeOK
  <2>2. CASE status[ev[d]] = "FAILED"
    BY <1>5, <2>1, <2>2, ClaimedInv DEF ClaimRetry
  <2>3. CASE status[ev[d]] # "FAILED"
    BY <1>5, <2>1, <2>3, RequestInv DEF ClaimRetry, Ignored, HttpStates, FailedWrite
  <2> QED BY <2>2, <2>3
<1>6. ASSUME NEW d \in Deliveries, Reply(d) PROVE InboxInv'
  <2>1. TypeOK' /\ AckedIsRecorded'
    BY <1>6, <1>t DEF Reply, GoHttp, InboxInv, TypeOK, HttpStates, RowExists,
                      AckedIsRecorded
  <2>2. RowExists' /\ JobFollowsClaim'
    BY <1>6, <1>t DEF Reply, GoHttp, InboxInv, TypeOK, RowExists, JobFollowsClaim
  <2>3. OneHandlerPerEvent' /\ JobOwnsRow' /\ ProcessedWasApplied'
    BY <1>6 DEF Reply, InboxInv, OneHandlerPerEvent, JobOwnsRow,
                ProcessedWasApplied
  <2> QED BY <2>1, <2>2, <2>3 DEF InboxInv
<1>7. ASSUME NEW d \in Deliveries, DispatchReturns(d) \/ DispatchThrows(d)
      PROVE  InboxInv'
  <2> USE <1>7, <1>t DEF DispatchReturns, DispatchThrows, GoJob, InboxInv
  <2>1. TypeOK'
    BY DEF TypeOK, JobStates
  <2>2. OneHandlerPerEvent' /\ JobOwnsRow'
    BY DEF OneHandlerPerEvent, JobOwnsRow, TypeOK
  <2>3. RowExists' /\ JobFollowsClaim'
    BY DEF RowExists, JobFollowsClaim, TypeOK
  <2>4. ProcessedWasApplied' /\ AckedIsRecorded'
    BY DEF ProcessedWasApplied, AckedIsRecorded, TypeOK
  <2> QED BY <2>1, <2>2, <2>3, <2>4
<1>8. ASSUME NEW d \in Deliveries, MarkProcessed(d) \/ MarkProcessedError(d)
      PROVE  InboxInv'
  <2> USE <1>8, <1>t DEF MarkProcessed, MarkProcessedError, FailedWrite,
                         ProcessedIfProcessing, SetStatus, GoJob, InboxInv
  <2>1. TypeOK'
    BY MaxOutagesAssumption DEF TypeOK, JobStates, Statuses
  <2>2. \A c \in Deliveries : c # d /\ job[c] # "none" => ev[c] # ev[d]
    BY DEF OneHandlerPerEvent, TypeOK, JobStates
  <2>3. OneHandlerPerEvent' /\ JobOwnsRow'
    BY <2>2 DEF OneHandlerPerEvent, JobOwnsRow, TypeOK
  <2>4. RowExists' /\ JobFollowsClaim'
    BY DEF RowExists, JobFollowsClaim, TypeOK
  <2>5. ProcessedWasApplied' /\ AckedIsRecorded'
    BY DEF ProcessedWasApplied, AckedIsRecorded, JobOwnsRow, TypeOK
  <2> QED BY <2>1, <2>3, <2>4, <2>5
<1>9. ASSUME NEW d \in Deliveries, MarkFailed(d) PROVE InboxInv'
  <2> USE <1>9, <1>t DEF MarkFailed, SetStatus, GoJob, InboxInv
  <2>1. TypeOK'
    BY DEF TypeOK, JobStates, Statuses
  <2>2. \A c \in Deliveries : c # d /\ job[c] # "none" => ev[c] # ev[d]
    BY DEF OneHandlerPerEvent, TypeOK, JobStates
  <2>3. OneHandlerPerEvent' /\ JobOwnsRow'
    BY <2>2 DEF OneHandlerPerEvent, JobOwnsRow, TypeOK
  <2>4. RowExists' /\ JobFollowsClaim'
    BY DEF RowExists, JobFollowsClaim, TypeOK
  <2>5. ProcessedWasApplied' /\ AckedIsRecorded'
    BY DEF ProcessedWasApplied, AckedIsRecorded, TypeOK
  <2> QED BY <2>1, <2>3, <2>4, <2>5
<1>10. ASSUME Crash \/ \E d \in Deliveries : MarkFailedError(d)
       PROVE  InboxInv'
  <2> USE <1>10, <1>t, MaxOutagesAssumption
      DEF Crash, MarkFailedError, ProcessDies, SetStatus, InboxInv
  <2>1. TypeOK'
    BY DEF TypeOK, HttpStates, JobStates, Statuses
  <2>2. OneHandlerPerEvent' /\ JobOwnsRow' /\ RowExists' /\ JobFollowsClaim'
    BY DEF OneHandlerPerEvent, JobOwnsRow, RowExists, JobFollowsClaim
  <2>3. ProcessedWasApplied' /\ AckedIsRecorded'
    BY DEF ProcessedWasApplied, AckedIsRecorded, TypeOK
  <2> QED BY <2>1, <2>2, <2>3
<1>11. CASE UNCHANGED vars
  BY <1>11 DEF vars, InboxInv, TypeOK, OneHandlerPerEvent, JobOwnsRow, RowExists,
     JobFollowsClaim, ProcessedWasApplied, AckedIsRecorded
<1> QED
  BY <1>1, <1>2, <1>3, <1>4, <1>5, <1>6, <1>7, <1>8, <1>9, <1>10, <1>11
  DEF Next, HttpStep, JobStep

\* The inductive invariant holds in every reachable state.
THEOREM InboxInvariant == Spec => []InboxInv
  BY InitInv, NextInv, PTL DEF Spec

\* Every variable keeps its type.
THEOREM TypeCorrect == Spec => []TypeOK
<1>1. InboxInv => TypeOK
  BY DEF InboxInv
<1> QED BY <1>1, InboxInvariant, PTL

\* Two background jobs never handle one event at the same time, for any number
\* of deliveries: the claim in StripeWebhookEvent is exclusive.
THEOREM ExclusiveHandling == Spec => []OneHandlerPerEvent
<1>1. InboxInv => OneHandlerPerEvent
  BY DEF InboxInv
<1> QED BY <1>1, InboxInvariant, PTL

\* A row that says PROCESSED was handled to the end.
THEOREM ProcessedIsTrue == Spec => []ProcessedWasApplied
<1>1. InboxInv => ProcessedWasApplied
  BY DEF InboxInv
<1> QED BY <1>1, InboxInvariant, PTL

\* Stripe is never told 200 of an event without a row.
THEOREM AckedIsNotForgotten == Spec => []AckedIsRecorded
<1>1. InboxInv => AckedIsRecorded
  BY DEF InboxInv
<1> QED BY <1>1, InboxInvariant, PTL

-----------------------------------------------------------------------------
(* The inbox implements EventLifecycle.                                      *)

\* A step that touches one delivery and the row of its event moves the phase of
\* that event alone.
LEMMA OnePhaseMoves ==
  ASSUME NEW d \in Deliveries, ev[d] \in Events, ev' = ev,
         \A c \in Deliveries \ {d} : job'[c] = job[c],
         \A f \in Events \ {ev[d]} : status'[f] = status[f]
  PROVE  Phase' = [Phase EXCEPT ![ev[d]] = Phase'[ev[d]]]
<1>1. \A f \in Events \ {ev[d]} : Working(f)' <=> Working(f)
  BY DEF Working
<1>2. \A f \in Events \ {ev[d]} : Phase'[f] = Phase[f]
  BY <1>1 DEF Phase
<1> DEFINE P == Phase
           Q == Phase'
           R == [P EXCEPT ![ev[d]] = Q[ev[d]]]
<1>3. /\ P = [f \in Events |-> P[f]] /\ Q = [f \in Events |-> Q[f]]
      /\ DOMAIN P = Events /\ DOMAIN Q = Events
  BY DEF Phase
<1>4. \A f \in Events \ {ev[d]} : Q[f] = P[f]
  BY <1>2
<1> HIDE DEF P, Q
<1>5. R = [f \in Events |-> IF f = ev[d] THEN Q[f] ELSE P[f]]
  BY <1>3
<1>6. Q = R
  BY <1>3, <1>4, <1>5
<1> QED BY <1>6 DEF P, Q

\* A step that changes neither who works on what nor any row is invisible.
LEMMA PhaseUnchanged ==
  ASSUME status' = status, \A e \in Events : Working(e)' <=> Working(e)
  PROVE  Phase' = Phase
  BY DEF Phase

\* Nobody else works on the event of a delivery that has a job.
LEMMA OnlyWorker ==
  ASSUME InboxInv, NEW d \in Deliveries, job[d] # "none"
  PROVE  /\ \A c \in Deliveries \ {d} : job[c] = "none" \/ ev[c] # ev[d]
         /\ Phase[ev[d]] = "running"
<1>1. \A c \in Deliveries \ {d} : job[c] = "none" \/ ev[c] # ev[d]
  BY DEF InboxInv, OneHandlerPerEvent
<1>2. Working(ev[d]) /\ ev[d] \in Events
  BY DEF Working, InboxInv, TypeOK
<1> QED BY <1>1, <1>2 DEF Phase

\* A job has no row that is absent or FAILED.
LEMMA UnclaimedIsIdle ==
  ASSUME InboxInv, NEW e \in Events, status[e] \in {"absent", "FAILED"}
  PROVE  /\ ~Working(e)
         /\ Phase[e] = IF status[e] = "absent" THEN "unseen" ELSE "failed"
<1>1. ~Working(e)
  BY DEF InboxInv, TypeOK, JobStates, JobOwnsRow, Working
<1> QED BY <1>1 DEF Phase

\* The claim of an absent or FAILED row is a Start.
LEMMA ClaimStarts ==
  ASSUME InboxInv, NEW d \in Deliveries, Claimed(d),
         status[ev[d]] \in {"absent", "FAILED"}
  PROVE  Lifecycle!Next
<1>1. ev[d] \in Events /\ job \in [Deliveries -> JobStates]
        /\ status \in [Events -> Statuses]
  BY DEF InboxInv, TypeOK
<1>2. Phase[ev[d]] \in {"unseen", "failed"}
  BY <1>1, UnclaimedIsIdle
<1>3. Phase'[ev[d]] = "running"
  BY <1>1 DEF Claimed, GoJob, Phase, Working
<1>4. Phase' = [Phase EXCEPT ![ev[d]] = Phase'[ev[d]]]
  BY <1>1, OnePhaseMoves DEF Claimed, GoJob, SetStatus
<1> QED BY <1>1, <1>2, <1>3, <1>4
        DEF Lifecycle!Next, Lifecycle!Start, Lifecycle!Move

\* A failed insert or a failed claim is invisible, or loses the claim.
LEMMA LostClaims ==
  ASSUME InboxInv, NEW d \in Deliveries, NEW s \in Statuses,
         FailedWrite(ev[d], s), UNCHANGED <<job, ev>>,
         \/ s = status[ev[d]]
         \/ s = "PROCESSING" /\ status[ev[d]] \in {"absent", "FAILED"}
  PROVE  Lifecycle!Next \/ Phase' = Phase
<1>1. ev[d] \in Events /\ status \in [Events -> Statuses]
  BY DEF InboxInv, TypeOK
<1>2. \A e \in Events : Working(e)' <=> Working(e)
  BY DEF Working
<1>3. CASE status' = status
  BY <1>2, <1>3, PhaseUnchanged
<1>4. CASE status' # status
  <2>1. /\ status[ev[d]] \in {"absent", "FAILED"}
        /\ status' = [status EXCEPT ![ev[d]] = "PROCESSING"]
    BY <1>1, <1>4 DEF FailedWrite, SetStatus
  <2>2. Phase[ev[d]] \in {"unseen", "failed"} /\ ~Working(ev[d])
    BY <1>1, <2>1, UnclaimedIsIdle
  <2>3. Phase'[ev[d]] = "stranded"
    BY <1>1, <1>2, <2>1, <2>2 DEF Phase
  <2>4. Phase' = [Phase EXCEPT ![ev[d]] = Phase'[ev[d]]]
    BY <1>1, <2>1, OnePhaseMoves
  <2> QED BY <1>1, <2>2, <2>3, <2>4
          DEF Lifecycle!Next, Lifecycle!LoseClaim, Lifecycle!Move
<1> QED BY <1>3, <1>4

\* Every step of the inbox is a step of the lifecycle or leaves it alone.
LEMMA NextRefines ==
  InboxInv /\ [Next]_vars => [Lifecycle!Next]_Phase
<1> SUFFICES ASSUME InboxInv, [Next]_vars
             PROVE  Lifecycle!Next \/ Phase' = Phase
  OBVIOUS
<1>t. TypeOK
  BY DEF InboxInv
<1>1. ASSUME NEW d \in Deliveries, NEW e \in Events, Receive(d, e)
      PROVE  Phase' = Phase
  BY <1>1, <1>t, PhaseUnchanged DEF Receive, Working, TypeOK
<1>2. ASSUME NEW d \in Deliveries, InsertEvent(d) PROVE Lifecycle!Next
  BY <1>2, ClaimStarts DEF InsertEvent
<1>3. ASSUME NEW d \in Deliveries,
             InsertDuplicate(d) \/ LookupEvent(d) \/ LookupError(d) \/ Reply(d)
      PROVE  Phase' = Phase
  BY <1>3, PhaseUnchanged
  DEF InsertDuplicate, LookupEvent, Ignored, LookupError, Reply, Working
<1>4. ASSUME NEW d \in Deliveries, InsertError(d) \/ ClaimError(d)
      PROVE  Lifecycle!Next \/ Phase' = Phase
  <2>1. status[ev[d]] \in Statuses
    BY <1>t DEF TypeOK
  <2> QED BY <1>4, <2>1, LostClaims DEF InsertError, ClaimError, Statuses
<1>5. ASSUME NEW d \in Deliveries, ClaimRetry(d)
      PROVE  Lifecycle!Next \/ Phase' = Phase
  BY <1>5, ClaimStarts, PhaseUnchanged DEF ClaimRetry, Ignored, Working
<1>6. ASSUME NEW d \in Deliveries, DispatchReturns(d) \/ DispatchThrows(d)
      PROVE  Phase' = Phase
  BY <1>6, <1>t, PhaseUnchanged
  DEF DispatchReturns, DispatchThrows, GoJob, Working, TypeOK
<1>7. ASSUME NEW d \in Deliveries, MarkProcessed(d) PROVE Lifecycle!Next
  <2> USE <1>7, <1>t DEF MarkProcessed, SetStatus, GoJob, TypeOK
  <2>1. /\ \A c \in Deliveries \ {d} : job[c] = "none" \/ ev[c] # ev[d]
        /\ Phase[ev[d]] = "running"
    BY OnlyWorker
  <2>2. ~Working(ev[d])'
    BY <2>1 DEF Working
  <2>3. Phase'[ev[d]] = "handled"
    BY <2>2 DEF Phase, InboxInv, JobOwnsRow, ProcessedIfProcessing
  <2>4. Phase' = [Phase EXCEPT ![ev[d]] = Phase'[ev[d]]]
    BY OnePhaseMoves
  <2> QED BY <2>1, <2>3, <2>4
          DEF Lifecycle!Next, Lifecycle!Complete, Lifecycle!Move
<1>8. ASSUME NEW d \in Deliveries, MarkProcessedError(d) PROVE Phase' = Phase
  <2> USE <1>8, <1>t DEF MarkProcessedError, FailedWrite, SetStatus, GoJob, TypeOK
  <2>1. \A e \in Events : Working(e)' <=> Working(e)
    BY DEF Working
  <2>2. Phase[ev[d]] = "running" /\ Phase'[ev[d]] = "running"
    BY <2>1, OnlyWorker DEF Phase
  <2>3. Phase' = [Phase EXCEPT ![ev[d]] = Phase'[ev[d]]]
    BY OnePhaseMoves
  <2> QED BY <2>2, <2>3 DEF Phase
<1>9. ASSUME NEW d \in Deliveries, MarkFailed(d) PROVE Lifecycle!Next
  <2> USE <1>9, <1>t DEF MarkFailed, SetStatus, GoJob, TypeOK
  <2>1. /\ \A c \in Deliveries \ {d} : job[c] = "none" \/ ev[c] # ev[d]
        /\ Phase[ev[d]] = "running"
    BY OnlyWorker
  <2>2. ~Working(ev[d])'
    BY <2>1 DEF Working
  <2>3. Phase'[ev[d]] = "failed"
    BY <2>2 DEF Phase
  <2>4. Phase' = [Phase EXCEPT ![ev[d]] = Phase'[ev[d]]]
    BY OnePhaseMoves
  <2> QED BY <2>1, <2>3, <2>4
          DEF Lifecycle!Next, Lifecycle!Fail, Lifecycle!Move
<1>10. ASSUME Crash \/ \E d \in Deliveries : MarkFailedError(d)
       PROVE  Lifecycle!Next
  <2>1. \A e \in Events : ~Working(e)'
    BY <1>10 DEF Crash, MarkFailedError, ProcessDies, Working
  <2>2. \A e \in Events : ~Working(e) => status'[e] = status[e]
    BY <1>10, <1>t DEF Crash, MarkFailedError, SetStatus, Working, TypeOK
  <2>3. \A e \in Events : Working(e) => status'[e] # "absent"
    BY <1>10, <1>t DEF Crash, MarkFailedError, SetStatus, Working, TypeOK,
                       JobStates, InboxInv, JobOwnsRow
  <2>4. Phase' \in [Events -> Lifecycle!Phases \ {"running"}]
    BY <2>1 DEF Phase, Lifecycle!Phases
  <2>5. \A e \in Events :
          \/ Phase[e] = "running"
               /\ Phase'[e] \in {"stranded", "handled", "failed"}
          \/ Phase[e] # "running" /\ Phase'[e] = Phase[e]
    BY <2>1, <2>2, <2>3 DEF Phase
  <2> QED BY <2>4, <2>5 DEF Lifecycle!Next, Lifecycle!Outage
<1>11. CASE UNCHANGED vars
  BY <1>11, PhaseUnchanged DEF vars, Working
<1> QED
  BY <1>1, <1>2, <1>3, <1>4, <1>5, <1>6, <1>7, <1>8, <1>9, <1>10, <1>11
  DEF Next, HttpStep, JobStep

\* The inbox implements the lifecycle of one phase per event: no event is
\* handled twice at once, none is handled again after it was handled, and one
\* that an outage stranded is never handled again.
THEOREM InboxImplementsLifecycle == Spec => ImplementsLifecycle
<1>1. Init => Lifecycle!Init
  BY DEF Init, Lifecycle!Init, Phase, Working
<1> QED BY <1>1, InboxInvariant, NextRefines, PTL
        DEF Spec, ImplementsLifecycle, Lifecycle!Spec

\* An event that is PROCESSED with no job in hand stays so: no delivery, however
\* old the row it read, reopens it.
THEOREM SettledIsFinal == Spec => SettledStaysSettled
<1>1. ASSUME InboxInv, [Next]_vars
      PROVE  [\A e \in Events : status[e] = "PROCESSED" /\ ~Working(e)
                => status'[e] = "PROCESSED" /\ ~Working(e)']_vars
  <2> SUFFICES ASSUME NEW e \in Events, status[e] = "PROCESSED", ~Working(e)
               PROVE  status'[e] = "PROCESSED" /\ ~Working(e)'
    OBVIOUS
  <2>1. Phase[e] = "handled"
    BY DEF Phase
  <2>2. Phase'[e] = "handled"
    BY <1>1, <2>1, NextRefines
    DEF Lifecycle!Next, Lifecycle!Start, Lifecycle!LoseClaim, Lifecycle!Complete,
        Lifecycle!Fail, Lifecycle!Move, Lifecycle!Outage, Phase
  <2> QED BY <2>2 DEF Phase
<1> QED BY <1>1, InboxInvariant, PTL DEF Spec, SettledStaysSettled

-----------------------------------------------------------------------------
(* Deliveries that are ignored.                                              *)

\* InboxInv says of a job that it has its row, not of a row that it has a job:
\* an outage leaves one without.
Attended == outages = 0 => \A e \in Events : status[e] = "PROCESSING" => Working(e)

LEMMA NextAttended == InboxInv /\ Attended /\ [Next]_vars => Attended'
<1> SUFFICES ASSUME InboxInv, Attended, [Next]_vars, outages' = 0,
                    NEW e \in Events, status'[e] = "PROCESSING"
             PROVE  Working(e)'
  BY DEF Attended
<1> USE DEF SetStatus, GoHttp, GoJob
<1>1. TypeOK
  BY DEF InboxInv
<1>2. outages = 0
  <2>1. outages' = outages \/ outages' = outages + 1
    BY DEF Next, Receive, HttpStep, JobStep, InsertEvent, InsertDuplicate, InsertError,
           LookupEvent, LookupError, ClaimRetry, ClaimError, Reply, Claimed, Ignored,
           FailedWrite, DispatchReturns, DispatchThrows, MarkProcessed,
           MarkProcessedError, MarkFailed, MarkFailedError, Crash, ProcessDies, vars
  <2> QED BY <1>1, <2>1, MaxOutagesAssumption DEF TypeOK
<1>3. status[e] = "PROCESSING" => Working(e)
  BY <1>2 DEF Attended
<1>4. ASSUME NEW d \in Deliveries, NEW f \in Events, Receive(d, f) PROVE Working(e)'
  BY <1>1, <1>3, <1>4 DEF Receive, Working, TypeOK
<1>5. ASSUME NEW d \in Deliveries, Claimed(d) PROVE Working(e)'
  BY <1>1, <1>3, <1>5 DEF Claimed, Working, TypeOK
<1>6. ASSUME NEW d \in Deliveries, HttpStep(d) PROVE Working(e)'
  <2>1. CASE InsertEvent(d)
    BY <1>5, <2>1 DEF InsertEvent
  <2>2. CASE ClaimRetry(d) /\ Claimed(d)
    BY <1>5, <2>2
  <2>3. CASE UNCHANGED <<status, job, ev>>
    BY <1>3, <2>3 DEF Working
  <2>4. CASE InsertError(d) \/ ClaimError(d)
    BY <1>2, <2>3, <2>4 DEF InsertError, ClaimError, FailedWrite
  <2> QED BY <1>6, <2>1, <2>2, <2>3, <2>4
          DEF HttpStep, InsertDuplicate, LookupEvent, Ignored, LookupError, ClaimRetry, Reply
<1>7. ASSUME NEW d \in Deliveries, NEW s \in JobStates \ {"none"}, GoJob(d, s),
             UNCHANGED <<status, ev>>
      PROVE  Working(e)'
  BY <1>1, <1>3, <1>7 DEF Working, TypeOK
<1>8. ASSUME NEW d \in Deliveries, JobStep(d) PROVE Working(e)'
  <2>1. CASE DispatchReturns(d)
    BY <1>7, <2>1 DEF DispatchReturns, JobStates
  <2>2. CASE DispatchThrows(d)
    BY <1>7, <2>2 DEF DispatchThrows, JobStates
  <2>3. CASE MarkProcessedError(d)
    <3>1. UNCHANGED <<status, ev>> /\ GoJob(d, "markFailed")
      <4>1. outages' # outages + 1
        BY <1>2
      <4> QED BY <2>3, <4>1 DEF MarkProcessedError, FailedWrite
    <3> QED BY <1>7, <3>1 DEF JobStates
  <2>4. CASE MarkProcessed(d) \/ MarkFailed(d)
    <3>1. e # ev[d] /\ status[e] = "PROCESSING"
      BY <1>1, <2>4 DEF MarkProcessed, MarkFailed, ProcessedIfProcessing, TypeOK
    <3>2. PICK c \in Deliveries : job[c] # "none" /\ ev[c] = e
      BY <1>3, <3>1 DEF Working
    <3> QED BY <1>1, <2>4, <3>1, <3>2 DEF MarkProcessed, MarkFailed, Working, TypeOK
  <2>5. CASE MarkFailedError(d)
    BY <1>2, <2>5 DEF MarkFailedError, ProcessDies
  <2> QED BY <1>8, <2>1, <2>2, <2>3, <2>4, <2>5 DEF JobStep
<1>9. ~Crash
  BY <1>2 DEF Crash, ProcessDies
<1>10. CASE UNCHANGED vars
  BY <1>3, <1>10 DEF vars, Working
<1> QED BY <1>4, <1>6, <1>8, <1>9, <1>10 DEF Next

\* Before the first outage no delivery is dropped: the event of one that is
\* refused the claim is processed, or has a job in hand.
THEOREM NoneIsDropped == Spec => IgnoredIsInGoodHands
<1>1. Init => Attended
  BY DEF Init, Attended
<1>2. ASSUME InboxInv, Attended, [Next]_vars
      PROVE  [\A d \in Deliveries :
                 Refused(d) /\ outages = 0
                    => status[ev[d]] = "PROCESSED" \/ Working(ev[d])]_vars
  <2> SUFFICES ASSUME NEW d \in Deliveries, Refused(d), outages = 0,
                      status[ev[d]] # "PROCESSED"
               PROVE  Working(ev[d])
    OBVIOUS
  <2>1. TypeOK /\ status[ev[d]] \in Statuses /\ ev[d] \in Events
    BY <1>2 DEF InboxInv, TypeOK
  <2>2. status[ev[d]] # "absent"
    BY <1>2 DEF Refused, InboxInv, RowExists
  <2>3. status[ev[d]] # "FAILED"
    <3>1. /\ http[d] \in {"lookup", "claim"} /\ http'[d] = "reply"
          /\ http \in [Deliveries -> HttpStates] /\ job \in [Deliveries -> JobStates]
      BY <2>1 DEF Refused, TypeOK
    <3>2. ASSUME NEW c \in Deliveries, HttpStep(c) PROVE c = d
      BY <3>1, <3>2 DEF HttpStep, GoHttp, InsertEvent, InsertDuplicate, InsertError,
                        LookupEvent, LookupError, ClaimRetry, ClaimError, Reply, Claimed,
                        Ignored
    <3>3. ASSUME NEW c \in Deliveries PROVE ~JobStep(c)
      BY <3>1 DEF JobStep, DispatchReturns, DispatchThrows, MarkProcessed,
                  MarkProcessedError, MarkFailed, MarkFailedError, ProcessDies
    <3>4. ASSUME NEW c \in Deliveries, NEW e \in Events PROVE ~Receive(c, e)
      BY <3>1 DEF Receive, GoHttp
    <3>5. ~Crash /\ http' # http
      BY <3>1 DEF Crash, ProcessDies
    <3>6. HttpStep(d)
      BY <1>2, <3>2, <3>3, <3>4, <3>5 DEF Next, vars
    <3>7. ~Claimed(d)
      BY <3>1 DEF Claimed, GoJob, Refused
    <3> QED BY <3>1, <3>6, <3>7
            DEF HttpStep, GoHttp, InsertEvent, InsertDuplicate, InsertError, LookupEvent,
                LookupError, ClaimRetry, ClaimError, Reply, Ignored
  <2> QED BY <1>2, <2>1, <2>2, <2>3 DEF Attended, Statuses
<1> QED BY <1>1, <1>2, NextAttended, InboxInvariant, PTL DEF Spec, IgnoredIsInGoodHands
=============================================================================
