------------------------- MODULE VideoPipelineProofs --------------------------
(* What VideoPipeline guarantees for any number of videos, requests, jobs,   *)
(* attempts and faults.                                                      *)
EXTENDS VideoPipeline, TLAPS

Busy == Running \cup {"waiting"}

\* The part of TypeOK that is about the queue.
JobsOK == /\ job \in [Jobs -> Job \cup {NoJob}]
          /\ \A j \in Jobs : job[j].at \in Busy => job[j].left # 0

\* A job that is at some step is a job.
LEMMA BusyIsJob ==
  ASSUME TypeOK, NEW j \in Jobs, job[j].at \in Busy
  PROVE  /\ job[j] \in Job
         /\ job[j].video \in Videos
         /\ job[j].left \in 1..Attempts
<1>1. job[j] # NoJob
  BY DEF NoJob, Busy, Running
<1>2. job[j] \in Job
  BY <1>1 DEF TypeOK
<1> QED BY <1>2, PipelineAssumption DEF TypeOK, Job, Busy

\* A job that goes to another step keeps the rest.
LEMMA MoveJob ==
  ASSUME TypeOK, NEW j \in Jobs, job[j].at \in Busy,
         NEW p \in Busy \cup {"done"}, job' = [job EXCEPT ![j].at = p]
  PROVE  /\ JobsOK'
         /\ job'[j].at = p /\ job'[j].video = job[j].video
         /\ \A i \in Jobs \ {j} : job'[i] = job[i]
<1> DEFINE new == [job[j] EXCEPT !.at = p]
<1>1. job[j] \in Job /\ job[j].left # 0
  BY BusyIsJob DEF TypeOK, Busy
<1>2. /\ new \in Job
      /\ new.at = p /\ new.video = job[j].video /\ new.left = job[j].left
  BY <1>1 DEF Job, Busy
<1>3. job' = [job EXCEPT ![j] = new]
  OBVIOUS
<1> HIDE DEF new
<1>4. job'[j] = new /\ \A i \in Jobs \ {j} : job'[i] = job[i]
  BY <1>3 DEF TypeOK
<1>5. job' \in [Jobs -> Job \cup {NoJob}]
  BY <1>2, <1>3 DEF TypeOK
<1>6. \A i \in Jobs : job'[i].at \in Busy => job'[i].left # 0
  BY <1>1, <1>2, <1>4 DEF TypeOK, Busy
<1> QED BY <1>2, <1>4, <1>5, <1>6 DEF JobsOK

\* An attempt that ends leaves a job that waits, or is done with none left.
LEMMA EndsJob ==
  ASSUME TypeOK, NEW j \in Jobs, job[j].at \in Busy, EndAttempt(j)
  PROVE  /\ JobsOK'
         /\ job'[j].at = IF job[j].left = 1 THEN "done" ELSE "waiting"
         /\ job'[j].video = job[j].video
         /\ \A i \in Jobs \ {j} : job'[i] = job[i]
<1> DEFINE p == IF job[j].left = 1 THEN "done" ELSE "waiting"
           new == [job[j] EXCEPT !.at = p, !.left = @ - 1]
<1>1. job[j] \in Job /\ job[j].left \in 1..Attempts
  BY BusyIsJob
<1>2. /\ new \in Job
      /\ new.at = p /\ new.video = job[j].video
      /\ new.at = "waiting" => new.left # 0
  <2>1. p \in Running \cup {"waiting", "done"} /\ job[j].left - 1 \in 0..Attempts
    BY <1>1, PipelineAssumption
  <2>2. p = "waiting" => job[j].left - 1 # 0
    BY <1>1
  <2> HIDE DEF p
  <2> QED BY <1>1, <2>1, <2>2 DEF Job
<1>3. job' = [job EXCEPT ![j] = new]
  BY DEF EndAttempt
<1> HIDE DEF new
<1>4. job'[j] = new /\ \A i \in Jobs \ {j} : job'[i] = job[i]
  BY <1>3 DEF TypeOK
<1>5. job' \in [Jobs -> Job \cup {NoJob}]
  BY <1>2, <1>3 DEF TypeOK
<1>6. \A i \in Jobs : job'[i].at \in Busy => job'[i].left # 0
  <2>1. new.at \in Busy => new.left # 0
    BY <1>2 DEF Busy, Running
  <2> QED BY <2>1, <1>4 DEF TypeOK, Busy
<1> QED BY <1>2, <1>4, <1>5, <1>6 DEF JobsOK

\* A job that is added waits, and no other changes.
LEMMA AddsJob ==
  ASSUME TypeOK, NEW v \in Videos, AddJob(v)
  PROVE  /\ JobsOK'
         /\ \E j \in Jobs : /\ job[j] = NoJob
                            /\ job'[j].at = "waiting" /\ job'[j].video = v
                            /\ \A i \in Jobs \ {j} : job'[i] = job[i]
         /\ lost' = lost \ {v}
<1> DEFINE j == CHOOSE i \in Jobs : job[i] = NoJob
           new == [at |-> "waiting", video |-> v, left |-> Attempts, stalls |-> 0,
                   alone |-> TRUE]
<1>1. j \in Jobs /\ job[j] = NoJob
  BY DEF AddJob
<1>2. new \in Job /\ new.at = "waiting" /\ new.video = v /\ new.left # 0
  BY PipelineAssumption DEF Job
<1>3. job' = [job EXCEPT ![j] = new] /\ lost' = lost \ {v}
  BY DEF AddJob
<1> HIDE DEF new, j
<1>4. job'[j] = new /\ \A i \in Jobs \ {j} : job'[i] = job[i]
  BY <1>1, <1>3 DEF TypeOK
<1>5. job' \in [Jobs -> Job \cup {NoJob}]
  BY <1>1, <1>2, <1>3 DEF TypeOK
<1>6. \A i \in Jobs : job'[i].at \in Busy => job'[i].left # 0
  BY <1>2, <1>4 DEF TypeOK, Busy
<1> QED BY <1>1, <1>2, <1>3, <1>4, <1>5, <1>6 DEF JobsOK

\* A job that starts runs, and of the others only `alone` changes.
LEMMA StartsJob ==
  ASSUME TypeOK, NEW j \in Jobs, StartJob(j)
  PROVE  /\ JobsOK'
         /\ \A i \in Jobs : /\ job[i].at \in Busy => job'[i].at \in Busy
                            /\ job'[i].video = job[i].video \/ job[i] = NoJob
                            /\ i # j => job'[i].at = job[i].at
         /\ job[j].at = "waiting" /\ job'[j].at = "read"
<1> DEFINE others == {i \in Active : job[i].video = job[j].video}
           new(i) == IF i = j THEN [job[j] EXCEPT !.at = "read",
                                                 !.alone = @ /\ others = {}]
                     ELSE IF i \in others THEN [job[i] EXCEPT !.alone = FALSE]
                     ELSE job[i]
<1>1. job' = [i \in Jobs |-> new(i)] /\ job[j].at = "waiting"
  BY DEF StartJob
<1>2. ASSUME NEW i \in Jobs
      PROVE  /\ new(i) \in Job \cup {NoJob}
             /\ new(i).at = IF i = j THEN "read" ELSE job[i].at
             /\ job[i] = NoJob \/ (new(i).video = job[i].video /\ new(i).left = job[i].left)
  <2>1. CASE i = j
    <3>1. job[j] \in Job
      BY <1>1, BusyIsJob DEF Busy
    <3>2. new(i) = [job[j] EXCEPT !.at = "read", !.alone = @ /\ others = {}]
      BY <2>1
    <3> HIDE DEF others, new
    <3> QED BY <2>1, <3>1, <3>2 DEF Job, Running
  <2>2. CASE i # j /\ i \in others
    <3>1. job[i] \in Job
      BY <2>2, BusyIsJob DEF Busy, Active
    <3>2. new(i) = [job[i] EXCEPT !.alone = FALSE]
      BY <2>2
    <3> HIDE DEF others, new
    <3> QED BY <2>2, <3>1, <3>2 DEF Job
  <2>3. CASE i # j /\ i \notin others
    BY <2>3 DEF TypeOK
  <2> QED BY <2>1, <2>2, <2>3
<1> HIDE DEF new, others
<1>3. job' \in [Jobs -> Job \cup {NoJob}]
  BY <1>1, <1>2
<1>4. \A i \in Jobs : job'[i] = new(i)
  BY <1>1
<1>5. \A i \in Jobs : job'[i].at \in Busy => job'[i].left # 0
  <2> SUFFICES ASSUME NEW i \in Jobs, job'[i].at \in Busy
               PROVE  job'[i].left # 0
    OBVIOUS
  <2>1. job[i].at \in Busy
    BY <1>1, <1>2, <1>4 DEF Busy
  <2>2. job[i] # NoJob /\ job[i].left # 0
    BY <2>1 DEF NoJob, Busy, Running, TypeOK
  <2> QED BY <1>2, <1>4, <2>2
<1>6. ASSUME NEW i \in Jobs
      PROVE  /\ job[i].at \in Busy => job'[i].at \in Busy
             /\ job'[i].video = job[i].video \/ job[i] = NoJob
             /\ i # j => job'[i].at = job[i].at
  BY <1>2, <1>4 DEF Busy, Running
<1>7. job'[j].at = "read"
  BY <1>2, <1>4
<1> QED BY <1>1, <1>3, <1>5, <1>6, <1>7 DEF JobsOK

\* A crash leaves no job running.
LEMMA CrashesJobs ==
  ASSUME TypeOK, Crash
  PROVE  /\ JobsOK'
         /\ \A i \in Jobs :
               job[i].at \in Busy =>
                  /\ job'[i].video = job[i].video
                  /\ \/ job'[i].at = "waiting"
                     \/ job[i].at \in Running /\ job[i].video \in lost'
<1> DEFINE new(i) == IF i \in Active THEN Stalled(i) ELSE job[i]
<1>1. job' = [i \in Jobs |-> new(i)]
  BY DEF Crash
<1>2. ASSUME NEW i \in Active
      PROVE  /\ Stalled(i) \in Job
             /\ Stalled(i).video = job[i].video
             /\ Stalled(i).left = job[i].left
             /\ Stalled(i).at \in {"waiting", "done"}
             /\ Stalled(i).at = "waiting" \/ job[i].stalls = MaxStalls
  <2>1. i \in Jobs /\ job[i] \in Job
    BY BusyIsJob DEF Active, Busy
  <2>2. CASE job[i].stalls < MaxStalls
    <3>1. job[i].stalls + 1 \in 0..MaxStalls
      BY <2>1, <2>2, PipelineAssumption DEF Job
    <3>2. Stalled(i) = [job[i] EXCEPT !.at = "waiting", !.stalls = @ + 1]
      BY <2>2 DEF Stalled
    <3> QED BY <2>1, <3>1, <3>2 DEF Job
  <2>3. CASE ~(job[i].stalls < MaxStalls)
    <3>1. job[i].stalls = MaxStalls
      BY <2>1, <2>3, PipelineAssumption DEF Job
    <3>2. Stalled(i) = [job[i] EXCEPT !.at = "done"]
      BY <2>3 DEF Stalled
    <3> QED BY <2>1, <3>1, <3>2 DEF Job
  <2> QED BY <2>2, <2>3
<1> HIDE DEF new
<1>3. \A i \in Jobs : job'[i] = new(i)
  BY <1>1
<1>4. \A i \in Jobs : new(i) = IF i \in Active THEN Stalled(i) ELSE job[i]
  BY DEF new
<1>5. job' \in [Jobs -> Job \cup {NoJob}]
  BY <1>1, <1>2, <1>4 DEF TypeOK
<1>6. \A i \in Jobs : job'[i].at \in Busy => job'[i].left # 0
  <2> SUFFICES ASSUME NEW i \in Jobs, job'[i].at \in Busy
               PROVE  job'[i].left # 0
    OBVIOUS
  <2>1. CASE i \in Active
    BY <1>2, <1>3, <1>4, <2>1 DEF Active, TypeOK
  <2>2. CASE i \notin Active
    BY <1>3, <1>4, <2>2 DEF TypeOK, Busy
  <2> QED BY <2>1, <2>2
<1>7. ASSUME NEW i \in Jobs, job[i].at \in Busy
      PROVE  /\ job'[i].video = job[i].video
             /\ \/ job'[i].at = "waiting"
                \/ job[i].at \in Running /\ job[i].video \in lost'
  <2>1. CASE i \in Active
    <3>1. job[i].stalls = MaxStalls => job[i].video \in lost'
      BY <2>1 DEF Crash
    <3> QED BY <1>2, <1>3, <1>4, <2>1, <3>1 DEF Active
  <2>2. CASE i \notin Active
    BY <1>3, <1>4, <1>7, <2>2 DEF Active, Busy
  <2> QED BY <2>1, <2>2
<1> QED BY <1>5, <1>6, <1>7 DEF JobsOK

\* The part of TypeOK that is about requests.
RequestsOK ==
    /\ pc \in [Requests -> RequestSteps]
    /\ req \in [Requests -> LoopRequest \cup VideoRequest]
    /\ \A s \in Requests : pc[s] \notin {"idle", "reset"} => req[s] \in VideoRequest

\* A request ends, goes on with what it works on, or takes up something else.
LEMMA AnswersRequest ==
  ASSUME TypeOK, NEW s \in Requests, Answer(s)
  PROVE  RequestsOK' /\ \A t \in Requests \ {s} : pc'[t] = pc[t] /\ req'[t] = req[t]
<1>1. NoRequest \in LoopRequest
  BY DEF NoRequest, LoopRequest, Kinds
<1> QED BY <1>1 DEF TypeOK, RequestsOK, Answer, Goto, RequestSteps

LEMMA MovesRequest ==
  ASSUME TypeOK, NEW s \in Requests, NEW p \in RequestSteps, Goto(s, p), req' = req,
         req[s] \in VideoRequest \/ p = "reset"
  PROVE  /\ RequestsOK'
         /\ pc'[s] = p /\ \A t \in Requests \ {s} : pc'[t] = pc[t] /\ req'[t] = req[t]
BY DEF TypeOK, RequestsOK, Goto, RequestSteps

LEMMA TakesUp ==
  ASSUME TypeOK, NEW s \in Requests, NEW p \in RequestSteps, Goto(s, p),
         NEW q \in LoopRequest \cup VideoRequest, q \in VideoRequest \/ p = "reset",
         req' = [req EXCEPT ![s] = q]
  PROVE  /\ RequestsOK'
         /\ pc'[s] = p /\ req'[s] = q
         /\ \A t \in Requests \ {s} : pc'[t] = pc[t] /\ req'[t] = req[t]
BY DEF TypeOK, RequestsOK, Goto, RequestSteps

\* After a video the loop goes on, or the request ends.
LEMMA NextsVideo ==
  ASSUME TypeOK, NEW s \in Requests, NextVideo(s)
  PROVE  RequestsOK' /\ \A t \in Requests \ {s} : pc'[t] = pc[t] /\ req'[t] = req[t]
<1>1. CASE req[s].todo # {} /\ Goto(s, "reset") /\ UNCHANGED req
  BY <1>1, MovesRequest DEF RequestSteps
<1>2. CASE Answer(s)
  BY <1>2, AnswersRequest
<1> QED BY <1>1, <1>2 DEF NextVideo

\* The part of TypeOK that is about rows and files.
RowsOK == /\ row \in [Videos -> {"absent", "there", "deleted"}]
          /\ {processing, preview, error, used, original} \subseteq [Videos -> BOOLEAN]
          /\ assets \in [Videos -> SUBSET Assets]

\* What the writes to a row make of its columns.
LEMMA SetsError ==
  ASSUME TypeOK, NEW v, NEW e, SetError(v, e)
  PROVE  error' \in [Videos -> BOOLEAN]
<1> DEFINE b == There(v) /\ e
<1>1. b \in BOOLEAN /\ error' = [error EXCEPT ![v] = b]
  BY DEF SetError
<1> HIDE DEF b
<1> QED BY <1>1 DEF TypeOK

LEMMA ResetsRow ==
  ASSUME TypeOK, NEW s, NEW v, ResetRow(s, v)
  PROVE  {processing', preview', error'} \subseteq [Videos -> BOOLEAN]
<1> DEFINE b == preview[v] /\ req[s].kind = "failed"
<1>1. b \in BOOLEAN /\ preview' = [preview EXCEPT ![v] = b]
  BY DEF ResetRow
<1> HIDE DEF b
<1>2. preview' \in [Videos -> BOOLEAN]
  BY <1>1 DEF TypeOK
<1>3. processing' \in [Videos -> BOOLEAN] /\ error' \in [Videos -> BOOLEAN]
  BY DEF ResetRow, TypeOK
<1> QED BY <1>2, <1>3

LEMMA RemovesRow ==
  ASSUME TypeOK, NEW v, RemoveRow(v)
  PROVE  /\ row' \in [Videos -> {"absent", "there", "deleted"}]
         /\ {processing', preview', error'} \subseteq [Videos -> BOOLEAN]
<1>1. CASE There(v) /\ ~used[v]
  <2>1. row' = [row EXCEPT ![v] = "deleted"]
    BY <1>1 DEF RemoveRow
  <2>2. row' \in [Videos -> {"absent", "there", "deleted"}]
    BY <2>1 DEF TypeOK
  <2>3. /\ processing' = [processing EXCEPT ![v] = FALSE]
        /\ preview' = [preview EXCEPT ![v] = FALSE]
        /\ error' = [error EXCEPT ![v] = FALSE]
    BY <1>1 DEF RemoveRow
  <2>4. /\ processing' \in [Videos -> BOOLEAN]
        /\ preview' \in [Videos -> BOOLEAN]
        /\ error' \in [Videos -> BOOLEAN]
    BY <2>3 DEF TypeOK
  <2> QED BY <2>2, <2>4
<1>2. CASE ~(There(v) /\ ~used[v])
  BY <1>2 DEF RemoveRow, TypeOK, columns
<1> QED BY <1>1, <1>2

LEMMA PublishesRow ==
  ASSUME TypeOK, NEW v, Publish(v)
  PROVE  {preview', processing'} \subseteq [Videos -> BOOLEAN]
<1> DEFINE b == preview[v] \/ There(v)
           c == processing[v] /\ ~There(v)
<1>1. b \in BOOLEAN /\ c \in BOOLEAN
  OBVIOUS
<1>2. preview' = [preview EXCEPT ![v] = b] /\ processing' = [processing EXCEPT ![v] = c]
  BY DEF Publish
<1> HIDE DEF b, c
<1> QED BY <1>1, <1>2 DEF TypeOK

LEMMA InitType == Init => TypeOK
<1> SUFFICES ASSUME Init PROVE TypeOK
  OBVIOUS
<1>1. NoRequest \in LoopRequest
  BY DEF NoRequest, LoopRequest, Kinds
<1>2. NoJob.at \notin Running \cup {"waiting"}
  BY DEF NoJob, Running
<1> QED BY <1>1, <1>2, PipelineAssumption DEF Init, TypeOK, RequestSteps

LEMMA TypeRequestStep ==
  ASSUME TypeOK, NEW s \in Requests, RequestStep(s)
  PROVE  TypeOK'
<1>1. ASSUME pc[s] \notin {"idle", "reset"}
      PROVE  req[s] \in VideoRequest /\ req[s].video \in Videos
  BY <1>1 DEF TypeOK, VideoRequest
<1>2. faults' = faults \/ Fault => faults' \in 0..MaxFaults
  BY PipelineAssumption DEF TypeOK, Fault
<1>3. CASE Enqueue(s)
  BY <1>1, <1>2, <1>3, AddsJob, AnswersRequest
     DEF Enqueue, TypeOK, JobsOK, RequestsOK, columns, files, Busy
<1>4. CASE EnqueueFails(s)
  BY <1>1, <1>2, <1>4, AddsJob, MovesRequest
     DEF EnqueueFails, TypeOK, JobsOK, RequestsOK, columns, files, RequestSteps, Busy
<1>5. CASE Unmark(s)
  <2>1. RequestsOK'
    BY <1>1, <1>5, MovesRequest, AnswersRequest DEF Unmark, RequestSteps
  <2>2. processing' \in [Videos -> BOOLEAN]
    BY <1>5 DEF Unmark, TypeOK
  <2> QED BY <1>5, <2>1, <2>2 DEF Unmark, TypeOK, RequestsOK, files, luck
<1>6. CASE Explain(s)
  <2>1. error' \in [Videos -> BOOLEAN]
    BY <1>6 DEF Explain, SetError, There, TypeOK
  <2> QED BY <1>6, <2>1, AnswersRequest DEF Explain, TypeOK, RequestsOK, files, luck
<1>7. CASE Reset(s)
  <2>1. PICK v \in req[s].todo :
           \/ /\ ResetRow(s, v)
              /\ req' = [req EXCEPT ![s] = [kind |-> @.kind, video |-> v,
                                            todo |-> @.todo \ {v}]]
              /\ Goto(s, "requeue")
           \/ ~There(v) /\ Answer(s) /\ UNCHANGED columns
    BY <1>7 DEF Reset
  <2>2. req[s].kind \in Kinds /\ req[s].todo \in SUBSET Videos
    BY DEF TypeOK, LoopRequest, VideoRequest
  <2> DEFINE q == [kind |-> req[s].kind, video |-> v, todo |-> req[s].todo \ {v}]
  <2>3. q \in VideoRequest
    BY <2>1, <2>2 DEF VideoRequest
  <2>4. req' = [req EXCEPT ![s] = q] /\ Goto(s, "requeue") => RequestsOK'
    <3> HIDE DEF q
    <3> QED BY <2>3, TakesUp DEF RequestSteps
  <2>5. RequestsOK'
    <3>1. CASE There(v)
      BY <2>1, <2>4, <3>1
    <3>2. CASE ~There(v)
      BY <2>1, <3>2, AnswersRequest DEF ResetRow
    <3> QED BY <3>1, <3>2
  <2>6. {processing', preview', error'} \subseteq [Videos -> BOOLEAN]
    <3>1. CASE ResetRow(s, v)
      BY <3>1, ResetsRow
    <3>2. CASE ~There(v)
      BY <2>1, <3>2 DEF TypeOK, columns, ResetRow
    <3> QED BY <2>1, <3>1, <3>2
  <2> QED BY <1>7, <2>5, <2>6 DEF Reset, TypeOK, RequestsOK, files, luck
<1>8. CASE Requeue(s)
  BY <1>1, <1>2, <1>8, AddsJob, NextsVideo
     DEF Requeue, TypeOK, JobsOK, RequestsOK, columns, files, Busy
<1>9. CASE RequeueFails(s)
  <2>1. RequestsOK'
    BY <1>9, AnswersRequest, NextsVideo DEF RequeueFails
  <2>2. JobsOK' /\ lost' \subseteq Videos
    BY <1>1, <1>9, AddsJob DEF RequeueFails, TypeOK, JobsOK, Busy
  <2> QED BY <1>2, <1>9, <2>1, <2>2
          DEF RequeueFails, TypeOK, JobsOK, RequestsOK, columns, files, Busy
<1>10. CASE DeleteFiles(s)
  <2>1. RequestsOK'
    BY <1>1, <1>10, MovesRequest DEF DeleteFiles, RequestSteps
  <2>2. original' \in [Videos -> BOOLEAN]
    BY <1>10 DEF DeleteFiles, TypeOK
  <2>3. faults' \in 0..MaxFaults
    BY <1>2, <1>10 DEF DeleteFiles
  <2> QED BY <1>10, <2>1, <2>2, <2>3 DEF DeleteFiles, TypeOK, RequestsOK, columns
<1>11. CASE DeleteRow(s)
  <2>1. RequestsOK'
    BY <1>11, AnswersRequest DEF DeleteRow
  <2>2. RowsOK'
    BY <1>11, RemovesRow DEF DeleteRow, RowsOK, TypeOK, files
  <2> QED BY <1>11, <2>1, <2>2 DEF DeleteRow, TypeOK, RequestsOK, RowsOK, luck
<1>12. CASE DeleteRowFails(s)
  <2>1. RequestsOK'
    BY <1>12, AnswersRequest DEF DeleteRowFails
  <2>2. RowsOK'
    BY <1>12, RemovesRow DEF DeleteRowFails, RowsOK, TypeOK, files, columns
  <2> QED BY <1>2, <1>12, <2>1, <2>2 DEF DeleteRowFails, TypeOK, RequestsOK, RowsOK
<1>13. CASE NoteFails(s)
  <2>1. RequestsOK'
    BY <1>13, AnswersRequest DEF NoteFails
  <2>2. processing' \in [Videos -> BOOLEAN] /\ error' \in [Videos -> BOOLEAN]
    BY <1>13, SetsError DEF NoteFails, TypeOK, columns
  <2>3. UNCHANGED <<row, preview, used, files, job>> /\ lost' \subseteq Videos
    BY <1>1, <1>13 DEF NoteFails, TypeOK, columns
  <2> QED BY <1>2, <1>13, <2>1, <2>2, <2>3 DEF NoteFails, TypeOK, RequestsOK, files
<1>14. CASE ResetFails(s)
  <2>1. RequestsOK'
    BY <1>14, AnswersRequest DEF ResetFails
  <2>2. req[s].todo \subseteq Videos
    BY DEF TypeOK, LoopRequest, VideoRequest
  <2>3. /\ {processing', preview', error'} \subseteq [Videos -> BOOLEAN]
        /\ lost' \subseteq Videos
    <3>1. CASE UNCHANGED <<columns, lost>>
      BY <3>1 DEF TypeOK, columns
    <3>2. ASSUME NEW v \in req[s].todo, ResetRow(s, v), lost' = lost \cup {v}
          PROVE  /\ {processing', preview', error'} \subseteq [Videos -> BOOLEAN]
                 /\ lost' \subseteq Videos
      BY <2>2, <3>2, ResetsRow DEF TypeOK
    <3> QED BY <1>14, <3>1, <3>2 DEF ResetFails
  <2> QED BY <1>2, <1>14, <2>1, <2>3 DEF ResetFails, TypeOK, RequestsOK, files
<1> QED BY <1>3, <1>4, <1>5, <1>6, <1>7, <1>8, <1>9, <1>10, <1>11, <1>12, <1>13, <1>14
        DEF RequestStep

LEMMA TypeJobStep ==
  ASSUME TypeOK, NEW j \in Jobs, JobStep(j)
  PROVE  TypeOK'
<1> USE DEF Busy, Running
<1>1. ASSUME job[j].at \in Busy PROVE job[j].video \in Videos
  BY <1>1, BusyIsJob
<1>2. CASE StartJob(j)
  BY <1>2, StartsJob DEF StartJob, TypeOK, JobsOK, columns, files, requests, luck
<1>3. CASE ReadOriginal(j)
  <2>1. JobsOK'
    BY <1>3, MoveJob DEF ReadOriginal, Step, Running
  <2> QED BY <1>3, <2>1 DEF ReadOriginal, TypeOK, JobsOK, columns, files, requests, luck
<1>4. ASSUME NEW a \in Assets, PutAsset(j, a), job[j].at \in Busy
      PROVE  assets' \in [Videos -> SUBSET Assets]
  BY <1>1, <1>4 DEF PutAsset, TypeOK
<1>5. CASE PutPreview(j)
  <2>1. JobsOK'
    BY <1>5, MoveJob DEF PutPreview, Step
  <2>2. assets' \in [Videos -> SUBSET Assets]
    BY <1>4, <1>5 DEF PutPreview, Step, Assets
  <2> QED BY <1>5, <2>1, <2>2 DEF PutPreview, TypeOK, JobsOK, columns, requests, luck
<1>6. CASE PutThumbnail(j)
  <2>1. JobsOK'
    BY <1>6, MoveJob DEF PutThumbnail, Step
  <2>2. assets' \in [Videos -> SUBSET Assets]
    BY <1>4, <1>6 DEF PutThumbnail, Step, Assets
  <2> QED BY <1>6, <2>1, <2>2 DEF PutThumbnail, TypeOK, JobsOK, columns, requests, luck
<1>7. CASE MarkDone(j)
  <2>1. JobsOK'
    BY <1>7, MoveJob DEF MarkDone, Step, Running
  <2> QED BY <1>7, <2>1, PublishesRow
          DEF MarkDone, TypeOK, JobsOK, files, requests, luck
<1>9. CASE ClearError(j)
  <2>1. JobsOK'
    BY <1>9, MoveJob, EndsJob DEF ClearError, Step
  <2>2. error' \in [Videos -> BOOLEAN]
    BY <1>9, SetsError DEF ClearError
  <2> QED BY <1>9, <2>1, <2>2 DEF ClearError, TypeOK, JobsOK, files, requests, luck
<1>10. CASE ProcessingThrows(j)
  <2>1. JobsOK'
    BY <1>10, MoveJob DEF ProcessingThrows
  <2> QED BY <1>10, <2>1 DEF ProcessingThrows, TypeOK, JobsOK, columns, files, requests, luck
<1>11. CASE MarkFailed(j)
  <2>1. JobsOK'
    BY <1>11, MoveJob, EndsJob DEF MarkFailed, Step
  <2>2. processing' \in [Videos -> BOOLEAN]
    BY <1>11 DEF MarkFailed, TypeOK
  <2> QED BY <1>11, <2>1, <2>2 DEF MarkFailed, TypeOK, JobsOK, files, requests, luck
<1>12. CASE RecordError(j)
  <2>1. JobsOK'
    BY <1>12, EndsJob DEF RecordError
  <2>2. error' \in [Videos -> BOOLEAN]
    BY <1>12, SetsError DEF RecordError
  <2> QED BY <1>12, <2>1, <2>2 DEF RecordError, TypeOK, JobsOK, files, requests, luck
<1>13. CASE CatchFails(j)
  <2>1. JobsOK'
    BY <1>13, EndsJob DEF CatchFails
  <2>2. lost' \subseteq Videos /\ faults' \in 0..MaxFaults
    BY <1>1, <1>13, PipelineAssumption DEF CatchFails, Fault, TypeOK
  <2>3. processing' \in [Videos -> BOOLEAN] /\ error' \in [Videos -> BOOLEAN]
    BY <1>13, SetsError DEF CatchFails, TypeOK, columns
  <2>4. UNCHANGED <<row, preview, used, files, requests>>
    BY <1>13 DEF CatchFails, columns
  <2> QED BY <2>1, <2>2, <2>3, <2>4 DEF TypeOK, JobsOK, files, requests
<1>14. CASE NoDirectory(j)
  <2>1. JobsOK'
    BY <1>14, EndsJob DEF NoDirectory
  <2>2. lost' \subseteq Videos
    BY <1>1, <1>14 DEF NoDirectory, TypeOK
  <2> QED BY <1>14, <2>1, <2>2 DEF NoDirectory, TypeOK, JobsOK, columns, files, requests
<1>15. CASE ReplyLost(j)
  <2>1. JobsOK'
    BY <1>15, MoveJob DEF ReplyLost
  <2>2. assets' \in [Videos -> SUBSET Assets]
    BY <1>4, <1>15 DEF ReplyLost, TypeOK, Assets
  <2>3. {processing', preview', error'} \subseteq [Videos -> BOOLEAN]
    BY <1>15, PublishesRow, SetsError DEF ReplyLost, TypeOK, columns
  <2> QED BY <1>15, <2>1, <2>2, <2>3 DEF ReplyLost, TypeOK, JobsOK, requests, luck
<1> QED BY <1>2, <1>3, <1>5, <1>6, <1>7, <1>9, <1>10, <1>11, <1>12, <1>13, <1>14, <1>15
        DEF JobStep

LEMMA TypeNext == TypeOK /\ [Next]_vars => TypeOK'
<1> SUFFICES ASSUME TypeOK, [Next]_vars PROVE TypeOK'
  OBVIOUS
<1>1. ASSUME NEW s \in Requests, NEW v \in Videos, Create(s, v)
      PROVE  TypeOK'
  <2> DEFINE q == [kind |-> "create", video |-> v, todo |-> {}]
  <2>1. q \in VideoRequest
    BY DEF VideoRequest, Kinds
  <2>2. req' = [req EXCEPT ![s] = q] /\ Goto(s, "enqueue")
    BY <1>1 DEF Create
  <2> HIDE DEF q
  <2>3. RequestsOK'
    BY <2>1, <2>2, TakesUp DEF RequestSteps
  <2>4. row' \in [Videos -> {"absent", "there", "deleted"}]
    BY <1>1 DEF Create, NewRow, TypeOK
  <2>5. processing' \in [Videos -> BOOLEAN]
    BY <1>1 DEF Create, NewRow, TypeOK
  <2>6. UNCHANGED <<preview, error, used, original, assets, job, lost, faults>>
    BY <1>1 DEF Create, NewRow, files, luck
  <2>7. RowsOK'
    BY <2>4, <2>5, <2>6 DEF TypeOK, RowsOK
  <2> QED BY <2>3, <2>6, <2>7 DEF TypeOK, RequestsOK, RowsOK
<1>2. ASSUME NEW s \in Requests, NEW v \in Videos, Delete(s, v)
      PROVE  TypeOK'
  <2> DEFINE q == [kind |-> "delete", video |-> v, todo |-> {}]
  <2>1. q \in VideoRequest
    BY DEF VideoRequest, Kinds
  <2>2. req' = [req EXCEPT ![s] = q] /\ Goto(s, "deleteFiles")
    BY <1>2 DEF Delete
  <2> HIDE DEF q
  <2>3. RequestsOK'
    BY <2>1, <2>2, TakesUp DEF RequestSteps
  <2> QED BY <1>2, <2>3 DEF Delete, TypeOK, RequestsOK, columns, files, luck
<1>3. ASSUME NEW s \in Requests, NEW kind \in {"failed", "all", "script"}, Reprocess(s, kind)
      PROVE  TypeOK'
  <2> DEFINE q == [kind |-> kind, todo |-> Selected(kind)]
  <2>1. q \in LoopRequest
    BY DEF LoopRequest, Kinds, Selected
  <2>2. req' = [req EXCEPT ![s] = q] /\ Goto(s, "reset")
    BY <1>3 DEF Reprocess
  <2> HIDE DEF q
  <2>3. RequestsOK'
    BY <2>1, <2>2, TakesUp DEF RequestSteps
  <2> QED BY <1>3, <2>3 DEF Reprocess, TypeOK, RequestsOK, columns, files, luck
<1>4. ASSUME NEW v \in Videos, Download(v)
      PROVE  TypeOK'
  <2>1. used' \in [Videos -> BOOLEAN]
    BY <1>4 DEF Download, TypeOK
  <2> QED BY <1>4, <2>1 DEF Download, TypeOK, columns, files, requests, luck
<1>5. CASE Crash
  <2>1. NoRequest \in LoopRequest
    BY DEF NoRequest, LoopRequest, Kinds
  <2>2. RequestsOK'
    BY <1>5, <2>1 DEF Crash, RequestsOK, RequestSteps
  <2>3. \A s \in Requests : pc[s] \in {"enqueue", "unmark", "explain", "requeue"}
                              => req[s].video \in Videos
    BY DEF TypeOK, VideoRequest
  <2>4. \A j \in Active : job[j].video \in Videos
    BY BusyIsJob DEF Active, Busy
  <2>5. lost' \subseteq Videos
    BY <1>5, <2>3, <2>4 DEF Crash, TypeOK
  <2>6. faults' \in 0..MaxFaults
    BY <1>5, PipelineAssumption DEF Crash, Fault, TypeOK
  <2> QED BY <1>5, <2>2, <2>5, <2>6, CrashesJobs
          DEF Crash, TypeOK, JobsOK, RequestsOK, columns, files, Busy
<1>6. CASE UNCHANGED vars
  BY <1>6 DEF vars, TypeOK, columns, files, requests, luck
<1>7. ASSUME NEW s \in Requests, NEW v \in Videos, CreateFails(s, v)
      PROVE  TypeOK'
  <2>1. row' \in [Videos -> {"absent", "there", "deleted"}] /\ processing' \in [Videos -> BOOLEAN]
    BY <1>7 DEF CreateFails, NewRow, TypeOK
  <2>2. lost' \subseteq Videos /\ faults' \in 0..MaxFaults
    BY <1>7, PipelineAssumption DEF CreateFails, Fault, TypeOK
  <2>3. UNCHANGED <<preview, error, used, original, assets, job, pc, req>>
    BY <1>7 DEF CreateFails, NewRow, files, requests
  <2> QED BY <2>1, <2>2, <2>3 DEF TypeOK
<1> QED BY <1>1, <1>2, <1>3, <1>4, <1>5, <1>6, <1>7, TypeRequestStep, TypeJobStep DEF Next

\* Every variable has its type.
THEOREM TypeCorrect == Spec => []TypeOK
BY InitType, TypeNext, PTL DEF Spec
-----------------------------------------------------------------------------
(* Previews.                                                                 *)

\* Why PreviewIsPublic holds: a job has put what its later steps rely on, and
\* nobody takes it away.
PutSoFar ==
    \A j \in Jobs :
        /\ job[j].at = "putThumbnail" => "preview" \in assets[job[j].video]
        /\ job[j].at = "markDone" => assets[job[j].video] = Assets

PreviewInv == PutSoFar /\ PreviewIsPublic

\* Jobs that reach no step of these two from elsewhere keep what they have put.
LEMMA KeepsPut ==
  ASSUME TypeOK, PutSoFar, UNCHANGED assets,
         \A i \in Jobs : \/ job'[i] = job[i]
                         \/ job'[i].at \notin {"putThumbnail", "markDone"}
                         \/ job'[i].at = job[i].at /\ job'[i].video = job[i].video
  PROVE  PutSoFar'
BY DEF PutSoFar

LEMMA PreviewJobStep ==
  ASSUME TypeOK, PreviewInv, NEW j \in Jobs, JobStep(j)
  PROVE  PreviewInv'
<1> USE DEF Busy, Running
<1>1. ASSUME UNCHANGED preview, UNCHANGED assets PROVE PreviewIsPublic'
  BY <1>1 DEF PreviewInv, PreviewIsPublic
<1>2. CASE StartJob(j)
  <2>1. /\ \A i \in Jobs : /\ job'[i].video = job[i].video \/ job[i] = NoJob
                           /\ i # j => job'[i].at = job[i].at
        /\ job'[j].at = "read"
    BY <1>2, StartsJob
  <2>2. \A i \in Jobs : job[i] = NoJob => job[i].at = "none"
    BY DEF NoJob
  <2>3. \A i \in Jobs : \/ job'[i].at \notin {"putThumbnail", "markDone"}
                        \/ job'[i].at = job[i].at /\ job'[i].video = job[i].video
    BY <2>1, <2>2
  <2> QED BY <1>1, <1>2, <2>3, KeepsPut DEF StartJob, columns, files, PreviewInv
<1>3. CASE ReadOriginal(j)
  BY <1>1, <1>3, MoveJob, KeepsPut DEF ReadOriginal, Step, columns, files, PreviewInv
<1>4. ASSUME NEW a \in Assets, job[j].at \in Busy, PutAsset(j, a), UNCHANGED preview,
             NEW p \in Busy, job' = [job EXCEPT ![j].at = p]
      PROVE  /\ PreviewIsPublic'
             /\ \A v \in Videos : assets[v] \subseteq assets'[v] /\ assets'[v] \subseteq Assets
             /\ a \in assets'[job'[j].video]
  <2>1. job[j].video \in Videos /\ job'[j].video = job[j].video
    BY <1>4, BusyIsJob, MoveJob
  <2>2. /\ \A v \in Videos : assets[v] \subseteq assets'[v] /\ assets'[v] \subseteq Assets
        /\ a \in assets'[job'[j].video]
    BY <1>4, <2>1 DEF PutAsset, TypeOK
  <2>3. PreviewIsPublic'
    <3> SUFFICES ASSUME NEW v \in Videos, preview[v] PROVE assets'[v] = Assets
      BY <1>4 DEF PreviewIsPublic
    <3> QED BY <2>2 DEF PreviewInv, PreviewIsPublic
  <2> QED BY <2>2, <2>3
<1>4a. ASSUME job[j].at = "markDone", Publish(job[j].video), UNCHANGED assets
       PROVE  PreviewIsPublic'
  <2>1. assets[job[j].video] = Assets
    BY <1>4a DEF PreviewInv, PutSoFar
  <2>2. \A v \in Videos \ {job[j].video} : preview'[v] = preview[v]
    BY <1>4a DEF Publish, TypeOK
  <2> QED BY <1>4a, <2>1, <2>2 DEF PreviewInv, PreviewIsPublic
<1>5. CASE PutPreview(j)
  <2>1. /\ PreviewIsPublic'
        /\ \A v \in Videos : assets[v] \subseteq assets'[v] /\ assets'[v] \subseteq Assets
        /\ "preview" \in assets'[job'[j].video]
    BY <1>4, <1>5 DEF PutPreview, Step, columns, Assets
  <2>2. /\ job'[j].at = "putThumbnail" /\ \A i \in Jobs \ {j} : job'[i] = job[i]
        /\ \A i \in Jobs : job[i].at \in Busy => job[i].video \in Videos
    BY <1>5, MoveJob, BusyIsJob DEF PutPreview, Step
  <2>3. PutSoFar'
    <3> SUFFICES ASSUME NEW i \in Jobs
                 PROVE  /\ job'[i].at = "putThumbnail" => "preview" \in assets'[job'[i].video]
                        /\ job'[i].at = "markDone" => assets'[job'[i].video] = Assets
      BY DEF PutSoFar
    <3>1. CASE i = j
      BY <2>1, <2>2, <3>1
    <3>2. CASE i # j
      <4>1. job'[i] = job[i] /\ (job[i].at \in Busy => job[i].video \in Videos)
        BY <2>2, <3>2
      <4>2. /\ job[i].at = "putThumbnail" => "preview" \in assets[job[i].video]
            /\ job[i].at = "markDone" => assets[job[i].video] = Assets
        BY DEF PreviewInv, PutSoFar
      <4> QED BY <2>1, <4>1, <4>2
    <3> QED BY <3>1, <3>2
  <2> QED BY <2>1, <2>3 DEF PreviewInv
<1>6. CASE PutThumbnail(j)
  <2>1. /\ PreviewIsPublic'
        /\ \A v \in Videos : assets[v] \subseteq assets'[v] /\ assets'[v] \subseteq Assets
        /\ "thumbnail" \in assets'[job'[j].video]
    BY <1>4, <1>6 DEF PutThumbnail, Step, columns, Assets
  <2>2. /\ job'[j].at = "markDone" /\ \A i \in Jobs \ {j} : job'[i] = job[i]
        /\ job'[j].video = job[j].video /\ job[j].at = "putThumbnail"
        /\ \A i \in Jobs : job[i].at \in Busy => job[i].video \in Videos
    BY <1>6, MoveJob, BusyIsJob DEF PutThumbnail, Step
  <2>3. assets'[job'[j].video] = Assets
    BY <2>1, <2>2 DEF PreviewInv, PutSoFar, Assets
  <2> QED BY <2>1, <2>2, <2>3 DEF PreviewInv, PutSoFar
<1>7. CASE MarkDone(j)
  <2>1. PreviewIsPublic'
    BY <1>7, <1>4a DEF MarkDone, Step, files
  <2>2. PutSoFar'
    BY <1>7, MoveJob, KeepsPut DEF MarkDone, Step, PreviewInv, files
  <2> QED BY <2>1, <2>2 DEF PreviewInv
<1>8. CASE ClearError(j)
  <2>1. CASE Step(j, "clearError", "done")
    BY <1>1, <1>8, <2>1, MoveJob, KeepsPut DEF ClearError, Step, files, PreviewInv
  <2>2. CASE EndAttempt(j)
    BY <1>1, <1>8, <2>2, EndsJob, KeepsPut DEF ClearError, files, PreviewInv
  <2> QED BY <1>8, <2>1, <2>2 DEF ClearError
<1>9. CASE ProcessingThrows(j)
  BY <1>1, <1>9, MoveJob, KeepsPut DEF ProcessingThrows, columns, files, PreviewInv
<1>10. CASE MarkFailed(j)
  <2>1. CASE Step(j, "markFailed", "recordError")
    BY <1>1, <1>10, <2>1, MoveJob, KeepsPut DEF MarkFailed, Step, files, PreviewInv
  <2>2. CASE EndAttempt(j)
    BY <1>1, <1>10, <2>2, EndsJob, KeepsPut DEF MarkFailed, files, PreviewInv
  <2> QED BY <1>10, <2>1, <2>2 DEF MarkFailed
<1>11. CASE RecordError(j)
  BY <1>1, <1>11, EndsJob, KeepsPut DEF RecordError, files, PreviewInv
<1>12. CASE CatchFails(j)
  <2>1. UNCHANGED <<preview, assets>> /\ job[j].at \in Busy /\ EndAttempt(j)
    BY <1>12 DEF CatchFails, columns, files
  <2> QED BY <1>1, <2>1, EndsJob, KeepsPut DEF PreviewInv
<1>13. CASE NoDirectory(j)
  BY <1>1, <1>13, EndsJob, KeepsPut DEF NoDirectory, columns, files, PreviewInv
<1>14. CASE ReplyLost(j)
  <2>1. /\ job[j].at \in Busy /\ job' = [job EXCEPT ![j].at = "markFailed"]
        /\ job'[j].at = "markFailed" /\ \A i \in Jobs \ {j} : job'[i] = job[i]
        /\ \A i \in Jobs : job[i].at \in Busy => job[i].video \in Videos
    BY <1>14, MoveJob, BusyIsJob DEF ReplyLost
  <2>2. ASSUME UNCHANGED assets PROVE PutSoFar'
    BY <2>1, <2>2, KeepsPut DEF PreviewInv
  <2>3. ASSUME NEW a \in Assets, PutAsset(j, a), UNCHANGED preview PROVE PreviewInv'
    <3>1. /\ PreviewIsPublic'
          /\ \A v \in Videos : assets[v] \subseteq assets'[v] /\ assets'[v] \subseteq Assets
      BY <1>4, <2>1, <2>3
    <3>2. ASSUME NEW i \in Jobs
          PROVE  /\ job'[i].at = "putThumbnail" => "preview" \in assets'[job'[i].video]
                 /\ job'[i].at = "markDone" => assets'[job'[i].video] = Assets
      <4>1. CASE i = j
        BY <2>1, <4>1
      <4>2. CASE i # j
        <5>1. job'[i] = job[i] /\ (job[i].at \in Busy => job[i].video \in Videos)
          BY <2>1, <4>2
        <5>2. /\ job[i].at = "putThumbnail" => "preview" \in assets[job[i].video]
              /\ job[i].at = "markDone" => assets[job[i].video] = Assets
          BY DEF PreviewInv, PutSoFar
        <5> QED BY <3>1, <5>1, <5>2
      <4> QED BY <4>1, <4>2
    <3> QED BY <3>1, <3>2 DEF PreviewInv, PutSoFar
  <2>4. CASE job[j].at = "markDone"
    BY <1>4a, <1>14, <2>2, <2>4 DEF ReplyLost, PreviewInv
  <2>5. CASE job[j].at = "clearError"
    BY <1>1, <1>14, <2>2, <2>5 DEF ReplyLost, PreviewInv
  <2> QED BY <1>14, <2>3, <2>4, <2>5 DEF ReplyLost, Assets, columns
<1> QED BY <1>2, <1>3, <1>5, <1>6, <1>7, <1>8, <1>9, <1>10, <1>11, <1>12, <1>13, <1>14 DEF JobStep

LEMMA PreviewNext == TypeOK /\ PreviewInv /\ [Next]_vars => PreviewInv'
<1> SUFFICES ASSUME TypeOK, PreviewInv, [Next]_vars PROVE PreviewInv'
  OBVIOUS
<1>1. ASSUME UNCHANGED assets, \A v \in Videos : preview'[v] => preview[v],
             \A i \in Jobs : \/ job'[i] = job[i]
                             \/ job'[i].at \notin {"putThumbnail", "markDone"}
      PROVE  PreviewInv'
  <2>1. PutSoFar'
    BY <1>1, KeepsPut DEF PreviewInv
  <2>2. PreviewIsPublic'
    BY <1>1 DEF PreviewInv, PreviewIsPublic
  <2> QED BY <2>1, <2>2 DEF PreviewInv
<1>2. ASSUME NEW v \in Videos, AddJob(v), UNCHANGED <<assets, preview>> PROVE PreviewInv'
  BY <1>1, <1>2, AddsJob
<1>3. ASSUME UNCHANGED <<assets, preview, job>> PROVE PreviewInv'
  BY <1>1, <1>3
<1>4. ASSUME NEW s \in Requests, RequestStep(s) PROVE PreviewInv'
  <2>1. pc[s] \in {"enqueue", "requeue"} => req[s].video \in Videos
    BY DEF TypeOK, VideoRequest
  <2>2. CASE Enqueue(s)
    BY <1>2, <2>1, <2>2 DEF Enqueue, columns, files
  <2>3. CASE EnqueueFails(s)
    BY <1>2, <1>3, <2>1, <2>3 DEF EnqueueFails, columns, files
  <2>4. CASE Unmark(s)
    BY <1>3, <2>4 DEF Unmark, files
  <2>5. CASE Explain(s)
    BY <1>3, <2>5 DEF Explain, files
  <2>6. CASE Reset(s)
    <3>1. \A v \in Videos : preview'[v] => preview[v]
      BY <2>6 DEF Reset, ResetRow, columns, TypeOK
    <3> QED BY <1>1, <2>6, <3>1 DEF Reset, files
  <2>7. CASE Requeue(s)
    BY <1>2, <2>1, <2>7 DEF Requeue, columns, files
  <2>8. CASE RequeueFails(s)
    BY <1>2, <1>3, <2>1, <2>8 DEF RequeueFails, columns, files
  <2>9. CASE DeleteFiles(s)
    BY <1>3, <2>9 DEF DeleteFiles, columns
  <2>10. CASE DeleteRow(s)
    <3>1. \A v \in Videos : preview'[v] => preview[v]
      BY <2>10 DEF DeleteRow, RemoveRow, columns, TypeOK
    <3> QED BY <1>1, <2>10, <3>1 DEF DeleteRow, files
  <2>11. CASE DeleteRowFails(s)
    <3>1. \A v \in Videos : preview'[v] => preview[v]
      BY <2>11 DEF DeleteRowFails, RemoveRow, columns, TypeOK
    <3> QED BY <1>1, <2>11, <3>1 DEF DeleteRowFails, files
  <2>12. CASE NoteFails(s)
    BY <1>3, <2>12 DEF NoteFails, columns, files
  <2>13. CASE ResetFails(s)
    <3>1. \A v \in Videos : preview'[v] => preview[v]
      BY <2>13 DEF ResetFails, ResetRow, columns, TypeOK
    <3> QED BY <1>1, <2>13, <3>1 DEF ResetFails, files
  <2> QED BY <1>4, <2>2, <2>3, <2>4, <2>5, <2>6, <2>7, <2>8, <2>9, <2>10, <2>11, <2>12, <2>13
          DEF RequestStep
<1>5. ASSUME NEW s \in Requests, NEW v \in Videos,
             Create(s, v) \/ CreateFails(s, v) \/ Delete(s, v)
      PROVE  PreviewInv'
  BY <1>3, <1>5 DEF Create, CreateFails, NewRow, Delete, columns, files
<1>6. ASSUME NEW s \in Requests, NEW kind \in {"failed", "all", "script"}, Reprocess(s, kind)
      PROVE  PreviewInv'
  BY <1>3, <1>6 DEF Reprocess, columns, files
<1>7. ASSUME NEW v \in Videos, Download(v) PROVE PreviewInv'
  BY <1>3, <1>7 DEF Download, columns, files
<1>8. CASE Crash
  <2>1. \A i \in Jobs : \/ job'[i] = job[i]
                        \/ job'[i].at \notin {"putThumbnail", "markDone"}
    <3>1. ASSUME NEW i \in Active PROVE Stalled(i).at \in {"waiting", "done"}
      <4>1. job[i] \in Job
        BY BusyIsJob DEF Active, Busy
      <4>2. \/ Stalled(i) = [job[i] EXCEPT !.at = "waiting", !.stalls = @ + 1]
            \/ Stalled(i) = [job[i] EXCEPT !.at = "done"]
        BY DEF Stalled
      <4> QED BY <4>1, <4>2 DEF Job
    <3>2. \A i \in Jobs : job'[i] = IF i \in Active THEN Stalled(i) ELSE job[i]
      BY <1>8 DEF Crash
    <3> QED BY <3>1, <3>2
  <2> QED BY <1>1, <1>8, <2>1 DEF Crash, columns, files
<1>9. CASE UNCHANGED vars
  BY <1>3, <1>9 DEF vars, columns, files
<1> QED BY <1>4, <1>5, <1>6, <1>7, <1>8, <1>9, PreviewJobStep DEF Next

\* The row names a preview only when both files can be fetched.
THEOREM PreviewsArePublic == Spec => []PreviewIsPublic
<1>1. Init => PreviewInv
  BY DEF Init, PreviewInv, PutSoFar, PreviewIsPublic, NoJob
<1>2. PreviewInv => PreviewIsPublic
  BY DEF PreviewInv
<1> QED BY <1>1, <1>2, TypeCorrect, PreviewNext, PTL DEF Spec
-----------------------------------------------------------------------------
(* Videos that are processing.                                               *)

\* ProcessingHasJob is not inductive: a job that has written `processing` and
\* not the error yet, or a request that explains, will not write it again.  A
\* video that is processing has one that will.
Undecided == {"waiting", "read", "putPreview", "putThumbnail", "markDone", "markFailed"}
WillDecide(v) == \E j \in Jobs : job[j].at \in Undecided /\ job[j].video = v
WillQueue(v) == \E s \in Requests : /\ pc[s] \in {"enqueue", "unmark", "requeue"}
                                    /\ req[s].video = v

ProcessingInv ==
    \A v \in Videos :
        There(v) /\ processing[v] /\ v \notin lost => WillDecide(v) \/ WillQueue(v)

LEMMA ProcessingJobStep ==
  ASSUME TypeOK, ProcessingInv, NEW j \in Jobs, JobStep(j)
  PROVE  ProcessingInv'
<1> SUFFICES ASSUME NEW v \in Videos, There(v)', processing'[v], v \notin lost'
             PROVE  WillDecide(v)' \/ WillQueue(v)'
  BY DEF ProcessingInv
<1> USE DEF Busy, Running, Undecided
<1>1. /\ There(v) /\ (v \notin lost)
      /\ UNCHANGED <<pc, req>>
      /\ processing'[v] => processing[v]
  BY DEF JobStep, StartJob, NoDirectory, ReadOriginal, PutPreview, PutThumbnail, MarkDone, Publish,
         ClearError, ProcessingThrows, ReplyLost, MarkFailed, RecordError, CatchFails, There,
         columns, requests, luck, TypeOK
<1>2. WillDecide(v) \/ WillQueue(v)
  BY <1>1 DEF ProcessingInv
<1>3. CASE WillQueue(v)
  BY <1>1, <1>3 DEF WillQueue
<1>4. CASE WillDecide(v)
  <2>1. PICK i \in Jobs : job[i].at \in Undecided /\ job[i].video = v
    BY <1>4 DEF WillDecide
  <2>2. job[i] # NoJob
    BY <2>1 DEF NoJob
  <2> SUFFICES job'[i].at \in Undecided /\ job'[i].video = v
    BY DEF WillDecide
  <2>3. CASE StartJob(j)
    BY <2>1, <2>2, <2>3, StartsJob
  <2>4. ASSUME NEW p \in Busy, job[j].at \in Busy, job' = [job EXCEPT ![j].at = p],
               p \in Undecided
        PROVE  job'[i].at \in Undecided /\ job'[i].video = v
    BY <2>1, <2>4, MoveJob
  <2>5. CASE ReadOriginal(j)
    BY <2>4, <2>5 DEF ReadOriginal, Step, Running
  <2>6. CASE PutPreview(j)
    BY <2>4, <2>6 DEF PutPreview, Step
  <2>7. CASE PutThumbnail(j)
    BY <2>4, <2>7 DEF PutThumbnail, Step
  <2>8. CASE ProcessingThrows(j)
    BY <2>4, <2>8 DEF ProcessingThrows
  <2>9. CASE MarkDone(j)
    <3>1. job[j].video # v
      BY <1>1, <2>9 DEF MarkDone, Publish, TypeOK
    <3> QED BY <2>1, <2>9, <3>1, MoveJob DEF MarkDone, Step, Running
  <2>10. CASE ClearError(j)
    BY <2>1, <2>10, MoveJob, EndsJob DEF ClearError, Step
  <2>11. CASE MarkFailed(j)
    <3>1. job[j].video # v
      BY <2>11 DEF MarkFailed, TypeOK
    <3>2. \A k \in Jobs \ {j} : job'[k] = job[k]
      BY <2>11, MoveJob, EndsJob DEF MarkFailed, Step
    <3> QED BY <2>1, <3>1, <3>2
  <2>12. CASE RecordError(j)
    BY <2>1, <2>12, EndsJob DEF RecordError
  <2>13. CASE CatchFails(j)
    <3>1. job[j].left = 1 => job[j].video # v
      BY <2>13 DEF CatchFails
    <3> QED BY <2>1, <2>13, <3>1, EndsJob DEF CatchFails
  <2>14. CASE NoDirectory(j)
    <3>1. job[j].left = 1 => job[j].video # v
      BY <2>14 DEF NoDirectory
    <3> QED BY <2>1, <2>14, <3>1, EndsJob DEF NoDirectory
  <2>15. CASE ReplyLost(j)
    BY <2>4, <2>15 DEF ReplyLost
  <2> QED BY <2>3, <2>5, <2>6, <2>7, <2>8, <2>9, <2>10, <2>11, <2>12, <2>13, <2>14, <2>15
          DEF JobStep
<1> QED BY <1>2, <1>3, <1>4

\* A video whose row a request has written and that waits for its job gets it,
\* or somebody notes that it does not.
LEMMA ProcessingRequestStep ==
  ASSUME TypeOK, ProcessingInv, NEW s \in Requests, RequestStep(s)
  PROVE  ProcessingInv'
<1> SUFFICES ASSUME NEW v \in Videos, There(v)', processing'[v], v \notin lost'
             PROVE  WillDecide(v)' \/ WillQueue(v)'
  BY DEF ProcessingInv
<1> USE DEF Undecided
<1>1. ASSUME There(v), processing[v], v \notin lost
      PROVE  WillDecide(v) \/ WillQueue(v)
  BY <1>1 DEF ProcessingInv
<1>2. ASSUME NEW w \in Videos, AddJob(w)
      PROVE  /\ WillDecide(v) => WillDecide(v)'
             /\ w = v => WillDecide(v)'
             /\ w # v => v \notin lost
  <2>1. PICK j \in Jobs : /\ job[j] = NoJob
                          /\ job'[j].at = "waiting" /\ job'[j].video = w
                          /\ \A i \in Jobs \ {j} : job'[i] = job[i]
    BY <1>2, AddsJob
  <2>2. lost' = lost \ {w}
    BY <1>2, AddsJob
  <2>3. job[j].at \notin Undecided
    BY <2>1 DEF NoJob
  <2> QED BY <2>1, <2>2, <2>3 DEF WillDecide
<1>3. pc[s] \notin {"idle", "reset"} => req[s].video \in Videos
  BY DEF TypeOK, VideoRequest
<1>4. ASSUME \A t \in Requests \ {s} : pc'[t] = pc[t] /\ req'[t] = req[t], WillQueue(v)
      PROVE  WillQueue(v)' \/ (pc[s] \in {"enqueue", "unmark", "requeue"} /\ req[s].video = v)
  BY <1>4 DEF WillQueue
<1>5. UNCHANGED job => (WillDecide(v) => WillDecide(v)')
  BY DEF WillDecide
<1>6. CASE Enqueue(s)
  <2>1. There(v) /\ processing[v] /\ \A t \in Requests \ {s} : pc'[t] = pc[t] /\ req'[t] = req[t]
    BY <1>6, AnswersRequest DEF Enqueue, There, columns
  <2> QED BY <1>1, <1>2, <1>3, <1>4, <1>6, <2>1 DEF Enqueue
<1>7. CASE EnqueueFails(s)
  <2>1. /\ There(v) /\ processing[v] /\ req[s].video \in Videos
        /\ pc[s] = "enqueue" /\ pc'[s] = "unmark" /\ req' = req
        /\ \A t \in Requests \ {s} : pc'[t] = pc[t]
    BY <1>3, <1>7 DEF EnqueueFails, There, columns, Goto, TypeOK
  <2>2. WillQueue(v) => WillQueue(v)'
    BY <2>1 DEF WillQueue
  <2>3. CASE AddJob(req[s].video)
    BY <1>1, <1>2, <2>1, <2>2, <2>3
  <2>4. CASE UNCHANGED <<job, lost>>
    BY <1>1, <1>5, <2>1, <2>2, <2>4
  <2> QED BY <1>7, <2>3, <2>4 DEF EnqueueFails
<1>8. CASE Unmark(s)
  <2>1. /\ UNCHANGED <<row, job, lost>> /\ req[s].video \in Videos
        /\ \A t \in Requests \ {s} : pc'[t] = pc[t] /\ req'[t] = req[t]
    BY <1>3, <1>8, AnswersRequest DEF Unmark, luck, Goto, TypeOK
  <2>2. req[s].video # v /\ processing[v]
    BY <1>8, <2>1 DEF Unmark, There, TypeOK
  <2> QED BY <1>1, <1>4, <1>5, <2>1, <2>2 DEF There
<1>9. CASE Explain(s)
  <2>1. /\ UNCHANGED <<row, processing, job, lost>> /\ pc[s] = "explain"
        /\ \A t \in Requests \ {s} : pc'[t] = pc[t] /\ req'[t] = req[t]
    BY <1>9, AnswersRequest DEF Explain, luck
  <2> QED BY <1>1, <1>4, <1>5, <2>1 DEF There
<1>10. CASE Reset(s)
  <2>1. /\ UNCHANGED <<row, job, lost>> /\ pc[s] = "reset"
    BY <1>10 DEF Reset, luck
  <2>2. PICK w \in req[s].todo :
           \/ /\ processing' = [processing EXCEPT ![w] = TRUE]
              /\ req' = [req EXCEPT ![s] = [kind |-> @.kind, video |-> w,
                                            todo |-> @.todo \ {w}]]
              /\ Goto(s, "requeue")
           \/ Answer(s) /\ UNCHANGED columns
    BY <1>10 DEF Reset, ResetRow
  <2>3. \A t \in Requests \ {s} : pc'[t] = pc[t] /\ req'[t] = req[t]
    BY <2>2, AnswersRequest DEF Goto, TypeOK
  <2>4. CASE processing[v]
    BY <1>1, <1>4, <1>5, <2>1, <2>3, <2>4 DEF There
  <2>5. CASE ~processing[v]
    <3>1. w = v /\ pc'[s] = "requeue" /\ req'[s].video = v
      BY <2>2, <2>5 DEF columns, Goto, TypeOK
    <3> QED BY <3>1 DEF WillQueue
  <2> QED BY <2>4, <2>5
<1>11. CASE Requeue(s)
  <2>1. There(v) /\ processing[v] /\ \A t \in Requests \ {s} : pc'[t] = pc[t] /\ req'[t] = req[t]
    BY <1>11, NextsVideo DEF Requeue, There, columns
  <2> QED BY <1>1, <1>2, <1>3, <1>4, <1>11, <2>1 DEF Requeue
<1>12. CASE RequeueFails(s)
  <2>1. /\ There(v) /\ processing[v] /\ req[s].video \in Videos /\ pc[s] = "requeue"
    BY <1>3, <1>12 DEF RequeueFails, There, columns
  <2>2. \A t \in Requests \ {s} : pc'[t] = pc[t] /\ req'[t] = req[t]
    BY <1>12, AnswersRequest, NextsVideo DEF RequeueFails
  <2>3. CASE AddJob(req[s].video)
    BY <1>1, <1>2, <1>4, <2>1, <2>2, <2>3
  <2>4. CASE lost' = lost \cup {req[s].video} /\ UNCHANGED job
    BY <1>1, <1>4, <1>5, <2>1, <2>2, <2>4
  <2> QED BY <1>12, <2>3, <2>4 DEF RequeueFails
<1>13. CASE DeleteFiles(s)
  <2>1. /\ UNCHANGED <<row, processing, job, lost, req>> /\ pc[s] = "deleteFiles"
        /\ \A t \in Requests \ {s} : pc'[t] = pc[t]
    BY <1>13 DEF DeleteFiles, columns, Goto, TypeOK
  <2> QED BY <1>1, <1>4, <1>5, <2>1 DEF There
<1>14. CASE DeleteRow(s)
  <2>1. /\ UNCHANGED <<job, lost>> /\ pc[s] = "deleteRow"
        /\ \A t \in Requests \ {s} : pc'[t] = pc[t] /\ req'[t] = req[t]
    BY <1>14, AnswersRequest DEF DeleteRow, luck
  <2>2. There(v) /\ processing[v]
    BY <1>3, <1>14 DEF DeleteRow, RemoveRow, There, columns, TypeOK
  <2> QED BY <1>1, <1>4, <1>5, <2>1, <2>2
<1>15. CASE DeleteRowFails(s)
  <2>1. /\ UNCHANGED <<job, lost>> /\ pc[s] = "deleteRow"
        /\ \A t \in Requests \ {s} : pc'[t] = pc[t] /\ req'[t] = req[t]
    BY <1>15, AnswersRequest DEF DeleteRowFails
  <2>2. There(v) /\ processing[v]
    BY <1>3, <1>15 DEF DeleteRowFails, RemoveRow, There, columns, TypeOK
  <2> QED BY <1>1, <1>4, <1>5, <2>1, <2>2
<1>16. CASE NoteFails(s)
  <2>1. /\ UNCHANGED <<row, job>> /\ v \notin lost
        /\ pc[s] \in {"unmark", "explain"} /\ req[s].video # v
    BY <1>16 DEF NoteFails
  <2>2. \A t \in Requests \ {s} : pc'[t] = pc[t] /\ req'[t] = req[t]
    BY <1>16, AnswersRequest DEF NoteFails
  <2>3. processing[v]
    BY <1>16, <2>1 DEF NoteFails, columns, TypeOK
  <2> QED BY <1>1, <1>4, <1>5, <2>1, <2>2, <2>3 DEF There
<1>17. CASE ResetFails(s)
  <2>1. UNCHANGED <<row, job>> /\ pc[s] = "reset" /\ v \notin lost
    BY <1>17 DEF ResetFails
  <2>2. \A t \in Requests \ {s} : pc'[t] = pc[t] /\ req'[t] = req[t]
    BY <1>17, AnswersRequest DEF ResetFails
  <2>3. processing[v]
    BY <1>17 DEF ResetFails, ResetRow, columns, TypeOK
  <2> QED BY <1>1, <1>4, <1>5, <2>1, <2>2, <2>3 DEF There
<1> QED BY <1>6, <1>7, <1>8, <1>9, <1>10, <1>11, <1>12, <1>13, <1>14, <1>15, <1>16, <1>17
        DEF RequestStep

LEMMA ProcessingNext == TypeOK /\ ProcessingInv /\ [Next]_vars => ProcessingInv'
<1> SUFFICES ASSUME TypeOK, ProcessingInv, [Next]_vars,
                    NEW v \in Videos, There(v)', processing'[v], v \notin lost'
             PROVE  WillDecide(v)' \/ WillQueue(v)'
  BY DEF ProcessingInv
<1>1. ASSUME UNCHANGED <<row, processing, job, lost>>, WillQueue(v) => WillQueue(v)'
      PROVE  WillDecide(v)' \/ WillQueue(v)'
  BY <1>1 DEF ProcessingInv, There, WillDecide
<1>2. ASSUME NEW s \in Requests, pc[s] = "idle",
             \A t \in Requests \ {s} : pc'[t] = pc[t] /\ req'[t] = req[t], WillQueue(v)
      PROVE  WillQueue(v)'
  BY <1>2 DEF WillQueue
<1>3. ASSUME NEW s \in Requests, NEW w \in Videos, Create(s, w)
      PROVE  WillDecide(v)' \/ WillQueue(v)'
  <2>1. /\ UNCHANGED <<job, lost>> /\ pc[s] = "idle"
        /\ pc'[s] = "enqueue" /\ req'[s].video = w
        /\ \A t \in Requests \ {s} : pc'[t] = pc[t] /\ req'[t] = req[t]
    BY <1>3 DEF Create, luck, Goto, TypeOK
  <2>2. CASE w = v
    BY <2>1, <2>2 DEF WillQueue
  <2>3. CASE w # v
    <3>1. There(v) /\ processing[v]
      BY <1>3, <2>3 DEF Create, NewRow, There, TypeOK
    <3> QED BY <1>2, <2>1, <3>1 DEF ProcessingInv, WillDecide
  <2> QED BY <2>2, <2>3
<1>4. ASSUME NEW s \in Requests, NEW w \in Videos, Delete(s, w)
      PROVE  WillDecide(v)' \/ WillQueue(v)'
  <2>1. /\ UNCHANGED <<row, processing, job, lost>> /\ pc[s] = "idle"
        /\ \A t \in Requests \ {s} : pc'[t] = pc[t] /\ req'[t] = req[t]
    BY <1>4 DEF Delete, luck, columns, Goto, TypeOK
  <2> QED BY <1>1, <1>2, <2>1
<1>5. ASSUME NEW s \in Requests, NEW kind \in {"failed", "all", "script"}, Reprocess(s, kind)
      PROVE  WillDecide(v)' \/ WillQueue(v)'
  <2>1. /\ UNCHANGED <<row, processing, job, lost>> /\ pc[s] = "idle"
        /\ \A t \in Requests \ {s} : pc'[t] = pc[t] /\ req'[t] = req[t]
    BY <1>5 DEF Reprocess, luck, columns, Goto, TypeOK
  <2> QED BY <1>1, <1>2, <2>1
<1>6. ASSUME NEW w \in Videos, Download(w)
      PROVE  WillDecide(v)' \/ WillQueue(v)'
  BY <1>1, <1>6 DEF Download, columns, luck, requests, WillQueue
<1>7. CASE Crash
  <2>1. There(v) /\ processing[v] /\ v \notin lost
    BY <1>7 DEF Crash, There, columns
  <2>2. ~WillQueue(v)
    BY <1>7 DEF Crash, WillQueue
  <2>3. PICK j \in Jobs : job[j].at \in Undecided /\ job[j].video = v
    BY <2>1, <2>2 DEF ProcessingInv, WillDecide
  <2>4. job'[j].at = "waiting" /\ job'[j].video = v
    BY <1>7, <2>3, CrashesJobs DEF Undecided, Busy, Running
  <2> QED BY <2>4 DEF WillDecide, Undecided
<1>8. CASE UNCHANGED vars
  BY <1>1, <1>8 DEF vars, columns, luck, requests, WillQueue
<1>9. ASSUME NEW s \in Requests, NEW w \in Videos, CreateFails(s, w)
      PROVE  WillDecide(v)' \/ WillQueue(v)'
  <2>1. w # v /\ v \notin lost /\ UNCHANGED <<job, pc, req>>
    BY <1>9 DEF CreateFails, requests
  <2>2. There(v) /\ processing[v]
    BY <1>9, <2>1 DEF CreateFails, NewRow, There, TypeOK
  <2> QED BY <2>1, <2>2 DEF ProcessingInv, WillDecide, WillQueue
<1> QED BY <1>3, <1>4, <1>5, <1>6, <1>7, <1>8, <1>9, ProcessingJobStep, ProcessingRequestStep
        DEF Next, ProcessingInv

\* A video that is shown as processing has a job, or is about to get one, unless
\* a fault has cut it off.
THEOREM ProcessingIsWorkedOn == Spec => []ProcessingHasJob
<1>1. Init => ProcessingInv
  BY DEF Init, ProcessingInv
<1>2. ProcessingInv => ProcessingHasJob
  BY DEF ProcessingInv, ProcessingHasJob, WillDecide, WillQueue, Pending, BeingQueued,
         Undecided, Running
<1> QED BY <1>1, <1>2, TypeCorrect, ProcessingNext, PTL DEF Spec

-----------------------------------------------------------------------------
(* Videos that nothing works on any more.                                    *)

\* The jobs of v have run one at a time so far.
Apart(v) == \A j \in Jobs : job[j] # NoJob /\ job[j].video = v => job[j].alone

Requeued(v) == \E s \in Requests : pc[s] = "requeue" /\ req[s].video = v
Waits(v) == \E j \in Jobs : job[j].at = "waiting" /\ job[j].video = v

\* There is a verdict, or one will come.
Judged(v) == preview[v] \/ error[v] \/ Pending(v) # {} \/ BeingQueued(v)

\* RestHasVerdict is not inductive: a job that clears the error takes a verdict
\* away.  It has set the preview before; where a reprocess has forgotten that
\* since, the reprocess has a job for the video in hand, or has queued it, and as
\* long as the jobs run one at a time that one is waiting.
Cleared(v) == \A j \in Jobs : job[j].at = "clearError" /\ job[j].video = v
                                => preview[v] \/ Requeued(v) \/ Waits(v)

RestInv == \A v \in Videos :
              There(v) /\ v \notin lost /\ Apart(v) => Judged(v) /\ Cleared(v)

\* A job keeps its video, and jobs that have run together stay such.
LEMMA KeepsVideo ==
  ASSUME TypeOK, [Next]_vars, NEW i \in Jobs, job[i] # NoJob
  PROVE  /\ job'[i] # NoJob
         /\ job'[i].video = job[i].video
         /\ job'[i].alone => job[i].alone
<1> DEFINE Kept == /\ job'[i] # NoJob
                   /\ job'[i].video = job[i].video
                   /\ job'[i].alone => job[i].alone
<1>1. job[i] \in Job
  BY DEF TypeOK
<1>2. ASSUME NEW p \in Running \cup {"waiting", "done"}, job'[i] = [job[i] EXCEPT !.at = p] PROVE Kept
  BY <1>1, <1>2 DEF Job, NoJob
<1>3. CASE job'[i] = job[i]
  BY <1>3
<1>4. ASSUME NEW j \in Jobs, NEW p \in Running \cup {"waiting", "done"}, job' = [job EXCEPT ![j].at = p] PROVE Kept
  <2>1. CASE i = j
    <3>1. job'[i] = [job[i] EXCEPT !.at = p]
      BY <1>4, <2>1 DEF TypeOK
    <3> QED BY <1>2, <3>1
  <2>2. CASE i # j
    BY <1>3, <1>4, <2>2 DEF TypeOK
  <2> QED BY <2>1, <2>2
<1>5. ASSUME NEW j \in Jobs, EndAttempt(j) PROVE Kept
  <2> DEFINE p == IF job[j].left = 1 THEN "done" ELSE "waiting"
  <2>1. job' = [job EXCEPT ![j].at = p, ![j].left = @ - 1]
    BY <1>5 DEF EndAttempt
  <2> HIDE DEF p
  <2>2. CASE i = j
    <3>1. job'[i] = [job[i] EXCEPT !.at = p, !.left = @ - 1]
      BY <2>1, <2>2 DEF TypeOK
    <3>2. job'[i].video = job[i].video /\ job'[i].alone = job[i].alone
      BY <1>1, <3>1 DEF Job
    <3> QED BY <3>2, <1>1, <3>1 DEF Job, NoJob
  <2>3. CASE i # j
    BY <1>3, <2>1, <2>3 DEF TypeOK
  <2> QED BY <2>2, <2>3
<1>6. ASSUME NEW v \in Videos, AddJob(v) PROVE Kept
  BY <1>3, <1>6, AddsJob
<1>7. ASSUME NEW j \in Jobs, StartJob(j) PROVE Kept
  <2> DEFINE others == {k \in Active : job[k].video = job[j].video}
             b == job[i].alone /\ others = {}
  <2>1. \/ job'[i] = [job[i] EXCEPT !.at = "read", !.alone = b]
        \/ job'[i] = [job[i] EXCEPT !.alone = FALSE]
        \/ job'[i] = job[i]
    BY <1>7 DEF StartJob
  <2>2. b => job[i].alone
    OBVIOUS
  <2> HIDE DEF others, b
  <2> QED BY <1>1, <2>1, <2>2 DEF Job, NoJob
<1>8. CASE Crash
  <2>1. job'[i] = Stalled(i) \/ job'[i] = job[i]
    BY <1>8 DEF Crash
  <2>2. CASE job'[i] = Stalled(i)
    <3>1. \/ job'[i] = [job[i] EXCEPT !.at = "waiting", !.stalls = @ + 1]
          \/ job'[i] = [job[i] EXCEPT !.at = "done"]
      BY <2>2 DEF Stalled
    <3> QED BY <1>1, <3>1 DEF Job, NoJob
  <2> QED BY <1>3, <2>1, <2>2
<1>9. CASE UNCHANGED job
  BY <1>3, <1>9
<1>10. ASSUME NEW s \in Requests, RequestStep(s) PROVE Kept
  <2>1. pc[s] \in {"enqueue", "requeue"} => req[s].video \in Videos
    BY DEF TypeOK, VideoRequest
  <2> QED BY <1>6, <1>9, <1>10, <2>1
          DEF RequestStep, Enqueue, EnqueueFails, Unmark, Explain, NoteFails, Reset, ResetFails,
              Requeue, RequeueFails, DeleteFiles, DeleteRow, DeleteRowFails
<1>11. ASSUME NEW j \in Jobs, JobStep(j) PROVE Kept
  <2>1. \/ StartJob(j) \/ EndAttempt(j)
        \/ \E p \in Running \cup {"waiting", "done"} : job' = [job EXCEPT ![j].at = p]
    <3>1. CASE ReadOriginal(j)
      BY <3>1 DEF ReadOriginal, Step, Running
    <3>2. CASE MarkDone(j)
      BY <3>2 DEF MarkDone, Step, Running
    <3>3. CASE PutPreview(j) \/ PutThumbnail(j) \/ ClearError(j) \/ ProcessingThrows(j)
                 \/ ReplyLost(j)
      BY <3>3 DEF PutPreview, PutThumbnail, ClearError, ProcessingThrows, ReplyLost, Step, Running
    <3>4. CASE MarkFailed(j) \/ RecordError(j) \/ CatchFails(j) \/ NoDirectory(j)
      BY <3>4 DEF MarkFailed, RecordError, CatchFails, NoDirectory, Step, Running
    <3> QED BY <1>11, <3>1, <3>2, <3>3, <3>4 DEF JobStep
  <2> QED BY <1>4, <1>5, <1>7, <2>1
<1> QED BY <1>8, <1>9, <1>10, <1>11 DEF Next, Create, CreateFails, Delete, Reprocess, Download, vars

\* Jobs that run one at a time have done so before.
LEMMA WereApart ==
  ASSUME TypeOK, [Next]_vars, NEW v \in Videos, Apart(v)'
  PROVE  Apart(v)
BY KeepsVideo DEF Apart

\* A job that starts beside another leaves neither alone.
LEMMA StartsBeside ==
  ASSUME TypeOK, NEW j \in Jobs, StartJob(j),
         NEW i \in Jobs \ {j}, job[i].at \in Running, job[i].video = job[j].video
  PROVE  job'[i] # NoJob /\ job'[i].video = job[i].video /\ ~job'[i].alone
<1>1. job[i] \in Job
  BY BusyIsJob DEF Busy
<1>2. job'[i] = [job[i] EXCEPT !.alone = FALSE]
  BY DEF StartJob, Active
<1> QED BY <1>1, <1>2 DEF Job, NoJob

\* A job added to the queue is one more that waits.
LEMMA AddsWaiting ==
  ASSUME TypeOK, NEW w \in Videos, AddJob(w), NEW v \in Videos
  PROVE  /\ Waits(v) => Waits(v)'
         /\ w = v => Waits(v)'
         /\ \A j \in Jobs : job'[j].at = "clearError" => job[j] = job'[j]
         /\ v \notin lost' => v \notin lost \/ w = v
<1>1. PICK j \in Jobs : /\ job[j] = NoJob
                        /\ job'[j].at = "waiting" /\ job'[j].video = w
                        /\ \A i \in Jobs \ {j} : job'[i] = job[i]
  BY AddsJob
<1>2. job[j].at # "waiting" /\ lost' = lost \ {w}
  BY <1>1, AddsJob DEF NoJob
<1> QED BY <1>1, <1>2 DEF Waits

LEMMA RestJobStep ==
  ASSUME TypeOK, RestInv, [Next]_vars, NEW j \in Jobs, JobStep(j)
  PROVE  RestInv'
<1> SUFFICES ASSUME NEW v \in Videos, There(v)', v \notin lost', Apart(v)'
             PROVE  Judged(v)' /\ Cleared(v)'
  BY DEF RestInv
<1> USE DEF Busy, Running
<1>1. There(v) /\ v \notin lost /\ UNCHANGED requests
  BY DEF JobStep, StartJob, NoDirectory, ReadOriginal, PutPreview, PutThumbnail, MarkDone,
         ClearError, ProcessingThrows, ReplyLost, MarkFailed, RecordError, CatchFails, There, luck
<1>2. Judged(v) /\ Cleared(v)
  BY <1>1, WereApart DEF RestInv
<1>3. /\ BeingQueued(v)' = BeingQueued(v) /\ Requeued(v)' = Requeued(v)
  BY <1>1 DEF BeingQueued, Requeued, requests
\* A job that goes on.
<1>4. ASSUME NEW p \in Running, job[j].at \in Running, job' = [job EXCEPT ![j].at = p],
             p = "clearError" => preview'[v] \/ job[j].video # v,
             preview[v] => preview'[v], error[v] => error'[v]
      PROVE  Judged(v)' /\ Cleared(v)'
  <2>1. /\ job'[j].at = p /\ job'[j].video = job[j].video
        /\ \A i \in Jobs \ {j} : job'[i] = job[i]
    BY <1>4, MoveJob
  <2>2. Pending(v)' = Pending(v)
    BY <1>4, <2>1 DEF Pending
  <2>3. Waits(v)' = Waits(v)
    BY <1>4, <2>1 DEF Waits
  <2>4. Judged(v)'
    BY <1>2, <1>3, <1>4, <2>2 DEF Judged
  <2>5. Cleared(v)'
    BY <1>2, <1>3, <1>4, <2>1, <2>3 DEF Cleared
  <2> QED BY <2>4, <2>5
\* A job that ends its attempt.
<1>5. ASSUME job[j].at \in Running, EndAttempt(j), UNCHANGED preview,
             error[v] => error'[v],
             job[j].left = 1 /\ job[j].video = v => error'[v] \/ v \in lost'
      PROVE  Judged(v)' /\ Cleared(v)'
  <2>1. /\ job'[j].at = IF job[j].left = 1 THEN "done" ELSE "waiting"
        /\ job'[j].video = job[j].video
        /\ \A i \in Jobs \ {j} : job'[i] = job[i]
    BY <1>5, EndsJob
  <2>2. Waits(v) => Waits(v)'
    BY <1>5, <2>1 DEF Waits
  <2>3. Pending(v) # {} => Pending(v)' # {} \/ error'[v]
    BY <1>5, <2>1 DEF Pending
  <2>4. Judged(v)'
    BY <1>2, <1>3, <1>5, <2>3 DEF Judged
  <2>5. Cleared(v)'
    BY <1>2, <1>3, <1>5, <2>1, <2>2 DEF Cleared
  <2> QED BY <2>4, <2>5
<1>6. CASE StartJob(j)
  <2>1. UNCHANGED <<preview, error>>
    BY <1>6 DEF StartJob, columns
  <2>2. job[j].at = "waiting" /\ job'[j].at = "read"
    BY <1>6, StartsJob
  <2>3. ASSUME NEW i \in Jobs
        PROVE  /\ job[i].at \in Busy => job'[i].at \in Busy /\ job'[i].video = job[i].video
               /\ i # j => job'[i].at = job[i].at
    <3>1. job[i].at \in Busy => job[i] # NoJob
      BY DEF NoJob
    <3> HIDE DEF Busy, Running
    <3> QED BY <1>6, <3>1, StartsJob
  <2>4. Pending(v) \subseteq Pending(v)'
    BY <2>3 DEF Pending
  <2>5. Judged(v)'
    BY <1>2, <1>3, <2>1, <2>4 DEF Judged
  <2>6. ASSUME NEW i \in Jobs, job'[i].at = "clearError", job'[i].video = v
        PROVE  preview'[v] \/ Requeued(v)' \/ Waits(v)'
    <3>1. i # j /\ job[i].at = "clearError"
      BY <2>2, <2>3, <2>6
    <3>2. job[i].video = v
      BY <2>3, <2>6, <3>1
    <3>3. job[j].video # v
      <4>1. ASSUME job[j].video = v PROVE FALSE
        <5>1. job[i].at \in Running /\ job[i].video = job[j].video
          BY <3>1, <3>2, <4>1
        <5>2. job'[i] # NoJob /\ job'[i].video = v /\ ~job'[i].alone
          BY <1>6, <3>1, <3>2, <5>1, StartsBeside
        <5> QED BY <5>2 DEF Apart
      <4> QED BY <4>1
    <3>4. ASSUME NEW k \in Jobs, job[k].at = "waiting", job[k].video = v PROVE Waits(v)'
      <4>1. job'[k].at = "waiting"
        BY <2>3, <3>3, <3>4
      <4>2. job'[k].video = v
        BY <2>3, <3>4
      <4> QED BY <4>1, <4>2 DEF Waits
    <3>5. Waits(v) => Waits(v)'
      BY <3>4 DEF Waits
    <3> QED BY <1>2, <1>3, <2>1, <3>1, <3>2, <3>5 DEF Cleared
  <2> QED BY <2>5, <2>6 DEF Cleared
<1>7. CASE ReadOriginal(j)
  <2>1. CASE original[job[j].video]
    BY <1>4, <1>7, <2>1 DEF ReadOriginal, Step, columns
  <2>2. CASE ~original[job[j].video]
    BY <1>4, <1>7, <2>2 DEF ReadOriginal, Step, columns
  <2> QED BY <2>1, <2>2
<1>8. CASE PutPreview(j)
  BY <1>4, <1>8 DEF PutPreview, Step, columns
<1>9. CASE PutThumbnail(j)
  BY <1>4, <1>9 DEF PutThumbnail, Step, columns
<1>10. CASE ProcessingThrows(j)
  BY <1>4, <1>10 DEF ProcessingThrows, columns
<1>11. CASE MarkDone(j)
  <2>1. preview' = [preview EXCEPT ![job[j].video] = @ \/ There(job[j].video)]
    BY <1>11 DEF MarkDone, Publish
  <2>2. /\ preview[v] => preview'[v] /\ error' = error
        /\ job[j].video = v => preview'[v]
    BY <1>1, <1>11, <2>1 DEF MarkDone, TypeOK
  <2>3. CASE There(job[j].video)
    BY <1>4, <1>11, <2>2, <2>3 DEF MarkDone, Step
  <2>4. CASE ~There(job[j].video)
    BY <1>4, <1>11, <2>2, <2>4 DEF MarkDone, Step
  <2> QED BY <2>3, <2>4
<1>12. CASE MarkFailed(j)
  <2>1. UNCHANGED <<preview, error>> /\ job[j].at = "markFailed"
    BY <1>12 DEF MarkFailed
  <2>2. CASE There(job[j].video)
    BY <1>4, <1>12, <2>1, <2>2 DEF MarkFailed, Step
  <2>3. CASE ~There(job[j].video)
    <3>1. job[j].video # v /\ EndAttempt(j)
      BY <1>1, <1>12, <2>3 DEF MarkFailed
    <3> QED BY <1>5, <2>1, <3>1
  <2> QED BY <2>2, <2>3
<1>13. CASE RecordError(j)
  <2>1. UNCHANGED preview /\ job[j].at = "recordError" /\ EndAttempt(j)
    BY <1>13 DEF RecordError
  <2>2. error' = [error EXCEPT ![job[j].video] = There(job[j].video) /\ TRUE]
    BY <1>13 DEF RecordError, SetError
  <2>3. (error[v] => error'[v]) /\ (job[j].video = v => error'[v])
    BY <1>1, <2>2 DEF TypeOK
  <2> QED BY <1>5, <2>1, <2>3
<1>14. CASE CatchFails(j)
  <2>1. /\ UNCHANGED preview /\ job[j].at \in Running /\ EndAttempt(j)
        /\ job[j].left = 1 => job[j].video \in lost'
    BY <1>14 DEF CatchFails, columns
  <2>2. error' = error \/ SetError(job[j].video, TRUE)
    BY <1>14 DEF CatchFails, columns
  <2>3. error[v] => error'[v]
    BY <1>1, <2>2 DEF SetError, TypeOK
  <2> QED BY <1>5, <2>1, <2>3
<1>15. CASE NoDirectory(j)
  <2>1. /\ UNCHANGED <<preview, error>> /\ job[j].at \in Running /\ EndAttempt(j)
        /\ job[j].left = 1 => job[j].video \in lost'
    BY <1>15 DEF NoDirectory, columns
  <2> QED BY <1>5, <2>1
\* A job that clears the error and is done, or will be repeated.
<1>16. CASE ClearError(j)
  <2>1. /\ UNCHANGED preview /\ job[j].at = "clearError"
        /\ error' = [error EXCEPT ![job[j].video] = FALSE]
    BY <1>16 DEF ClearError, SetError
  <2>2. /\ job'[j].at \in {"done", "waiting"}
        /\ \A i \in Jobs \ {j} : job'[i] = job[i]
    BY <1>16, <2>1, MoveJob, EndsJob DEF ClearError, Step
  <2>3. Waits(v) => Waits(v)'
    BY <2>1, <2>2 DEF Waits
  <2>4. Cleared(v)'
    BY <1>2, <1>3, <2>1, <2>2, <2>3 DEF Cleared
  <2>5. CASE job[j].video = v
    <3>1. preview[v] \/ Requeued(v) \/ Waits(v)
      BY <1>2, <2>1, <2>5 DEF Cleared
    <3>2. Requeued(v)' => BeingQueued(v)'
      BY DEF Requeued, BeingQueued
    <3>3. Waits(v)' => Pending(v)' # {}
      BY DEF Waits, Pending
    <3> QED BY <1>3, <2>1, <2>3, <2>4, <3>1, <3>2, <3>3 DEF Judged
  <2>6. CASE job[j].video # v
    <3>1. error'[v] = error[v]
      BY <2>1, <2>6 DEF TypeOK
    <3>2. Pending(v) # {} => Pending(v)' # {}
      BY <2>2, <2>6 DEF Pending
    <3> QED BY <1>2, <1>3, <2>1, <2>4, <3>1, <3>2 DEF Judged
  <2> QED BY <2>5, <2>6
\* A call that is done and throws: the job is still at work.
<1>17. CASE ReplyLost(j)
  <2>1. /\ job[j].at \in Running /\ job' = [job EXCEPT ![j].at = "markFailed"]
        /\ preview' = preview \/ Publish(job[j].video)
        /\ error' = error \/ SetError(job[j].video, FALSE)
    BY <1>17 DEF ReplyLost, columns
  <2>2. preview[v] => preview'[v]
    BY <1>1, <2>1 DEF Publish, TypeOK
  <2>3. CASE job[j].video # v
    <3>1. error[v] => error'[v]
      BY <2>1, <2>3 DEF SetError, TypeOK
    <3> QED BY <1>4, <2>1, <2>2, <3>1
  <2>4. CASE job[j].video = v
    <3>1. /\ job'[j].at = "markFailed" /\ job'[j].video = v
          /\ \A i \in Jobs \ {j} : job'[i] = job[i]
      BY <2>1, <2>4, MoveJob
    <3>2. Pending(v)' # {}
      BY <3>1 DEF Pending
    <3>3. Waits(v) => Waits(v)'
      BY <2>1, <3>1 DEF Waits
    <3>4. Cleared(v)'
      BY <1>2, <1>3, <2>2, <3>1, <3>3 DEF Cleared
    <3> QED BY <3>2, <3>4 DEF Judged
  <2> QED BY <2>3, <2>4
<1> QED BY <1>6, <1>7, <1>8, <1>9, <1>10, <1>11, <1>12, <1>13, <1>14, <1>15, <1>16, <1>17
        DEF JobStep

\* No request and no job works on a video before its row is there.
Unqueued == \A v \in Videos :
               row[v] = "absent" =>
                  /\ ~BeingQueued(v)
                  /\ \A j \in Jobs : job[j] # NoJob => job[j].video # v

LEMMA UnqueuedNext == TypeOK /\ Unqueued /\ [Next]_vars => Unqueued'
<1> SUFFICES ASSUME TypeOK, Unqueued, [Next]_vars, NEW v \in Videos, row'[v] = "absent"
             PROVE  /\ ~BeingQueued(v)'
                    /\ \A j \in Jobs : job'[j] # NoJob => job'[j].video # v
  BY DEF Unqueued
<1> DEFINE Queues == {"enqueue", "unmark", "explain", "requeue"}
           None == \A t \in Requests : pc'[t] \in Queues => req'[t].video # v
           Others(s) == \A t \in Requests \ {s} : pc'[t] = pc[t] /\ req'[t] = req[t]
<1>1. row[v] = "absent"
  <2>1. ASSUME NEW w \in Videos, row' = [row EXCEPT ![w] = "there"] PROVE row[v] = "absent"
    BY <2>1 DEF TypeOK
  <2>2. ASSUME NEW s \in Requests, DeleteRow(s) \/ DeleteRowFails(s) PROVE row[v] = "absent"
    <3>1. row' = row \/ row' = [row EXCEPT ![req[s].video] = "deleted"]
      BY <2>2 DEF DeleteRow, DeleteRowFails, RemoveRow
    <3> QED BY <3>1 DEF TypeOK
  <2>3. UNCHANGED row => row[v] = "absent"
    OBVIOUS
  <2> QED BY <2>1, <2>2, <2>3
          DEF Next, Create, CreateFails, NewRow, Delete, Reprocess, RequestStep, Enqueue,
              EnqueueFails, Unmark, Explain, NoteFails, Reset, ResetFails, Requeue, RequeueFails,
              DeleteFiles, JobStep, StartJob, NoDirectory, ReadOriginal, PutPreview,
              PutThumbnail, MarkDone, ClearError, ProcessingThrows, ReplyLost, MarkFailed,
              RecordError, CatchFails, Download, Crash, vars
<1>2. /\ \A t \in Requests : pc[t] \in Queues => req[t].video # v
      /\ \A j \in Jobs : job[j] # NoJob => job[j].video # v
      /\ ~There(v)
  BY <1>1 DEF Unqueued, BeingQueued, There
<1>3. ASSUME NEW s \in Requests, Others(s), pc'[s] \in Queues => req'[s].video # v
      PROVE  None
  BY <1>2, <1>3
<1>4. ASSUME NEW s \in Requests, Answer(s) PROVE None
  <2>1. pc'[s] = "idle"
    BY <1>4 DEF Answer, Goto, TypeOK
  <2> QED BY <1>3, <1>4, <2>1, AnswersRequest
<1>5. ASSUME NEW s \in Requests, NEW p \in RequestSteps, Goto(s, p), UNCHANGED req,
             pc[s] \in Queues \/ p \notin Queues
      PROVE  None
  BY <1>2, <1>5 DEF Goto, TypeOK
<1>6. UNCHANGED requests => None
  BY <1>2 DEF requests
<1>7. ASSUME NEW s \in Requests, NEW p \in RequestSteps, Goto(s, p),
             NEW q, req' = [req EXCEPT ![s] = q], p \in Queues => q.video # v
      PROVE  None
  BY <1>2, <1>7 DEF Goto, TypeOK
<1>8. ASSUME NEW s \in Requests, NextVideo(s) PROVE None
  BY <1>4, <1>5, <1>8 DEF NextVideo, RequestSteps
<1>9. None
  <2> USE DEF RequestSteps
  <2>1. ASSUME NEW s \in Requests, NEW w \in Videos, Create(s, w) PROVE None
    <3>1. w # v
      BY <2>1 DEF Create, NewRow, TypeOK
    <3> QED BY <1>7, <2>1, <3>1 DEF Create
  <2>2. ASSUME NEW s \in Requests, NEW w \in Videos, Delete(s, w) PROVE None
    BY <1>7, <2>2 DEF Delete
  <2>3. ASSUME NEW s \in Requests, NEW kind, Reprocess(s, kind) PROVE None
    BY <1>7, <2>3 DEF Reprocess
  <2>4. ASSUME NEW s \in Requests, Reset(s) PROVE None
    <3>1. PICK w \in req[s].todo :
             \/ /\ There(w)
                /\ req' = [req EXCEPT ![s] = [kind |-> @.kind, video |-> w,
                                              todo |-> @.todo \ {w}]]
                /\ Goto(s, "requeue")
             \/ Answer(s)
      BY <2>4 DEF Reset, ResetRow
    <3>2. CASE Answer(s)
      BY <1>4, <3>2
    <3>3. CASE There(w) /\ Goto(s, "requeue")
               /\ req' = [req EXCEPT ![s] = [kind |-> @.kind, video |-> w,
                                             todo |-> @.todo \ {w}]]
      BY <1>2, <1>7, <3>3
    <3> QED BY <3>1, <3>2, <3>3
  <2>5. ASSUME NEW s \in Requests,
               \/ Enqueue(s) \/ Explain(s) \/ NoteFails(s) \/ ResetFails(s)
               \/ DeleteRow(s) \/ DeleteRowFails(s)
        PROVE  None
    BY <1>4, <2>5 DEF Enqueue, Explain, NoteFails, ResetFails, DeleteRow, DeleteRowFails
  <2>6. ASSUME NEW s \in Requests, EnqueueFails(s) \/ Unmark(s) \/ DeleteFiles(s) PROVE None
    BY <1>4, <1>5, <2>6 DEF EnqueueFails, Unmark, DeleteFiles
  <2>7. ASSUME NEW s \in Requests, Requeue(s) \/ RequeueFails(s) PROVE None
    BY <1>4, <1>8, <2>7 DEF Requeue, RequeueFails
  <2>8. CASE Crash
    BY <2>8 DEF Crash
  <2>9. ASSUME NEW j \in Jobs, JobStep(j) PROVE None
    BY <1>6, <2>9 DEF JobStep, StartJob, NoDirectory, ReadOriginal, PutPreview, PutThumbnail,
                      MarkDone, ClearError, ProcessingThrows, ReplyLost, MarkFailed, RecordError,
                      CatchFails
  <2> QED BY <1>6, <2>1, <2>2, <2>3, <2>4, <2>5, <2>6, <2>7, <2>8, <2>9
          DEF Next, CreateFails, RequestStep, Download, vars
<1>10. ASSUME NEW j \in Jobs, job'[j] # NoJob PROVE job'[j].video # v
  <2>1. CASE job[j] # NoJob
    BY <1>2, <2>1, KeepsVideo
  <2>2. CASE job[j] = NoJob
    <3>1. job[j].at = "none"
      BY <2>2 DEF NoJob
    <3>2. ASSUME NEW s \in Requests, pc[s] \in {"enqueue", "requeue"}, AddJob(req[s].video)
          PROVE  job'[j].video # v
      <4>1. req[s].video \in Videos /\ req[s].video # v
        BY <1>2, <3>2 DEF TypeOK, VideoRequest
      <4> QED BY <1>10, <2>2, <3>2, <4>1, AddsJob
    <3>3. job'[j] # job[j]
      BY <1>10, <2>2
    <3>4. ~Crash
      BY <3>1, <3>3 DEF Crash, Active, Running
    <3>5. ASSUME NEW i \in Jobs, JobStep(i) PROVE FALSE
      <4>1. job[i].at \in Busy
        BY <3>5 DEF JobStep, StartJob, NoDirectory, ReadOriginal, PutPreview, PutThumbnail,
                    MarkDone, ClearError, ProcessingThrows, ReplyLost, MarkFailed, RecordError,
                    CatchFails, Step, Busy, Running
      <4>2. i # j
        BY <3>1, <4>1 DEF Busy, Running
      <4>3. ~StartJob(i)
        BY <3>1, <3>3, <4>2 DEF StartJob, Active, Running
      <4>4. job'[j] = job[j]
        <5>1. EndAttempt(i) => job'[j] = job[j]
          BY <4>2 DEF EndAttempt, TypeOK
        <5>2. \A p : job' = [job EXCEPT ![i].at = p] => job'[j] = job[j]
          BY <4>2 DEF TypeOK
        <5> QED BY <3>5, <4>3, <5>1, <5>2
                DEF JobStep, NoDirectory, ReadOriginal, PutPreview, PutThumbnail, MarkDone,
                    ClearError, ProcessingThrows, ReplyLost, MarkFailed, RecordError, CatchFails,
                    Step
      <4> QED BY <3>3, <4>4
    <3>6. \A s \in Requests : RequestStep(s) =>
             pc[s] \in {"enqueue", "requeue"} /\ AddJob(req[s].video)
      BY <3>3 DEF RequestStep, Enqueue, EnqueueFails, Unmark, Explain, NoteFails, Reset, ResetFails,
                  Requeue, RequeueFails, DeleteFiles, DeleteRow, DeleteRowFails
    <3> QED BY <3>2, <3>3, <3>4, <3>5, <3>6
            DEF Next, Create, CreateFails, Delete, Reprocess, Download, vars
  <2> QED BY <2>1, <2>2
<1> QED BY <1>9, <1>10 DEF BeingQueued

LEMMA RestRequestStep ==
  ASSUME TypeOK, RestInv, [Next]_vars, NEW s \in Requests, RequestStep(s)
  PROVE  RestInv'
<1> SUFFICES ASSUME NEW v \in Videos, There(v)', v \notin lost', Apart(v)'
             PROVE  Judged(v)' /\ Cleared(v)'
  BY DEF RestInv
<1> DEFINE Queues == {"enqueue", "unmark", "explain", "requeue"}
           Others == \A t \in Requests \ {s} : pc'[t] = pc[t] /\ req'[t] = req[t]
           Its == pc[s] \in Queues /\ req[s].video = v
           Goal == Judged(v)' /\ Cleared(v)'
<1>1. pc[s] \notin {"idle", "reset"} => req[s].video \in Videos
  BY DEF TypeOK, VideoRequest
<1>2. There(v) /\ v \notin lost => Judged(v) /\ Cleared(v)
  BY WereApart DEF RestInv
<1>3. ASSUME Others, BeingQueued(v) PROVE BeingQueued(v)' \/ Its
  BY <1>3 DEF BeingQueued
<1>4. ASSUME Others, Requeued(v) PROVE Requeued(v)' \/ (Its /\ pc[s] = "requeue")
  BY <1>4 DEF Requeued
\* A job was added.
<1>5. ASSUME There(v), Others, UNCHANGED <<preview, error>>, pc[s] \in Queues,
             AddJob(req[s].video)
      PROVE  Goal
  <2>1. /\ Waits(v) => Waits(v)'
        /\ req[s].video = v => Waits(v)'
        /\ \A j \in Jobs : job'[j].at = "clearError" => job[j] = job'[j]
        /\ v \notin lost \/ req[s].video = v
    BY <1>1, <1>5, AddsWaiting
  <2>2. Waits(v)' => Pending(v)' # {}
    BY DEF Waits, Pending
  <2>3. CASE req[s].video = v
    BY <2>1, <2>2, <2>3 DEF Judged, Cleared
  <2>4. CASE req[s].video # v
    <3>1. Judged(v) /\ Cleared(v)
      BY <1>2, <1>5, <2>1, <2>4
    <3>2. Pending(v) # {} => Pending(v)' # {}
      <4>1. PICK i \in Jobs : /\ job[i] = NoJob
                              /\ \A k \in Jobs \ {i} : job'[k] = job[k]
        BY <1>1, <1>5, AddsJob
      <4>2. i \notin Pending(v)
        BY <4>1 DEF Pending, NoJob, Running
      <4> QED BY <4>1, <4>2 DEF Pending
    <3>3. Judged(v)'
      BY <1>3, <1>5, <2>4, <3>1, <3>2 DEF Judged
    <3>4. Cleared(v)'
      BY <1>4, <1>5, <2>1, <2>4, <3>1 DEF Cleared
    <3> QED BY <3>3, <3>4
  <2> QED BY <2>3, <2>4
\* No job was added: what the request still owed the video is done, or given up.
<1>6. ASSUME There(v), v \notin lost, UNCHANGED job, Others,
             preview[v] => preview'[v] \/ Requeued(v)',
             error[v] => error'[v] \/ Requeued(v)',
             Its => BeingQueued(v)' \/ error'[v],
             Its => pc[s] # "requeue"
      PROVE  Goal
  <2>1. Pending(v)' = Pending(v) /\ Waits(v)' = Waits(v)
    BY <1>6 DEF Pending, Waits
  <2>2. Requeued(v)' => BeingQueued(v)'
    BY DEF Requeued, BeingQueued
  <2>3. Judged(v)'
    BY <1>2, <1>3, <1>6, <2>1, <2>2 DEF Judged
  <2>4. Cleared(v)'
    BY <1>2, <1>4, <1>6, <2>1 DEF Cleared
  <2> QED BY <2>3, <2>4
<1>7. CASE Enqueue(s)
  <2>1. Others
    BY <1>7, AnswersRequest DEF Enqueue
  <2> QED BY <1>5, <1>7, <2>1 DEF Enqueue, There, columns
<1>8. CASE EnqueueFails(s)
  <2>1. /\ Others /\ pc[s] = "enqueue" /\ pc'[s] = "unmark" /\ req' = req
        /\ There(v) /\ UNCHANGED <<preview, error>>
    BY <1>8 DEF EnqueueFails, Goto, TypeOK, There, columns
  <2>2. Its => BeingQueued(v)'
    BY <2>1 DEF BeingQueued
  <2>3. CASE AddJob(req[s].video)
    BY <1>5, <2>1, <2>3
  <2>4. CASE UNCHANGED <<job, lost>>
    BY <1>6, <2>1, <2>2, <2>4
  <2> QED BY <1>8, <2>3, <2>4 DEF EnqueueFails
<1>9. CASE Unmark(s)
  <2>1. /\ There(v) /\ v \notin lost /\ pc[s] = "unmark"
        /\ UNCHANGED <<preview, error, job>>
    BY <1>9 DEF Unmark, There, luck
  <2>2. CASE There(req[s].video)
    <3>1. Others /\ pc'[s] = "explain" /\ req' = req
      BY <1>9, <2>2 DEF Unmark, Goto, TypeOK
    <3>2. Its => BeingQueued(v)'
      BY <3>1 DEF BeingQueued
    <3> QED BY <1>6, <2>1, <3>1, <3>2
  <2>3. CASE ~There(req[s].video)
    <3>1. Others
      BY <1>9, <2>3, AnswersRequest DEF Unmark
    <3> QED BY <1>6, <2>1, <2>3, <3>1
  <2> QED BY <2>2, <2>3
<1>10. CASE Explain(s)
  <2>1. /\ There(v) /\ v \notin lost /\ pc[s] = "explain"
        /\ UNCHANGED <<preview, job>>
    BY <1>10 DEF Explain, There, luck
  <2>2. Others
    BY <1>10, AnswersRequest DEF Explain
  <2>3. error' = [error EXCEPT ![req[s].video] = There(req[s].video) /\ TRUE]
    BY <1>10 DEF Explain, SetError
  <2>4. (error[v] => error'[v]) /\ (Its => error'[v])
    BY <2>1, <2>3 DEF TypeOK
  <2> QED BY <1>6, <2>1, <2>2, <2>4
<1>11. CASE Reset(s)
  <2>1. There(v) /\ v \notin lost /\ pc[s] = "reset" /\ UNCHANGED job
    BY <1>11 DEF Reset, There, luck
  <2>2. PICK w \in req[s].todo :
           \/ /\ There(w)
              /\ preview' = [preview EXCEPT ![w] = @ /\ req[s].kind = "failed"]
              /\ error' = [error EXCEPT ![w] = FALSE]
              /\ req' = [req EXCEPT ![s] = [kind |-> @.kind, video |-> w,
                                            todo |-> @.todo \ {w}]]
              /\ Goto(s, "requeue")
           \/ Answer(s) /\ UNCHANGED columns
    BY <1>11 DEF Reset, ResetRow
  <2>3. CASE Answer(s) /\ UNCHANGED columns
    <3>1. Others
      BY <2>3, AnswersRequest
    <3> QED BY <1>6, <2>1, <2>3, <3>1 DEF columns
  <2>4. CASE /\ There(w)
             /\ preview' = [preview EXCEPT ![w] = @ /\ req[s].kind = "failed"]
             /\ error' = [error EXCEPT ![w] = FALSE]
             /\ req' = [req EXCEPT ![s] = [kind |-> @.kind, video |-> w,
                                           todo |-> @.todo \ {w}]]
             /\ Goto(s, "requeue")
    <3>1. Others /\ pc'[s] = "requeue" /\ req'[s].video = w
      BY <2>4 DEF Goto, TypeOK
    <3>2. w = v => Requeued(v)'
      BY <3>1 DEF Requeued
    <3>3. w # v => preview'[v] = preview[v] /\ error'[v] = error[v]
      BY <2>4 DEF TypeOK
    <3> QED BY <1>6, <2>1, <3>1, <3>2, <3>3
  <2> QED BY <2>2, <2>3, <2>4
<1>12. CASE Requeue(s)
  <2>1. Others
    BY <1>12, NextsVideo DEF Requeue
  <2> QED BY <1>5, <1>12, <2>1 DEF Requeue, There, columns
<1>13. CASE RequeueFails(s)
  <2>1. There(v) /\ UNCHANGED <<preview, error>> /\ pc[s] = "requeue"
    BY <1>13 DEF RequeueFails, There, columns
  <2>2. Others
    BY <1>13, AnswersRequest, NextsVideo DEF RequeueFails
  <2>3. CASE AddJob(req[s].video)
    BY <1>5, <2>1, <2>2, <2>3
  <2>4. CASE lost' = lost \cup {req[s].video} /\ UNCHANGED job
    BY <1>6, <2>1, <2>2, <2>4
  <2> QED BY <1>13, <2>3, <2>4 DEF RequeueFails
<1>14. CASE DeleteFiles(s)
  <2>1. /\ There(v) /\ v \notin lost /\ pc[s] = "deleteFiles" /\ Others
        /\ UNCHANGED <<preview, error, job>>
    BY <1>14 DEF DeleteFiles, There, columns, Goto, TypeOK
  <2> QED BY <1>6, <2>1
<1>15. CASE DeleteRow(s)
  <2>1. v \notin lost /\ pc[s] = "deleteRow" /\ UNCHANGED job
    BY <1>15 DEF DeleteRow, luck
  <2>2. Others
    BY <1>15, AnswersRequest DEF DeleteRow
  <2>3. There(v) /\ preview'[v] = preview[v] /\ error'[v] = error[v]
    BY <1>1, <1>15 DEF DeleteRow, RemoveRow, There, columns, TypeOK
  <2> QED BY <1>6, <2>1, <2>2, <2>3
<1>16. CASE DeleteRowFails(s)
  <2>1. v \notin lost /\ pc[s] = "deleteRow" /\ UNCHANGED job
    BY <1>16 DEF DeleteRowFails
  <2>2. Others
    BY <1>16, AnswersRequest DEF DeleteRowFails
  <2>3. There(v) /\ preview'[v] = preview[v] /\ error'[v] = error[v]
    BY <1>1, <1>16 DEF DeleteRowFails, RemoveRow, There, columns, TypeOK
  <2> QED BY <1>6, <2>1, <2>2, <2>3
<1>17. CASE NoteFails(s)
  <2>1. /\ There(v) /\ v \notin lost /\ UNCHANGED <<preview, job>> /\ ~Its
        /\ error' = error \/ SetError(req[s].video, TRUE)
    BY <1>17 DEF NoteFails, There, columns
  <2>2. Others
    BY <1>17, AnswersRequest DEF NoteFails
  <2>3. error[v] => error'[v]
    BY <2>1 DEF SetError, TypeOK
  <2> QED BY <1>6, <2>1, <2>2, <2>3
<1>18. CASE ResetFails(s)
  <2>1. /\ There(v) /\ v \notin lost /\ UNCHANGED job /\ ~Its
    BY <1>18 DEF ResetFails, There
  <2>2. Others
    BY <1>18, AnswersRequest DEF ResetFails
  <2>3. preview'[v] = preview[v] /\ error'[v] = error[v]
    BY <1>18 DEF ResetFails, ResetRow, columns, TypeOK
  <2> QED BY <1>6, <2>1, <2>2, <2>3
<1> QED BY <1>7, <1>8, <1>9, <1>10, <1>11, <1>12, <1>13, <1>14, <1>15, <1>16, <1>17, <1>18
        DEF RequestStep

LEMMA RestNext == TypeOK /\ Unqueued /\ RestInv /\ [Next]_vars => RestInv'
<1> SUFFICES ASSUME TypeOK, Unqueued, RestInv, [Next]_vars PROVE RestInv'
  OBVIOUS
\* What starts no job and ends no request.
<1>1. ASSUME NEW v \in Videos, v \notin lost', Apart(v)', There(v),
             UNCHANGED <<preview, error, job, lost>>,
             BeingQueued(v) => BeingQueued(v)', Requeued(v) => Requeued(v)'
      PROVE  Judged(v)' /\ Cleared(v)'
  <2>1. Judged(v) /\ Cleared(v)
    BY <1>1, WereApart DEF RestInv
  <2>2. Pending(v)' = Pending(v) /\ Waits(v)' = Waits(v)
    BY <1>1 DEF Pending, Waits
  <2> QED BY <1>1, <2>1, <2>2 DEF Judged, Cleared
<1>2. ASSUME NEW s \in Requests, pc[s] = "idle", NEW v \in Videos,
             \A t \in Requests \ {s} : pc'[t] = pc[t] /\ req'[t] = req[t]
      PROVE  (BeingQueued(v) => BeingQueued(v)') /\ (Requeued(v) => Requeued(v)')
  BY <1>2 DEF BeingQueued, Requeued
<1>3. ASSUME NEW s \in Requests, NEW w \in Videos, Create(s, w) PROVE RestInv'
  <2> SUFFICES ASSUME NEW v \in Videos, There(v)', v \notin lost', Apart(v)'
               PROVE  Judged(v)' /\ Cleared(v)'
    BY DEF RestInv
  <2>1. /\ UNCHANGED <<preview, error, job, lost>> /\ pc[s] = "idle"
        /\ pc'[s] = "enqueue" /\ req'[s].video = w
        /\ \A t \in Requests \ {s} : pc'[t] = pc[t] /\ req'[t] = req[t]
    BY <1>3 DEF Create, NewRow, luck, Goto, TypeOK
  <2>2. CASE w = v
    <3>1. \A j \in Jobs : job[j] # NoJob => job[j].video # v
      BY <1>3, <2>2 DEF Create, NewRow, Unqueued
    <3>2. Cleared(v)'
      BY <2>1, <3>1 DEF Cleared, NoJob
    <3>3. BeingQueued(v)'
      BY <2>1, <2>2 DEF BeingQueued
    <3> QED BY <3>2, <3>3 DEF Judged
  <2>3. CASE w # v
    <3>1. There(v)
      BY <1>3, <2>3 DEF Create, NewRow, There, TypeOK
    <3> QED BY <1>1, <1>2, <2>1, <3>1
  <2> QED BY <2>2, <2>3
<1>4. ASSUME NEW s \in Requests, NEW w \in Videos, Delete(s, w) PROVE RestInv'
  <2>1. /\ UNCHANGED <<row, preview, error, job, lost>> /\ pc[s] = "idle"
        /\ \A t \in Requests \ {s} : pc'[t] = pc[t] /\ req'[t] = req[t]
    BY <1>4 DEF Delete, luck, columns, Goto, TypeOK
  <2> QED BY <1>1, <1>2, <2>1 DEF RestInv, There
<1>5. ASSUME NEW s \in Requests, NEW kind \in {"failed", "all", "script"}, Reprocess(s, kind)
      PROVE  RestInv'
  <2>1. /\ UNCHANGED <<row, preview, error, job, lost>> /\ pc[s] = "idle"
        /\ \A t \in Requests \ {s} : pc'[t] = pc[t] /\ req'[t] = req[t]
    BY <1>5 DEF Reprocess, luck, columns, Goto, TypeOK
  <2> QED BY <1>1, <1>2, <2>1 DEF RestInv, There
<1>6. ASSUME NEW w \in Videos, Download(w) PROVE RestInv'
  <2>1. UNCHANGED <<row, preview, error, job, lost, pc, req>>
    BY <1>6 DEF Download, columns, luck, requests
  <2> QED BY <1>1, <2>1 DEF RestInv, There, BeingQueued, Requeued
<1>7. CASE Crash
  <2> SUFFICES ASSUME NEW v \in Videos, There(v)', v \notin lost', Apart(v)'
               PROVE  Judged(v)' /\ Cleared(v)'
    BY DEF RestInv
  <2>1. There(v) /\ v \notin lost /\ ~BeingQueued(v) /\ UNCHANGED <<preview, error>>
    BY <1>7 DEF Crash, There, BeingQueued, columns
  <2>2. Judged(v)
    BY <2>1, WereApart DEF RestInv
  <2>3. Pending(v) # {} => Pending(v)' # {}
    BY <1>7, CrashesJobs DEF Pending, Busy
  <2>4. ASSUME NEW j \in Jobs PROVE job'[j].at # "clearError"
    <3>1. CASE j \in Active
      <4>1. job[j] \in Job
        BY <3>1, BusyIsJob DEF Active, Busy
      <4>2. \/ job'[j] = [job[j] EXCEPT !.at = "waiting", !.stalls = @ + 1]
            \/ job'[j] = [job[j] EXCEPT !.at = "done"]
        BY <1>7, <3>1 DEF Crash, Stalled
      <4> QED BY <4>1, <4>2 DEF Job
    <3>2. CASE j \notin Active
      BY <1>7, <3>2 DEF Crash, Active, Running
    <3> QED BY <3>1, <3>2
  <2> QED BY <2>1, <2>2, <2>3, <2>4 DEF Judged, Cleared
<1>8. CASE UNCHANGED vars
  <2>1. UNCHANGED <<row, preview, error, job, lost, pc, req>>
    BY <1>8 DEF vars, columns, luck, requests
  <2> QED BY <1>1, <2>1 DEF RestInv, There, BeingQueued, Requeued
<1>9. ASSUME NEW s \in Requests, NEW w \in Videos, CreateFails(s, w) PROVE RestInv'
  <2> SUFFICES ASSUME NEW v \in Videos, There(v)', v \notin lost', Apart(v)'
               PROVE  Judged(v)' /\ Cleared(v)'
    BY DEF RestInv
  <2>1. w # v /\ v \notin lost /\ UNCHANGED <<preview, error, job, pc, req>>
    BY <1>9 DEF CreateFails, NewRow, requests
  <2>2. There(v)
    BY <1>9, <2>1 DEF CreateFails, NewRow, There, TypeOK
  <2>3. Judged(v) /\ Cleared(v)
    BY <2>1, <2>2, WereApart DEF RestInv
  <2> QED BY <2>1, <2>3 DEF Judged, Cleared, Pending, Waits, BeingQueued, Requeued
<1> QED BY <1>3, <1>4, <1>5, <1>6, <1>7, <1>8, <1>9, RestJobStep, RestRequestStep DEF Next

\* A video that nothing works on any more has a preview or says why not, unless
\* a fault has cut it off or two of its jobs have run at the same time.
THEOREM RestedHaveVerdicts == Spec => []RestHasVerdict
<1>1. Init => Unqueued /\ RestInv
  BY DEF Init, Unqueued, RestInv, BeingQueued, There, NoJob
<1>2. RestInv => RestHasVerdict
  BY DEF RestInv, RestHasVerdict, Apart, Judged
<1> QED BY <1>1, <1>2, TypeCorrect, UnqueuedNext, RestNext, PTL DEF Spec
=============================================================================
