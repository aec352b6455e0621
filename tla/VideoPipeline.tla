---------------------------- MODULE VideoPipeline -----------------------------
(* The processing of videos: the admin requests of VideosService that start  *)
(* it or take a video away (src/videos/videos.service.ts), the BullMQ queue, *)
(* and the worker that cuts the preview and the thumbnail                    *)
(* (src/video-processing/).  Row, queue and buckets are three stores, and no *)
(* transaction spans them: each awaited call is an action.                   *)
(*                                                                           *)
(* What the requests check before they write (genre, title) is in Catalogue. *)
EXTENDS Naturals, FiniteSetsExt

CONSTANTS
    Videos,
    Requests,    \* slots for admin requests in flight
    Jobs,        \* identities of jobs; bounds how many are ever enqueued
    Attempts,    \* `attempts` of a job
    MaxStalls,   \* stalls a job survives (BullMQ's maxStalledCount)
    Concurrency, \* VIDEO_PROCESSING_CONCURRENCY
    MaxFaults    \* bound: calls of a request that fail (but NoteFails), writes of
                 \* the catch block that fail, crashes

ASSUME PipelineAssumption ==
    /\ IsFiniteSet(Requests) /\ IsFiniteSet(Jobs)
    /\ Attempts \in Nat \ {0}
    /\ MaxStalls \in Nat
    /\ Concurrency \in Nat \ {0}
    /\ MaxFaults \in Nat

VARIABLES
    row,        \* "absent", "there" or "deleted": the row of Video
    processing, \* isProcessing
    preview,    \* previewKey and thumbnailKey are set
    error,      \* processingError is set, and processedAt is not
    used,       \* rows of DownloadHistory refer to the video
    original,   \* fullVideoKey names an object of the private bucket
    assets,     \* objects of the video in the public bucket
    job,        \* the queue
    pc,         \* the next call of each request
    req,        \* what it works on
    lost,       \* videos whose processing a fault has cut off
    faults      \* faults so far

columns == <<processing, preview, error>>
files == <<original, assets>>
requests == <<pc, req>>
luck == <<lost, faults>>
vars == <<row, columns, used, files, job, requests, luck>>

Assets == {"preview", "thumbnail"}
NoJob == [at |-> "none"]
NoRequest == [kind |-> "none", todo |-> {}]

Init == /\ row = [v \in Videos |-> "absent"]
        /\ processing = [v \in Videos |-> FALSE]
        /\ preview = [v \in Videos |-> FALSE]
        /\ error = [v \in Videos |-> FALSE]
        /\ used = [v \in Videos |-> FALSE]
        /\ original \in [Videos -> BOOLEAN]
        /\ assets = [v \in Videos |-> {}]
        /\ job = [j \in Jobs |-> NoJob]
        /\ pc = [s \in Requests |-> "idle"]
        /\ req = [s \in Requests |-> NoRequest]
        /\ lost = {}
        /\ faults = 0

There(v) == row[v] = "there"

Fault == faults < MaxFaults /\ faults' = faults + 1

-----------------------------------------------------------------------------
(* Admin requests.                                                           *)

Goto(s, p) == pc' = [pc EXCEPT ![s] = p]

Answer(s) == Goto(s, "idle") /\ req' = [req EXCEPT ![s] = NoRequest]

\* How many jobs a request may still add.
Owed(s) == Cardinality(req[s].todo) + (IF pc[s] \in {"enqueue", "requeue"} THEN 1 ELSE 0)

\* The bound on jobs: a request starts only if its jobs will fit.
Room(n) == MapThenSumSet(Owed, Requests) + n
               <= Cardinality({j \in Jobs : job[j] = NoJob})

\* enqueueVideoProcessing
AddJob(v) ==
    LET j == CHOOSE i \in Jobs : job[i] = NoJob
    IN  /\ \E i \in Jobs : job[i] = NoJob
        /\ job' = [job EXCEPT ![j] =
                      [at |-> "waiting", video |-> v, left |-> Attempts, stalls |-> 0,
                       alone |-> TRUE]]
        /\ lost' = lost \ {v}

\* createVideo: the row first, marked as processing.
NewRow(v) == /\ row[v] = "absent"
             /\ row' = [row EXCEPT ![v] = "there"]
             /\ processing' = [processing EXCEPT ![v] = TRUE]
             /\ UNCHANGED <<preview, error>>

Create(s, v) ==
    /\ pc[s] = "idle" /\ Room(1)
    /\ NewRow(v)
    /\ req' = [req EXCEPT ![s] = [kind |-> "create", video |-> v, todo |-> {}]]
    /\ Goto(s, "enqueue")
    /\ UNCHANGED <<used, files, job, luck>>

\* The row is there and the reply is lost: executeDatabaseOperation throws, and
\* the request ends before anything is queued or unmarked.
CreateFails(s, v) ==
    /\ pc[s] = "idle" /\ Fault
    /\ NewRow(v)
    /\ lost' = lost \cup {v}
    /\ UNCHANGED <<used, files, job, requests>>

Enqueue(s) ==
    /\ pc[s] = "enqueue"
    /\ AddJob(req[s].video)
    /\ Answer(s)
    /\ UNCHANGED <<row, columns, used, files, faults>>

\* Mutant: that a new video cannot be queued is only logged.
EnqueueFailsLogged(s) ==
    /\ pc[s] = "enqueue" /\ Fault
    /\ AddJob(req[s].video) \/ UNCHANGED <<job, lost>>
    /\ Answer(s)
    /\ UNCHANGED <<row, columns, used, files>>

\* The queue refuses the job, or takes it and the reply is lost.
EnqueueFails(s) ==
    /\ pc[s] = "enqueue" /\ Fault
    /\ AddJob(req[s].video) \/ UNCHANGED <<job, lost>>
    /\ Goto(s, "unmark")
    /\ UNCHANGED <<row, columns, used, files, req>>

\* An update of the row of v; it throws when the row is gone.
Unmark(s) ==
    /\ pc[s] = "unmark"
    /\ LET v == req[s].video
       IN  \/ /\ There(v)
              /\ processing' = [processing EXCEPT ![v] = FALSE]
              /\ Goto(s, "explain")
              /\ UNCHANGED req
           \/ ~There(v) /\ Answer(s) /\ UNCHANGED processing
    /\ UNCHANGED <<row, preview, error, used, files, job, luck>>

\* Raw SQL, which updates the row if there is one.
SetError(v, e) == error' = [error EXCEPT ![v] = There(v) /\ e]

Explain(s) ==
    /\ pc[s] = "explain"
    /\ SetError(req[s].video, TRUE)
    /\ Answer(s)
    /\ UNCHANGED <<row, processing, preview, used, files, job, luck>>

\* One of these two updates fails, done or not: nothing follows it.  It needs no
\* bound of its own, since only a request that met a fault comes here.
NoteFails(s) ==
    /\ pc[s] \in {"unmark", "explain"}
    /\ \/ UNCHANGED columns
       \/ /\ pc[s] = "unmark"
          /\ processing' = [processing EXCEPT ![req[s].video] = FALSE]
          /\ UNCHANGED <<preview, error>>
       \/ /\ pc[s] = "explain"
          /\ SetError(req[s].video, TRUE)
          /\ UNCHANGED <<processing, preview>>
    /\ lost' = lost \cup {req[s].video}
    /\ Answer(s)
    /\ UNCHANGED <<row, used, files, job, faults>>

\* The videos that reprocessFailedVideos, reprocessAllVideos and the script
\* scripts/reprocess-all-videos.ts find.
Selected(kind) ==
    {v \in Videos : There(v) /\ (kind = "failed" => ~preview[v] /\ ~processing[v])}

Reprocess(s, kind) ==
    /\ pc[s] = "idle"
    /\ Selected(kind) # {} /\ Room(Cardinality(Selected(kind)))
    /\ req' = [req EXCEPT ![s] = [kind |-> kind, todo |-> Selected(kind)]]
    /\ Goto(s, "reset")
    /\ UNCHANGED <<row, columns, used, files, job, luck>>

\* Only a reprocess of all forgets the preview.
ResetRow(s, v) == /\ There(v)
                  /\ processing' = [processing EXCEPT ![v] = TRUE]
                  /\ preview' = [preview EXCEPT ![v] = @ /\ req[s].kind = "failed"]
                  /\ error' = [error EXCEPT ![v] = FALSE]

\* The loop marks one video after the other; one that is gone ends it.
Reset(s) ==
    /\ pc[s] = "reset"
    /\ \E v \in req[s].todo :
          \/ /\ ResetRow(s, v)
             /\ req' = [req EXCEPT ![s] = [kind |-> @.kind, video |-> v,
                                           todo |-> @.todo \ {v}]]
             /\ Goto(s, "requeue")
          \/ ~There(v) /\ Answer(s) /\ UNCHANGED columns
    /\ UNCHANGED <<row, used, files, job, luck>>

\* The update fails, and the loop with it.  If only its reply was lost, the video
\* is marked and nobody queues it.
ResetFails(s) ==
    /\ pc[s] = "reset" /\ Fault
    /\ \/ UNCHANGED <<columns, lost>>
       \/ \E v \in req[s].todo : ResetRow(s, v) /\ lost' = lost \cup {v}
    /\ Answer(s)
    /\ UNCHANGED <<row, used, files, job>>

NextVideo(s) == \/ req[s].todo # {} /\ Goto(s, "reset") /\ UNCHANGED req
                \/ req[s].todo = {} /\ Answer(s)

Requeue(s) ==
    /\ pc[s] = "requeue"
    /\ AddJob(req[s].video)
    /\ NextVideo(s)
    /\ UNCHANGED <<row, columns, used, files, faults>>

\* The requests log the error and go on with the next video, the script ends.
\* Nobody unmarks the video.
RequeueFails(s) ==
    /\ pc[s] = "requeue" /\ Fault
    /\ \/ AddJob(req[s].video)
       \/ lost' = lost \cup {req[s].video} /\ UNCHANGED job
    /\ IF req[s].kind = "script" THEN Answer(s) ELSE NextVideo(s)
    /\ UNCHANGED <<row, columns, used, files>>

\* deleteVideo finds the row, ...
Delete(s, v) ==
    /\ pc[s] = "idle" /\ There(v)
    /\ req' = [req EXCEPT ![s] = [kind |-> "delete", video |-> v, todo |-> {}]]
    /\ Goto(s, "deleteFiles")
    /\ UNCHANGED <<row, columns, used, files, job, luck>>

\* ... deletes its keys from the private bucket, where the preview and the
\* thumbnail are not, and goes on when that fails, ...
DeleteFiles(s) ==
    /\ pc[s] = "deleteFiles"
    /\ \/ original' = [original EXCEPT ![req[s].video] = FALSE] /\ UNCHANGED faults
       \/ Fault /\ UNCHANGED original
    /\ Goto(s, "deleteRow")
    /\ UNCHANGED <<row, columns, used, assets, job, req, lost>>

\* ... and deletes the row, unless a download refers to it or it is gone.
RemoveRow(v) ==
    IF There(v) /\ ~used[v]
    THEN /\ row' = [row EXCEPT ![v] = "deleted"]
         /\ processing' = [processing EXCEPT ![v] = FALSE]
         /\ preview' = [preview EXCEPT ![v] = FALSE]
         /\ error' = [error EXCEPT ![v] = FALSE]
    ELSE UNCHANGED <<row, columns>>

DeleteRow(s) ==
    /\ pc[s] = "deleteRow"
    /\ RemoveRow(req[s].video)
    /\ Answer(s)
    /\ UNCHANGED <<used, files, job, luck>>

DeleteRowFails(s) ==
    /\ pc[s] = "deleteRow" /\ Fault
    /\ RemoveRow(req[s].video) \/ UNCHANGED <<row, columns>>
    /\ Answer(s)
    /\ UNCHANGED <<used, files, job, lost>>

\* generateVideoDownloadUrl adds a row of DownloadHistory.
Download(v) ==
    /\ There(v) /\ ~used[v]
    /\ used' = [used EXCEPT ![v] = TRUE]
    /\ UNCHANGED <<row, columns, files, job, requests, luck>>

-----------------------------------------------------------------------------
(* The worker.                                                               *)

Running == {"read", "putPreview", "putThumbnail", "markDone", "clearError",
            "markFailed", "recordError"}

Active == {j \in Jobs : job[j].at \in Running}
Pending(v) == {j \in Jobs : job[j].at \in Running \cup {"waiting"} /\ job[j].video = v}

Step(j, from, to) == job[j].at = from /\ job' = [job EXCEPT ![j].at = to]

\* Mutant: an attempt that threw is always repeated.
EndAttemptAlways(j) == job' = [job EXCEPT ![j].at = "waiting", ![j].left = @ - 1]

\* An attempt that threw is repeated until none is left.
EndAttempt(j) ==
    job' = [job EXCEPT ![j].at = IF job[j].left = 1 THEN "done" ELSE "waiting",
                       ![j].left = @ - 1]

\* `alone` is no part of the queue: it tells RestHasVerdict which jobs of one
\* video have run at the same time.
StartJob(j) ==
    LET others == {i \in Active : job[i].video = job[j].video}
    IN  /\ job[j].at = "waiting"
        /\ Cardinality(Active) < Concurrency
        /\ job' = [i \in Jobs |->
                      IF i = j THEN [job[j] EXCEPT !.at = "read",
                                                   !.alone = @ /\ others = {}]
                      ELSE IF i \in others THEN [job[i] EXCEPT !.alone = FALSE]
                      ELSE job[i]]
        /\ UNCHANGED <<row, columns, used, files, requests, luck>>

\* The working directory is made before the try block: without one the attempt
\* ends and nothing is written, and after the last attempt nothing will be.
NoDirectory(j) ==
    /\ job[j].at = "read"
    /\ EndAttempt(j)
    /\ lost' = IF job[j].left = 1 THEN lost \cup {job[j].video} ELSE lost
    /\ UNCHANGED <<row, columns, used, files, requests, faults>>

\* downloadOriginalVideo, generatePreviewClip and generateThumbnail
ReadOriginal(j) ==
    /\ Step(j, "read", IF original[job[j].video] THEN "putPreview" ELSE "markFailed")
    /\ UNCHANGED <<row, columns, used, files, requests, luck>>

PutAsset(j, a) == assets' = [assets EXCEPT ![job[j].video] = @ \cup {a}]

PutPreview(j) == /\ Step(j, "putPreview", "putThumbnail")
                 /\ PutAsset(j, "preview")
                 /\ UNCHANGED <<row, columns, used, original, requests, luck>>

\* Mutant: the row is updated before the thumbnail is uploaded.
PutThumbnailLater(j) == /\ Step(j, "putThumbnail", "markDone")
                        /\ UNCHANGED <<row, columns, used, files, requests, luck>>

PutThumbnail(j) == /\ Step(j, "putThumbnail", "markDone")
                   /\ PutAsset(j, "thumbnail")
                   /\ UNCHANGED <<row, columns, used, original, requests, luck>>

\* Mutant: success leaves the processing flag to nobody.
MarkDoneFlagged(j) ==
    LET v == job[j].video IN
    /\ Step(j, "markDone", IF There(v) THEN "clearError" ELSE "markFailed")
    /\ preview' = [preview EXCEPT ![v] = @ \/ There(v)]
    /\ UNCHANGED <<row, processing, error, used, files, requests, luck>>

Publish(v) == /\ preview' = [preview EXCEPT ![v] = @ \/ There(v)]
              /\ processing' = [processing EXCEPT ![v] = @ /\ ~There(v)]

\* The update of a row that is gone throws.
MarkDone(j) ==
    LET v == job[j].video IN
    /\ Step(j, "markDone", IF There(v) THEN "clearError" ELSE "markFailed")
    /\ Publish(v)
    /\ UNCHANGED <<row, error, used, files, requests, luck>>

\* If the directory cannot be removed, the queue repeats what has succeeded.
ClearError(j) == /\ job[j].at = "clearError"
                 /\ Step(j, "clearError", "done") \/ EndAttempt(j)
                 /\ SetError(job[j].video, FALSE)
                 /\ UNCHANGED <<row, processing, preview, used, files, requests, luck>>

\* Anything in the try block may throw, ffmpeg included, ...
ProcessingThrows(j) ==
    /\ job[j].at \in {"read", "putPreview", "putThumbnail", "markDone", "clearError"}
    /\ job' = [job EXCEPT ![j].at = "markFailed"]
    /\ UNCHANGED <<row, columns, used, files, requests, luck>>

\* ... also when what was called is done, and only its reply lost.
ReplyLost(j) ==
    LET v == job[j].video IN
    /\ job' = [job EXCEPT ![j].at = "markFailed"]
    /\ \/ job[j].at = "putPreview" /\ PutAsset(j, "preview") /\ UNCHANGED columns
       \/ job[j].at = "putThumbnail" /\ PutAsset(j, "thumbnail") /\ UNCHANGED columns
       \/ job[j].at = "markDone" /\ Publish(v) /\ UNCHANGED <<error, assets>>
       \/ /\ job[j].at = "clearError" /\ SetError(v, FALSE)
          /\ UNCHANGED <<processing, preview, assets>>
    /\ UNCHANGED <<row, used, original, requests, luck>>

\* The catch block; without a row it throws itself.
MarkFailed(j) ==
    LET v == job[j].video IN
    /\ job[j].at = "markFailed"
    /\ \/ There(v) /\ Step(j, "markFailed", "recordError")
       \/ ~There(v) /\ EndAttempt(j)
    /\ processing' = [processing EXCEPT ![v] = FALSE]
    /\ UNCHANGED <<row, preview, error, used, files, requests, luck>>

\* Mutant: the reason of the failure is not written.
RecordErrorNowhere(j) ==
    /\ job[j].at = "recordError"
    /\ EndAttempt(j)
    /\ UNCHANGED <<row, columns, used, files, requests, luck>>

RecordError(j) ==
    /\ job[j].at = "recordError"
    /\ SetError(job[j].video, TRUE)
    /\ EndAttempt(j)
    /\ UNCHANGED <<row, processing, preview, used, files, requests, luck>>

\* A write of the catch block fails, done or not, and nothing follows it.
CatchFails(j) ==
    LET v == job[j].video IN
    /\ job[j].at \in {"markFailed", "recordError"} /\ Fault
    /\ EndAttempt(j)
    /\ \/ UNCHANGED columns
       \/ /\ job[j].at = "markFailed"
          /\ processing' = [processing EXCEPT ![v] = FALSE]
          /\ UNCHANGED <<preview, error>>
       \/ job[j].at = "recordError" /\ SetError(v, TRUE) /\ UNCHANGED <<processing, preview>>
    /\ lost' = IF job[j].left = 1 THEN lost \cup {v} ELSE lost
    /\ UNCHANGED <<row, used, files, requests>>

\* A job whose worker died is given to a worker again, MaxStalls times.
Stalled(j) == IF job[j].stalls < MaxStalls
              THEN [job[j] EXCEPT !.at = "waiting", !.stalls = @ + 1]
              ELSE [job[j] EXCEPT !.at = "done"]

\* The process dies, with the requests and the worker in it.
Crash ==
    /\ Fault
    /\ job' = [j \in Jobs |-> IF j \in Active THEN Stalled(j) ELSE job[j]]
    /\ lost' = lost
         \cup {req[s].video : s \in {t \in Requests :
                   pc[t] \in {"enqueue", "unmark", "explain", "requeue"}}}
         \cup {job[j].video : j \in {i \in Active : job[i].stalls = MaxStalls}}
    /\ pc' = [s \in Requests |-> "idle"]
    /\ req' = [s \in Requests |-> NoRequest]
    /\ UNCHANGED <<row, columns, used, files>>

RequestStep(s) ==
    \/ Enqueue(s) \/ EnqueueFails(s) \/ Unmark(s) \/ Explain(s) \/ NoteFails(s)
    \/ Reset(s) \/ ResetFails(s) \/ Requeue(s) \/ RequeueFails(s)
    \/ DeleteFiles(s) \/ DeleteRow(s) \/ DeleteRowFails(s)

JobStep(j) ==
    \/ StartJob(j) \/ NoDirectory(j) \/ ReadOriginal(j) \/ PutPreview(j) \/ PutThumbnail(j)
    \/ MarkDone(j) \/ ClearError(j) \/ ProcessingThrows(j) \/ ReplyLost(j)
    \/ MarkFailed(j) \/ RecordError(j) \/ CatchFails(j)

Next == \/ \E s \in Requests :
              \/ \E v \in Videos : Create(s, v) \/ CreateFails(s, v) \/ Delete(s, v)
              \/ \E kind \in {"failed", "all", "script"} : Reprocess(s, kind)
              \/ RequestStep(s)
        \/ \E j \in Jobs : JobStep(j)
        \/ \E v \in Videos : Download(v)
        \/ Crash

Spec == Init /\ [][Next]_vars

\* A call that was made returns or throws, and a free worker takes a job.
FairSpec == /\ Spec
            /\ \A s \in Requests : WF_vars(RequestStep(s))
            /\ \A j \in Jobs : WF_vars(JobStep(j))

-----------------------------------------------------------------------------
(* Properties.                                                               *)

RequestSteps == {"idle", "enqueue", "unmark", "explain", "reset", "requeue",
                 "deleteFiles", "deleteRow"}
Kinds == {"none", "create", "delete", "failed", "all", "script"}
LoopRequest == [kind : Kinds, todo : SUBSET Videos]
VideoRequest == [kind : Kinds, video : Videos, todo : SUBSET Videos]
Job == [at : Running \cup {"waiting", "done"}, video : Videos, left : 0..Attempts,
        stalls : 0..MaxStalls, alone : BOOLEAN]

\* Every variable has its type: a job that is not done has an attempt left, a
\* request that works on a video names it.
TypeOK ==
    /\ row \in [Videos -> {"absent", "there", "deleted"}]
    /\ {processing, preview, error, used, original} \subseteq [Videos -> BOOLEAN]
    /\ assets \in [Videos -> SUBSET Assets]
    /\ job \in [Jobs -> Job \cup {NoJob}]
    /\ \A j \in Jobs : job[j].at \in Running \cup {"waiting"} => job[j].left # 0
    /\ pc \in [Requests -> RequestSteps]
    /\ req \in [Requests -> LoopRequest \cup VideoRequest]
    /\ \A s \in Requests : pc[s] \notin {"idle", "reset"} => req[s] \in VideoRequest
    /\ lost \subseteq Videos
    /\ faults \in 0..MaxFaults

\* A request has written the row of v, and the job that goes with it, or the
\* note that there is none, is yet to come.
BeingQueued(v) ==
    \E s \in Requests : /\ pc[s] \in {"enqueue", "unmark", "explain", "requeue"}
                        /\ req[s].video = v

\* A video that is shown as processing has a job, or is about to get one,
\* whatever requests and jobs of the same video do at the same time.  What leaves
\* one processing for nobody is in `lost`: a call between the row and its job
\* that failed or whose reply was lost, a last attempt that got no directory or
\* could not write its verdict, a crash.
ProcessingHasJob ==
    \A v \in Videos :
        There(v) /\ processing[v] /\ v \notin lost
            => Pending(v) # {} \/ BeingQueued(v)

\* A video that nothing works on any more has a preview or says why not, in
\* spite of retries, of a reprocess between the two writes of a verdict, and of
\* a queue that took a job it seemed to refuse; unless two jobs of the video ran
\* at the same time, when the success of one wipes out the error of the other
\* after a reprocess of all has forgotten the preview.
RestHasVerdict ==
    \A v \in Videos :
        /\ There(v) /\ Pending(v) = {} /\ ~BeingQueued(v) /\ v \notin lost
        /\ \A j \in Jobs : job[j] # NoJob /\ job[j].video = v => job[j].alone
        => preview[v] \/ error[v]

\* The row names a preview only when both files can be fetched, also while
\* another job of the video runs or fails.
PreviewIsPublic == \A v \in Videos : preview[v] => assets[v] = Assets

\* No video is processing for ever: its jobs end, and tell the row so.
ProcessingEnds ==
    \A v \in Videos : processing[v] ~> ~processing[v] \/ v \in lost
=============================================================================
