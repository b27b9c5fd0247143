------------------------------ MODULE JobQueue ------------------------------
(***************************************************************************)
(* The job queue of the API server: the embedding_jobs and                 *)
(* embedding_job_images tables, the image bucket, the HTTP handlers that    *)
(* workers call, the stale-job reclaim and the cleanup goroutine.           *)
(*                                                                         *)
(* Grain: one action per SQL statement, S3 call or webhook POST, since      *)
(* every other handler may run between two of them.  A statement is atomic  *)
(* (PostgreSQL).  One that returns an error has changed nothing, or it has    *)
(* committed and only the answer was lost: FinishJobUnacked and               *)
(* CreateJobUnacked; for the other statements the two cases look the same to   *)
(* everybody but their handler, which gives up in both.                       *)
(*                                                                         *)
(* The clock is abstract: `stale', `expired' and `keysExpired' are the rows *)
(* that have passed a cutoff, and they grow one row at a time.              *)
(*                                                                         *)
(* The server does not check who reports on a job: a report on any job may  *)
(* arrive at any time, from a worker whose claim has been reclaimed too.    *)
(***************************************************************************)
EXTENDS Naturals, Sequences

CONSTANTS TextJobs,    \* ids of jobs without images
          ImageJobs,   \* ids of jobs with images (multimodal included)
          NoJob,       \* no id
          Handlers,    \* HTTP requests the server can be serving at once
          NumImages,   \* images of an image job
          Filters      \* the `kinds' lists that claim requests carry

Jobs  == TextJobs \cup ImageJobs
Kinds == {"text", "image"}

ASSUME JobQueueAssumption ==
    /\ TextJobs \cap ImageJobs = {}
    /\ NoJob \notin Jobs
    /\ NumImages \in Nat \ {0}
    /\ Filters \subseteq SUBSET Kinds

VARIABLES
    \* PostgreSQL
    status,       \* the row of each id; "new", "uploading", "gone": no row
    arrival,      \* created_at of the row, as its rank (0: never inserted)
    inserted,     \* rows inserted so far
    stale,        \* rows with updated_at older than ReclaimTTL
    expired,      \* rows with created_at older than jobTTL
    keysExpired,  \* rows whose image rows have created_at older than jobTTL
    \* S3, and enqueueJob when the COMMIT of its rows went unanswered
    objects,      \* keys present in the bucket
    creator,      \* its handler is going to remove the images, or has done so
    \* the HTTP handlers of the workers' API
    pc,           \* what the handler does next
    op,           \* what it was asked: "claim", or the outcome reported
    job,          \* the job it works on
    keys,         \* image keys it has read
    \* the cleanup goroutine
    cleaner,      \* what it does next
    doomed,       \* image keys it has listed in this round
    \* what the outside sees, and history
    posts,        \* webhook POSTs sent for each job
    cached,       \* text jobs whose result was stored in the text cache
    verdict,      \* outcome recorded for each job, kept when the row is gone
    grants        \* successful claims of each job since it was last queued

rowVars     == <<status, arrival, inserted, stale, expired, keysExpired>>
requestVars == <<pc, op, job, keys>>
cleanerVars == <<cleaner, doomed>>
effectVars  == <<posts, cached>>
historyVars == <<verdict, grants>>
vars == <<rowVars, objects, creator, requestVars, cleanerVars, effectVars, historyVars>>

Settled == {"completed", "failed"}
Rows    == {"pending", "processing"} \cup Settled

KindOf(j) == IF j \in ImageJobs THEN "image" ELSE "text"
HasRow(j) == status[j] \in Rows

\* objectKey: prefix/<job id>/<image index>.
ImageKeys(j) == IF j \in ImageJobs THEN {j} \X (0 .. NumImages - 1) ELSE {}
AllKeys == ImageJobs \X (0 .. NumImages - 1)

\* jobImageKeys: the image rows live and die with the job row.
StoredKeys(j) == IF HasRow(j) THEN ImageKeys(j) ELSE {}

\* The steps of a report after GetJob, and those after the row is settled.
ReportSteps  == {"loadKeys", "finish", "webhook", "cache", "remove"}
SettledSteps == {"webhook", "cache", "remove"}

TypeOK ==
    /\ status \in [Jobs -> Rows \cup {"new", "uploading", "gone"}]
    /\ arrival \in [Jobs -> Nat]
    /\ inserted \in Nat
    /\ stale \subseteq Jobs /\ expired \subseteq Jobs /\ keysExpired \subseteq Jobs
    /\ objects \subseteq AllKeys
    /\ creator \in [ImageJobs -> {"none", "removing", "removed"}]
    /\ pc \in [Handlers -> {"idle", "claimUpdate", "claimKeys", "noJob"} \cup ReportSteps]
    /\ op \in [Handlers -> Settled \cup {"none", "claim"}]
    /\ job \in [Handlers -> Jobs \cup {NoJob}]
    /\ keys \in [Handlers -> SUBSET AllKeys]
    /\ cleaner \in {"idle", "removeImages", "deleteRows"}
    /\ doomed \subseteq AllKeys
    /\ posts \in [Jobs -> Seq(Settled)]
    /\ cached \subseteq TextJobs
    /\ verdict \in [Jobs -> Settled \cup {"none"}]
    /\ grants \in [Jobs -> Nat]

Init ==
    /\ status = [j \in Jobs |-> "new"]
    /\ arrival = [j \in Jobs |-> 0]
    /\ inserted = 0
    /\ stale = {} /\ expired = {} /\ keysExpired = {}
    /\ objects = {}
    /\ creator = [j \in ImageJobs |-> "none"]
    /\ pc = [h \in Handlers |-> "idle"]
    /\ op = [h \in Handlers |-> "none"]
    /\ job = [h \in Handlers |-> NoJob]
    /\ keys = [h \in Handlers |-> {}]
    /\ cleaner = "idle" /\ doomed = {}
    /\ posts = [j \in Jobs |-> <<>>]
    /\ cached = {}
    /\ verdict = [j \in Jobs |-> "none"]
    /\ grants = [j \in Jobs |-> 0]

-----------------------------------------------------------------------------
(***************************************************************************)
(* enqueueJob: the images first, then the rows.                            *)
(***************************************************************************)

\* StoreJobImages puts the images one by one, in order.
StoreImage(j, i) ==
    /\ j \in ImageJobs
    /\ status[j] \in {"new", "uploading"}
    /\ objects \cap ImageKeys(j) = {j} \X (0 .. i - 1)
    /\ status' = [status EXCEPT ![j] = "uploading"]
    /\ objects' = objects \cup {<<j, i>>}
    /\ UNCHANGED <<creator, arrival, inserted, stale, expired, keysExpired,
                   requestVars, cleanerVars, effectVars, historyVars>>

\* One transaction inserts the job row and its image rows.
InsertRows(j) ==
    /\ IF j \in ImageJobs THEN status[j] = "uploading" /\ ImageKeys(j) \subseteq objects
                          ELSE status[j] = "new"
    /\ status' = [status EXCEPT ![j] = "pending"]
    /\ inserted' = inserted + 1
    /\ arrival' = [arrival EXCEPT ![j] = inserted + 1]
    /\ UNCHANGED <<stale, expired, keysExpired, objects,
                   requestVars, cleanerVars, effectVars, historyVars>>

CreateJob(j) == InsertRows(j) /\ UNCHANGED creator

\* The rows are committed, but enqueueJob sees an error: the client gets a 500
\* instead of the job's id ...
CreateJobUnacked(j) ==
    /\ j \in ImageJobs
    /\ InsertRows(j)
    /\ creator' = [creator EXCEPT ![j] = "removing"]

\* ... and the images of the job that now exists are removed, as far as S3
\* allows.
RemoveUnacked(j) ==
    /\ j \in ImageJobs /\ creator[j] = "removing"
    /\ \E removed \in SUBSET ImageKeys(j) : objects' = objects \ removed
    /\ creator' = [creator EXCEPT ![j] = "removed"]
    /\ UNCHANGED <<rowVars, requestVars, cleanerVars, effectVars, historyVars>>

\* A PutObject or CreateJob failed: the images stored so far are removed, as
\* far as S3 allows (the errors of RemoveJobImages are ignored, and its context
\* may be the one whose cancellation made the step fail).  The image of a
\* failed PutObject may have arrived and is not in the list.
AbandonUpload(j) ==
    /\ j \in ImageJobs
    /\ status[j] \in {"new", "uploading"}
    /\ \E left \in SUBSET ImageKeys(j) :
          /\ \A i \in 0 .. NumImages - 1 :
                <<j, i>> \in left => {j} \X (0 .. i - 1) \subseteq objects
          /\ objects' = (objects \ ImageKeys(j)) \cup left
    /\ status' = [status EXCEPT ![j] = "gone"]
    /\ UNCHANGED <<creator, arrival, inserted, stale, expired, keysExpired,
                   requestVars, cleanerVars, effectVars, historyVars>>

-----------------------------------------------------------------------------
(***************************************************************************)
(* ClaimWorkerJob: SELECT the first candidate, UPDATE it if it is still     *)
(* pending, SELECT its image keys, answer.                                 *)
(***************************************************************************)

\* The handler has answered.
Release(h) ==
    /\ pc' = [pc EXCEPT ![h] = "idle"]
    /\ op' = [op EXCEPT ![h] = "none"]
    /\ job' = [job EXCEPT ![h] = NoJob]
    /\ keys' = [keys EXCEPT ![h] = {}]

\* A filter that names no kind asks for both (ClaimJobFilter.Has).
Wanted(f, k) == f = {} \/ k \in f

Candidates(f) == {j \in Jobs : status[j] = "pending" /\ Wanted(f, KindOf(j))}

\* ORDER BY text first, then created_at, id.
Precedes(j, k) ==
    \/ KindOf(j) = "text" /\ KindOf(k) = "image"
    \/ KindOf(j) = KindOf(k) /\ arrival[j] <= arrival[k]

ClaimSelect(h, f) ==
    /\ pc[h] = "idle"
    /\ \/ /\ Candidates(f) = {}
          /\ pc' = [pc EXCEPT ![h] = "noJob"]
          /\ UNCHANGED job
       \/ \E j \in Candidates(f) :
             /\ \A k \in Candidates(f) : Precedes(j, k)
             /\ pc' = [pc EXCEPT ![h] = "claimUpdate"]
             /\ job' = [job EXCEPT ![h] = j]
    /\ op' = [op EXCEPT ![h] = "claim"]
    /\ UNCHANGED <<creator, rowVars, objects, keys, cleanerVars, effectVars, historyVars>>

\* Mutant of ClaimUpdate: WHERE id = ? without AND status = pending.
ClaimUpdateById(h) ==
    /\ pc[h] = "claimUpdate"
    /\ HasRow(job[h])
    /\ status' = [status EXCEPT ![job[h]] = "processing"]
    /\ stale' = stale \ {job[h]}
    /\ grants' = [grants EXCEPT ![job[h]] = @ + 1]
    /\ pc' = [pc EXCEPT ![h] = "claimKeys"]
    /\ UNCHANGED <<creator, arrival, inserted, expired, keysExpired, objects,
                   op, job, keys, cleanerVars, effectVars, verdict>>

ClaimUpdate(h) ==
    /\ pc[h] = "claimUpdate"
    /\ status[job[h]] = "pending"
    /\ status' = [status EXCEPT ![job[h]] = "processing"]
    /\ stale' = stale \ {job[h]}
    /\ grants' = [grants EXCEPT ![job[h]] = @ + 1]
    /\ pc' = [pc EXCEPT ![h] = "claimKeys"]
    /\ UNCHANGED <<creator, arrival, inserted, expired, keysExpired, objects,
                   op, job, keys, cleanerVars, effectVars, verdict>>

\* rowsAffected = 0: another claim took the row, or it was deleted.
ClaimLost(h) ==
    /\ pc[h] = "claimUpdate"
    /\ status[job[h]] # "pending"
    /\ pc' = [pc EXCEPT ![h] = "noJob"]
    /\ UNCHANGED <<creator, rowVars, objects, op, job, keys, cleanerVars, effectVars, historyVars>>

\* 204 No Content.
AnswerNoJob(h) ==
    /\ pc[h] = "noJob"
    /\ Release(h)
    /\ UNCHANGED <<creator, rowVars, objects, cleanerVars, effectVars, historyVars>>

\* 200 with the text and the image keys; nothing of it stays in the server.
ClaimKeys(h) ==
    /\ pc[h] = "claimKeys"
    /\ Release(h)
    /\ UNCHANGED <<creator, rowVars, objects, cleanerVars, effectVars, historyVars>>

-----------------------------------------------------------------------------
(***************************************************************************)
(* CompleteWorkerJob and FailWorkerJob, which differ in the outcome they    *)
(* record and in the text cache.                                           *)
(***************************************************************************)

\* GetJob's first SELECT; no row: 404, nothing changes.
GetJob(h, outcome, j) ==
    /\ pc[h] = "idle"
    /\ HasRow(j)
    /\ pc' = [pc EXCEPT ![h] = "loadKeys"]
    /\ op' = [op EXCEPT ![h] = outcome]
    /\ job' = [job EXCEPT ![h] = j]
    /\ UNCHANGED <<creator, rowVars, objects, keys, cleanerVars, effectVars, historyVars>>

\* GetJob's second SELECT, jobImageKeys.
LoadKeys(h) ==
    /\ pc[h] = "loadKeys"
    /\ keys' = [keys EXCEPT ![h] = StoredKeys(job[h])]
    /\ pc' = [pc EXCEPT ![h] = "finish"]
    /\ UNCHANGED <<creator, rowVars, objects, op, job, cleanerVars, effectVars, historyVars>>

\* Mutant of FinishJob: it finishes a row whatever its status.
FinishAnyJob(h) ==
    /\ pc[h] = "finish"
    /\ HasRow(job[h])
    /\ status' = [status EXCEPT ![job[h]] = op[h]]
    /\ verdict' = [verdict EXCEPT ![job[h]] = op[h]]
    /\ stale' = stale \ {job[h]}
    /\ pc' = [pc EXCEPT ![h] = "webhook"]
    /\ UNCHANGED <<creator, arrival, inserted, expired, keysExpired, objects,
                   op, job, keys, cleanerVars, effectVars, grants>>

\* CompleteJob / FailJob: only a processing row, whoever claimed it.
FinishJob(h) ==
    /\ pc[h] = "finish"
    /\ status[job[h]] = "processing"
    /\ status' = [status EXCEPT ![job[h]] = op[h]]
    /\ verdict' = [verdict EXCEPT ![job[h]] = op[h]]
    /\ stale' = stale \ {job[h]}
    /\ pc' = [pc EXCEPT ![h] = "webhook"]
    /\ UNCHANGED <<creator, arrival, inserted, expired, keysExpired, objects,
                   op, job, keys, cleanerVars, effectVars, grants>>

\* The row is settled, but the handler sees an error: 500, and nobody is told.
FinishJobUnacked(h) ==
    /\ pc[h] = "finish"
    /\ status[job[h]] = "processing"
    /\ status' = [status EXCEPT ![job[h]] = op[h]]
    /\ verdict' = [verdict EXCEPT ![job[h]] = op[h]]
    /\ stale' = stale \ {job[h]}
    /\ Release(h)
    /\ UNCHANGED <<creator, arrival, inserted, expired, keysExpired, objects,
                   cleanerVars, effectVars, grants>>

\* Mutant of FinishNotFound: the error path cleans the images up as well.
FinishNotFoundCleansUp(h) ==
    /\ pc[h] = "finish"
    /\ status[job[h]] # "processing"
    /\ pc' = [pc EXCEPT ![h] = "remove"]
    /\ UNCHANGED <<creator, rowVars, objects, op, job, keys, cleanerVars, effectVars, historyVars>>

\* rowsAffected = 0: 404.
FinishNotFound(h) ==
    /\ pc[h] = "finish"
    /\ status[job[h]] # "processing"
    /\ Release(h)
    /\ UNCHANGED <<creator, rowVars, objects, cleanerVars, effectVars, historyVars>>

\* Mutant of PostWebhook: multimodal results go to the text cache too.
PostWebhookThenCache(h) ==
    /\ pc[h] = "webhook"
    /\ \/ posts' = [posts EXCEPT ![job[h]] = Append(@, op[h])]
       \/ UNCHANGED posts
    /\ pc' = [pc EXCEPT ![h] = IF op[h] = "completed" THEN "cache" ELSE "remove"]
    /\ UNCHANGED <<creator, rowVars, objects, op, job, keys, cleanerVars, cached, historyVars>>

\* NotifyWebhookCompleted / NotifyWebhookFailed: one POST, not retried.  There
\* is none without a URL, when the URL no longer validates, or when the context
\* of the request has been cancelled.
PostWebhook(h) ==
    /\ pc[h] = "webhook"
    /\ \/ posts' = [posts EXCEPT ![job[h]] = Append(@, op[h])]
       \/ UNCHANGED posts
    /\ pc' = [pc EXCEPT ![h] = IF op[h] = "completed" /\ job[h] \in TextJobs
                               THEN "cache" ELSE "remove"]
    /\ UNCHANGED <<creator, rowVars, objects, op, job, keys, cleanerVars, cached, historyVars>>

\* SetTextCache, whose error is logged and ignored.
SetTextCache(h) ==
    /\ pc[h] = "cache"
    /\ \/ cached' = cached \cup {job[h]}
       \/ UNCHANGED cached
    /\ pc' = [pc EXCEPT ![h] = "remove"]
    /\ UNCHANGED <<creator, rowVars, objects, op, job, keys, cleanerVars, posts, historyVars>>

\* RemoveJobImages, whose error is logged and ignored: any part may remain.
RemoveImages(h) ==
    /\ pc[h] = "remove"
    /\ \E removed \in SUBSET keys[h] : objects' = objects \ removed
    /\ Release(h)
    /\ UNCHANGED <<creator, rowVars, cleanerVars, effectVars, historyVars>>

\* A statement before the row is claimed or settled, or the SELECT after the
\* claim, returned an error: 500.  After the claim the row stays processing.
HandlerError(h) ==
    /\ pc[h] \in {"claimUpdate", "claimKeys", "loadKeys", "finish"}
    /\ Release(h)
    /\ UNCHANGED <<creator, rowVars, objects, cleanerVars, effectVars, historyVars>>

-----------------------------------------------------------------------------
(***************************************************************************)
(* Time, the reclaim of stale jobs and the cleanup of expired ones.         *)
(***************************************************************************)

\* updated_at of a row passes the cutoff of ReclaimTTL.
BecomeStale(j) ==
    /\ HasRow(j)
    /\ stale' = stale \cup {j}
    /\ UNCHANGED <<creator, status, arrival, inserted, expired, keysExpired, objects,
                   requestVars, cleanerVars, effectVars, historyVars>>

\* created_at of a row passes the cutoff of jobTTL: older rows first.
Expire(j) ==
    /\ HasRow(j)
    /\ \A k \in Jobs : HasRow(k) /\ arrival[k] < arrival[j] => k \in expired
    /\ expired' = expired \cup {j}
    /\ UNCHANGED <<creator, status, arrival, inserted, stale, keysExpired, objects,
                   requestVars, cleanerVars, effectVars, historyVars>>

\* The image rows are inserted after the job row, so they expire after it.
ExpireKeys(j) ==
    /\ HasRow(j) /\ j \in expired
    /\ keysExpired' = keysExpired \cup {j}
    /\ UNCHANGED <<creator, status, arrival, inserted, stale, expired, objects,
                   requestVars, cleanerVars, effectVars, historyVars>>

\* Mutants of Reclaimable: every stale row; the rows of texts only.
StaleRows == stale
ReclaimableTexts == {j \in stale \cap TextJobs : status[j] = "processing"}

\* ReclaimStaleProcessingJobs: every stale processing row is pending again.
Reclaimable == {j \in stale : status[j] = "processing"}

Reclaim ==
    /\ Reclaimable # {}
    /\ status' = [j \in Jobs |-> IF j \in Reclaimable THEN "pending" ELSE status[j]]
    /\ grants' = [j \in Jobs |-> IF j \in Reclaimable THEN 0 ELSE grants[j]]
    /\ stale' = stale \ Reclaimable
    /\ UNCHANGED <<creator, arrival, inserted, expired, keysExpired, objects,
                   requestVars, cleanerVars, effectVars, verdict>>

\* ExpiredJobImageKeys; without keys the goroutine goes on to the rows.
ListExpiredKeys ==
    /\ cleaner = "idle"
    /\ doomed' = UNION {StoredKeys(j) : j \in keysExpired}
    /\ cleaner' = IF doomed' = {} THEN "deleteRows" ELSE "removeImages"
    /\ UNCHANGED <<creator, rowVars, objects, requestVars, effectVars, historyVars>>

\* Mutant of RemoveExpiredImages: deleting an object that is not there is an
\* error, as it is not in S3.
RemoveExpiredImagesOnce ==
    /\ cleaner = "removeImages"
    /\ doomed \subseteq objects
    /\ objects' = objects \ doomed
    /\ cleaner' = "deleteRows"
    /\ UNCHANGED <<creator, rowVars, requestVars, doomed, effectVars, historyVars>>

RemoveExpiredImages ==
    /\ cleaner = "removeImages"
    /\ objects' = objects \ doomed
    /\ cleaner' = "deleteRows"
    /\ UNCHANGED <<creator, rowVars, requestVars, doomed, effectVars, historyVars>>

\* Mutant of RemoveExpiredImagesFails: the error is logged and ignored.
RemoveExpiredImagesIgnored ==
    /\ cleaner = "removeImages"
    /\ \E removed \in SUBSET doomed : objects' = objects \ removed
    /\ cleaner' = "deleteRows"
    /\ UNCHANGED <<creator, rowVars, requestVars, doomed, effectVars, historyVars>>

\* One object could not be deleted: the rows stay until the next round.
RemoveExpiredImagesFails ==
    /\ cleaner = "removeImages"
    /\ \E removed \in SUBSET doomed : objects' = objects \ removed
    /\ cleaner' = "idle" /\ doomed' = {}
    /\ UNCHANGED <<creator, rowVars, requestVars, effectVars, historyVars>>

\* CleanupExpiredJobs: the rows expired by now, with their image rows.
DeleteExpiredRows ==
    /\ cleaner = "deleteRows"
    /\ status' = [j \in Jobs |-> IF j \in expired THEN "gone" ELSE status[j]]
    /\ stale' = stale \ expired
    /\ keysExpired' = keysExpired \ expired
    /\ expired' = {}
    /\ cleaner' = "idle" /\ doomed' = {}
    /\ UNCHANGED <<creator, arrival, inserted, objects, requestVars, effectVars, historyVars>>

DeleteExpiredRowsFails ==
    /\ cleaner = "deleteRows"
    /\ cleaner' = "idle" /\ doomed' = {}
    /\ UNCHANGED <<creator, rowVars, objects, requestVars, effectVars, historyVars>>

\* The server process dies and restarts: requests under way are lost.
Crash ==
    /\ status' = [j \in Jobs |-> IF status[j] = "uploading" THEN "gone" ELSE status[j]]
    /\ pc' = [h \in Handlers |-> "idle"]
    /\ op' = [h \in Handlers |-> "none"]
    /\ job' = [h \in Handlers |-> NoJob]
    /\ keys' = [h \in Handlers |-> {}]
    /\ cleaner' = "idle" /\ doomed' = {}
    /\ creator' = [j \in ImageJobs |-> IF creator[j] = "none" THEN "none" ELSE "removed"]
    /\ UNCHANGED <<arrival, inserted, stale, expired, keysExpired, objects,
                   effectVars, historyVars>>

-----------------------------------------------------------------------------
Enqueue(j) ==
    \/ \E i \in 0 .. NumImages - 1 : StoreImage(j, i)
    \/ CreateJob(j) \/ CreateJobUnacked(j) \/ RemoveUnacked(j)
    \/ AbandonUpload(j)

Request(h) ==
    \/ \E f \in Filters : ClaimSelect(h, f)
    \/ ClaimUpdate(h) \/ ClaimLost(h) \/ AnswerNoJob(h) \/ ClaimKeys(h)
    \/ \E o \in Settled, j \in Jobs : GetJob(h, o, j)
    \/ LoadKeys(h) \/ FinishJob(h) \/ FinishJobUnacked(h) \/ FinishNotFound(h)
    \/ PostWebhook(h) \/ SetTextCache(h) \/ RemoveImages(h)
    \/ HandlerError(h)

Tick(j) == BecomeStale(j) \/ Expire(j) \/ ExpireKeys(j)

Cleanup ==
    \/ ListExpiredKeys
    \/ RemoveExpiredImages \/ RemoveExpiredImagesFails
    \/ DeleteExpiredRows \/ DeleteExpiredRowsFails

Next ==
    \/ \E j \in Jobs : Enqueue(j) \/ Tick(j)
    \/ \E h \in Handlers : Request(h)
    \/ Reclaim
    \/ Cleanup
    \/ Crash

Spec == Init /\ [][Next]_vars

\* The clock moves and the reclaim loop keeps being scheduled by its ticker;
\* its UPDATE does not fail for ever.  Nothing is assumed of the cleanup.
ReclaimFairness ==
    /\ \A j \in Jobs : WF_vars(BecomeStale(j))
    /\ WF_vars(Reclaim)

\* The clock moves and the cleanup keeps being scheduled by its ticker; a step
\* of it that is tried again and again succeeds in the end.  Nothing is assumed
\* of the reclaim, the handlers or the workers.
CleanupFairness ==
    /\ \A j \in Jobs : WF_vars(Expire(j)) /\ WF_vars(ExpireKeys(j))
    /\ SF_vars(ListExpiredKeys)
    /\ SF_vars(RemoveExpiredImages)
    /\ SF_vars(DeleteExpiredRows)

-----------------------------------------------------------------------------
(***************************************************************************)
(* Properties.                                                             *)
(***************************************************************************)

\* Between two moments at which a job is queued, at most one claim request
\* gets it, however the SELECTs and UPDATEs of ClaimJob and the reclaim
\* interleave; a row is processing only because a claim got it.
OneGrant ==
    \A j \in Jobs : /\ grants[j] <= 1
                    /\ status[j] = "processing" => grants[j] = 1

\* What leaves the server about a job is the outcome the row recorded: of all
\* the reports that race on a job (a stale worker's, a retry, a failure sent
\* after a complete that timed out) at most one is told to the webhook, the
\* one that settled the row, and only a completed text is cached.
EffectsFollowVerdict ==
    /\ \A j \in Jobs : posts[j] # <<>> => posts[j] = <<verdict[j]>>
    /\ \A j \in cached : verdict[j] = "completed"

\* The images of a job that is still to be processed are in the bucket, until
\* the cleanup may take them, if a client was given its id: no late report, lost
\* claim or restart removes images that a worker has yet to read.
ImagesAvailable ==
    \A j \in ImageJobs \ keysExpired :
        status[j] \in {"pending", "processing"} /\ creator[j] = "none" =>
            ImageKeys(j) \subseteq objects

\* The cleanup deletes rows only when every object it has listed is gone: one
\* failed deletion keeps the rows, so that a later round can find the objects
\* (the comment on RemoveJobImages, job_file.go:88-90).
ListedImagesGone ==
    cleaner = "deleteRows" => doomed \cap objects = {}

\* A settled row keeps its outcome until it is deleted, and a deleted row does
\* not come back: neither the reclaim nor a second report reopens a job.
SettledForever ==
    [][\A j \in Jobs : /\ status[j] \in Settled => status'[j] \in {status[j], "gone"}
                       /\ status[j] = "gone" => status'[j] = "gone"]_vars

\* The reclaim loop alone is enough for a claimed job whose worker, handler or
\* server has vanished not to stay processing for ever (RunReclaimLoop).
NeverStuckProcessing ==
    ReclaimFairness => \A j \in Jobs : (status[j] = "processing") ~> (status[j] # "processing")

\* The cleanup alone is enough for every row to be deleted in the end, whatever
\* happened to its job, its images or the server (CleanupService.Run).
RowsPurged ==
    CleanupFairness => \A j \in Jobs : HasRow(j) ~> ~HasRow(j)

\* docs/wiki/development.md:182: images whose deletion failed are left to the
\* periodic cleanup.  It finds them through their rows, so an object of a job
\* that was inserted must keep its row, unless someone is about to delete it.
ImagesLeftToCleanup ==
    \A o \in objects :
        arrival[o[1]] > 0 => \/ HasRow(o[1])
                             \/ o \in doomed
                             \/ \E h \in Handlers : o \in keys[h]

-----------------------------------------------------------------------------
(***************************************************************************)
(* The queue implements JobContract: an upload and an abandoned one are not *)
(* visible to it, a reclaim is a Requeue, the webhook tells the owner.      *)
(***************************************************************************)
\* Where the contract sees a job, from the status and the rank of its row.
StateOf(s, rank) ==
    CASE s \in {"new", "uploading"} -> "absent"
      [] s = "pending"              -> "queued"
      [] s = "processing"           -> "running"
      [] s \in Settled              -> "settled"
      [] s = "gone"                 -> IF rank = 0 THEN "absent" ELSE "purged"

Contract == INSTANCE JobContract
            WITH state <- [j \in Jobs |-> StateOf(status[j], arrival[j])],
                 outcome <- verdict, told <- posts

\* Every behaviour of the queue is one the contract allows.
ImplementsContract == Contract!Spec

-----------------------------------------------------------------------------
(***************************************************************************)
(* The inductive invariant behind the theorems of JobQueue_proofs.          *)
(***************************************************************************)
RowInv ==
    \A j \in Jobs :
        /\ HasRow(j) => arrival[j] > 0
        /\ status[j] \in {"new", "uploading"} => arrival[j] = 0
        /\ grants[j] <= 1
        /\ status[j] \in {"new", "uploading", "pending"} => grants[j] = 0
        /\ status[j] = "processing" => grants[j] = 1

VerdictInv ==
    \A j \in Jobs :
        /\ status[j] \in Settled => verdict[j] = status[j]
        /\ status[j] \in {"new", "uploading", "pending", "processing"} => verdict[j] = "none"
        /\ verdict[j] = "none" => posts[j] = <<>>
        /\ posts[j] # <<>> => posts[j] = <<verdict[j]>>
        /\ j \in cached => verdict[j] = "completed"

RequestInv ==
    \A h \in Handlers :
        /\ pc[h] = "claimUpdate" => job[h] \in Jobs
        /\ pc[h] \in ReportSteps => job[h] \in Jobs /\ op[h] \in Settled
        /\ pc[h] \in SettledSteps => verdict[job[h]] = op[h]
        /\ pc[h] = "webhook" => posts[job[h]] = <<>>
        /\ pc[h] = "cache" => op[h] = "completed" /\ job[h] \in TextJobs
        /\ keys[h] # {} => /\ pc[h] \in {"finish"} \cup SettledSteps
                           /\ keys[h] \subseteq ImageKeys(job[h])

\* Only the report that settled a job is past FinishJob.
OneReporter ==
    \A g, h \in Handlers :
        pc[g] \in SettledSteps /\ pc[h] \in SettledSteps /\ job[g] = job[h] => g = h

ExpiryInv ==
    \A j \in expired \cup keysExpired : HasRow(j)

DoomedInv ==
    \A o \in doomed : o[1] \in keysExpired \/ status[o[1]] = "gone"

\* Why the properties above hold, as one invariant that every step preserves.
Inductive ==
    /\ TypeOK
    /\ RowInv
    /\ VerdictInv
    /\ RequestInv
    /\ OneReporter
    /\ ExpiryInv
    /\ DoomedInv
    /\ ImagesAvailable
    /\ ListedImagesGone
=============================================================================
