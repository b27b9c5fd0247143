--------------------------- MODULE JobQueue_proofs ---------------------------
(***************************************************************************)
(* Theorems about JobQueue, for every value of its constants.              *)
(***************************************************************************)
EXTENDS JobQueue, TLAPS


-----------------------------------------------------------------------------
LEMMA TypeInit == Init => TypeOK
BY JobQueueAssumption DEF Init, TypeOK, AllKeys, Rows, Settled

\* What a report does to the row it finishes, answered or not.
LEMMA FinishEffect ==
    ASSUME Inductive, NEW h \in Handlers, FinishJob(h) \/ FinishJobUnacked(h)
    PROVE  /\ job[h] \in Jobs /\ op[h] \in Settled /\ status[job[h]] = "processing"
           /\ status' \in [Jobs -> Rows \cup {"new", "uploading", "gone"}]
           /\ verdict' \in [Jobs -> Settled \cup {"none"}] /\ stale' \subseteq Jobs
           /\ status' = [status EXCEPT ![job[h]] = op[h]]
           /\ verdict' = [verdict EXCEPT ![job[h]] = op[h]]
           /\ stale' = stale \ {job[h]}
           /\ UNCHANGED <<creator, arrival, inserted, expired, keysExpired, objects, cleaner,
                          doomed, posts, cached, grants>>
<1>1. job[h] \in Jobs /\ op[h] \in Settled
    BY DEF Inductive, RequestInv, ReportSteps, FinishJob, FinishJobUnacked
<1>2. /\ status \in [Jobs -> Rows \cup {"new", "uploading", "gone"}]
      /\ verdict \in [Jobs -> Settled \cup {"none"}] /\ stale \subseteq Jobs
    BY DEF Inductive, TypeOK
<1>3. /\ status[job[h]] = "processing"
      /\ status' = [status EXCEPT ![job[h]] = op[h]]
      /\ verdict' = [verdict EXCEPT ![job[h]] = op[h]]
      /\ stale' = stale \ {job[h]}
      /\ UNCHANGED <<creator, arrival, inserted, expired, keysExpired, objects, cleaner,
                     doomed, posts, cached, grants>>
    BY DEF FinishJob, FinishJobUnacked, cleanerVars, effectVars
<1> QED BY <1>1, <1>2, <1>3 DEF Rows

LEMMA TypeStep == Inductive /\ [Next]_vars => TypeOK'
<1> SUFFICES ASSUME Inductive, [Next]_vars PROVE TypeOK'
    OBVIOUS
<1> USE DEF Inductive, TypeOK, Rows, Settled, rowVars, requestVars, cleanerVars, effectVars, historyVars
<1>1. ASSUME NEW j \in Jobs, NEW i \in 0 .. NumImages - 1, StoreImage(j, i) PROVE TypeOK'
    BY <1>1 DEF StoreImage, AllKeys
<1>2. ASSUME NEW j \in Jobs, CreateJob(j) \/ CreateJobUnacked(j) PROVE TypeOK'
  <2>1. InsertRows(j)
      BY <1>2 DEF CreateJob, CreateJobUnacked
  <2>2. creator' \in [ImageJobs -> {"none", "removing", "removed"}]
      BY <1>2 DEF CreateJob, CreateJobUnacked
  <2>3. inserted' = inserted + 1 /\ arrival' = [arrival EXCEPT ![j] = inserted + 1]
      BY <2>1 DEF InsertRows
  <2>4. inserted' \in Nat /\ arrival' \in [Jobs -> Nat]
      BY <2>3
  <2> QED BY <2>1, <2>2, <2>4 DEF InsertRows
<1>10. ASSUME NEW j \in Jobs, RemoveUnacked(j) PROVE TypeOK'
    BY <1>10 DEF RemoveUnacked
<1>3. ASSUME NEW j \in Jobs, AbandonUpload(j) PROVE TypeOK'
    BY <1>3 DEF AbandonUpload, AllKeys, ImageKeys
<1>4. ASSUME NEW j \in Jobs, Tick(j) PROVE TypeOK'
    BY <1>4 DEF Tick, BecomeStale, Expire, ExpireKeys
<1>5. ASSUME NEW h \in Handlers, Request(h) PROVE TypeOK'
  <2> USE DEF ReportSteps, SettledSteps, Release
  <2>1. ASSUME NEW f \in Filters, ClaimSelect(h, f) PROVE TypeOK'
    <3>1. Candidates(f) \subseteq Jobs
        BY DEF Candidates
    <3>2. /\ pc' \in [Handlers -> {"idle", "claimUpdate", "claimKeys", "noJob"} \cup ReportSteps]
          /\ job' \in [Handlers -> Jobs \cup {NoJob}]
        BY <2>1, <3>1 DEF ClaimSelect
    <3> QED BY <2>1, <3>2 DEF ClaimSelect
  <2>2. CASE ClaimUpdate(h)
      BY <2>2 DEF ClaimUpdate, RequestInv
  <2>3. CASE ClaimLost(h) \/ AnswerNoJob(h) \/ ClaimKeys(h) \/ FinishNotFound(h) \/ HandlerError(h)
      BY <2>3 DEF ClaimLost, AnswerNoJob, ClaimKeys, FinishNotFound, HandlerError
  <2>4. ASSUME NEW o \in Settled, NEW j \in Jobs, GetJob(h, o, j) PROVE TypeOK'
      BY <2>4 DEF GetJob
  <2>5. CASE LoadKeys(h)
      BY <2>5 DEF LoadKeys, StoredKeys, ImageKeys, AllKeys
  <2>6. CASE FinishJob(h) \/ FinishJobUnacked(h)
    <3>1. /\ pc' \in [Handlers -> {"idle", "claimUpdate", "claimKeys", "noJob"} \cup ReportSteps]
          /\ op' \in [Handlers -> Settled \cup {"none", "claim"}]
          /\ job' \in [Handlers -> Jobs \cup {NoJob}]
          /\ keys' \in [Handlers -> SUBSET AllKeys]
        BY <2>6 DEF FinishJob, FinishJobUnacked
    <3> QED BY <2>6, FinishEffect, <3>1
  <2>7. CASE PostWebhook(h)
    <3>1. op[h] \in Settled /\ job[h] \in Jobs
        BY <2>7 DEF PostWebhook, RequestInv
    <3>2. Append(posts[job[h]], op[h]) \in Seq(Settled)
        BY <3>1
    <3>3. posts' \in [Jobs -> Seq(Settled)]
        BY <2>7, <3>1, <3>2 DEF PostWebhook
    <3> QED BY <2>7, <3>3 DEF PostWebhook
  <2>8. CASE SetTextCache(h)
      BY <2>8 DEF SetTextCache, RequestInv
  <2>9. CASE RemoveImages(h)
      BY <2>9 DEF RemoveImages
  <2> QED BY <1>5, <2>1, <2>2, <2>3, <2>4, <2>5, <2>6, <2>7, <2>8, <2>9 DEF Request
<1>6. CASE Reclaim
    BY <1>6 DEF Reclaim, Reclaimable
<1>7. CASE Cleanup
    BY <1>7 DEF Cleanup, ListExpiredKeys, RemoveExpiredImages, RemoveExpiredImagesFails,
                DeleteExpiredRows, DeleteExpiredRowsFails, StoredKeys, ImageKeys, AllKeys
<1>8. CASE Crash
    BY <1>8 DEF Crash
<1>9. CASE UNCHANGED vars
    BY <1>9 DEF vars
<1> QED BY <1>1, <1>2, <1>3, <1>4, <1>5, <1>6, <1>7, <1>8, <1>9, <1>10 DEF Next, Enqueue

-----------------------------------------------------------------------------
LEMMA RowStep == Inductive /\ [Next]_vars => RowInv'
<1> SUFFICES ASSUME Inductive, [Next]_vars PROVE RowInv'
    OBVIOUS
<1> USE DEF Inductive, TypeOK, RowInv, HasRow, Rows, Settled, rowVars, historyVars
<1>1. ASSUME NEW j \in Jobs, NEW i \in 0 .. NumImages - 1, StoreImage(j, i) PROVE RowInv'
    BY <1>1 DEF StoreImage
<1>2. ASSUME NEW j \in Jobs, CreateJob(j) \/ CreateJobUnacked(j) PROVE RowInv'
    BY <1>2 DEF CreateJob, CreateJobUnacked, InsertRows
<1>3. ASSUME NEW j \in Jobs, AbandonUpload(j) PROVE RowInv'
    BY <1>3 DEF AbandonUpload
<1>4. ASSUME NEW h \in Handlers, ClaimUpdate(h) PROVE RowInv'
    BY <1>4 DEF ClaimUpdate, RequestInv
<1>5. ASSUME NEW h \in Handlers, FinishJob(h) \/ FinishJobUnacked(h) PROVE RowInv'
  <2> HIDE DEF TypeOK
  <2> QED BY <1>5, FinishEffect
<1>6. CASE Reclaim
    BY <1>6 DEF Reclaim, Reclaimable
<1>7. CASE DeleteExpiredRows
    BY <1>7 DEF DeleteExpiredRows
<1>8. CASE Crash
    BY <1>8 DEF Crash
<1>9. CASE UNCHANGED <<status, arrival, grants>>
    BY <1>9
<1> QED
    BY <1>1, <1>2, <1>3, <1>4, <1>5, <1>6, <1>7, <1>8, <1>9
    DEF Next, Enqueue, RemoveUnacked, Tick, Request, Cleanup, BecomeStale, Expire, ExpireKeys,
        ClaimSelect, ClaimLost, AnswerNoJob, ClaimKeys, GetJob, LoadKeys, FinishNotFound,
        PostWebhook, SetTextCache, RemoveImages, HandlerError, ListExpiredKeys,
        RemoveExpiredImages, RemoveExpiredImagesFails, DeleteExpiredRowsFails, vars

LEMMA VerdictStep == Inductive /\ [Next]_vars => VerdictInv'
<1> SUFFICES ASSUME Inductive, [Next]_vars PROVE VerdictInv'
    OBVIOUS
<1> USE DEF Inductive, TypeOK, VerdictInv, Settled, rowVars, effectVars, historyVars
<1>1. ASSUME NEW j \in Jobs, NEW i \in 0 .. NumImages - 1, StoreImage(j, i) PROVE VerdictInv'
    BY <1>1 DEF StoreImage
<1>2. ASSUME NEW j \in Jobs, CreateJob(j) \/ CreateJobUnacked(j) PROVE VerdictInv'
    BY <1>2 DEF CreateJob, CreateJobUnacked, InsertRows
<1>3. ASSUME NEW j \in Jobs, AbandonUpload(j) PROVE VerdictInv'
    BY <1>3 DEF AbandonUpload
<1>4. ASSUME NEW h \in Handlers, ClaimUpdate(h) PROVE VerdictInv'
    BY <1>4 DEF ClaimUpdate, RequestInv
<1>5. ASSUME NEW h \in Handlers, FinishJob(h) \/ FinishJobUnacked(h) PROVE VerdictInv'
  <2> HIDE DEF TypeOK
  <2> QED BY <1>5, FinishEffect
<1>6. ASSUME NEW h \in Handlers, PostWebhook(h) PROVE VerdictInv'
  <2>1. /\ job[h] \in Jobs /\ op[h] \in Settled
        /\ verdict[job[h]] = op[h] /\ posts[job[h]] = <<>>
      BY <1>6 DEF PostWebhook, RequestInv, ReportSteps, SettledSteps
  <2>2. Append(posts[job[h]], op[h]) = <<verdict[job[h]]>>
      BY <2>1
  <2>3. \/ posts' = [posts EXCEPT ![job[h]] = <<verdict[job[h]]>>]
        \/ posts' = posts
      BY <1>6, <2>2 DEF PostWebhook
  <2>4. \A j \in Jobs : posts'[j] = posts[j] \/ (j = job[h] /\ posts'[j] = <<verdict[j]>>)
      BY <2>1, <2>3
  <2>5. UNCHANGED <<status, verdict, cached>>
      BY <1>6 DEF PostWebhook
  <2>6. verdict[job[h]] # "none"
      BY <2>1
  <2> QED BY <2>4, <2>5, <2>6
<1>7. ASSUME NEW h \in Handlers, SetTextCache(h) PROVE VerdictInv'
    BY <1>7 DEF SetTextCache, RequestInv, SettledSteps
<1>8. CASE Reclaim
    BY <1>8 DEF Reclaim, Reclaimable
<1>9. CASE DeleteExpiredRows
    BY <1>9 DEF DeleteExpiredRows
<1>10. CASE Crash
    BY <1>10 DEF Crash
<1>11. CASE UNCHANGED <<status, verdict, posts, cached>>
    BY <1>11
<1> QED
    BY <1>1, <1>2, <1>3, <1>4, <1>5, <1>6, <1>7, <1>8, <1>9, <1>10, <1>11
    DEF Next, Enqueue, RemoveUnacked, Tick, Request, Cleanup, BecomeStale, Expire, ExpireKeys,
        ClaimSelect, ClaimLost, AnswerNoJob, ClaimKeys, GetJob, LoadKeys, FinishNotFound,
        RemoveImages, HandlerError, ListExpiredKeys, RemoveExpiredImages,
        RemoveExpiredImagesFails, DeleteExpiredRowsFails, vars

LEMMA RequestStep == Inductive /\ [Next]_vars => RequestInv'
<1> SUFFICES ASSUME Inductive, [Next]_vars PROVE RequestInv'
    OBVIOUS
<1> USE DEF Inductive, TypeOK, RequestInv, ReportSteps, SettledSteps, requestVars,
            effectVars, historyVars
<1>1. ASSUME NEW h \in Handlers, NEW f \in Filters, ClaimSelect(h, f) PROVE RequestInv'
  <2>1. Candidates(f) \subseteq Jobs
      BY DEF Candidates
  <2>2. /\ pc'[h] = "noJob" \/ (pc'[h] = "claimUpdate" /\ job'[h] \in Jobs)
        /\ \A g \in Handlers \ {h} : pc'[g] = pc[g] /\ op'[g] = op[g] /\ job'[g] = job[g]
        /\ UNCHANGED <<keys, posts, verdict>>
      BY <1>1, <2>1 DEF ClaimSelect
  <2>3. keys[h] = {}
      BY <1>1 DEF ClaimSelect
  <2>4. \A j : ImageKeys(j)' = ImageKeys(j)
      BY DEF ImageKeys
  <2> HIDE DEF TypeOK
  <2> QED BY <2>2, <2>3, <2>4
<1>2. ASSUME NEW h \in Handlers, ClaimUpdate(h) \/ ClaimLost(h) PROVE RequestInv'
  <2>1. /\ pc'[h] \in {"claimKeys", "noJob"} /\ pc[h] = "claimUpdate"
        /\ \A g \in Handlers \ {h} : pc'[g] = pc[g]
        /\ UNCHANGED <<op, job, keys, posts, verdict>>
      BY <1>2 DEF ClaimUpdate, ClaimLost
  <2>2. \A j : ImageKeys(j)' = ImageKeys(j)
      BY DEF ImageKeys
  <2> HIDE DEF TypeOK
  <2> QED BY <2>1, <2>2
<1>3. ASSUME NEW h \in Handlers,
             AnswerNoJob(h) \/ ClaimKeys(h) \/ FinishNotFound(h) \/ HandlerError(h)
                \/ RemoveImages(h)
      PROVE  RequestInv'
  <2>1. Release(h) /\ UNCHANGED <<posts, verdict>>
      BY <1>3 DEF AnswerNoJob, ClaimKeys, FinishNotFound, HandlerError, RemoveImages
  <2>2. /\ pc'[h] = "idle" /\ keys'[h] = {}
        /\ \A g \in Handlers \ {h} : /\ pc'[g] = pc[g] /\ op'[g] = op[g]
                                     /\ job'[g] = job[g] /\ keys'[g] = keys[g]
      BY <2>1 DEF Release
  <2>3. \A j : ImageKeys(j)' = ImageKeys(j)
      BY DEF ImageKeys
  <2> HIDE DEF TypeOK
  <2> QED BY <2>1, <2>2, <2>3
<1>4. ASSUME NEW h \in Handlers, NEW o \in Settled, NEW j \in Jobs, GetJob(h, o, j)
      PROVE  RequestInv'
  <2>1. /\ pc'[h] = "loadKeys" /\ op'[h] = o /\ job'[h] = j
        /\ \A g \in Handlers \ {h} : pc'[g] = pc[g] /\ op'[g] = op[g] /\ job'[g] = job[g]
        /\ UNCHANGED <<keys, posts, verdict>>
      BY <1>4 DEF GetJob
  <2>2. keys[h] = {}
      BY <1>4 DEF GetJob
  <2>3. \A i : ImageKeys(i)' = ImageKeys(i)
      BY DEF ImageKeys
  <2> HIDE DEF TypeOK
  <2> QED BY <2>1, <2>2, <2>3
<1>5. ASSUME NEW h \in Handlers, LoadKeys(h) PROVE RequestInv'
    BY <1>5 DEF LoadKeys, StoredKeys
<1>6. ASSUME NEW h \in Handlers, FinishJob(h) PROVE RequestInv'
    BY <1>6 DEF FinishJob, VerdictInv, Settled
<1>11. ASSUME NEW h \in Handlers, FinishJobUnacked(h) PROVE RequestInv'
  <2>1. job[h] \in Jobs /\ verdict[job[h]] = "none" /\ op[h] \in Settled
      BY <1>11 DEF FinishJobUnacked, VerdictInv
  <2>2. \A g \in Handlers : pc[g] \in SettledSteps => job[g] # job[h]
      BY <2>1 DEF Settled
  <2>3. /\ pc'[h] = "idle" /\ keys'[h] = {}
        /\ \A g \in Handlers \ {h} : /\ pc'[g] = pc[g] /\ op'[g] = op[g]
                                     /\ job'[g] = job[g] /\ keys'[g] = keys[g]
      BY <1>11 DEF FinishJobUnacked, Release
  <2>4. posts' = posts /\ \A j \in Jobs \ {job[h]} : verdict'[j] = verdict[j]
      BY <1>11 DEF FinishJobUnacked
  <2>5. \A j : ImageKeys(j)' = ImageKeys(j)
      BY DEF ImageKeys
  <2> HIDE DEF TypeOK
  <2> QED BY <2>2, <2>3, <2>4, <2>5
<1>7. ASSUME NEW h \in Handlers, PostWebhook(h) PROVE RequestInv'
    BY <1>7 DEF PostWebhook, OneReporter
<1>8. ASSUME NEW h \in Handlers, SetTextCache(h) PROVE RequestInv'
    BY <1>8 DEF SetTextCache
<1>9. CASE Crash
    BY <1>9 DEF Crash
<1>10. CASE UNCHANGED <<requestVars, posts, verdict>>
    BY <1>10 DEF ImageKeys
<1> QED
    BY <1>1, <1>2, <1>3, <1>4, <1>5, <1>6, <1>7, <1>8, <1>9, <1>10, <1>11
    DEF Next, Enqueue, Tick, Request, Cleanup, StoreImage, CreateJob, CreateJobUnacked,
        InsertRows, RemoveUnacked, AbandonUpload,
        BecomeStale, Expire, ExpireKeys, Reclaim, ListExpiredKeys, RemoveExpiredImages,
        RemoveExpiredImagesFails, DeleteExpiredRows, DeleteExpiredRowsFails, vars

LEMMA ReporterStep == Inductive /\ [Next]_vars => OneReporter'
<1> SUFFICES ASSUME Inductive, [Next]_vars PROVE OneReporter'
    OBVIOUS
<1> USE DEF Inductive, TypeOK, OneReporter, SettledSteps, requestVars
<1>1. ASSUME NEW h \in Handlers, FinishJob(h) PROVE OneReporter'
  \* The row was processing, so nobody has settled it before.
  <2>1. verdict[job[h]] = "none"
      BY <1>1 DEF FinishJob, RequestInv, VerdictInv, ReportSteps
  <2>2. \A g \in Handlers : pc[g] \in SettledSteps => job[g] # job[h]
      BY <2>1 DEF RequestInv, ReportSteps, Settled
  <2> QED BY <1>1, <2>2 DEF FinishJob
<1>2. ASSUME NEW h \in Handlers,
             \/ ClaimUpdate(h) \/ ClaimLost(h) \/ AnswerNoJob(h) \/ ClaimKeys(h)
             \/ LoadKeys(h) \/ FinishNotFound(h) \/ PostWebhook(h) \/ SetTextCache(h)
             \/ FinishJobUnacked(h) \/ RemoveImages(h) \/ HandlerError(h)
      PROVE  OneReporter'
    BY <1>2 DEF ClaimUpdate, ClaimLost, AnswerNoJob, ClaimKeys, LoadKeys, FinishNotFound,
                PostWebhook, SetTextCache, FinishJobUnacked, RemoveImages, HandlerError, Release
<1>3. ASSUME NEW h \in Handlers, NEW f \in Filters, ClaimSelect(h, f) PROVE OneReporter'
  <2>1. /\ pc'[h] \in {"noJob", "claimUpdate"}
        /\ \A g \in Handlers \ {h} : pc'[g] = pc[g] /\ job'[g] = job[g]
      BY <1>3 DEF ClaimSelect
  <2> HIDE DEF TypeOK
  <2> QED BY <2>1
<1>4. ASSUME NEW h \in Handlers, NEW o \in Settled, NEW j \in Jobs, GetJob(h, o, j)
      PROVE  OneReporter'
    BY <1>4 DEF GetJob
<1>5. CASE Crash
    BY <1>5 DEF Crash
<1>6. CASE UNCHANGED requestVars
    BY <1>6
<1> QED
    BY <1>1, <1>2, <1>3, <1>4, <1>5, <1>6
    DEF Next, Enqueue, Tick, Request, Cleanup, StoreImage, CreateJob, CreateJobUnacked,
        InsertRows, RemoveUnacked, AbandonUpload,
        BecomeStale, Expire, ExpireKeys, Reclaim, ListExpiredKeys, RemoveExpiredImages,
        RemoveExpiredImagesFails, DeleteExpiredRows, DeleteExpiredRowsFails, vars

LEMMA DoomedStep == Inductive /\ [Next]_vars => DoomedInv'
<1> SUFFICES ASSUME Inductive, [Next]_vars PROVE DoomedInv'
    OBVIOUS
<1> USE DEF Inductive, TypeOK, DoomedInv, rowVars, cleanerVars
<1>0. \A o \in doomed : o[1] \in Jobs
    BY DEF AllKeys, Jobs
<1>1. ASSUME NEW j \in Jobs, NEW i \in 0 .. NumImages - 1, StoreImage(j, i) PROVE DoomedInv'
    BY <1>0, <1>1 DEF StoreImage
<1>2. ASSUME NEW j \in Jobs, CreateJob(j) \/ CreateJobUnacked(j) PROVE DoomedInv'
    BY <1>0, <1>2 DEF CreateJob, CreateJobUnacked, InsertRows
<1>3. ASSUME NEW j \in Jobs, AbandonUpload(j) PROVE DoomedInv'
    BY <1>0, <1>3 DEF AbandonUpload
<1>4. ASSUME NEW j \in Jobs, Tick(j) PROVE DoomedInv'
    BY <1>0, <1>4 DEF Tick, BecomeStale, Expire, ExpireKeys
<1>5. ASSUME NEW h \in Handlers, ClaimUpdate(h) PROVE DoomedInv'
    BY <1>0, <1>5 DEF ClaimUpdate
<1>6. ASSUME NEW h \in Handlers, FinishJob(h) \/ FinishJobUnacked(h) PROVE DoomedInv'
    BY <1>0, <1>6, FinishEffect
<1>7. CASE Reclaim
    BY <1>0, <1>7 DEF Reclaim, Reclaimable
<1>8. CASE ListExpiredKeys
  \* The keys listed are those of rows whose image rows have expired.
  <2>1. \A j \in Jobs : \A o \in StoredKeys(j) : o[1] = j
      BY DEF StoredKeys, ImageKeys
  <2> QED BY <1>8, <2>1 DEF ListExpiredKeys
<1>9. CASE Cleanup /\ ~ListExpiredKeys
    BY <1>0, <1>9 DEF Cleanup, RemoveExpiredImages, RemoveExpiredImagesFails,
                      DeleteExpiredRows, DeleteExpiredRowsFails
<1>10. CASE Crash
    BY <1>10 DEF Crash
<1>11. CASE UNCHANGED <<status, keysExpired, doomed>>
    BY <1>11
<1> QED
    BY <1>1, <1>2, <1>3, <1>4, <1>5, <1>6, <1>7, <1>8, <1>9, <1>10, <1>11
    DEF Next, Enqueue, RemoveUnacked, Request, ClaimSelect, ClaimLost, AnswerNoJob, ClaimKeys,
        GetJob, LoadKeys, FinishNotFound, PostWebhook, SetTextCache, RemoveImages, HandlerError, vars

LEMMA ImagesStep == Inductive /\ [Next]_vars => ImagesAvailable'
<1> SUFFICES ASSUME Inductive, [Next]_vars PROVE ImagesAvailable'
    OBVIOUS
<1> USE DEF Inductive, TypeOK, ImagesAvailable, rowVars
<1>0. \A j, k \in ImageJobs : j # k => ImageKeys(j) \cap ImageKeys(k) = {}
    BY DEF ImageKeys
<1>1. ASSUME NEW j \in Jobs, NEW i \in 0 .. NumImages - 1, StoreImage(j, i)
      PROVE  ImagesAvailable'
    BY <1>1 DEF StoreImage, Jobs, ImageKeys
<1>2. ASSUME NEW j \in Jobs, CreateJob(j) \/ CreateJobUnacked(j) PROVE ImagesAvailable'
    BY <1>2 DEF CreateJob, CreateJobUnacked, InsertRows, Jobs, ImageKeys
<1>14. ASSUME NEW j \in Jobs, RemoveUnacked(j) PROVE ImagesAvailable'
  \* Only images of a job whose creator has been told of an error.
  <2>1. j \in ImageJobs /\ creator[j] = "removing" /\ creator' = [creator EXCEPT ![j] = "removed"]
        /\ UNCHANGED <<status, keysExpired>>
      BY <1>14 DEF RemoveUnacked
  <2>2. \A k \in ImageJobs \ {j} : ImageKeys(k) \subseteq objects => ImageKeys(k) \subseteq objects'
      BY <1>0, <1>14 DEF RemoveUnacked
  <2>3. \A k \in ImageJobs : ImageKeys(k)' = ImageKeys(k)
      BY DEF ImageKeys
  <2> QED BY <2>1, <2>2, <2>3
<1>3. ASSUME NEW j \in Jobs, AbandonUpload(j) PROVE ImagesAvailable'
  <2>1. \A k \in ImageJobs \ {j} : ImageKeys(k) \subseteq objects => ImageKeys(k) \subseteq objects'
      BY <1>0, <1>3 DEF AbandonUpload
  <2>2. \A k \in ImageJobs : ImageKeys(k)' = ImageKeys(k)
      BY DEF ImageKeys
  <2> QED BY <1>3, <2>1, <2>2 DEF AbandonUpload, Jobs
<1>4. ASSUME NEW j \in Jobs, Tick(j) PROVE ImagesAvailable'
    BY <1>4 DEF Tick, BecomeStale, Expire, ExpireKeys, ImageKeys
<1>5. ASSUME NEW h \in Handlers, ClaimUpdate(h) PROVE ImagesAvailable'
    BY <1>5 DEF ClaimUpdate, ImageKeys, Jobs, RequestInv
<1>6. ASSUME NEW h \in Handlers, FinishJob(h) \/ FinishJobUnacked(h) PROVE ImagesAvailable'
  <2> HIDE DEF TypeOK
  <2> QED BY <1>6, FinishEffect DEF ImageKeys, Jobs, Settled
<1>7. ASSUME NEW h \in Handlers, RemoveImages(h) PROVE ImagesAvailable'
  \* The handler removes images of a job it has settled.
  <2>1. job[h] \in Jobs /\ keys[h] \subseteq ImageKeys(job[h])
      BY <1>7 DEF RemoveImages, RequestInv, ReportSteps
  <2>2. status[job[h]] \notin {"pending", "processing"}
      BY <1>7, <2>1 DEF RemoveImages, RequestInv, ReportSteps, SettledSteps, VerdictInv, Settled
  <2>3. \A k \in ImageJobs \ {job[h]} :
            ImageKeys(k) \subseteq objects => ImageKeys(k) \subseteq objects'
      BY <1>7, <2>1 DEF RemoveImages, ImageKeys
  <2>4. \A k \in ImageJobs : ImageKeys(k)' = ImageKeys(k)
      BY DEF ImageKeys
  <2> QED BY <1>7, <2>2, <2>3, <2>4 DEF RemoveImages, Jobs
<1>8. CASE Reclaim
    BY <1>8 DEF Reclaim, Reclaimable, ImageKeys, Jobs
<1>9. CASE ListExpiredKeys \/ DeleteExpiredRowsFails
    BY <1>9 DEF ListExpiredKeys, DeleteExpiredRowsFails, ImageKeys
<1>10. CASE RemoveExpiredImages \/ RemoveExpiredImagesFails
  \* No listed key belongs to a row whose image rows have not expired.
  <2>1. ASSUME NEW j \in ImageJobs \ keysExpired, status[j] \in {"pending", "processing"},
               creator[j] = "none"
        PROVE  ImageKeys(j) \subseteq objects'
    <3>1. ImageKeys(j) \cap doomed = {}
        BY <2>1 DEF ImageKeys, DoomedInv
    <3>2. ImageKeys(j) \subseteq objects
        BY <2>1
    <3> QED BY <1>10, <2>1, <3>1, <3>2 DEF RemoveExpiredImages, RemoveExpiredImagesFails
  <2> QED BY <1>10, <2>1 DEF RemoveExpiredImages, RemoveExpiredImagesFails, ImageKeys
<1>11. CASE DeleteExpiredRows
    BY <1>11 DEF DeleteExpiredRows, ImageKeys, Jobs
<1>12. CASE Crash
    BY <1>12 DEF Crash, ImageKeys, Jobs
<1>13. CASE UNCHANGED <<status, keysExpired, objects, creator>>
    BY <1>13 DEF ImageKeys
<1> QED
    BY <1>1, <1>2, <1>3, <1>4, <1>5, <1>6, <1>7, <1>8, <1>9, <1>10, <1>11, <1>12, <1>13, <1>14
    DEF Next, Enqueue, RemoveUnacked, Request, Cleanup, ClaimSelect, ClaimLost, AnswerNoJob,
        ClaimKeys,
        GetJob, LoadKeys, FinishNotFound, PostWebhook, SetTextCache, HandlerError, vars

LEMMA ListedStep == Inductive /\ [Next]_vars => ListedImagesGone'
<1> SUFFICES ASSUME Inductive, [Next]_vars PROVE ListedImagesGone'
    OBVIOUS
<1> USE DEF Inductive, TypeOK, ListedImagesGone, cleanerVars
<1>1. ASSUME NEW j \in Jobs, NEW i \in 0 .. NumImages - 1, StoreImage(j, i)
      PROVE  ListedImagesGone'
  \* An upload writes under its own fresh id, which no listed key has.
  <2>1. <<j, i>> \notin doomed
    <3>1. status[j] # "gone" /\ ~HasRow(j)
        BY <1>1 DEF StoreImage, HasRow, Rows, Settled
    <3>2. <<j, i>> \in doomed => j \in keysExpired
        BY <3>1 DEF DoomedInv
    <3> QED BY <3>1, <3>2 DEF ExpiryInv
  <2> QED BY <1>1, <2>1 DEF StoreImage
<1>2. ASSUME NEW j \in Jobs, AbandonUpload(j) PROVE ListedImagesGone'
  <2>1. ImageKeys(j) \cap doomed = {}
    <3>1. status[j] # "gone" /\ ~HasRow(j)
        BY <1>2 DEF AbandonUpload, HasRow, Rows, Settled
    <3> QED BY <3>1 DEF ExpiryInv, DoomedInv, ImageKeys
  <2> QED BY <1>2, <2>1 DEF AbandonUpload
<1>3. ASSUME NEW h \in Handlers, RemoveImages(h) PROVE ListedImagesGone'
    BY <1>3 DEF RemoveImages
<1>7. ASSUME NEW j \in Jobs, RemoveUnacked(j) PROVE ListedImagesGone'
    BY <1>7 DEF RemoveUnacked
<1>4. CASE Cleanup
    BY <1>4 DEF Cleanup, ListExpiredKeys, RemoveExpiredImages, RemoveExpiredImagesFails,
                DeleteExpiredRows, DeleteExpiredRowsFails
<1>5. CASE Crash
    BY <1>5 DEF Crash
<1>6. CASE UNCHANGED <<cleanerVars, objects>>
    BY <1>6
<1> QED
    BY <1>1, <1>2, <1>3, <1>4, <1>5, <1>6, <1>7
    DEF Next, Enqueue, Tick, Request, CreateJob, CreateJobUnacked, InsertRows, BecomeStale,
        Expire, ExpireKeys, Reclaim, ClaimSelect, ClaimUpdate, ClaimLost, AnswerNoJob,
        ClaimKeys, GetJob, LoadKeys, FinishJob, FinishJobUnacked, FinishNotFound, PostWebhook, SetTextCache, HandlerError, vars

\* Only rows expire.
LEMMA ExpiryStep == Inductive /\ [Next]_vars => ExpiryInv'
<1> SUFFICES ASSUME Inductive, [Next]_vars PROVE ExpiryInv'
    OBVIOUS
<1> USE DEF Inductive, TypeOK, ExpiryInv, HasRow, Rows, Settled, rowVars
<1>1. ASSUME NEW j \in Jobs, NEW i \in 0 .. NumImages - 1, StoreImage(j, i) PROVE ExpiryInv'
    BY <1>1 DEF StoreImage
<1>2. ASSUME NEW j \in Jobs, CreateJob(j) \/ CreateJobUnacked(j) \/ AbandonUpload(j)
      PROVE  ExpiryInv'
    BY <1>2 DEF CreateJob, CreateJobUnacked, InsertRows, AbandonUpload
<1>3. ASSUME NEW j \in Jobs, Tick(j) PROVE ExpiryInv'
    BY <1>3 DEF Tick, BecomeStale, Expire, ExpireKeys
<1>4. ASSUME NEW h \in Handlers, ClaimUpdate(h) PROVE ExpiryInv'
    BY <1>4 DEF ClaimUpdate
<1>5. ASSUME NEW h \in Handlers, FinishJob(h) \/ FinishJobUnacked(h) PROVE ExpiryInv'
  <2>1. expired \cup keysExpired \subseteq Jobs
      OBVIOUS
  <2> HIDE DEF TypeOK
  <2> QED BY <1>5, <2>1, FinishEffect
<1>6. CASE Reclaim
    BY <1>6 DEF Reclaim, Reclaimable
<1>7. CASE DeleteExpiredRows
    BY <1>7 DEF DeleteExpiredRows
<1>8. CASE Crash
    BY <1>8 DEF Crash
<1>9. CASE UNCHANGED <<status, expired, keysExpired>>
    BY <1>9
<1> QED
    BY <1>1, <1>2, <1>3, <1>4, <1>5, <1>6, <1>7, <1>8, <1>9
    DEF Next, Enqueue, RemoveUnacked, Request, Cleanup, ClaimSelect, ClaimLost, AnswerNoJob,
        ClaimKeys,
        GetJob, LoadKeys, FinishNotFound, PostWebhook, SetTextCache, RemoveImages,
        HandlerError, ListExpiredKeys, RemoveExpiredImages, RemoveExpiredImagesFails,
        DeleteExpiredRowsFails, vars

-----------------------------------------------------------------------------
LEMMA InductiveInit == Init => Inductive
<1> SUFFICES ASSUME Init PROVE Inductive
    OBVIOUS
<1>1. TypeOK
    BY TypeInit
<1> QED
    BY <1>1 DEF Init, Inductive, RowInv, VerdictInv, RequestInv, OneReporter, ExpiryInv, DoomedInv,
                ImagesAvailable, ListedImagesGone, HasRow, Rows, Settled, ReportSteps,
                SettledSteps, Jobs

\* The invariant that carries every theorem below: TypeOK alone is not
\* inductive (FinishJob writes op[h], which must be an outcome).
THEOREM InductiveInvariant == Spec => []Inductive
<1>1. Inductive /\ [Next]_vars => Inductive'
    BY TypeStep, RowStep, VerdictStep, RequestStep, ReporterStep, ExpiryStep, DoomedStep,
       ImagesStep, ListedStep DEF Inductive
<1> QED BY InductiveInit, <1>1, PTL DEF Spec

\* Every variable keeps its type, for any set of jobs, handlers and filters.
THEOREM TypeCorrect == Spec => []TypeOK
<1>1. Inductive => TypeOK
    BY DEF Inductive
<1> QED BY InductiveInvariant, <1>1, PTL

\* ClaimJob gives a queued job to one claim request, for any number of workers.
THEOREM ClaimsAreExclusive == Spec => []OneGrant
<1>1. Inductive => OneGrant
    BY DEF Inductive, RowInv, OneGrant
<1> QED BY InductiveInvariant, <1>1, PTL

\* However many reports race on a job, the webhook is told at most once, and
\* what it is told and what is cached is the outcome of the row.
THEOREM EffectsAreTruthful == Spec => []EffectsFollowVerdict
<1>1. Inductive => EffectsFollowVerdict
    BY DEF Inductive, TypeOK, VerdictInv, EffectsFollowVerdict, Jobs
<1> QED BY InductiveInvariant, <1>1, PTL

\* A job that is still to be processed has its images, until they expire.
THEOREM ImagesStayAvailable == Spec => []ImagesAvailable
<1>1. Inductive => ImagesAvailable
    BY DEF Inductive
<1> QED BY InductiveInvariant, <1>1, PTL

\* The cleanup never deletes a row while an object it has listed is left.
THEOREM CleanupFailsSafe == Spec => []ListedImagesGone
<1>1. Inductive => ListedImagesGone
    BY DEF Inductive
<1> QED BY InductiveInvariant, <1>1, PTL

-----------------------------------------------------------------------------
\* What each step does to the row of a job.
LEMMA StatusSteps ==
    ASSUME Inductive, [Next]_vars, NEW k \in Jobs
    PROVE  /\ status[k] \in Settled => status'[k] \in {status[k], "gone"}
           /\ status[k] = "gone" => status'[k] = "gone"
<1> DEFINE Goal == /\ status[k] \in Settled => status'[k] \in {status[k], "gone"}
                   /\ status[k] = "gone" => status'[k] = "gone"
<1> USE DEF Inductive, TypeOK, Settled, rowVars
<1>1. ASSUME NEW j \in Jobs, Enqueue(j) PROVE Goal
    BY <1>1 DEF Enqueue, StoreImage, CreateJob, CreateJobUnacked, InsertRows, RemoveUnacked,
                AbandonUpload
<1>2. ASSUME NEW h \in Handlers, ClaimUpdate(h) PROVE Goal
    BY <1>2 DEF ClaimUpdate
<1>3. ASSUME NEW h \in Handlers, FinishJob(h) \/ FinishJobUnacked(h) PROVE Goal
    BY <1>3 DEF FinishJob, FinishJobUnacked
<1>4. CASE Reclaim
    BY <1>4 DEF Reclaim, Reclaimable
<1>5. CASE DeleteExpiredRows
    BY <1>5 DEF DeleteExpiredRows
<1>6. CASE Crash
    BY <1>6 DEF Crash
<1>7. CASE UNCHANGED status
    BY <1>7
<1> QED
    BY <1>1, <1>2, <1>3, <1>4, <1>5, <1>6, <1>7
    DEF Next, Tick, Request, Cleanup, BecomeStale, Expire, ExpireKeys, ClaimSelect, ClaimLost,
        AnswerNoJob, ClaimKeys, GetJob, LoadKeys, FinishNotFound, PostWebhook, SetTextCache,
        RemoveImages, HandlerError, ListExpiredKeys, RemoveExpiredImages,
        RemoveExpiredImagesFails, DeleteExpiredRowsFails, vars

\* No reclaim, second report or restart reopens a settled job or changes its
\* outcome.
THEOREM SettledIsFinal == Spec => SettledForever
<1>1. Inductive /\ [Next]_vars =>
         [\A j \in Jobs : /\ status[j] \in Settled => status'[j] \in {status[j], "gone"}
                          /\ status[j] = "gone" => status'[j] = "gone"]_vars
    BY StatusSteps
<1> QED BY InductiveInvariant, <1>1, PTL DEF Spec, SettledForever

-----------------------------------------------------------------------------
(***************************************************************************)
(* The queue implements JobContract.                                       *)
(***************************************************************************)
LEMMA StateOfValues ==
    ASSUME NEW rank
    PROVE  /\ StateOf("new", rank) = "absent" /\ StateOf("uploading", rank) = "absent"
           /\ StateOf("pending", rank) = "queued"
           /\ StateOf("processing", rank) = "running"
           /\ StateOf("completed", rank) = "settled" /\ StateOf("failed", rank) = "settled"
           /\ StateOf("gone", rank) = IF rank = 0 THEN "absent" ELSE "purged"
BY DEF StateOf, Settled

LEMMA ContractInit == Init => Contract!Init
BY StateOfValues DEF Init, Contract!Init

LEMMA ContractStep ==
    Inductive /\ [Next]_vars => [Contract!Next]_(Contract!contractVars)
<1> SUFFICES ASSUME Inductive, [Next]_vars
             PROVE  [Contract!Next]_(Contract!contractVars)
    OBVIOUS
<1> DEFINE State == [j \in Jobs |-> StateOf(status[j], arrival[j])]
<1> USE DEF Inductive, TypeOK, rowVars, effectVars, historyVars
<1>1. ASSUME NEW j \in Jobs, \E i \in 0 .. NumImages - 1 : StoreImage(j, i)
      PROVE  UNCHANGED Contract!contractVars
  <2>1. /\ status[j] \in {"new", "uploading"}
        /\ status' = [status EXCEPT ![j] = "uploading"]
        /\ UNCHANGED <<arrival, verdict, posts>>
      BY <1>1 DEF StoreImage
  <2>2. State' = State
      BY <2>1, StateOfValues
  <2> QED BY <2>1, <2>2 DEF Contract!contractVars
<1>2. ASSUME NEW j \in Jobs, CreateJob(j) \/ CreateJobUnacked(j) PROVE Contract!Submit(j)
  <2>1. /\ status[j] \in {"new", "uploading"}
        /\ status' = [status EXCEPT ![j] = "pending"]
        /\ arrival' = [arrival EXCEPT ![j] = inserted + 1]
        /\ UNCHANGED <<verdict, posts>>
      BY <1>2 DEF CreateJob, CreateJobUnacked, InsertRows
  <2>2. State[j] = "absent" /\ State' = [State EXCEPT ![j] = "queued"]
      BY <2>1, StateOfValues
  <2> QED BY <2>1, <2>2 DEF Contract!Submit
<1>3. ASSUME NEW j \in Jobs, AbandonUpload(j) PROVE UNCHANGED Contract!contractVars
  <2>1. /\ status[j] \in {"new", "uploading"}
        /\ status' = [status EXCEPT ![j] = "gone"]
        /\ UNCHANGED <<arrival, verdict, posts>>
      BY <1>3 DEF AbandonUpload
  <2>2. State' = State
      BY <2>1, StateOfValues DEF RowInv
  <2> QED BY <2>1, <2>2 DEF Contract!contractVars
<1>4. ASSUME NEW h \in Handlers, ClaimUpdate(h) PROVE Contract!Start(job[h])
  <2>1. /\ job[h] \in Jobs /\ status[job[h]] = "pending"
        /\ status' = [status EXCEPT ![job[h]] = "processing"]
        /\ UNCHANGED <<arrival, verdict, posts>>
      BY <1>4 DEF ClaimUpdate, RequestInv
  <2>2. State[job[h]] = "queued" /\ State' = [State EXCEPT ![job[h]] = "running"]
      BY <2>1, StateOfValues
  <2> QED BY <2>1, <2>2 DEF Contract!Start
<1>5. ASSUME NEW h \in Handlers, FinishJob(h) \/ FinishJobUnacked(h)
      PROVE  Contract!Settle(job[h], op[h])
  <2>1. /\ job[h] \in Jobs /\ op[h] \in Settled /\ status[job[h]] = "processing"
        /\ status' = [status EXCEPT ![job[h]] = op[h]]
        /\ verdict' = [verdict EXCEPT ![job[h]] = op[h]]
        /\ UNCHANGED <<arrival, posts>>
      BY <1>5 DEF FinishJob, FinishJobUnacked, RequestInv, ReportSteps
  <2>2. StateOf(op[h], arrival[job[h]]) = "settled"
      BY <2>1, StateOfValues DEF Settled
  <2>3. State[job[h]] = "running" /\ State' = [State EXCEPT ![job[h]] = "settled"]
      BY <2>1, <2>2, StateOfValues
  <2> QED BY <2>1, <2>3 DEF Contract!Settle
<1>6. ASSUME NEW h \in Handlers, PostWebhook(h)
      PROVE  Contract!Tell(job[h]) \/ UNCHANGED Contract!contractVars
  <2>1. /\ job[h] \in Jobs /\ op[h] \in Settled
        /\ verdict[job[h]] = op[h] /\ posts[job[h]] = <<>>
      BY <1>6 DEF PostWebhook, RequestInv, ReportSteps, SettledSteps
  <2>2. Append(posts[job[h]], op[h]) = <<verdict[job[h]]>>
      BY <2>1
  <2>3. \/ posts' = [posts EXCEPT ![job[h]] = <<verdict[job[h]]>>]
        \/ posts' = posts
      BY <1>6, <2>2 DEF PostWebhook
  <2>4. UNCHANGED <<status, arrival, verdict>>
      BY <1>6 DEF PostWebhook
  <2>5. State' = State
      BY <2>4
  <2> QED BY <2>1, <2>3, <2>4, <2>5
          DEF Contract!Tell, Contract!contractVars, Contract!Outcomes, Settled
<1>7. CASE Reclaim
  <2>1. Contract!Requeue(Reclaimable)
    <3>1. /\ Reclaimable \subseteq Jobs
          /\ \A j \in Reclaimable : status[j] = "processing"
          /\ status' = [j \in Jobs |-> IF j \in Reclaimable THEN "pending" ELSE status[j]]
          /\ UNCHANGED <<arrival, verdict, posts>>
        BY <1>7 DEF Reclaim, Reclaimable
    <3>2. /\ \A j \in Reclaimable : State[j] = "running"
          /\ State' = [j \in Jobs |-> IF j \in Reclaimable THEN "queued" ELSE State[j]]
        BY <3>1, StateOfValues DEF Settled
    <3> QED BY <3>1, <3>2 DEF Contract!Requeue
  <2> QED BY <2>1 DEF Contract!Next, Reclaimable
<1>8. CASE DeleteExpiredRows
  <2>1. Contract!Purge(expired)
    <3>1. /\ \A j \in expired : status[j] \in {"pending", "processing"} \cup Settled /\ arrival[j] > 0
          /\ status' = [j \in Jobs |-> IF j \in expired THEN "gone" ELSE status[j]]
          /\ UNCHANGED <<arrival, verdict, posts>>
        BY <1>8 DEF DeleteExpiredRows, ExpiryInv, RowInv, HasRow, Rows
    <3>2. \A j \in expired : StateOf("gone", arrival[j]) = "purged"
        BY <3>1, StateOfValues
    <3>3. \A j \in expired : State[j] \in {"queued", "running", "settled"}
        BY <3>1, StateOfValues DEF Settled
    <3>4. State' = [j \in Jobs |-> IF j \in expired THEN "purged" ELSE State[j]]
        BY <3>1, <3>2
    <3> QED BY <3>1, <3>3, <3>4 DEF Contract!Purge
  <2> QED BY <2>1 DEF Contract!Next
<1>9. CASE Crash
  <2>1. /\ status' = [j \in Jobs |-> IF status[j] = "uploading" THEN "gone" ELSE status[j]]
        /\ UNCHANGED <<arrival, verdict, posts>>
      BY <1>9 DEF Crash
  <2>2. State' = State
      BY <2>1, StateOfValues DEF RowInv
  <2> QED BY <2>1, <2>2 DEF Contract!contractVars
<1>10. CASE UNCHANGED <<status, arrival, verdict, posts>>
    BY <1>10 DEF Contract!contractVars
<1>11. ASSUME NEW j \in Jobs, Enqueue(j) PROVE [Contract!Next]_(Contract!contractVars)
    BY <1>11, <1>1, <1>2, <1>3, <1>10 DEF Enqueue, RemoveUnacked, Contract!Next
<1>12. ASSUME NEW h \in Handlers, Request(h) PROVE [Contract!Next]_(Contract!contractVars)
  <2>1. CASE ClaimUpdate(h)
    <3>1. job[h] \in Jobs
        BY <2>1 DEF ClaimUpdate, RequestInv
    <3> QED BY <2>1, <3>1, <1>4 DEF Contract!Next
  <2>2. CASE FinishJob(h) \/ FinishJobUnacked(h)
    <3>1. job[h] \in Jobs /\ op[h] \in Contract!Outcomes
        BY <2>2 DEF FinishJob, FinishJobUnacked, RequestInv, ReportSteps, Contract!Outcomes, Settled
    <3> QED BY <2>2, <3>1, <1>5 DEF Contract!Next
  <2>3. CASE PostWebhook(h)
    BY <2>3, <1>6 DEF Contract!Next, PostWebhook, RequestInv, ReportSteps
  <2>4. CASE UNCHANGED <<status, arrival, verdict, posts>>
    BY <2>4, <1>10
  <2> QED
    BY <1>12, <2>1, <2>2, <2>3, <2>4
    DEF Request, ClaimSelect, ClaimLost, AnswerNoJob, ClaimKeys, GetJob, LoadKeys,
        FinishNotFound, SetTextCache, RemoveImages, HandlerError
<1> QED
    BY <1>7, <1>8, <1>9, <1>10, <1>11, <1>12
    DEF Next, Tick, Cleanup, BecomeStale, Expire, ExpireKeys, ListExpiredKeys,
        RemoveExpiredImages, RemoveExpiredImagesFails, DeleteExpiredRowsFails, vars

\* Every behaviour of the queue, with its uploads, races, reclaims, restarts
\* and cleanup, is a behaviour of the abstract contract of a job.
THEOREM QueueImplementsContract == Spec => ImplementsContract
<1> QED BY InductiveInvariant, ContractInit, ContractStep, PTL
        DEF Spec, ImplementsContract, Contract!Spec

-----------------------------------------------------------------------------
Promised == INSTANCE JobContract_proofs
            WITH state <- [j \in Jobs |-> StateOf(status[j], arrival[j])],
                 outcome <- verdict, told <- posts

\* What the contract promises holds of rows and webhooks: an outcome, once
\* recorded, is not replaced, what was posted is that outcome, and neither is
\* taken back by a late report, a reclaim, the cleanup or a restart.
THEOREM QueueKeepsPromises ==
    Spec => []Promised!Promise /\ [][Promised!OutcomesAreKept]_(Promised!contractVars)
<1>1. Promised!Spec => []Promised!Promise
    BY Promised!PromiseIsKept
<1>2. Promised!Spec => [][Promised!OutcomesAreKept]_(Promised!contractVars)
    BY Promised!OutcomesAreFinal
<1>3. Contract!Init => Promised!Init
    BY DEF Contract!Init, Promised!Init
<1>4. [Contract!Next]_(Contract!contractVars) => [Promised!Next]_(Promised!contractVars)
    BY DEF Contract!Next, Promised!Next, Contract!contractVars, Promised!contractVars,
           Contract!Submit, Promised!Submit, Contract!Start, Promised!Start,
           Contract!Tell, Promised!Tell, Contract!Settle, Promised!Settle,
           Contract!Requeue, Promised!Requeue, Contract!Purge, Promised!Purge,
           Contract!Outcomes, Promised!Outcomes
<1> QED BY <1>1, <1>2, <1>3, <1>4, QueueImplementsContract, PTL
        DEF ImplementsContract, Contract!Spec, Promised!Spec
=============================================================================
