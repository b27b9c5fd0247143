------------------------------ MODULE SyncWait ------------------------------
(***************************************************************************)
(* The synchronous text request: CreateEmbedding looks in the text cache,   *)
(* refuses when too many text jobs are pending, enqueues a job and waits    *)
(* for it through LocalJobNotifier, against the deadline and the client.    *)
(*                                                                         *)
(* The queue is the environment, at the grain of JobContract: JobQueue is   *)
(* its detailed form.  What CompleteWorkerJob and FailWorkerJob do after     *)
(* the row is settled is kept step by step, since the waiter races with it. *)
(*                                                                         *)
(* A slot is one request being served; every request gets a fresh job id,   *)
(* so the channel a waiter receives from is identified with its job.        *)
(***************************************************************************)
EXTENDS Naturals, FiniteSets

CONSTANTS Slots,       \* requests the server can be serving at once
          Jobs,        \* ids that uuid.New() can give
          Texts,       \* normalised input texts
          NoJob, NoText,
          MaxPending   \* maxPendingTextJobs (30 in the code)

ASSUME SyncWaitAssumption ==
    /\ IsFiniteSet(Slots) /\ IsFiniteSet(Jobs)
    /\ NoJob \notin Jobs
    /\ NoText \notin Texts
    /\ MaxPending \in Nat \ {0}

VARIABLES
    \* the requests
    pc,        \* what the request does next
    text,      \* its input
    job,       \* the job it created
    answer,    \* what it is about to answer
    \* LocalJobNotifier
    waiters,   \* jobs with a channel in the map
    token,     \* jobs whose channel holds its one message
    \* the rows, the text cache and the reports
    row,       \* status of each job; "absent": no row yet, "purged": deleted
    verdict,   \* outcome recorded, kept when the row is deleted
    jobText,   \* text of the job
    exempt,    \* pending jobs that did not pass CountPending on their way in
    report,    \* what the handler that settled the job does next
    cache      \* texts with an entry in the cache

slotVars     == <<pc, text, job, answer>>
notifierVars == <<waiters, token>>
queueVars    == <<row, verdict, jobText, exempt, report>>
vars == <<slotVars, notifierVars, queueVars, cache>>

Settled == {"completed", "failed"}

\* From Subscribe to the deferred unsubscribe.
Listening == {"firstRead", "select", "finalRead", "leave"}

TypeOK ==
    /\ pc \in [Slots -> {"idle", "count", "create", "subscribe"} \cup Listening]
    /\ text \in [Slots -> Texts \cup {NoText}]
    /\ job \in [Slots -> Jobs \cup {NoJob}]
    /\ answer \in [Slots -> Settled \cup {"none", "hit", "full", "timeout", "cancelled",
                                          "notReady", "error"}]
    /\ waiters \subseteq Jobs /\ token \subseteq Jobs
    /\ row \in [Jobs -> Settled \cup {"absent", "pending", "processing", "purged"}]
    /\ verdict \in [Jobs -> Settled \cup {"none"}]
    /\ jobText \in [Jobs -> Texts \cup {NoText}]
    /\ exempt \subseteq Jobs
    /\ report \in [Jobs -> {"none", "notify", "send", "cache", "untold"}]
    /\ cache \subseteq Texts

Init ==
    /\ pc = [s \in Slots |-> "idle"]
    /\ text = [s \in Slots |-> NoText]
    /\ job = [s \in Slots |-> NoJob]
    /\ answer = [s \in Slots |-> "none"]
    /\ waiters = {} /\ token = {}
    /\ row = [j \in Jobs |-> "absent"]
    /\ verdict = [j \in Jobs |-> "none"]
    /\ jobText = [j \in Jobs |-> NoText]
    /\ exempt = {}
    /\ report = [j \in Jobs |-> "none"]
    /\ cache = {}

-----------------------------------------------------------------------------
(***************************************************************************)
(* CreateEmbedding                                                         *)
(***************************************************************************)
Goto(s, where) == pc' = [pc EXCEPT ![s] = where]
Answer(s, a) == answer' = [answer EXCEPT ![s] = a]

\* The request returns with this answer.
Return(s, a) == Goto(s, "leave") /\ Answer(s, a)

\* GetTextCache: a hit, a miss, or an error other than a miss.
LookUp(s, t) ==
    /\ pc[s] = "idle"
    /\ text' = [text EXCEPT ![s] = t]
    /\ \/ t \in cache /\ Return(s, "hit")
       \/ t \notin cache /\ Goto(s, "count") /\ UNCHANGED answer
       \/ Return(s, "error")
    /\ UNCHANGED <<job, notifierVars, queueVars, cache>>

PendingJobs == {j \in Jobs : row[j] = "pending"}

\* Mutant of CountPending: > for >=.
CountPendingOver(s) ==
    /\ pc[s] = "count"
    /\ \/ Cardinality(PendingJobs) > MaxPending /\ Return(s, "full")
       \/ Cardinality(PendingJobs) <= MaxPending /\ Goto(s, "create") /\ UNCHANGED answer
       \/ Return(s, "error")
    /\ UNCHANGED <<text, job, notifierVars, queueVars, cache>>

\* CountPendingTextJobs; nothing holds the count still until CreateJob.
CountPending(s) ==
    /\ pc[s] = "count"
    /\ \/ Cardinality(PendingJobs) >= MaxPending /\ Return(s, "full")
       \/ Cardinality(PendingJobs) < MaxPending /\ Goto(s, "create") /\ UNCHANGED answer
       \/ Return(s, "error")
    /\ UNCHANGED <<text, job, notifierVars, queueVars, cache>>

\* enqueueJob of a text.
Create(s, j) ==
    /\ pc[s] = "create"
    /\ row[j] = "absent"
    /\ row' = [row EXCEPT ![j] = "pending"]
    /\ jobText' = [jobText EXCEPT ![j] = text[s]]
    /\ job' = [job EXCEPT ![s] = j]
    /\ Goto(s, "subscribe")
    /\ UNCHANGED <<text, answer, notifierVars, verdict, exempt, report, cache>>

\* CreateAsyncEmbedding of a text, by the multimodal endpoint: a text job that
\* is not counted on its way in and that nobody waits for.
CreateAsync(j, t) ==
    /\ row[j] = "absent"
    /\ row' = [row EXCEPT ![j] = "pending"]
    /\ jobText' = [jobText EXCEPT ![j] = t]
    /\ exempt' = exempt \cup {j}
    /\ UNCHANGED <<slotVars, notifierVars, verdict, report, cache>>

CreateFails(s) ==
    /\ pc[s] = "create"
    /\ Return(s, "error")
    /\ UNCHANGED <<text, job, notifierVars, queueVars, cache>>

\* Mutant of Subscribe: the wait starts without a first read of the row.
SubscribeAndWait(s) ==
    /\ pc[s] = "subscribe"
    /\ waiters' = waiters \cup {job[s]}
    /\ Goto(s, "select")
    /\ UNCHANGED <<text, job, answer, token, queueVars, cache>>

\* waitEmbeddingResult registers its channel before it reads the row.
Subscribe(s) ==
    /\ pc[s] = "subscribe"
    /\ waiters' = waiters \cup {job[s]}
    /\ Goto(s, "firstRead")
    /\ UNCHANGED <<text, job, answer, token, queueVars, cache>>

\* Mutant of ReadRow: the outcome is the status, whatever it is.
ReadAnyRow(s, notReady) ==
    \/ Return(s, row[job[s]])
    \/ Return(s, "error")

\* readEmbeddingResult: an outcome, or errEmbeddingResultNotReady (a deleted
\* row included), or another error.
ReadRow(s, notReady) ==
    \/ /\ row[job[s]] \in Settled
       /\ Return(s, row[job[s]])
    \/ /\ row[job[s]] \notin Settled
       /\ notReady
    \/ Return(s, "error")

FirstRead(s) ==
    /\ pc[s] = "firstRead"
    /\ ReadRow(s, Goto(s, "select") /\ UNCHANGED answer)
    /\ UNCHANGED <<text, job, notifierVars, queueVars, cache>>

\* The three cases of the select; Go takes any that is ready.
WakeUp(s) ==
    /\ pc[s] = "select"
    /\ job[s] \in token
    /\ token' = token \ {job[s]}
    /\ Goto(s, "finalRead")
    /\ UNCHANGED <<text, job, answer, waiters, queueVars, cache>>

GiveUp(s, why) ==
    /\ pc[s] = "select"
    /\ Return(s, why)
    /\ UNCHANGED <<text, job, notifierVars, queueVars, cache>>

FinalRead(s) ==
    /\ pc[s] = "finalRead"
    /\ ReadRow(s, Return(s, "notReady"))
    /\ UNCHANGED <<text, job, notifierVars, queueVars, cache>>

\* Mutant of Leave: it returns without the unsubscribe.
LeaveSubscribed(s) ==
    /\ pc[s] = "leave"
    /\ Goto(s, "idle") /\ Answer(s, "none")
    /\ text' = [text EXCEPT ![s] = NoText]
    /\ job' = [job EXCEPT ![s] = NoJob]
    /\ UNCHANGED <<notifierVars, queueVars, cache>>

\* The deferred unsubscribe of a request that has subscribed (the channel is
\* dropped with it), and the response.
Leave(s) ==
    /\ pc[s] = "leave"
    /\ waiters' = waiters \ {job[s]}
    /\ token' = token \ {job[s]}
    /\ Goto(s, "idle") /\ Answer(s, "none")
    /\ text' = [text EXCEPT ![s] = NoText]
    /\ job' = [job EXCEPT ![s] = NoJob]
    /\ UNCHANGED <<queueVars, cache>>

-----------------------------------------------------------------------------
(***************************************************************************)
(* The queue, and the report that settles a job.                           *)
(***************************************************************************)
Claim(j) ==
    /\ row[j] = "pending"
    /\ row' = [row EXCEPT ![j] = "processing"]
    /\ exempt' = exempt \ {j}
    /\ UNCHANGED <<slotVars, notifierVars, verdict, jobText, report, cache>>

\* Mutant of Requeue: the reclaim does not look at the status.
RequeueAny(j) ==
    /\ row[j] \in Settled \cup {"processing"}
    /\ row' = [row EXCEPT ![j] = "pending"]
    /\ exempt' = exempt \cup {j}
    /\ UNCHANGED <<slotVars, notifierVars, verdict, jobText, report, cache>>

Requeue(j) ==
    /\ row[j] = "processing"
    /\ row' = [row EXCEPT ![j] = "pending"]
    /\ exempt' = exempt \cup {j}
    /\ UNCHANGED <<slotVars, notifierVars, verdict, jobText, report, cache>>

Purge(j) ==
    /\ row[j] \in Settled \cup {"pending", "processing"}
    /\ row' = [row EXCEPT ![j] = "purged"]
    /\ exempt' = exempt \ {j}
    /\ UNCHANGED <<slotVars, notifierVars, verdict, jobText, report, cache>>

\* Mutants of Settle: any row can be finished; a failure is not notified.
SettleAny(j, outcome) ==
    /\ row[j] \in Settled \cup {"pending", "processing"}
    /\ row' = [row EXCEPT ![j] = outcome]
    /\ verdict' = [verdict EXCEPT ![j] = outcome]
    /\ report' = [report EXCEPT ![j] = "notify"]
    /\ UNCHANGED <<slotVars, notifierVars, jobText, exempt, cache>>

SettleQuietly(j, outcome) ==
    /\ row[j] = "processing"
    /\ row' = [row EXCEPT ![j] = outcome]
    /\ verdict' = [verdict EXCEPT ![j] = outcome]
    /\ report' = [report EXCEPT ![j] = IF outcome = "completed" THEN "notify" ELSE "none"]
    /\ UNCHANGED <<slotVars, notifierVars, jobText, exempt, cache>>

Settle(j, outcome) ==
    /\ row[j] = "processing"
    /\ row' = [row EXCEPT ![j] = outcome]
    /\ verdict' = [verdict EXCEPT ![j] = outcome]
    /\ report' = [report EXCEPT ![j] = "notify"]
    /\ UNCHANGED <<slotVars, notifierVars, jobText, exempt, cache>>

\* The row is settled, but the handler sees an error and tells nobody.
SettleUnacked(j, outcome) ==
    /\ row[j] = "processing"
    /\ row' = [row EXCEPT ![j] = outcome]
    /\ verdict' = [verdict EXCEPT ![j] = outcome]
    /\ report' = [report EXCEPT ![j] = "untold"]
    /\ UNCHANGED <<slotVars, notifierVars, jobText, exempt, cache>>

\* Mutant of AfterNotify: every result is cached.
AlwaysCache(j) == "cache"

\* After Notify, only a completed text is cached.
AfterNotify(j) == IF verdict[j] = "completed" THEN "cache" ELSE "none"

\* Notify takes the channel out of the map under the lock ...
NotifyTake(j) ==
    /\ report[j] = "notify"
    /\ waiters' = waiters \ {j}
    /\ report' = [report EXCEPT ![j] = IF j \in waiters THEN "send" ELSE AfterNotify(j)]
    /\ UNCHANGED <<slotVars, token, row, verdict, jobText, exempt, cache>>

\* ... and sends without it, never blocking.  The message to a waiter that has
\* left goes to a channel nobody receives from.
NotifySend(j) ==
    /\ report[j] = "send"
    /\ token' = IF \E s \in Slots : job[s] = j /\ pc[s] \in Listening
                THEN token \cup {j} ELSE token
    /\ report' = [report EXCEPT ![j] = AfterNotify(j)]
    /\ UNCHANGED <<slotVars, waiters, row, verdict, jobText, exempt, cache>>

\* SetTextCache, whose error is ignored.
SetCache(j) ==
    /\ report[j] = "cache"
    /\ cache' = cache \cup {jobText[j]} \/ UNCHANGED cache
    /\ report' = [report EXCEPT ![j] = "none"]
    /\ UNCHANGED <<slotVars, notifierVars, row, verdict, jobText, exempt>>

\* PruneCache
Evict(t) ==
    /\ t \in cache
    /\ cache' = cache \ {t}
    /\ UNCHANGED <<slotVars, notifierVars, queueVars>>

\* The process dies: its requests, its notifier and its reports with it.
Crash ==
    /\ pc' = [s \in Slots |-> "idle"]
    /\ text' = [s \in Slots |-> NoText]
    /\ job' = [s \in Slots |-> NoJob]
    /\ answer' = [s \in Slots |-> "none"]
    /\ waiters' = {} /\ token' = {}
    /\ report' = [j \in Jobs |-> "none"]
    /\ UNCHANGED <<row, verdict, jobText, exempt, cache>>

-----------------------------------------------------------------------------
Request(s) ==
    \/ \E t \in Texts : LookUp(s, t)
    \/ CountPending(s)
    \/ \E j \in Jobs : Create(s, j)
    \/ CreateFails(s)
    \/ Subscribe(s) \/ FirstRead(s)
    \/ WakeUp(s) \/ \E why \in {"timeout", "cancelled"} : GiveUp(s, why)
    \/ FinalRead(s) \/ Leave(s)

Queue(j) ==
    \/ Claim(j) \/ Requeue(j) \/ Purge(j)
    \/ \E o \in Settled : Settle(j, o) \/ SettleUnacked(j, o)
    \/ \E t \in Texts : CreateAsync(j, t)
    \/ NotifyTake(j) \/ NotifySend(j) \/ SetCache(j)

Next ==
    \/ \E s \in Slots : Request(s)
    \/ \E j \in Jobs : Queue(j)
    \/ \E t \in Texts : Evict(t)
    \/ Crash

Spec == Init /\ [][Next]_vars

\* The goroutines keep running: a request that has its job takes its next
\* step, and so does the handler that settled a job.  Nothing is assumed of
\* the deadline, the client, the workers or the database.
Fairness ==
    /\ \A s \in Slots : WF_vars(Subscribe(s) \/ FirstRead(s) \/ WakeUp(s) \/ FinalRead(s) \/ Leave(s))
    /\ \A j \in Jobs : WF_vars(NotifyTake(j) \/ NotifySend(j))

FairSpec == Spec /\ Fairness

-----------------------------------------------------------------------------
(***************************************************************************)
(* Properties.                                                             *)
(***************************************************************************)

\* No wakeup is lost between the subscription, the first read of the row and
\* Notify: while a request sits in the select of a job that has been settled,
\* its message is there or still to be sent, unless the handler that settled
\* the job was told that it had not.
NoLostWakeup ==
    \A s \in Slots :
        pc[s] = "select" /\ row[job[s]] \in Settled =>
            \/ job[s] \in token
            \/ report[job[s]] = "notify" /\ job[s] \in waiters
            \/ report[job[s]] \in {"send", "untold"}

\* A message means that the outcome is in the row: the second read finds it
\* unless the cleanup has deleted the row, the only way to the 500 that
\* errEmbeddingResultNotReady ends in.
WakeupMeansSettled ==
    \A s \in Slots :
        /\ job[s] \in token => verdict[job[s]] # "none"
        /\ answer[s] = "notReady" => row[job[s]] = "purged"

\* A request that answers with an outcome answers with the one of its own job,
\* and a hit comes from a completed job of the same text.
TruthfulAnswer ==
    \A s \in Slots :
        /\ answer[s] \in Settled => verdict[job[s]] = answer[s]
        /\ answer[s] = "hit" =>
              \E j \in Jobs : jobText[j] = text[s] /\ verdict[j] = "completed"

\* The map holds no channel of a request that has gone, whichever way it left
\* (timeout, cancelled client, error or answer) and however Notify came in
\* between.
NoLeakedWaiter ==
    \A j \in waiters \cup token : \E s \in Slots : job[s] = j /\ pc[s] \in Listening

\* The limit is checked before the insert and not with it, so requests that
\* pass the check together overrun it, but by less than the requests the
\* server can be serving; jobs that the reclaim puts back and texts sent to the
\* multimodal endpoint come on top.
Fresh   == PendingJobs \ exempt
Passed  == {s \in Slots : pc[s] = "create"}

BoundedOverrun ==
    Cardinality(Fresh) + Cardinality(Passed) <= MaxPending - 1 + Cardinality(Slots)

\* A request whose job has been settled leaves the select without the help of
\* its deadline, unless the handler that settled it was told that it had not.
SettledWakes ==
    \A s \in Slots :
        (pc[s] = "select" /\ row[job[s]] \in Settled /\ report[job[s]] # "untold")
            ~> pc[s] # "select"

\* Where the contract sees a job, from the status of its row.
StateOf(status) ==
    CASE status = "pending"              -> "queued"
      [] status = "processing"           -> "running"
      [] status \in Settled              -> "settled"
      [] status \in {"absent", "purged"} -> status

Contract == INSTANCE JobContract
            WITH state <- [j \in Jobs |-> StateOf(row[j])],
                 outcome <- verdict,
                 told <- [j \in Jobs |-> <<>>]

\* The queue this module waits on does nothing that JobContract, which
\* JobQueue implements, does not allow.
UsesContract == Contract!Spec

-----------------------------------------------------------------------------
(***************************************************************************)
(* The inductive invariant behind the theorems of SyncWait_proofs.          *)
(***************************************************************************)
SlotInv ==
    \A s \in Slots :
        /\ pc[s] \in {"idle", "count", "create"} => job[s] = NoJob
        /\ pc[s] \in {"subscribe", "firstRead", "select", "finalRead"} => job[s] \in Jobs
        /\ pc[s] \in {"count", "create"} => text[s] \in Texts
        /\ job[s] \in Jobs => row[job[s]] # "absent"
        /\ answer[s] # "none" => pc[s] = "leave"
        /\ answer[s] \in Settled \cup {"notReady"} => job[s] \in Jobs
        /\ pc[s] = "finalRead" => verdict[job[s]] # "none"

FreshIds ==
    \A r, s \in Slots : job[r] \in Jobs /\ job[r] = job[s] => r = s

RowInv ==
    \A j \in Jobs :
        /\ row[j] # "absent" => jobText[j] \in Texts
        /\ row[j] \in Settled => verdict[j] = row[j]
        /\ row[j] \in {"absent", "pending", "processing"} => verdict[j] = "none"
        /\ report[j] # "none" => verdict[j] # "none"
        /\ report[j] = "cache" => verdict[j] = "completed"

\* A subscribed request has its channel in the map, or Notify holds it, or the
\* message is in it; the map still has it after the row is settled only if
\* Notify is still to come.
ChannelInv ==
    \A s \in Slots :
        /\ pc[s] \in {"firstRead", "select"} =>
              \/ job[s] \in waiters \cup token
              \/ report[job[s]] = "send"
        /\ pc[s] = "select" /\ row[job[s]] \in Settled /\ job[s] \in waiters =>
              report[job[s]] \in {"notify", "untold"}

CacheInv ==
    \A t \in cache : \E j \in Jobs : jobText[j] = t /\ verdict[j] = "completed"

\* Why the properties above hold, as one invariant that every step preserves.
Inductive ==
    /\ TypeOK
    /\ SlotInv
    /\ FreshIds
    /\ RowInv
    /\ ChannelInv
    /\ CacheInv
    /\ WakeupMeansSettled
    /\ TruthfulAnswer
    /\ NoLeakedWaiter
=============================================================================
