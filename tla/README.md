# Verification of embedding-server

TLA+ models of the embedding server, the TLC configurations that check them on
small instances and TLAPS proofs of their main properties.  Paths are relative
to the repository (`src/`).

## The system

An API server (Go, one process) accepts texts and images, keeps them as jobs in
PostgreSQL and S3, and hands them to workers (Python, on a resident machine or on
Modal), which compute embedding vectors and report them back over HTTP.

| Component | State it keeps | Operations | Talks to |
| --- | --- | --- | --- |
| job queue (`server/repository/gormrepo/embedding_job.go`) | tables `embedding_jobs`, `embedding_job_images` | create, claim (SELECT, UPDATE, SELECT), get, complete, fail, count, reclaim, list expired keys, delete expired rows | every component below, one statement at a time |
| job images (`service/job_file.go`) | objects in a bucket | store one by one, remove a list, with per-object failures | enqueue, reports, cleanup |
| worker API (`router/worker.go`) | nothing between requests | `ClaimWorkerJob`, `CompleteWorkerJob`, `FailWorkerJob` | queue, images, notifier, webhook, text cache |
| synchronous request (`service/embedding.go`, `service/notifier.go`) | one waiting goroutine each, the map of channels | `CreateEmbedding`, `waitEmbeddingResult`, `Subscribe`, `Notify` | text cache, queue, notifier |
| asynchronous request (`service/embedding.go`) | nothing | `CreateAsyncEmbedding`, `GetJobStatus` | images, queue, Modal trigger |
| text cache (`gormrepo/embedding_cache.go`) | table `embedding_caches` | get (and touch), set, prune to 3000 | synchronous request, complete report, cleanup |
| webhook (`service/webhook.go`) | nothing | one POST per settled job | the owner of the job |
| cleanup (`service/cleanup.go`) | its place in the round | every 6 h: list expired keys, remove images, delete rows; prune the cache | queue, images, cache |
| Modal trigger (`service/modal_trigger.go`) | `lastTrigger` | `MaybeTrigger` after an enqueue or a reclaim; the reclaim loop | queue, Modal |
| worker (`worker/`) | the jobs it has claimed | claim up to a batch, load images, OCR, embed, report | worker API, S3 |
| input (`service/embedding_request.go`) | nothing | validation of one request, part by part | requests |
| process (`main.go`, `config/config.go`) | configuration, the signal context, two background goroutines | load, connect, serve, shut down | everything in the server |
| access (`router/`, `config/config.go`, `worker/worker_auth.py`) | two keys | body limit, validator, check of the `Authorization` header; Modal's own check | requests, workers, Modal |
| webhook target (`service/webhook.go`, `service/webhook_transport.go`) | nothing | the check of a URL, the check of the address at the moment of connecting | enqueue, webhook |

What is hard here:

- **Interleaving.** Handlers, the reclaim loop and the cleanup share the rows
  and change them one statement at a time, without transactions around a handler
  and without tokens that tie a report to a claim.
- **Order.** Images before rows on the way in, images before rows on the way out;
  subscription before the first read; row before notification before webhook
  before cache before image removal.
- **Failure.** A report may time out and be followed by its opposite, a deletion
  may succeed in part, a handler's context may be cancelled, the server may die
  between any two statements and loses the notifier and the requests.
- **Time.** Stale claims are handed out again, old rows are deleted whatever state
  they are in, waits have deadlines.

## What makes each component correct

- Queue: a queued job goes to one claim at a time; the first report settles it and
  no later one, nor the reclaim, changes it; no job stays claimed by nobody; a
  claim answered "no job" found none.
- Images: a job still to be processed has its images; no image outlives its job.
- Webhook and cache: they carry the outcome of the row, at most once.
- Synchronous request: no lost and no early wakeup, the right answer, no leaked
  channel, a bounded overrun of the pending limit.
- Cleanup: rows go only after their images and in the end they all go.
- Worker: it forgets no job it was given, and what it was told is completed is; a
  Modal run stays within its limit and ends; the queue drains.
- Modal trigger: turns are `MinInterval` apart; a batch of images that nobody is at
  work on is not overlooked, also after a run died with some of them.
- Text cache: a prune, in three statements, neither takes the table under its limit
  nor lets it drift away from it, and evicts the least recently used.
- Input: what the validator (of the form) and the server (part by part) accept
  together is what `openapi.yaml` declares.
- Access: each key opens its own side, for all of its holders and nobody else.
- Answers: a 500 is a fault behind the server, or a text or URL PostgreSQL cannot
  store, and then there is no row; 202 has everything, 4xx nothing.
- Webhook target: only public addresses are connected to.
- Process: a signal ends it, after its goroutines.

## Modules

| Module | What it is |
| --- | --- |
| `JobContract` | what the queue promises: absent, queued, running, settled, purged; one outcome; the owner told at most once |
| `JobContract_proofs` | what follows from the contract alone, inherited by the modules that implement it |
| `JobQueue` | the tables, the bucket, the worker API handlers, the reclaim and the cleanup, statement by statement |
| `JobQueue_proofs` | its theorems |
| `MCJobQueue` | instances for TLC |
| `SyncWait` | the synchronous text request, the notifier, the text cache as requests see it, and the part of a report that a waiter races with |
| `SyncWait_proofs` | its theorems |
| `MCSyncWait` | instances for TLC |
| `WorkerRun` | the resident worker and the Modal runs: claims, preparation, embedding and reports over calls that fail at the worker while the server serves them |
| `MCWorkerRun` | instances for TLC |
| `ModalTrigger` | `MaybeTrigger` with its goroutine, mutex and POST, the reclaim loop, and the runs that come of it |
| `ModalTrigger_proofs` | its theorems |
| `MCModalTrigger` | instances for TLC |
| `WorkerRun_proofs` | the theorems of `WorkerRun` |
| `TextCache` | the `embedding_caches` table: touch, store, and the goroutine that prunes it |
| `TextCache_proofs`, `MCTextCache` | its theorems; instances for TLC |
| `Access` | keys and mode as `Load` accepts them, the check of a header, the workers' and Modal's reading of the key |
| `EmbeddingInput` | `ReadEmbeddingInput` part by part, and the form as `openapi.yaml` declares it |
| `EmbeddingInput_proofs` | what relates the two, for any forms and limits |
| `WebhookTarget` | the checks of a URL and of an address |
| `ApiServer` | the process from `Load` to its exit and one request through it, composed of the three above |
| `ApiServer_proofs`, `MCApiServer` | its theorems; instances for TLC |

The detailed modules about the queue meet in `JobContract`.  `JobQueue` implements it
(`ImplementsContract`); the queue that `SyncWait` has as its environment is no
freer than it (`UsesContract`), and so is the one `WorkerRun` works against.  What the
contract alone implies (`JobContract_proofs`) therefore holds in all three.
`ModalTrigger` has the queue of images only, and of a worker's run only how it
starts, claims and ends; how it may end early is the matter of `WorkerRun`.  What a report does is split between them: the
row, the webhook, the cache entry and the images in `JobQueue`; the row, `Notify`
and the cache entry in `SyncWait`.

Operators whose comment starts with "Mutant of" are changed copies of the action
below them.  No specification uses them: they are the plausible mistakes each
property was tried against.

### JobQueue

One action is one SQL statement, S3 call or POST.  A handler is a value of `pc`:

| `pc[h]` | Code |
| --- | --- |
| `idle` | no request; `ClaimSelect` and `GetJob` start one |
| `claimUpdate`, `claimKeys` | `ClaimJob` after its SELECT; after its UPDATE |
| `noJob` | `ErrNoJob`, on its way to the 204 |
| `loadKeys` | `GetJob` between the SELECT of the row and the one of the keys |
| `finish` | before `CompleteJob` or `FailJob` |
| `webhook`, `cache`, `remove` | after it: `NotifyWebhook...`, `SetTextCache`, `RemoveJobImages` |

`op` is what the request is ("claim", or the outcome it reports), `keys` the image
keys it has read.  `status` has the four values of the column and `new`,
`uploading`, `gone` for ids without a row.  `cleaner` is the cleanup goroutine.
`verdict` and `grants` are history variables: the outcome recorded, and the claims
granted since the job was last queued.

Abstractions:

- *Workers* are not represented: the server checks neither who reports nor whether
  that worker still holds the job, so a report on any job with either outcome may
  arrive at any time.  This contains every worker, however late or repeated its
  calls.
- *Time.* `stale`, `expired` and `keysExpired` are the rows older than the cutoff
  of the reclaim and of the cleanup, job rows and image rows apart because two
  statements look at them with two `now`s.  Rows expire in the order of
  `arrival`; image rows after their job row, since they are inserted after it.
- *`arrival`* is the rank of `created_at`; rows inserted concurrently within a
  millisecond, whose commit order may differ from it, are taken in commit order.
- *Failure.* A statement that returns an error is one that changed nothing
  (`HandlerError`, `AbandonUpload`, and the statements of the background
  goroutines, whose failure is no step), or one that committed and whose answer was
  lost: `FinishJobUnacked` leaves a settled job without webhook, cache entry or image
  removal, `CreateJobUnacked` a job whose images the client's error removes.  For the
  other statements the two cases lead to the same states.  S3 deletions may do any
  part of their list and still fail.
- *Crash* is a kill or a shutdown whose grace period ran out.  There is one server
  process, as `deploy/` and `compose.yaml` run it.
- The Modal trigger is in `ModalTrigger`: it changes no row.

### SyncWait

A slot is one request.  `pc`: `count`, `create`, `subscribe` are the steps of
`CreateEmbedding` after the cache lookup; `firstRead`, `select`, `finalRead` those
of `waitEmbeddingResult`; `leave` is a return, with its deferred unsubscribe,
carrying `answer`.  A job's channel is in the map when the job is in `waiters`, and
holds its message when it is in `token`.  `report` is what the handler that
settled the job does next: take the channel out of the map, send, set the cache.

Abstractions: uuids are fresh, so a channel is identified with its job.
`FirstRead` and the entry into the select are one step, which the buffer of the
channel allows: a message sent between them waits.  A report whose commit is not
acknowledged (`SettleUnacked`) leaves the row settled and nobody told (`untold`).  A
cached value always parses, since only `CompleteWorkerJob` writes it.  The cleanup may
delete a row at any time: nothing in the code relates `waitTimeout` to `jobTTL`.  The
lookup, the limit and the enqueue are for texts, the only input `PostEmbeddingsText`
accepts.

### WorkerRun

`call[l]` is an HTTP call and how far the server is with it; a line `l` is a
worker's own or a hung one, whose caller has given up.  `pc[w]` follows the code:
`claim` is `claim_jobs`, `prepare`, `embed`, `complete` and `fail` are the loops of
`run_jobs`, `off` a Modal container without a run.  `batch` is what was claimed and
not yet prepared, `ready` what was prepared and not yet reported.  `received`,
`reported`, `acked` and `waiting` are history.

Abstractions: a claim takes any candidate of the preferred kind, as nothing here
depends on age; the reclaim takes rows one by one; there is no cleanup and no other
client.  Preparing and embedding either succeed or raise; which of images, OCR,
payload or model raised is not told apart, as the code does the same for each.  A
model that cannot be loaded ends the run like `Die`.  Waits between polls are left
out.

### ModalTrigger

A slot is one call of `MaybeTrigger` and the goroutine it starts: `countProcessing`
and `countPending` are its SELECTs, `check` and `set` the two halves of the section
under `t.mu`, `post` the request.  `loop` is the call the reclaim loop is in; the
loop does not wait for the goroutine.  `since` is the age of `lastTrigger` in ticks,
no further than `MinInterval`; after a restart it is old again.  `run` is Modal's one
container (`MODAL_MAX_CONTAINERS=1`, the default), `starts` the accepted requests
that wait for it, told apart up to `MaxStarts`.  `excused` is a history variable:
since the last enqueue or reclaim began its call, a start was given up because a
count or the POST failed, the interval had not passed, a run ended early with
nothing in processing, or the server restarted.

A reclaim that returned text rows only calls `MaybeTrigger` as well, so `ReclaimOnce`
may take no image at all.
A claim is one step, as nobody else claims images while one container runs.  A
reclaim takes any of the processing jobs, but none that a run has claimed within the
batch it is still claiming: a batch is claimed in less time than `ReclaimTTL`.

### TextCache

An entry is its text and its `last_accessed_at`; `request[h]` is the statement a
handler is about to send with the time it was stamped with, so that statements may
reach the table in another order than their stamps.  `cleaner` is the goroutine of
`CleanupService`: `count`, `choose` (the subquery of the DELETE, which reads its
snapshot) and `delete` (its rows go even if they were touched or stored again since).
`added`, `addedSince` and `pruned` are history: what the bound of the table is
measured against.  The clock stops at `MaxClock`: later times are not told apart.
What an entry holds is left out, since one statement writes it.

### ApiServer, Access, EmbeddingInput, WebhookTarget

`phase` is where `main.run` is, `loops` the two goroutines it waits for, each in a
round (`work`) or in its `select`.  `stage` is what happens next to the one request
that is followed: requests act on each other only through what the other modules
model.  `parts` is the form that was posted and `read` how many of its parts
`ReadEmbeddingInput` has read; `fault` is history.

A part is its field, its content as the code sees it, its characters and bytes, and
whether the body ends in the middle of it.  Characters and bytes are two numbers since
`openapi.yaml` limits the ones and the code the others: a text to 8192 characters there
and to 32768 bytes (`maxTextUploadBytes`) here.  The limits are CONSTANTS.  `Conforms` is
the schema of the form: its fields, the required ones, `maxItems`, `minLength` and
`maxLength`; `Valid` adds what the table of limits in `docs/wiki/README.md` says beyond it
(image types, blank texts, bytes of an image and of a URL); `Declared` is what the form
says.

The validator is external (`OapiRequestValidator`); the tests in
`server/router/embeddings_test.go` show it refusing forms with the schema's
own messages.  In the model it refuses whatever else it likes (an unreadable body, one
that ends at the body limit: 400, or 413 from `LimitBody`), and lets a form through that
conforms as far as it looks.  How far that is can be told for images, which are an array:
all of them.  A `text` or `webhook_url` given twice is not in `openapi.yaml`, which
declares single strings, and nothing in the repository says which one the validator
takes; so `Examined` lets it look at any of them, at least one.  `ReadEmbeddingInput`
keeps the last one, bounded by its own limits only.  Its last check, that there is an
input at all (`Complete`), never fails behind the validator.  That is why `InputAsDeclared`
speaks of the accepted input, apart from the number of images, for forms that give no
string twice: for the others a text of more than 8192 characters may get in.

Abstractions: a value of the environment is its fields between white space and whether
white space surrounds it, which is all that `TrimSpace` and `Fields` tell apart.  An
address is its form and the network it lies in; which networks the code blocks is in
`WebhookTarget`, which addresses lie in them is `net/netip`'s.  DNS may answer with any
address at any time.  PostgreSQL stores no text with a NUL, and neither a text nor a URL
that is not UTF-8 (`model.go:40`); `url.Parse` takes bytes from 0x80 on, and nobody looks
at the text, so such a request ends in a 500 (`Storable`), without a row.
`MultipartReader` fails only where the `Content-Type` has no boundary; the validator has
just taken the form apart with that boundary, so `Bind` has no such error.  The 405 and
415 of echo and of the validator for a method or a type that no operation has are left
out: no handler is reached.  A second signal, after `stop()`, kills the process like any
other kill (`Restart`).

## Runs

| Run | Instance | Shows |
| --- | --- | --- |
| `one` | 1 image job, 2 images, 2 requests, every filter | `EffectsFollowVerdict`, `ImagesAvailable`, `ListedImagesGone`, refinement of `JobContract` (`ImplementsContract`); `NeverStuckProcessing` and `RowsPurged` |
| `two` | 2 text jobs, 2 requests | `OneGrant` across jobs: a race for the first row, a late report on the other job, a reclaim and a purge of both |
| `orphan` | 1 image job, 2 images | a violation: see Findings |
| `wait` | 2 slots, 2 jobs, limit 1 | `NoLostWakeup`, `WakeupMeansSettled`, `TruthfulAnswer`, `NoLeakedWaiter`, `BoundedOverrun`, `SettledWakes`, refinement of `JobContract` |
| `cache` | 3 texts, 2 requests, a limit of 1 entry, 2 times | `KeepsLimit`, `BoundedSize`, `VictimsAreLeastRecent`, `ShrinksBack` |
| `calls` | 1 text, both workers, 1 hung call | `AckedIsCompleted`, `TextsFinish`, `RunsEnd`, refinement of `JobContract` by the server's steps |
| `batch` | 3 images, a Modal run that claims 2 at a time with a limit of 2 and of time, 1 hung call | `NothingForgotten`, `HoldsWithinLimit` |
| `drain` | 1 text, 1 image, both workers | a violation: see Findings |
| `limit` | 2 images, a Modal run with a limit of 1 | a violation: see Findings |
| `trigger` | 3 images, a batch of 2, 2 calls, an interval of 1 tick | `NoneOverlooked`, `TurnsAreSpaced`, `BatchesStart` |
| `server` | 6 environments, 3 callers, forms of up to 3 parts with limits of 2, 4 URLs, 10 addresses | `SidesApart`, `KeysOpen`, `InputAsDeclared`, `ServerErrorsExplained`, `AnswerTellsEffects`, `DeliveredToPublic`, `GoroutinesEnd`, `Exits` |
| `double` | as `trigger` | a violation: see Findings |

Every module with state has its type invariant in one of its runs, except
`ModalTrigger`, where the theorem `TypeCorrect` stands for it.

Why these bounds are enough to be of use.  The conflicts are between two requests on
one job, or between two jobs in one statement, so two of each reach them; a job may
be claimed, reclaimed and reported any number of times within the instance, nothing
bounds it but the finite state.  Two images are the least with a partial upload and
a partial deletion.  Two jobs and a limit of one let two requests pass the check
together, which is the overrun.  Three texts against a limit of one let a prune have a
choice of victims while a touch or a store changes their order, and let two entries
come behind the count.  The environments of `server` have a key with white space
around it, inside it, missing, and equal to the other key; the addresses
have every form and each kind of rule of `publicWebhookIP`.  The forms of `server` have
every part alone and before and after a good one of each field: a repeated field, a bad
part after good ones, an order of images, characters and bytes at each limit, above both
and above only one of them; a third part gives one image more than the limit, or all
three fields together.  Three images in `batch` make a batch of two with one left over:
a claim that fails after the first, one exception for two jobs, and a limit of two of
which the next batch has one, none or both left.  One hung call is enough
for a report to race with its opposite, and for a claim that nobody learns of.  Three images with a batch of two leave one image over
when a run claims one, so that counts on either side of the threshold and a
processing job occur together.

Jobs of one kind are interchangeable; `two` and `batch`, which check safety only, use
that symmetry.  Text and image jobs in one queue are in `drain` and in the theorems,
which hold for every instance.

No run switches the deadlock check off: the clock, a crash, a lookup
or a poll is always possible.

## Fairness

- `ReclaimFairness`: the clock moves (weak fairness of `BecomeStale`) and the reclaim
  loop's ticker keeps firing (weak fairness of `Reclaim`).  It is started
  unconditionally (`main.go:92`), and `ReclaimTTL` is taken to be positive.
  Nothing is assumed of workers, handlers or the cleanup.
- `CleanupFairness`: the clock moves, and the steps of the cleanup are strongly fair:
  crashes and partial failures may interrupt a round any number of times, but a
  step that is reached again and again succeeds in the end.  With weak fairness
  only, a bucket that always refuses one object blocks the purge for ever, by
  design.

  These two, `PruneFairness` and `ApiServer!Fairness` are premises of the properties
  that need them, so that one run of a plain `Spec` checks both safety and liveness.
- `PruneFairness`: as for the cleanup of jobs.  Go's `select` between two tickers is
  random, hence strong fairness of `StartPrune`.
- `ApiServer!Fairness`: `run` and its goroutines are scheduled, statements return when
  their context is done, echo's `Start` returns when its context is done
  (`WF(StopServing /\ done)`), and a `select` in which the done context is always ready
  takes that case in the end (`SF(ContextDone)`), although the ticker may fire first.
- `SyncWait!FairSpec`: the goroutine of a request that has its job and the handler
  that reports keep running.  Nothing is assumed of the deadline, the client,
  the workers or the database's answer.
- `WorkerRun!FairSpec`: the workers keep running, the server answers the calls they
  wait for, and the reclaim finds what nobody holds; calls that fail, processes that
  die and reclaims of jobs that are still worked on happen any number of times but
  come to an end.  Nothing is assumed of who starts Modal, nor of hung calls.
- `ModalTrigger!FairSpec`: goroutines, runs and the reclaim loop keep going; runs that
  stop early and jobs that take longer than `ReclaimTTL` come to an end.  The step that
  reclaims an orphan is strongly fair: one statement takes all rows that are old
  enough, so once the orphan is old the next round takes it, although the rounds in
  between, which found text rows only, were calls of `MaybeTrigger` too.  Without the
  end of slow jobs, a run that dies again and again with one job keeps the batch waiting.

`SettledWakes` speaks of rows that are still settled and of reports that were
acknowledged: if the row is purged, the handler was told that it failed, or the server
dies, the request leaves by its deadline or with the process.

## Proofs

For any finite or infinite sets of jobs, handlers and filters and any number of
images (`JobQueueAssumption`), `JobQueue_proofs` proves:

- `InductiveInvariant`: `Spec => []Inductive`.  None of the safety properties is
  inductive alone.  `RowInv` ties grants to the status, which makes the UPDATE of a
  second claimer fail; `VerdictInv` and `OneReporter` say that only the report that
  settled a job is past `FinishJob`, and that it has not posted before it reaches
  the webhook, which gives `EffectsFollowVerdict`; `RequestInv` bounds the keys a
  report holds to its own job's and `VerdictInv` shows that job to be settled when
  it removes them; `DoomedInv` says that what the cleanup has listed is expired or
  deleted, which together give `ImagesAvailable`.
- From it: `TypeCorrect`, `ClaimsAreExclusive`, `EffectsAreTruthful`,
  `ImagesStayAvailable`, `CleanupFailsSafe`, the action property `SettledIsFinal`,
  and `QueueImplementsContract`, the refinement: each action maps to one step of
  `JobContract` or to a stutter.

`SyncWait_proofs`, for any finite sets of slots and jobs, any set of texts and any
limit (`SyncWaitAssumption`), proves `InductiveInvariant`, `TypeCorrect`, `WakeupsAreNotLost`,
`WakeupsAreNotEarly`, `AnswersAreTruthful`, `WaitersDoNotLeak`, `OverrunIsBounded`
and `QueueKeepsContract`.  The heart of it is `ChannelInv`: from `Subscribe` on, the
channel of a request is in the map, or in the hands of `Notify`, or holds the
message; it is in the map of a settled job only while `Notify` is still to come.
`OverrunIsBounded` needs an invariant of its own: the fresh pending jobs and the
requests between check and insert together never exceed the limit by more than the
other requests.

`ModalTrigger_proofs`, for any finite set of images, any set of calls, any threshold,
interval and `MaxStarts` (`ModalTriggerAssumption`), proves `InductiveInvariant`,
`TypeCorrect`, `TurnsKeepTheInterval` and `ImagesAreNotOverlooked`.  `NoneOverlooked`
is inductive beside the types: pending jobs only grow where a call begins, and a call
or a run that ends leaves either fewer than a batch, a successor, or an excuse.
`TurnsAreSpaced` needs `LockInv`: from the check to the assignment the goroutine
holds the mutex and `lastTrigger` stays as old as it was found.

`WorkerRun_proofs`, for any jobs, workers, batch sizes, limit and hung calls
(`WorkerRunAssumption`), proves `InductiveInvariant`, `TypeCorrect`,
`NothingIsForgotten`, `AcksAreFinal` and `RunsKeepTheLimit`.  `PlaceInv` says what a
worker can have in its hands where it is, `CallInv` what its call waits for: a
complete on its way is about the head of `ready`, and one that was answered found its
row completed; `LineInv` adds that what was chosen for a claim and what a call reports
are jobs there are.  A step is then the worker's own (one lemma per part of the code), the
server's, which a worker sees in its call only, or another's, which it does not see.

`TextCache_proofs`, for any finite set of texts, any requests and any limit
(`TextCacheAssumption`), proves `InductiveInvariant`, `TypeCorrect`, `LimitIsKept`,
`SizeIsBounded` and `VictimsAreOld`.  `Counted` carries the count to the delete: since
only the goroutine itself removes entries, the table without the victims still holds
the limit, and exceeds it by at most what was added behind the count.

`WorkerRun_proofs` and `SyncWait_proofs` also prove the refinement of `JobContract`
(`ServerKeepsContract`, `QueueKeepsContract`).

`JobContract_proofs`, for any set of jobs, proves `PromiseIsKept` (an open job has no
outcome, the owner hears nothing but the outcome and hears it once) and
`OutcomesAreFinal` (no step takes an outcome or an answer back, works on a settled job
or brings a purged one back).  The three modules inherit both through their refinement
mappings: `QueueKeepsPromises` of rows and webhooks and of what a request waits for,
`FirstReportDecides` of the rows under any number of calls that outlive their workers.

`EmbeddingInput_proofs`, for any limits (`EmbeddingInputAssumption`) and any forms that
give no string twice (`StringsOnce`), proves the two facts that relate the validator and
the loop of `ReadEmbeddingInput` to what is declared.  `TakeIsDeclared`: the declaration
of one more part is `Take` of the declaration of the parts before it, so the loop
computes the declaration.  `AcceptedIsValid`: a form is `Valid` exactly when it conforms
at the positions the validator examines, whichever those are, no part is refused and the
input is complete at the end.  One half of it is that the code's limit in bytes refuses
no text that `openapi.yaml` allows in characters (`ValidParts`, from at most four bytes
per character); the other that the characters of each part, the number of images and the
fields come from the validator alone, the types, the blank text and the bytes from the
code alone.  No induction over the parts is needed: the loop is `ReadPart`, one step per
part, and the induction is that of the specification.  `Contents` picks the nth part of a
field by its rank among the `Positions` of that field, which the provers can reason about
from the definition; what they need is that every rank below the number of positions has one
position (`NthExists`) and that one more part leaves the ranks before it as they are
(`NthOfMore`, `ContentsOfAppend`).

`ApiServer_proofs`, for any environments, forms, limits and addresses
(`ApiServerAssumption`: values are fields, forms are sequences of parts with no more
characters than bytes and at most four bytes each, an IPv4 address lies in one of the
networks of IPv4), proves `InductiveInvariant`, `TypeCorrect`, `SidesAreApart`,
`KeysAreEnough`, `ServerErrorsAreExplained`, `WebhooksReachPublic`,
`GoroutinesHaveEnded`, `InputsAreDeclared` and `AnswersTellEffects`.  The two about keys
rest on what `Load` guarantees: two trimmed keys that differ, of which a header of two
fields can spell at most one.  `InputInv` carries the input from part to part: while
parts are read, the form conforms as far as the validator looked, none of the parts read
was refused, the images are those of the parts read, and the input is `Declared` of them
where no string was given twice.  `EffectInv` says
that until the answer the bucket has none of the images, or all of them just before the
rows are inserted, and that rows come last.

Every safety property of a passing run is a theorem.  Only model-checked:
`NeverStuckProcessing`, `RowsPurged`, `SettledWakes`, `TextsFinish`, `RunsEnd`,
`BatchesStart`, `ShrinksBack` and `Exits` (liveness under fairness is out of the prover's
reach), and the violations.

## Findings

- `orphan`: `docs/wiki/development.md:182` leaves images whose deletion failed to
  the periodic cleanup.  The cleanup lists keys with one cutoff and deletes rows with
  a later one (`cleanup.go:70`, `cleanup.go:59`); a job that expires in between loses
  its rows while its images stay, and no later round can find them.
- `drain`: `deploy/modal/README.md:69` says that a Modal worker ends when the queue is
  empty, and `ErrNoJob` is documented as "no further job to process"
  (`server/repository/embedding_job.go:16`).  A claim that lost the race for the
  first job returns it although other jobs are pending (`embedding_job.go:118` of
  `gormrepo`), and the Modal run ends (`worker/modal_app.py:242`).  Texts are
  preferred, so a text that both workers want is enough to leave the images behind.
- `limit`: `MODAL_MAX_JOBS_PER_RUN` is documented as the most jobs one run processes
  (`deploy/modal/README.md:79`); the code counts completed jobs only
  (`worker/modal_app.py:221`), so a run whose jobs fail goes on.
- `double`: `deploy/modal/README.md:94` says that Modal is not started again while
  there are image jobs in processing.  The count is taken before the count of pending
  jobs, the interval and the POST (`modal_trigger.go:61`, `:96`), and a run may claim
  in between.  Modal's own limit of one container keeps the two runs apart.

## Not modelled

The embedding and OCR engines (numerical code of one process), the Modal benchmark (a
measuring tool), the types of the generated API code and its embedded specification
(no behaviour), settings that are only read (ports, limits, time spans), CORS, logging
and response formatting.

Two hazards have no property.  A process that dies between the upload of the images
and the insert of the row leaves objects without rows (`embedding.go:165`): no document
claims otherwise, and the cleanup cannot find them.  `lastTrigger` is set before the POST
to Modal, which may fail (`modal_trigger.go:87`): `docs/wiki/development.md:119` accepts
it, and `NoneOverlooked` and `BatchesStart` count it as an excuse.

Not composed: `JobQueue` and `SyncWait` are not in one module.  The two halves of a
report are checked apart and meet in `JobContract`, which both refine.
