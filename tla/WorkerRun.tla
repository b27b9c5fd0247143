----------------------------- MODULE WorkerRun -----------------------------
(***************************************************************************)
(* The workers: the resident one, which polls for texts, and the Modal runs, *)
(* which drain the queue and end.  Both claim a batch job by job, prepare     *)
(* each (images, OCR), embed the prepared ones together and report them one  *)
(* by one, over HTTP calls that may fail at the worker while the server is    *)
(* still serving them.                                                     *)
(*                                                                         *)
(* The server is the environment: a claim is its SELECT and its UPDATE, a     *)
(* report its UPDATE, the reclaim one row at a time.  Among the candidates    *)
(* of the preferred kind a claim takes any: nothing here depends on their    *)
(* age.  There is no cleanup.                                               *)
(***************************************************************************)
EXTENDS Naturals, Sequences, FiniteSets, Functions

CONSTANTS TextJobs, ImageJobs, NoJob,
          Resident,     \* resident workers (worker/main.py)
          Modal,        \* Modal containers (worker/modal_app.py)
          Hung,         \* calls the server may serve after the worker gave up
          BatchSize,    \* embedding_batch_size of each worker
          MaxJobs,      \* MODAL_MAX_JOBS_PER_RUN (0: until the queue is empty)
          TimeLimited   \* whether MODAL_WORKER_RUN_SECONDS > 0

Jobs    == TextJobs \cup ImageJobs
Workers == Resident \cup Modal
Lines   == Workers \cup Hung

ASSUME WorkerRunAssumption ==
    /\ TextJobs \cap ImageJobs = {}
    /\ NoJob \notin Jobs
    /\ Resident \cap Modal = {} /\ Workers \cap Hung = {}
    /\ BatchSize \in [Workers -> Nat \ {0}]
    /\ MaxJobs \in Nat
    /\ TimeLimited \in BOOLEAN

VARIABLES
    row,        \* status of each job; "absent": not inserted yet
    call,       \* the call on each line: a worker's own, or a hung one
    pc,         \* where each worker is
    batch,      \* claimed jobs it has yet to prepare
    ready,      \* prepared jobs it has yet to report
    completed,  \* jobs it has completed in this run
    \* history
    received,   \* jobs it was given in this run
    reported,   \* those it has called the server about since
    acked,      \* jobs whose complete was answered 204
    waiting     \* jobs that have been pending since its current claim was sent

workerVars  == <<pc, batch, ready, completed>>
historyVars == <<received, reported, acked, waiting>>
vars == <<row, call, workerVars, historyVars>>

Settled == {"completed", "failed"}

\* A call: what it asks, and how far the server is with it.
NoCall      == [op |-> "none", kinds |-> {}, job |-> NoJob, phase |-> "none"]
Claim(w)    == [op |-> "claim", kinds |-> IF w \in Resident THEN {"text"} ELSE {},
                job |-> NoJob, phase |-> "sent"]
Report(o, j) == [op |-> o, kinds |-> {}, job |-> j, phase |-> "sent"]

Calls == [op : {"none", "claim"} \cup Settled, kinds : {{}, {"text"}}, job : Jobs \cup {NoJob},
          phase : {"none", "sent", "chosen", "answered", "notFound"}]

TypeOK ==
    /\ row \in [Jobs -> Settled \cup {"absent", "pending", "processing"}]
    /\ call \in [Lines -> Calls]
    /\ pc \in [Workers -> {"off", "claim", "prepare", "embed", "complete", "fail"}]
    /\ batch \in [Workers -> Seq(Jobs)] /\ ready \in [Workers -> Seq(Jobs)]
    /\ completed \in [Workers -> Nat]
    /\ received \in [Workers -> SUBSET Jobs] /\ reported \in [Workers -> SUBSET Jobs]
    /\ acked \subseteq Jobs
    /\ waiting \in [Workers -> SUBSET Jobs]

Init ==
    /\ row = [j \in Jobs |-> "absent"]
    /\ call = [l \in Lines |-> NoCall]
    /\ pc = [w \in Workers |-> IF w \in Resident THEN "claim" ELSE "off"]
    /\ batch = [w \in Workers |-> <<>>] /\ ready = [w \in Workers |-> <<>>]
    /\ completed = [w \in Workers |-> 0]
    /\ received = [w \in Workers |-> {}] /\ reported = [w \in Workers |-> {}]
    /\ acked = {}
    /\ waiting = [w \in Workers |-> {}]

Idle(w) == call[w] = NoCall
Goto(w, where) == pc' = [pc EXCEPT ![w] = where]

-----------------------------------------------------------------------------
(***************************************************************************)
(* The server.                                                             *)
(***************************************************************************)
Pending == {j \in Jobs : row[j] = "pending"}

\* enqueueJob
Submit(j) ==
    /\ row[j] = "absent"
    /\ row' = [row EXCEPT ![j] = "pending"]
    /\ UNCHANGED <<call, workerVars, historyVars>>

\* The server is done with the call; nobody reads the answer on a hung line.
Put(l, c) == call' = [call EXCEPT ![l] = IF l \in Hung /\ c.phase # "chosen" THEN NoCall ELSE c]

\* The SELECT of ClaimJob: text first when both kinds are asked for.
Candidates(kinds) ==
    IF kinds = {"text"} \/ Pending \cap TextJobs # {} THEN Pending \cap TextJobs ELSE Pending

Choose(l) ==
    /\ call[l].op = "claim" /\ call[l].phase = "sent"
    /\ \/ /\ Candidates(call[l].kinds) = {}
          /\ Put(l, [call[l] EXCEPT !.phase = "answered"])
       \/ \E j \in Candidates(call[l].kinds) :
             Put(l, [call[l] EXCEPT !.phase = "chosen", !.job = j])
    /\ UNCHANGED <<row, workerVars, historyVars>>

\* Its UPDATE, which affects no row when the job is no longer pending.
Take(l) ==
    /\ call[l].phase = "chosen"
    /\ \/ /\ row[call[l].job] = "pending"
          /\ row' = [row EXCEPT ![call[l].job] = "processing"]
          /\ waiting' = [w \in Workers |-> waiting[w] \ {call[l].job}]
          /\ Put(l, [call[l] EXCEPT !.phase = "answered"])
       \/ /\ row[call[l].job] # "pending"
          /\ Put(l, [call[l] EXCEPT !.phase = "answered", !.job = NoJob])
          /\ UNCHANGED <<row, waiting>>
    /\ UNCHANGED <<workerVars, received, reported, acked>>

\* Mutant of Settle: a report settles the row whatever its status.
SettleAny(l) ==
    /\ call[l].op \in Settled /\ call[l].phase = "sent"
    /\ row' = [row EXCEPT ![call[l].job] = call[l].op]
    /\ Put(l, [call[l] EXCEPT !.phase = "answered"])
    /\ UNCHANGED <<workerVars, historyVars>>

\* CompleteWorkerJob, FailWorkerJob.
Settle(l) ==
    /\ call[l].op \in Settled /\ call[l].phase = "sent"
    /\ \/ /\ row[call[l].job] = "processing"
          /\ row' = [row EXCEPT ![call[l].job] = call[l].op]
          /\ Put(l, [call[l] EXCEPT !.phase = "answered"])
       \/ /\ row[call[l].job] # "processing"
          /\ Put(l, [call[l] EXCEPT !.phase = "notFound"])
          /\ UNCHANGED row
    /\ UNCHANGED <<workerVars, historyVars>>

\* A worker is at work on the job, or about to learn that it has it.
Held(j) ==
    \E w \in Workers : j \in Range(batch[w]) \cup Range(ready[w]) \cup {call[w].job}

Reclaim(j) ==
    /\ row[j] = "processing"
    /\ row' = [row EXCEPT ![j] = "pending"]
    /\ UNCHANGED <<call, workerVars, historyVars>>

-----------------------------------------------------------------------------
(***************************************************************************)
(* claim_jobs                                                              *)
(***************************************************************************)

\* run_batch: process_queue is spawned; one container runs one at a time.
Start(w) ==
    /\ w \in Modal /\ pc[w] = "off"
    /\ Goto(w, "claim")
    /\ completed' = [completed EXCEPT ![w] = 0]
    /\ received' = [received EXCEPT ![w] = {}]
    /\ reported' = [reported EXCEPT ![w] = {}]
    /\ UNCHANGED <<row, call, batch, ready, acked, waiting>>

Limited(w) == w \in Modal /\ MaxJobs > 0

\* Mutant of ClaimN: always a whole batch.
WholeBatch(w) == IF Limited(w) /\ completed[w] >= MaxJobs THEN 0 ELSE BatchSize[w]

\* claim_n: a batch, or what the limit leaves.
ClaimN(w) ==
    IF Limited(w) /\ MaxJobs - completed[w] < BatchSize[w]
    THEN MaxJobs - completed[w] ELSE BatchSize[w]

\* The loop of a Modal run ends before a batch: the limit, or the time.
EndRun(w) ==
    /\ w \in Modal /\ pc[w] = "claim" /\ batch[w] = <<>> /\ Idle(w)
    /\ ClaimN(w) = 0 \/ TimeLimited
    /\ Goto(w, "off")
    /\ UNCHANGED <<row, call, batch, ready, completed, historyVars>>

SendClaim(w) ==
    /\ pc[w] = "claim" /\ Idle(w)
    /\ ClaimN(w) > 0
    /\ call' = [call EXCEPT ![w] = Claim(w)]
    /\ waiting' = [waiting EXCEPT ![w] = Pending]
    /\ UNCHANGED <<row, workerVars, received, reported, acked>>

\* Mutant of StopClaiming: a Modal run polls like the resident worker.
KeepPolling(w) ==
    /\ Goto(w, IF batch[w] # <<>> THEN "prepare" ELSE "claim")
    /\ waiting' = [waiting EXCEPT ![w] = {}]
    /\ UNCHANGED <<row, batch, ready, completed, received, reported, acked>>

\* No job, or no answer: go on with what there is.  With nothing a Modal run
\* ends and the resident worker claims again later.
StopClaiming(w) ==
    /\ Goto(w, IF batch[w] # <<>> THEN "prepare" ELSE IF w \in Modal THEN "off" ELSE "claim")
    /\ waiting' = [waiting EXCEPT ![w] = {}]
    /\ UNCHANGED <<row, batch, ready, completed, received, reported, acked>>

NoMoreJobs(w) ==
    /\ call[w].op = "claim" /\ call[w].phase = "answered" /\ call[w].job = NoJob
    /\ call' = [call EXCEPT ![w] = NoCall]
    /\ StopClaiming(w)

\* Mutant of GotJob: an answer without a job is taken for a job.
GotAnswer(w) ==
    /\ call[w].op = "claim" /\ call[w].phase = "answered"
    /\ batch' = [batch EXCEPT ![w] = Append(@, call[w].job)]
    /\ Goto(w, IF Len(batch[w]) + 1 < ClaimN(w) THEN "claim" ELSE "prepare")
    /\ call' = [call EXCEPT ![w] = NoCall]
    /\ received' = [received EXCEPT ![w] = @ \cup {call[w].job}]
    /\ reported' = [reported EXCEPT ![w] = @ \ {call[w].job}]
    /\ waiting' = [waiting EXCEPT ![w] = {}]
    /\ UNCHANGED <<row, ready, completed, acked>>

GotJob(w) ==
    /\ call[w].op = "claim" /\ call[w].phase = "answered" /\ call[w].job # NoJob
    /\ batch' = [batch EXCEPT ![w] = Append(@, call[w].job)]
    /\ Goto(w, IF Len(batch[w]) + 1 < ClaimN(w) THEN "claim" ELSE "prepare")
    /\ call' = [call EXCEPT ![w] = NoCall]
    /\ received' = [received EXCEPT ![w] = @ \cup {call[w].job}]
    /\ reported' = [reported EXCEPT ![w] = @ \ {call[w].job}]
    /\ waiting' = [waiting EXCEPT ![w] = {}]
    /\ UNCHANGED <<row, ready, completed, acked>>

-----------------------------------------------------------------------------
(***************************************************************************)
(* run_jobs                                                                *)
(***************************************************************************)
SendReport(w, o, j) ==
    /\ call' = [call EXCEPT ![w] = Report(o, j)]
    /\ reported' = [reported EXCEPT ![w] = @ \cup {j}]

\* _prepare_job: images and OCR; a job that fails is reported at once.
Prepare(w) ==
    /\ pc[w] = "prepare" /\ Idle(w) /\ batch[w] # <<>>
    /\ batch' = [batch EXCEPT ![w] = Tail(@)]
    /\ \/ /\ ready' = [ready EXCEPT ![w] = Append(@, Head(batch[w]))]
          /\ UNCHANGED <<call, reported>>
       \/ /\ SendReport(w, "failed", Head(batch[w]))
          /\ UNCHANGED ready
    /\ UNCHANGED <<row, pc, completed, received, acked, waiting>>

Prepared(w) ==
    /\ pc[w] = "prepare" /\ Idle(w) /\ batch[w] = <<>>
    /\ Goto(w, IF ready[w] = <<>> THEN "claim" ELSE "embed")
    /\ UNCHANGED <<row, call, batch, ready, completed, historyVars>>

\* Mutant of Embed: an exception of embed_many leaves run_jobs.
EmbedRaises(w) ==
    /\ pc[w] = "embed"
    /\ \/ /\ Goto(w, "complete")
          /\ UNCHANGED ready
       \/ /\ Goto(w, "claim")
          /\ ready' = [ready EXCEPT ![w] = <<>>]
    /\ UNCHANGED <<row, call, batch, completed, historyVars>>

\* embed_many, and the check that there is a vector for each job.
Embed(w) ==
    /\ pc[w] = "embed"
    /\ Goto(w, "complete") \/ Goto(w, "fail")
    /\ UNCHANGED <<row, call, batch, ready, completed, historyVars>>

\* The job at the head is completed, or failed with the rest of the batch.
SendNext(w) ==
    /\ pc[w] \in {"complete", "fail"} /\ Idle(w) /\ ready[w] # <<>>
    /\ \/ /\ pc[w] = "complete"
          /\ SendReport(w, "completed", Head(ready[w]))
          /\ UNCHANGED ready
       \/ /\ pc[w] = "fail"
          /\ SendReport(w, "failed", Head(ready[w]))
          /\ ready' = [ready EXCEPT ![w] = Tail(@)]
    /\ UNCHANGED <<row, pc, batch, completed, received, acked, waiting>>

\* Mutant of CompleteAcked: the status of the answer is not looked at.
CompleteReturned(w) ==
    /\ call[w].op = "completed" /\ call[w].phase \in {"answered", "notFound"}
    /\ call' = [call EXCEPT ![w] = NoCall]
    /\ ready' = [ready EXCEPT ![w] = Tail(@)]
    /\ completed' = [completed EXCEPT ![w] = @ + 1]
    /\ acked' = acked \cup {call[w].job}
    /\ UNCHANGED <<row, pc, batch, received, reported, waiting>>

CompleteAcked(w) ==
    /\ call[w].op = "completed" /\ call[w].phase = "answered"
    /\ call' = [call EXCEPT ![w] = NoCall]
    /\ ready' = [ready EXCEPT ![w] = Tail(@)]
    /\ completed' = [completed EXCEPT ![w] = @ + 1]
    /\ acked' = acked \cup {call[w].job}
    /\ UNCHANGED <<row, pc, batch, received, reported, waiting>>

\* complete raised, for a 404 as for a call that failed: the job is reported
\* as failed.
FailInstead(w) ==
    /\ ready' = [ready EXCEPT ![w] = Tail(@)]
    /\ UNCHANGED <<row, pc, batch, completed, historyVars>>

CompleteNotFound(w) ==
    /\ call[w].op = "completed" /\ call[w].phase = "notFound"
    /\ call' = [call EXCEPT ![w] = Report("failed", call[w].job)]
    /\ FailInstead(w)

\* fail_safely: whatever the answer.
FailAnswered(w) ==
    /\ call[w].op = "failed" /\ call[w].phase \in {"answered", "notFound"}
    /\ call' = [call EXCEPT ![w] = NoCall]
    /\ UNCHANGED <<row, workerVars, historyVars>>

AllReported(w) ==
    /\ pc[w] \in {"complete", "fail"} /\ Idle(w) /\ ready[w] = <<>>
    /\ Goto(w, "claim")
    /\ UNCHANGED <<row, call, batch, ready, completed, historyVars>>

-----------------------------------------------------------------------------
(***************************************************************************)
(* Faults.                                                                 *)
(***************************************************************************)

\* The worker's side of the call ends; the server may still be serving it.
Abandon(w, next) ==
    \/ call' = [call EXCEPT ![w] = next]
    \/ \E h \in Hung :
          /\ call[h] = NoCall /\ call[w].phase \in {"sent", "chosen"}
          /\ call' = [call EXCEPT ![w] = next, ![h] = call[w]]

\* An error answer, a broken connection, a timeout, an answer that is no JSON.
CallFails(w) ==
    \/ /\ call[w].op = "claim"
       /\ Abandon(w, NoCall)
       /\ StopClaiming(w)
    \/ /\ call[w].op = "completed"
       /\ Abandon(w, Report("failed", call[w].job))
       /\ FailInstead(w)
    \/ /\ call[w].op = "failed"
       /\ Abandon(w, NoCall)
       /\ UNCHANGED <<row, workerVars, historyVars>>

\* The process is killed (the function timeout of Modal): its batch is lost.
\* The resident worker is restarted.
Die(w) ==
    /\ pc[w] # "off"
    /\ Abandon(w, NoCall)
    /\ Goto(w, IF w \in Modal THEN "off" ELSE "claim")
    /\ batch' = [batch EXCEPT ![w] = <<>>]
    /\ ready' = [ready EXCEPT ![w] = <<>>]
    /\ received' = [received EXCEPT ![w] = {}]
    /\ reported' = [reported EXCEPT ![w] = {}]
    /\ waiting' = [waiting EXCEPT ![w] = {}]
    /\ UNCHANGED <<row, completed, acked>>

-----------------------------------------------------------------------------
Serve(l) == Choose(l) \/ Take(l) \/ Settle(l)

Work(w) ==
    \/ EndRun(w) \/ SendClaim(w) \/ NoMoreJobs(w) \/ GotJob(w)
    \/ Prepare(w) \/ Prepared(w) \/ Embed(w) \/ SendNext(w)
    \/ CompleteAcked(w) \/ CompleteNotFound(w) \/ FailAnswered(w) \/ AllReported(w)

\* The last: ReclaimTTL runs out under a worker that is only slow.
Fault ==
    \/ \E w \in Workers : CallFails(w) \/ Die(w)
    \/ \E j \in Jobs : Held(j) /\ Reclaim(j)

Normal ==
    \/ \E j \in Jobs : Submit(j) \/ (~Held(j) /\ Reclaim(j))
    \/ \E l \in Lines : Serve(l)
    \/ \E w \in Workers : Start(w) \/ Work(w)

Next == Normal \/ Fault

Spec == Init /\ [][Next]_vars

\* The processes run, the server answers, the reclaim loop finds what nobody
\* holds, and there is an end to the faults.  Nothing is assumed of who starts
\* Modal, nor of calls left hanging.
FairSpec ==
    /\ Spec
    /\ \A w \in Workers : WF_vars(Work(w)) /\ WF_vars(Serve(w))
    /\ \A j \in Jobs : WF_vars(~Held(j) /\ Reclaim(j))
    /\ <>[][Normal]_vars

-----------------------------------------------------------------------------
(***************************************************************************)
(* Properties.                                                             *)
(***************************************************************************)

\* A worker forgets no job: what it was given in this run is still in its
\* hands, or it has called the server about it, whichever of the claim, the
\* preparation, the inference and the calls failed (run_jobs).
NothingForgotten ==
    \A w \in Workers :
        received[w] \subseteq Range(batch[w]) \cup Range(ready[w]) \cup reported[w]

\* A complete that was answered 204 is the outcome of the job: no late fail or
\* reclaimed claim of it has changed it or changes it later.
AckedIsCompleted == \A j \in acked : row[j] = "completed"

\* A Modal run never holds more jobs than its limit lets it complete.
HoldsWithinLimit ==
    \A w \in Workers :
        Limited(w) => completed[w] + Len(batch[w]) + Len(ready[w]) <= MaxJobs

\* Once calls get through, every text that is queued is settled: the resident
\* worker and the reclaim leave none behind, whatever was lost before.
TextsFinish ==
    \A j \in TextJobs : (row[j] = "pending") ~> (row[j] \in Settled)

\* Once calls get through, a Modal run without a limit ends by itself.
RunsEnd ==
    \A w \in Modal : (pc[w] # "off") ~> (pc[w] = "off")

\* deploy/modal/README.md: a Modal run goes on until the queue is empty.  When
\* it ends on an answer of the server, no job was there all along.
DrainsQueue ==
    [][\A w \in Modal :
          NoMoreJobs(w) /\ pc'[w] = "off" => waiting[w] = {}]_vars

\* deploy/modal/README.md: MODAL_MAX_JOBS_PER_RUN bounds the jobs that one run
\* processes.
ProcessesWithinLimit ==
    \A w \in Workers : Limited(w) => Cardinality(received[w]) <= MaxJobs

StateOf(status) ==
    CASE status = "absent"     -> "absent"
      [] status = "pending"    -> "queued"
      [] status = "processing" -> "running"
      [] status \in Settled    -> "settled"

Contract == INSTANCE JobContract
            WITH state <- [j \in Jobs |-> StateOf(row[j])],
                 outcome <- [j \in Jobs |-> IF row[j] \in Settled THEN row[j] ELSE "none"],
                 told <- [j \in Jobs |-> <<>>]

\* The server this module works against does nothing that JobContract, which
\* JobQueue implements, does not allow.
UsesContract == Contract!Spec
=============================================================================
