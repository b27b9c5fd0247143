---------------------------- MODULE ModalTrigger ----------------------------
(***************************************************************************)
(* The start of Modal: MaybeTrigger after an image job was inserted or a      *)
(* reclaim found something, its goroutine with the interval and the POST, the *)
(* reclaim loop, and the Modal runs that come of it.                         *)
(*                                                                         *)
(* Only image jobs count.  The resident worker does not claim them and Modal  *)
(* runs one container, so a claim is one step; how a run ends early is in     *)
(* WorkerRun and is one action here.  MODAL_ENABLE is on.                    *)
(***************************************************************************)
EXTENDS Integers, FiniteSets

CONSTANTS Images,       \* image jobs
          Slots,        \* calls of MaybeTrigger in progress, goroutine included
          NoSlot,
          Threshold,    \* MODAL_BATCH_THRESHOLD
          MinInterval,  \* MODAL_MIN_INTERVAL, in ticks
          MaxStarts     \* queued starts of process_queue told apart

ASSUME ModalTriggerAssumption ==
    /\ NoSlot \notin Slots
    /\ IsFiniteSet(Images)
    /\ Threshold \in Nat \ {0}
    /\ MinInterval \in Nat
    /\ MaxStarts \in Nat \ {0}

VARIABLES
    row,      \* status of each job; "absent": not inserted yet
    pc,       \* where each call is
    loop,     \* the call the reclaim loop waits for
    lock,     \* holder of t.mu
    since,    \* ticks since lastTrigger, up to MinInterval
    starts,   \* accepted starts that wait for the container
    run,      \* the Modal run
    held,     \* the jobs it has claimed and not reported
    excused   \* history: since the last call began, a start was given up

callVars   == <<pc, loop>>
triggerVars == <<lock, since>>
runVars    == <<starts, run, held>>
vars == <<row, callVars, triggerVars, runVars, excused>>

In(status) == {j \in Images : row[j] = status}
Pending    == In("pending")
Processing == In("processing")

TypeOK ==
    /\ row \in [Images -> {"absent", "pending", "processing", "settled"}]
    /\ pc \in [Slots -> {"idle", "countProcessing", "countPending", "check", "set", "post"}]
    /\ loop \in Slots \cup {NoSlot} /\ lock \in Slots \cup {NoSlot}
    /\ since \in 0..MinInterval
    /\ starts \in 0..MaxStarts
    /\ run \in {"off", "claim", "work"}
    /\ held \subseteq Images
    /\ excused \in BOOLEAN

Init ==
    /\ row = [j \in Images |-> "absent"]
    /\ pc = [s \in Slots |-> "idle"]
    /\ loop = NoSlot /\ lock = NoSlot
    /\ since = MinInterval
    /\ starts = 0 /\ run = "off" /\ held = {}
    /\ excused = FALSE

Goto(s, where) == pc' = [pc EXCEPT ![s] = where]

-----------------------------------------------------------------------------
(***************************************************************************)
(* The callers.                                                            *)
(***************************************************************************)
Begin(s) ==
    /\ pc[s] = "idle"
    /\ Goto(s, "countProcessing")
    /\ excused' = FALSE

\* CreateAsyncEmbedding: the insert, then MaybeTrigger.
Enqueue(s, j) ==
    /\ row[j] = "absent"
    /\ row' = [row EXCEPT ![j] = "pending"]
    /\ Begin(s)
    /\ UNCHANGED <<loop, triggerVars, runVars>>

\* Mutant of ReclaimOnce: what is reclaimed is left to the next enqueue.
ReclaimQuietly(s, stale) ==
    /\ loop = NoSlot
    /\ stale \subseteq Processing
    /\ row' = [j \in Images |-> IF j \in stale THEN "pending" ELSE row[j]]
    /\ pc[s] = "idle"
    /\ UNCHANGED <<callVars, triggerVars, runVars, excused>>

\* reclaimOnce: MaybeTrigger when it changed a row, which may be none but rows of
\* texts.  A run that is at work longer than ReclaimTTL loses its jobs too.
ReclaimOnce(s, stale) ==
    /\ loop = NoSlot
    /\ stale \subseteq Processing
    /\ run = "claim" => stale \cap held = {}
    /\ row' = [j \in Images |-> IF j \in stale THEN "pending" ELSE row[j]]
    /\ Begin(s)
    /\ loop' = s
    /\ UNCHANGED <<triggerVars, runVars>>

-----------------------------------------------------------------------------
(***************************************************************************)
(* MaybeTrigger.                                                           *)
(***************************************************************************)

\* The caller goes on; the goroutine, if any, has the slot.
Return(s) == loop' = IF loop = s THEN NoSlot ELSE loop

CountProcessing(s) ==
    /\ pc[s] = "countProcessing"
    /\ \/ /\ Processing = {}
          /\ Goto(s, "countPending")
          /\ UNCHANGED loop
       \/ /\ Processing # {}
          /\ Goto(s, "idle")
          /\ Return(s)
    /\ UNCHANGED <<row, triggerVars, runVars, excused>>

\* Mutant of CountPending: more than the threshold.
CountAbove(s) ==
    /\ pc[s] = "countPending"
    /\ Goto(s, IF Cardinality(Pending) > Threshold THEN "check" ELSE "idle")
    /\ Return(s)
    /\ UNCHANGED <<row, triggerVars, runVars, excused>>

CountPending(s) ==
    /\ pc[s] = "countPending"
    /\ Goto(s, IF Cardinality(Pending) >= Threshold THEN "check" ELSE "idle")
    /\ Return(s)
    /\ UNCHANGED <<row, triggerVars, runVars, excused>>

\* Either count returns an error.
CountFails(s) ==
    /\ pc[s] \in {"countProcessing", "countPending"}
    /\ Goto(s, "idle")
    /\ Return(s)
    /\ excused' = TRUE
    /\ UNCHANGED <<row, triggerVars, runVars>>

\* The goroutine gives up; t.mu is taken and released.
TooEarly(s) ==
    /\ pc[s] = "check" /\ lock = NoSlot
    /\ since < MinInterval
    /\ Goto(s, "idle")
    /\ excused' = TRUE
    /\ UNCHANGED <<row, loop, triggerVars, runVars>>

\* Mutant of CheckInterval: the interval is checked before t.mu is taken.
CheckUnlocked(s) ==
    /\ pc[s] = "check"
    /\ since >= MinInterval
    /\ Goto(s, "set")
    /\ lock' = s
    /\ UNCHANGED <<row, loop, since, runVars, excused>>

\* time.Since, under t.mu.
CheckInterval(s) ==
    /\ pc[s] = "check" /\ lock = NoSlot
    /\ since >= MinInterval
    /\ Goto(s, "set")
    /\ lock' = s
    /\ UNCHANGED <<row, loop, since, runVars, excused>>

\* lastTrigger = time.Now(), and the unlock.
SetLastTrigger(s) ==
    /\ pc[s] = "set"
    /\ Goto(s, "post")
    /\ lock' = NoSlot
    /\ since' = 0
    /\ UNCHANGED <<row, loop, runVars, excused>>

\* run_batch accepts the POST and spawns process_queue.
PostStarts(s) ==
    /\ pc[s] = "post"
    /\ Goto(s, "idle")
    /\ starts' = IF starts < MaxStarts THEN starts + 1 ELSE starts
    /\ UNCHANGED <<row, loop, triggerVars, run, held, excused>>

PostFails(s) ==
    /\ pc[s] = "post"
    /\ Goto(s, "idle")
    /\ excused' = TRUE
    /\ UNCHANGED <<row, loop, triggerVars, runVars>>

Call(s) ==
    \/ CountProcessing(s) \/ CountPending(s) \/ CountFails(s)
    \/ TooEarly(s) \/ CheckInterval(s) \/ SetLastTrigger(s)
    \/ PostStarts(s) \/ PostFails(s)

-----------------------------------------------------------------------------
(***************************************************************************)
(* The Modal run.                                                          *)
(***************************************************************************)
RunStarts ==
    /\ run = "off" /\ starts > 0
    /\ run' = "claim"
    /\ starts' = starts - 1
    /\ UNCHANGED <<row, callVars, triggerVars, held, excused>>

\* The batch may be full with it.
RunClaims(j) ==
    /\ run = "claim" /\ j \in Pending
    /\ row' = [row EXCEPT ![j] = "processing"]
    /\ held' = held \cup {j}
    /\ run' \in {"claim", "work"}
    /\ UNCHANGED <<callVars, triggerVars, starts, excused>>

RunFindsNothing ==
    /\ run = "claim" /\ Pending = {}
    /\ run' = IF held = {} THEN "off" ELSE "work"
    /\ UNCHANGED <<row, callVars, triggerVars, starts, held, excused>>

\* The batch ends with its last report, which a reclaimed row ignores.
RunReports(j) ==
    /\ run = "work" /\ j \in held
    /\ row' = [row EXCEPT ![j] = IF @ = "processing" THEN "settled" ELSE @]
    /\ held' = held \ {j}
    /\ run' = IF held = {j} THEN "claim" ELSE "work"
    /\ UNCHANGED <<callVars, triggerVars, starts, excused>>

\* A limit, a failed or a lost claim, a kill.  If it leaves nothing in
\* processing then no reclaim will start another.
RunStops ==
    /\ run # "off"
    /\ run' = "off" /\ held' = {}
    /\ excused' = (excused \/ Processing = {})
    /\ UNCHANGED <<row, callVars, triggerVars, starts>>

Run == RunStarts \/ RunFindsNothing \/ \E j \in Images : RunClaims(j) \/ RunReports(j)

-----------------------------------------------------------------------------
Tick ==
    /\ since < MinInterval
    /\ since' = since + 1
    /\ UNCHANGED <<row, callVars, lock, runVars, excused>>

\* The server restarts: calls and lastTrigger are gone.
Crash ==
    /\ pc' = [s \in Slots |-> "idle"]
    /\ loop' = NoSlot /\ lock' = NoSlot
    /\ since' = MinInterval
    /\ excused' = TRUE
    /\ UNCHANGED <<row, runVars>>

Next ==
    \/ \E s \in Slots :
          \/ Call(s)
          \/ \E j \in Images : Enqueue(s, j)
          \/ \E stale \in SUBSET Images : ReclaimOnce(s, stale)
    \/ Run \/ RunStops \/ Tick \/ Crash

Spec == Init /\ [][Next]_vars

\* A reclaim that finds a job nobody holds.
ReclaimsOrphan(s, stale) == ~(stale \subseteq held) /\ ReclaimOnce(s, stale)

\* No run stops early and no job takes longer than ReclaimTTL.
Normal ==
    \/ \E s \in Slots :
          \/ Call(s)
          \/ \E j \in Images : Enqueue(s, j)
          \/ \E stale \in SUBSET (Images \ held) : ReclaimOnce(s, stale)
    \/ Run \/ Tick \/ Crash

\* The goroutines, the runs and the reclaim loop keep going, and in the end all
\* is normal.  The reclaim takes all rows that are old enough in one statement:
\* rows of texts do not keep it from an orphan for ever.
FairSpec ==
    /\ Spec
    /\ \A s \in Slots : WF_vars(Call(s))
    /\ WF_vars(Run)
    /\ SF_vars(\E s \in Slots : \E stale \in SUBSET Images : ReclaimsOrphan(s, stale))
    /\ <>[][Normal]_vars

-----------------------------------------------------------------------------
(***************************************************************************)
(* Properties.                                                             *)
(***************************************************************************)

\* MODAL_MIN_INTERVAL: a goroutine takes its turn only when the last one was
\* taken at least MinInterval ago, however many run at once.
TurnsAreSpaced ==
    [][\A s \in Slots : pc[s] = "set" /\ pc'[s] = "post" => since = MinInterval]_vars

\* Images are not overlooked.  If a batch is pending and nothing is under way
\* for it, then since the last enqueue or reclaim a start was given up for one
\* of the reasons docs/wiki/development.md:119 names, or a failure.
NoneOverlooked ==
    Cardinality(Pending) >= Threshold =>
        \/ excused
        \/ Processing # {}
        \/ starts > 0 \/ run # "off"
        \/ \E s \in Slots : pc[s] # "idle"

\* Such a batch is started in the end, also when Modal died with its jobs:
\* the reclaim starts it again.
BatchesStart ==
    Cardinality(Pending) >= Threshold ~> Cardinality(Pending) < Threshold \/ excused

\* deploy/modal/README.md:94: while there are image jobs in processing, no
\* further start of Modal is asked for.
NoStartWhileProcessing ==
    [][\A s \in Slots : PostStarts(s) => Processing = {}]_vars
=============================================================================
