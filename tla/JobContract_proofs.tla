-------------------------- MODULE JobContract_proofs --------------------------
(***************************************************************************)
(* What follows from the contract alone, for any set of jobs.  JobQueue,     *)
(* SyncWait and WorkerRun implement the contract, so it holds of each of     *)
(* them under its refinement mapping.                                      *)
(***************************************************************************)
EXTENDS JobContract, TLAPS

States == {"absent", "queued", "running", "settled", "purged"}

TypeOK ==
    /\ state \in [Jobs -> States]
    /\ outcome \in [Jobs -> Outcomes \cup {"none"}]
    /\ told \in [Jobs -> Seq(Outcomes)]

\* A job that can still be worked on has no outcome yet, and a settled one has.
OpenHasNoOutcome ==
    \A j \in Jobs : /\ state[j] \in {"absent", "queued", "running"} => outcome[j] = "none"
                    /\ state[j] = "settled" => outcome[j] \in Outcomes

\* The owner has heard nothing, or the one outcome of the job, once.
ToldTheOutcome ==
    \A j \in Jobs : told[j] # <<>> => outcome[j] \in Outcomes /\ told[j] = <<outcome[j]>>

\* Outcomes are not taken back or replaced, nor is what the owner was told; a
\* settled job is not worked on again, and a purged one does not come back.
OutcomesAreKept ==
    \A j \in Jobs :
        /\ outcome[j] # "none" => outcome'[j] = outcome[j]
        /\ told[j] # <<>> => told'[j] = told[j]
        /\ state[j] = "settled" => state'[j] \in {"settled", "purged"}
        /\ state[j] = "purged" => state'[j] = "purged"

Promise == TypeOK /\ OpenHasNoOutcome /\ ToldTheOutcome

LEMMA PromiseInit == Init => Promise
BY DEF Init, Promise, TypeOK, OpenHasNoOutcome, ToldTheOutcome, States, Outcomes

\* A step keeps the promise, and takes nothing back.
LEMMA PromiseStep == Promise /\ [Next]_contractVars => Promise' /\ OutcomesAreKept
<1> SUFFICES ASSUME Promise, [Next]_contractVars
             PROVE  Promise' /\ OutcomesAreKept
    OBVIOUS
<1> USE DEF Promise, TypeOK, OpenHasNoOutcome, ToldTheOutcome, OutcomesAreKept, States, Outcomes
<1>1. ASSUME NEW j \in Jobs, Submit(j) PROVE Promise' /\ OutcomesAreKept
    BY <1>1 DEF Submit
<1>2. ASSUME NEW j \in Jobs, Start(j) PROVE Promise' /\ OutcomesAreKept
    BY <1>2 DEF Start
<1>3. ASSUME NEW j \in Jobs, Tell(j) PROVE Promise' /\ OutcomesAreKept
  <2>1. <<outcome[j]>> \in Seq(Outcomes) /\ <<outcome[j]>> # <<>>
      BY <1>3 DEF Tell
  <2>2. told' \in [Jobs -> Seq(Outcomes)]
      BY <1>3, <2>1 DEF Tell
  <2> QED BY <1>3, <2>1, <2>2 DEF Tell
<1>4. ASSUME NEW j \in Jobs, NEW o \in Outcomes, Settle(j, o) PROVE Promise' /\ OutcomesAreKept
    BY <1>4 DEF Settle
<1>5. ASSUME NEW S \in SUBSET Jobs, Requeue(S) PROVE Promise' /\ OutcomesAreKept
    BY <1>5 DEF Requeue
<1>6. ASSUME NEW S \in SUBSET Jobs, Purge(S) PROVE Promise' /\ OutcomesAreKept
    BY <1>6 DEF Purge
<1>7. CASE UNCHANGED contractVars
    BY <1>7 DEF contractVars
<1> QED BY <1>1, <1>2, <1>3, <1>4, <1>5, <1>6, <1>7 DEF Next

\* The contract keeps its types, settles a job no earlier than it is done with,
\* and tells the owner nothing but the outcome, at most once.
THEOREM PromiseIsKept == Spec => []Promise
BY PromiseInit, PromiseStep, PTL DEF Spec

\* The contract takes no outcome and no answer back, whatever is retried, queued
\* again or purged: what JobRepository's conditional UPDATEs are for.
THEOREM OutcomesAreFinal == Spec => [][OutcomesAreKept]_contractVars
BY PromiseInit, PromiseStep, PTL DEF Spec
=============================================================================
