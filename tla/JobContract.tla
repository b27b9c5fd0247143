----------------------------- MODULE JobContract -----------------------------
(***************************************************************************)
(* What the job queue promises to its clients, whatever workers, retries,   *)
(* restarts and cleanup do: a job is absent, queued, running, settled or     *)
(* purged; a running job may go back to the queue any number of times, but   *)
(* it settles once, with one outcome, and its owner is told that outcome at  *)
(* most once.                                                              *)
(***************************************************************************)
EXTENDS Sequences

CONSTANT Jobs

VARIABLES state,    \* where each job is
          outcome,  \* how it ended, kept when it is purged
          told      \* the outcomes its owner was told

contractVars == <<state, outcome, told>>

Outcomes == {"completed", "failed"}

Init ==
    /\ state = [j \in Jobs |-> "absent"]
    /\ outcome = [j \in Jobs |-> "none"]
    /\ told = [j \in Jobs |-> <<>>]

Submit(j) ==
    /\ state[j] = "absent"
    /\ state' = [state EXCEPT ![j] = "queued"]
    /\ UNCHANGED <<outcome, told>>

Start(j) ==
    /\ state[j] = "queued"
    /\ state' = [state EXCEPT ![j] = "running"]
    /\ UNCHANGED <<outcome, told>>

\* Running jobs whose worker seems lost are queued again, together.
Requeue(S) ==
    /\ \A j \in S : state[j] = "running"
    /\ state' = [j \in Jobs |-> IF j \in S THEN "queued" ELSE state[j]]
    /\ UNCHANGED <<outcome, told>>

Settle(j, o) ==
    /\ state[j] = "running"
    /\ state' = [state EXCEPT ![j] = "settled"]
    /\ outcome' = [outcome EXCEPT ![j] = o]
    /\ UNCHANGED told

\* The owner may be told after the purge: the report is still being served.
Tell(j) ==
    /\ outcome[j] \in Outcomes
    /\ told[j] = <<>>
    /\ told' = [told EXCEPT ![j] = <<outcome[j]>>]
    /\ UNCHANGED <<state, outcome>>

\* Old jobs are purged, together, wherever they are.
Purge(S) ==
    /\ \A j \in S : state[j] \in {"queued", "running", "settled"}
    /\ state' = [j \in Jobs |-> IF j \in S THEN "purged" ELSE state[j]]
    /\ UNCHANGED <<outcome, told>>

Next ==
    \/ \E j \in Jobs : \/ Submit(j) \/ Start(j) \/ Tell(j)
                       \/ \E o \in Outcomes : Settle(j, o)
    \/ \E S \in SUBSET Jobs : Requeue(S) \/ Purge(S)

Spec == Init /\ [][Next]_contractVars
=============================================================================
