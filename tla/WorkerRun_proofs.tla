-------------------------- MODULE WorkerRun_proofs --------------------------
(***************************************************************************)
(* Theorems of WorkerRun: what workers were given, what they report and what *)
(* a Modal run may hold, and that the server they call does only what the     *)
(* queue promises, for any jobs, workers, batch sizes and limit, and for any    *)
(* number of calls that outlive their callers.                              *)
(***************************************************************************)
EXTENDS WorkerRun, TLAPS

\* Where a worker is tells what is in its hands, and its call what it waits for.
PlaceInv(w) ==
    /\ pc[w] \in {"off", "claim"} => ready[w] = <<>>
    /\ pc[w] \in {"off", "embed", "complete", "fail"} => batch[w] = <<>>
    /\ pc[w] = "claim" => batch[w] = <<>> \/ Len(batch[w]) < ClaimN(w)

CallInv(w) ==
    /\ call[w].op = "claim" => pc[w] = "claim" /\ Len(batch[w]) < ClaimN(w)
    /\ call[w].op = "completed" =>
          /\ pc[w] = "complete" /\ ready[w] # <<>> /\ call[w].job = Head(ready[w])
          /\ call[w].job \in reported[w]
          /\ call[w].phase = "answered" => row[call[w].job] = "completed"

Remembers(w) ==
    received[w] \subseteq Range(batch[w]) \cup Range(ready[w]) \cup reported[w]

WithinLimit(w) ==
    Limited(w) => completed[w] + Len(batch[w]) + Len(ready[w]) <= MaxJobs

WorkerInv(w) == PlaceInv(w) /\ CallInv(w) /\ Remembers(w) /\ WithinLimit(w)

\* Only a claim has chosen a job, and a report is about one.
NamesJob(c) ==
    /\ c.phase = "chosen" => c.op = "claim" /\ c.job \in Jobs
    /\ c.op \in Settled => c.job \in Jobs

LineInv == \A l \in Lines : NamesJob(call[l])

Inductive ==
    /\ TypeOK
    /\ LineInv
    /\ \A w \in Workers : WorkerInv(w)
    /\ AckedIsCompleted

USE DEF Goto, Idle

-----------------------------------------------------------------------------
(***************************************************************************)
(* Sequences.                                                              *)
(***************************************************************************)
LEMMA Appended ==
    ASSUME NEW S, NEW s \in Seq(S), NEW x \in S
    PROVE  /\ Append(s, x) \in Seq(S)
           /\ Len(Append(s, x)) = Len(s) + 1
           /\ Range(Append(s, x)) = Range(s) \cup {x}
<1>1. Append(s, x) \in Seq(S) /\ Len(Append(s, x)) = Len(s) + 1
  OBVIOUS
<1>2. ASSUME NEW y PROVE y \in Range(Append(s, x)) <=> y \in Range(s) \cup {x}
  <2>1. DOMAIN s = 1 .. Len(s) /\ DOMAIN Append(s, x) = 1 .. Len(s) + 1 /\ Len(s) \in Nat
    OBVIOUS
  <2>2. \A i \in 1 .. Len(s) : Append(s, x)[i] = s[i]
    OBVIOUS
  <2>3. Append(s, x)[Len(s) + 1] = x
    OBVIOUS
  <2> QED
    BY <2>1, <2>2, <2>3 DEF Range
<1> QED
  BY <1>1, <1>2

LEMMA HeadAndTail ==
    ASSUME NEW S, NEW s \in Seq(S), s # <<>>
    PROVE  /\ Head(s) \in S
           /\ Tail(s) \in Seq(S)
           /\ Len(s) \in Nat /\ Len(s) > 0 /\ Len(Tail(s)) = Len(s) - 1
           /\ Range(s) \subseteq {Head(s)} \cup Range(Tail(s))
<1>1. Head(s) \in S /\ Tail(s) \in Seq(S)
  OBVIOUS
<1>2. Len(s) \in Nat /\ Len(s) > 0 /\ Len(Tail(s)) = Len(s) - 1
  OBVIOUS
<1>3. ASSUME NEW i \in 1 .. Len(s), i # 1 PROVE s[i] \in Range(Tail(s))
  <2>1. i - 1 \in DOMAIN Tail(s) /\ Tail(s)[i - 1] = s[i]
    BY <1>2, <1>3
  <2> QED
    BY <2>1 DEF Range
<1> QED
  BY <1>1, <1>2, <1>3 DEF Range

LEMMA Empty == Range(<<>>) = {} /\ Len(<<>>) = 0
BY DEF Range

-----------------------------------------------------------------------------
LEMMA InitInductive == Init => Inductive
<1> SUFFICES ASSUME Init PROVE Inductive
  OBVIOUS
<1>1. TypeOK
  BY WorkerRunAssumption DEF Init, TypeOK, Calls, NoCall, Settled, Lines
<1>2. LineInv /\ AckedIsCompleted
  BY DEF Init, LineInv, NamesJob, AckedIsCompleted, NoCall, Lines, Settled
<1>3. ASSUME NEW w \in Workers PROVE WorkerInv(w)
  BY Empty, WorkerRunAssumption
  DEF Init, WorkerInv, PlaceInv, CallInv, Remembers, WithinLimit, Limited, NoCall, Lines
<1> QED
  BY <1>1, <1>2, <1>3 DEF Inductive

\* A settled row stays as it is.
LEMMA RowKept ==
    ASSUME TypeOK, [Next]_vars
    PROVE  \A j \in Jobs : row[j] = "completed" => row'[j] = "completed"
<1> SUFFICES ASSUME NEW j \in Jobs, row[j] = "completed" PROVE row'[j] = "completed"
  OBVIOUS
<1> USE DEF TypeOK
<1>1. ASSUME NEW i \in Jobs, Submit(i) \/ Reclaim(i) PROVE row'[j] = "completed"
  BY <1>1 DEF Submit, Reclaim
<1>2. ASSUME NEW l \in Lines, Serve(l) PROVE row'[j] = "completed"
  BY <1>2 DEF Serve, Choose, Take, Settle
<1>3. ASSUME NEW w \in Workers, Start(w) \/ Work(w) \/ CallFails(w) \/ Die(w)
      PROVE  row' = row
  BY <1>3 DEF Start, Work, EndRun, SendClaim, NoMoreJobs, GotJob, Prepare, Prepared, Embed,
              SendNext, CompleteAcked, CompleteNotFound, FailAnswered, AllReported, CallFails,
              Die, StopClaiming, FailInstead
<1>4. CASE UNCHANGED vars
  BY <1>4 DEF vars
<1> QED
  BY <1>1, <1>2, <1>3, <1>4 DEF Next, Normal, Fault

\* A worker that a step does not touch keeps its invariant.
Same(w) ==
    /\ pc'[w] = pc[w] /\ batch'[w] = batch[w] /\ ready'[w] = ready[w]
    /\ completed'[w] = completed[w] /\ received'[w] = received[w]
    /\ reported'[w] = reported[w] /\ call'[w] = call[w]

LEMMA Untouched ==
    ASSUME TypeOK, [Next]_vars, NEW w \in Workers, WorkerInv(w), Same(w)
    PROVE  WorkerInv(w)'
<1>1. PlaceInv(w)' /\ Remembers(w)' /\ WithinLimit(w)'
  BY DEF WorkerInv, Same, PlaceInv, Remembers, WithinLimit, ClaimN, Limited
<1>2. CallInv(w)'
  <2>1. call[w].op = "completed" => call[w].job \in Jobs
    BY HeadAndTail DEF WorkerInv, CallInv, TypeOK
  <2> QED
    BY <2>1, RowKept DEF WorkerInv, CallInv, Same, ClaimN, Limited
<1> QED
  BY <1>1, <1>2 DEF WorkerInv

-----------------------------------------------------------------------------
(***************************************************************************)
(* Types.                                                                  *)
(***************************************************************************)
Phases == {"none", "sent", "chosen", "answered", "notFound"}

LEMMA CallTypes ==
    /\ NoCall \in Calls
    /\ \A w \in Workers : Claim(w) \in Calls
    /\ \A o \in Settled, j \in Jobs : Report(o, j) \in Calls
    /\ \A c \in Calls, p \in Phases : [c EXCEPT !.phase = p] \in Calls
    /\ \A c \in Calls, p \in Phases, j \in Jobs \cup {NoJob} :
          [c EXCEPT !.phase = p, !.job = j] \in Calls
BY DEF NoCall, Claim, Report, Calls, Settled, Phases

LEMMA PutTypes ==
    ASSUME call \in [Lines -> Calls], NEW l \in Lines, NEW c \in Calls, Put(l, c)
    PROVE  call' \in [Lines -> Calls]
BY CallTypes DEF Put

LEMMA AbandonTypes ==
    ASSUME call \in [Lines -> Calls], NEW w \in Workers, NEW c \in Calls, Abandon(w, c)
    PROVE  call' \in [Lines -> Calls]
BY DEF Abandon, Lines

TypeButCall ==
    /\ row \in [Jobs -> Settled \cup {"absent", "pending", "processing"}]
    /\ pc \in [Workers -> {"off", "claim", "prepare", "embed", "complete", "fail"}]
    /\ batch \in [Workers -> Seq(Jobs)] /\ ready \in [Workers -> Seq(Jobs)]
    /\ completed \in [Workers -> Nat]
    /\ received \in [Workers -> SUBSET Jobs] /\ reported \in [Workers -> SUBSET Jobs]
    /\ acked \subseteq Jobs
    /\ waiting \in [Workers -> SUBSET Jobs]

LEMMA TypeStep ==
    ASSUME Inductive, [Next]_vars PROVE TypeOK'
<1> SUFFICES TypeButCall' /\ call' \in [Lines -> Calls]
  BY DEF TypeOK, TypeButCall
<1>0. TypeButCall /\ call \in [Lines -> Calls]
  BY DEF Inductive, TypeOK, TypeButCall
<1> USE DEF Settled
<1>1. ASSUME NEW j \in Jobs, Submit(j) \/ Reclaim(j)
      PROVE  TypeButCall' /\ call' \in [Lines -> Calls]
  BY <1>0, <1>1 DEF TypeButCall, Submit, Reclaim, workerVars, historyVars
<1>2. ASSUME NEW l \in Lines, Serve(l) PROVE TypeButCall' /\ call' \in [Lines -> Calls]
  <2>1. call[l] \in Calls /\ call[l].job \in Jobs \cup {NoJob} /\ call[l].op \in {"none", "claim"} \cup Settled
    BY <1>0 DEF Calls
  <2>2. CASE Choose(l)
    <3>1. \A j \in Candidates(call[l].kinds) : j \in Jobs
      BY DEF Candidates, Pending, Jobs
    <3>2. call' \in [Lines -> Calls]
      BY <1>0, <2>1, <2>2, <3>1, CallTypes, PutTypes DEF Choose, Phases
    <3> QED
      BY <1>0, <2>2, <3>2 DEF TypeButCall, Choose, workerVars, historyVars
  <2>3. CASE Take(l)
    <3>2. call' \in [Lines -> Calls]
      BY <1>0, <2>1, <2>3, CallTypes, PutTypes DEF Take, Phases
    <3> QED
      BY <1>0, <2>3, <3>2 DEF TypeButCall, Take, workerVars
  <2>4. CASE Settle(l)
    <3>2. call' \in [Lines -> Calls]
      BY <1>0, <2>1, <2>4, CallTypes, PutTypes DEF Settle, Phases
    <3> QED
      BY <1>0, <2>1, <2>4, <3>2 DEF TypeButCall, Settle, workerVars, historyVars
  <2> QED
    BY <1>2, <2>2, <2>3, <2>4 DEF Serve
<1>3. ASSUME NEW w \in Workers, Start(w) \/ Work(w) \/ CallFails(w) \/ Die(w)
      PROVE  TypeButCall' /\ call' \in [Lines -> Calls]
  <2>0. w \in Lines /\ call[w].job \in Jobs \cup {NoJob}
    BY <1>0 DEF Lines, Calls
  <2>1. call[w].op = "completed" => call[w].job \in Jobs /\ Tail(ready[w]) \in Seq(Jobs)
    BY <1>0, HeadAndTail DEF Inductive, WorkerInv, CallInv, TypeButCall
  <2>2. batch[w] # <<>> => Head(batch[w]) \in Jobs /\ Tail(batch[w]) \in Seq(Jobs)
    BY <1>0, HeadAndTail DEF TypeButCall
  <2>3. ready[w] # <<>> => Head(ready[w]) \in Jobs /\ Tail(ready[w]) \in Seq(Jobs)
    BY <1>0, HeadAndTail DEF TypeButCall
  <2>4. \A j \in Jobs : Append(batch[w], j) \in Seq(Jobs) /\ Append(ready[w], j) \in Seq(Jobs)
    BY <1>0, Appended DEF TypeButCall
  <2>5. <<>> \in Seq(Jobs)
    OBVIOUS
  <2>6. ASSUME Start(w) \/ EndRun(w) \/ SendClaim(w) \/ Prepared(w) \/ Embed(w) \/ AllReported(w)
        PROVE  TypeButCall' /\ call' \in [Lines -> Calls]
    <3>1. call' \in [Lines -> Calls]
      BY <1>0, <2>0, <2>6, CallTypes
      DEF Start, EndRun, SendClaim, Prepared, Embed, AllReported
    <3>2. TypeButCall'
      <4>1. CASE Start(w)
        BY <1>0, <4>1 DEF TypeButCall, Start
      <4>2. CASE SendClaim(w)
        BY <1>0, <4>2 DEF TypeButCall, SendClaim, workerVars, Pending
      <4>3. CASE EndRun(w) \/ Prepared(w)
        BY <1>0, <4>3 DEF TypeButCall, EndRun, Prepared, historyVars
      <4>4. CASE Embed(w) \/ AllReported(w)
        BY <1>0, <4>4 DEF TypeButCall, Embed, AllReported, historyVars
      <4> QED
        BY <2>6, <4>1, <4>2, <4>3, <4>4
    <3> QED
      BY <3>1, <3>2
  <2>7. ASSUME NoMoreJobs(w) \/ GotJob(w)
        PROVE  TypeButCall' /\ call' \in [Lines -> Calls]
    <3>1. CASE NoMoreJobs(w)
      BY <1>0, <2>0, <3>1, CallTypes DEF TypeButCall, NoMoreJobs, StopClaiming
    <3>2. CASE GotJob(w)
      BY <1>0, <2>0, <2>4, <3>2, CallTypes DEF TypeButCall, GotJob
    <3> QED
      BY <2>7, <3>1, <3>2
  <2>8. ASSUME Prepare(w) \/ SendNext(w)
        PROVE  TypeButCall' /\ call' \in [Lines -> Calls]
    <3>1. \A o \in Settled, j \in Jobs : SendReport(w, o, j) => call' \in [Lines -> Calls]
      BY <1>0, <2>0, CallTypes DEF SendReport
    <3>2. CASE Prepare(w)
      <4>1. TypeButCall'
        <5>1. batch' \in [Workers -> Seq(Jobs)] /\ ready' \in [Workers -> Seq(Jobs)]
          BY <1>0, <2>2, <2>4, <3>2 DEF TypeButCall, Prepare
        <5>2. reported' \in [Workers -> SUBSET Jobs]
          <6>1. reported' = reported \/ reported' = [reported EXCEPT ![w] = @ \cup {Head(batch[w])}]
            BY <3>2 DEF Prepare, SendReport
          <6>2. Head(batch[w]) \in Jobs
            BY <2>2, <3>2 DEF Prepare
          <6> QED
            BY <1>0, <6>1, <6>2 DEF TypeButCall
        <5> QED
          BY <1>0, <3>2, <5>1, <5>2 DEF TypeButCall, Prepare
      <4> QED
        BY <1>0, <2>2, <3>1, <3>2, <4>1 DEF Prepare
    <3>3. CASE SendNext(w)
      <4>1. TypeButCall'
        <5>1. ready' \in [Workers -> Seq(Jobs)]
          BY <1>0, <2>3, <3>3 DEF TypeButCall, SendNext
        <5>2. reported' \in [Workers -> SUBSET Jobs]
          <6>1. reported' = [reported EXCEPT ![w] = @ \cup {Head(ready[w])}]
            BY <3>3 DEF SendNext, SendReport
          <6> QED
            BY <1>0, <2>3, <3>3, <6>1 DEF TypeButCall, SendNext
        <5> QED
          BY <1>0, <3>3, <5>1, <5>2 DEF TypeButCall, SendNext
      <4> QED
        BY <2>3, <3>1, <3>3, <4>1 DEF SendNext
    <3> QED
      BY <2>8, <3>2, <3>3
  <2>9. ASSUME CompleteAcked(w) \/ CompleteNotFound(w) \/ FailAnswered(w)
        PROVE  TypeButCall' /\ call' \in [Lines -> Calls]
    <3>1. call' \in [Lines -> Calls]
      <4>1. call[w].op = "completed" => Report("failed", call[w].job) \in Calls
        BY <2>1, CallTypes
      <4> QED
        BY <1>0, <2>0, <2>9, <4>1, CallTypes DEF CompleteAcked, CompleteNotFound, FailAnswered
    <3>2. TypeButCall'
      <4>1. CASE CompleteAcked(w)
        BY <1>0, <2>1, <4>1 DEF TypeButCall, CompleteAcked
      <4>2. CASE CompleteNotFound(w)
        BY <1>0, <2>1, <4>2 DEF TypeButCall, CompleteNotFound, FailInstead, historyVars
      <4>3. CASE FailAnswered(w)
        BY <1>0, <4>3 DEF TypeButCall, FailAnswered, workerVars, historyVars
      <4> QED
        BY <2>9, <4>1, <4>2, <4>3
    <3> QED
      BY <3>1, <3>2
  <2>10. ASSUME CallFails(w) PROVE TypeButCall' /\ call' \in [Lines -> Calls]
    <3>1. call' \in [Lines -> Calls]
      BY <1>0, <2>1, <2>10, CallTypes, AbandonTypes DEF CallFails
    <3>2. TypeButCall'
      BY <1>0, <2>1, <2>10
      DEF TypeButCall, CallFails, StopClaiming, FailInstead, workerVars, historyVars
    <3> QED
      BY <3>1, <3>2
  <2>11. ASSUME Die(w) PROVE TypeButCall' /\ call' \in [Lines -> Calls]
    <3>1. call' \in [Lines -> Calls]
      BY <1>0, <2>11, CallTypes, AbandonTypes DEF Die
    <3>2. TypeButCall'
      BY <1>0, <2>5, <2>11 DEF TypeButCall, Die
    <3> QED
      BY <3>1, <3>2
  <2> QED
    BY <1>3, <2>6, <2>7, <2>8, <2>9, <2>10, <2>11 DEF Work
<1>4. CASE UNCHANGED vars
  BY <1>0, <1>4 DEF TypeButCall, vars, workerVars, historyVars
<1> QED
  BY <1>1, <1>2, <1>3, <1>4 DEF Next, Normal, Fault

-----------------------------------------------------------------------------
(***************************************************************************)
(* The calls on the lines.                                                 *)
(***************************************************************************)
LEMMA LineStep ==
    ASSUME Inductive, [Next]_vars PROVE LineInv'
<1> USE DEF LineInv
<1>0. LineInv /\ call \in [Lines -> Calls] /\ Workers \subseteq Lines /\ Hung \subseteq Lines
  BY DEF Inductive, TypeOK, Lines
<1>1. ASSUME NEW l \in Lines, Serve(l) PROVE LineInv'
  <2>1. \E c : Put(l, c) /\ NamesJob(c)
    <3>0. /\ call[l] \in Calls /\ NamesJob(call[l])
          /\ \A p \in Phases : \A j :
                                 /\ [call[l] EXCEPT !.phase = p].phase = p
                                 /\ [call[l] EXCEPT !.phase = p].op = call[l].op
                                 /\ [call[l] EXCEPT !.phase = p].job = call[l].job
                                 /\ [call[l] EXCEPT !.phase = p, !.job = j].phase = p
                                 /\ [call[l] EXCEPT !.phase = p, !.job = j].job = j
                                 /\ [call[l] EXCEPT !.phase = p, !.job = j].op = call[l].op
      BY <1>0 DEF Calls
    <3>4. NamesJob([call[l] EXCEPT !.phase = "answered"]) /\ NamesJob([call[l] EXCEPT !.phase = "notFound"])
      <4>1. "answered" \in Phases /\ "notFound" \in Phases /\ "answered" # "chosen" /\ "notFound" # "chosen"
        BY DEF Phases
      <4>2. call[l].op \in Settled => call[l].job \in Jobs
        BY <3>0 DEF NamesJob
      <4> QED
        BY <3>0, <4>1, <4>2 DEF NamesJob
    <3>1. CASE Choose(l)
      <4>0. call[l].op = "claim" /\ call[l].op \notin Settled
        BY <3>1 DEF Choose, Settled
      <4>1. CASE Put(l, [call[l] EXCEPT !.phase = "answered"])
        BY <3>4, <4>1
      <4>2. CASE \E j \in Candidates(call[l].kinds) : Put(l, [call[l] EXCEPT !.phase = "chosen", !.job = j])
        <5>1. PICK j \in Candidates(call[l].kinds) : Put(l, [call[l] EXCEPT !.phase = "chosen", !.job = j])
          BY <4>2
        <5>2. j \in Jobs
          BY DEF Candidates, Pending, Jobs
        <5>3. NamesJob([call[l] EXCEPT !.phase = "chosen", !.job = j])
          BY <3>0, <4>0, <5>2 DEF Phases, NamesJob
        <5> QED
          BY <5>1, <5>3
      <4> QED
        BY <3>1, <4>1, <4>2 DEF Choose
    <3>2. CASE Take(l)
      <4>0. call[l].op \notin Settled
        BY <3>0, <3>2 DEF Take, NamesJob, Settled
      <4>1. NamesJob([call[l] EXCEPT !.phase = "answered", !.job = NoJob])
        <5>1. "answered" \in Phases /\ "answered" # "chosen"
          BY DEF Phases
        <5> QED
          BY <3>0, <4>0, <5>1 DEF NamesJob
      <4> QED
        BY <3>2, <3>4, <4>1 DEF Take
    <3>3. CASE Settle(l)
      BY <3>3, <3>4 DEF Settle
    <3> QED
      BY <1>1, <3>1, <3>2, <3>3 DEF Serve
  <2>2. NamesJob(NoCall)
    BY DEF NamesJob, NoCall, Settled
  <2> QED
    BY <1>0, <2>1, <2>2 DEF Put
<1>2. ASSUME NEW w \in Workers, NEW c, Abandon(w, c), NamesJob(c) PROVE LineInv'
  BY <1>0, <1>2 DEF Abandon
<1>3. NamesJob(NoCall)
  BY DEF NamesJob, NoCall, Settled
<1>4. \A o \in Settled, j \in Jobs : NamesJob(Report(o, j))
  BY DEF NamesJob, Report
<1>5. \A w \in Workers : NamesJob(Claim(w))
  BY DEF NamesJob, Claim, Settled
<1>6. ASSUME NEW w \in Workers, NEW c, call' = [call EXCEPT ![w] = c], NamesJob(c)
      PROVE  LineInv'
  BY <1>0, <1>6
<1>7. ASSUME NEW w \in Workers, CallFails(w) \/ Die(w) PROVE LineInv'
  <2>1. call[w].op = "completed" => NamesJob(Report("failed", call[w].job))
    BY <1>0, <1>4 DEF NamesJob, Settled
  <2> QED
    BY <1>2, <1>3, <1>7, <2>1 DEF CallFails, Die
<1>8. ASSUME NEW w \in Workers, Start(w) \/ Work(w) PROVE LineInv'
  <2>0. /\ batch[w] # <<>> => Head(batch[w]) \in Jobs
        /\ ready[w] # <<>> => Head(ready[w]) \in Jobs
    BY HeadAndTail DEF Inductive, TypeOK
  <2>1. CASE UNCHANGED call
    BY <1>0, <2>1
  <2>2. CASE \/ call' = [call EXCEPT ![w] = NoCall] \/ call' = [call EXCEPT ![w] = Claim(w)]
             \/ \E o \in Settled, j \in Jobs : call' = [call EXCEPT ![w] = Report(o, j)]
    BY <1>3, <1>4, <1>5, <1>6, <2>2
  <2>3. CASE Prepare(w)
    BY <2>0, <2>1, <2>2, <2>3 DEF Prepare, SendReport, Settled
  <2>4. CASE SendNext(w)
    BY <2>0, <2>2, <2>4 DEF SendNext, SendReport, Settled
  <2>5. CASE CompleteNotFound(w)
    <3>1. call[w].job \in Jobs
      BY <1>0, <2>5 DEF CompleteNotFound, NamesJob, Settled
    <3> QED
      BY <2>2, <2>5, <3>1 DEF CompleteNotFound, Settled
  <2> QED
    BY <1>8, <2>1, <2>2, <2>3, <2>4, <2>5
    DEF Start, Work, EndRun, SendClaim, NoMoreJobs, GotJob, Prepared, Embed,
        CompleteAcked, FailAnswered, AllReported
<1>9. ASSUME UNCHANGED call PROVE LineInv'
  BY <1>0, <1>9
<1> QED
  BY <1>1, <1>7, <1>8, <1>9 DEF Next, Normal, Fault, Submit, Reclaim, vars

\* What the server does is seen by a worker in its own call only.
LEMMA ServeStep ==
    ASSUME Inductive, [Next]_vars, NEW l \in Lines, Serve(l), NEW w \in Workers
    PROVE  WorkerInv(w)'
<1>0. TypeOK /\ WorkerInv(w) /\ LineInv /\ w \in Lines
  BY DEF Inductive, Lines
<1>1. UNCHANGED <<workerVars, received, reported>>
  BY DEF Serve, Choose, Take, Settle, historyVars
<1>2. CASE call'[w] = call[w]
  BY <1>0, <1>1, <1>2, Untouched DEF Same, workerVars
<1>3. CASE l = w /\ call'[w] # call[w]
  <2>0. w \notin Hung
    BY WorkerRunAssumption
  <2>1. PlaceInv(w)' /\ Remembers(w)' /\ WithinLimit(w)'
    BY <1>0, <1>1 DEF WorkerInv, PlaceInv, Remembers, WithinLimit, ClaimN, Limited, workerVars
  <2>2. /\ call[w].op \in {"claim"} \cup Settled
        /\ call'[w].op = call[w].op
        /\ call[w].op \in Settled => call'[w].job = call[w].job
        /\ call[w].op = "completed" /\ call'[w].phase = "answered" =>
              row' = [row EXCEPT ![call[w].job] = "completed"]
    <3>0. /\ call[w] \in Calls
          /\ \A c : Put(w, c) => call'[w] = c
      BY <1>0, <2>0 DEF TypeOK, Put
    <3>1. CASE Choose(w)
      BY <3>0, <3>1 DEF Choose, Settled, Calls
    <3>2. CASE Take(w)
      BY <1>0, <3>0, <3>2 DEF Take, Settled, Calls, LineInv, NamesJob
    <3>3. CASE Settle(w)
      BY <3>0, <3>3 DEF Settle, Settled, Calls
    <3> QED
      BY <1>3, <3>1, <3>2, <3>3 DEF Serve
  <2>3. call[w].op = "completed" => call[w].job \in Jobs
    BY <1>0, HeadAndTail DEF WorkerInv, CallInv, TypeOK
  <2>4. CallInv(w)'
    BY <1>0, <1>1, <2>2, <2>3 DEF WorkerInv, CallInv, ClaimN, Limited, workerVars, TypeOK, Settled
  <2> QED
    BY <2>1, <2>4 DEF WorkerInv
<1>4. l # w => call'[w] = call[w]
  BY <1>0 DEF Serve, Choose, Take, Settle, Put, TypeOK
<1> QED
  BY <1>2, <1>3, <1>4

-----------------------------------------------------------------------------
(***************************************************************************)
(* The steps of a worker: the others do not see them.                       *)
(***************************************************************************)
LEMMA AbandonedByOne ==
    ASSUME TypeOK, NEW w \in Workers, NEW c, Abandon(w, c)
    PROVE  call'[w] = c /\ \A v \in Workers \ {w} : call'[v] = call[v]
BY WorkerRunAssumption DEF Abandon, TypeOK, Lines

LEMMA OthersSame ==
    ASSUME Inductive, NEW w \in Workers, Start(w) \/ Work(w) \/ CallFails(w) \/ Die(w),
           NEW v \in Workers \ {w}
    PROVE  Same(v)
<1> USE DEF Same
<1>0. TypeOK /\ call \in [Lines -> Calls] /\ v \in Workers /\ v \in Lines /\ w \in Lines
      /\ \A f \in {pc, batch, ready, completed, received, reported} :
            DOMAIN f = Workers /\ \A x : [f EXCEPT ![w] = x][v] = f[v]
  BY DEF Inductive, TypeOK, Lines
<1>1. CASE Start(w)
  BY <1>0, <1>1 DEF Start
<1>2. CASE EndRun(w)
  BY <1>0, <1>2 DEF EndRun, historyVars
<1>3. CASE SendClaim(w)
  BY <1>0, <1>3 DEF SendClaim, workerVars
<1>4. CASE NoMoreJobs(w)
  BY <1>0, <1>4 DEF NoMoreJobs, StopClaiming
<1>5. CASE GotJob(w)
  BY <1>0, <1>5 DEF GotJob
<1>6. CASE Prepare(w)
  BY <1>0, <1>6 DEF Prepare, SendReport
<1>7. CASE Prepared(w)
  BY <1>0, <1>7 DEF Prepared, historyVars
<1>8. CASE Embed(w)
  BY <1>0, <1>8 DEF Embed, historyVars
<1>9. CASE SendNext(w)
  BY <1>0, <1>9 DEF SendNext, SendReport
<1>10. CASE CompleteAcked(w)
  BY <1>0, <1>10 DEF CompleteAcked
<1>11. CASE CompleteNotFound(w)
  BY <1>0, <1>11 DEF CompleteNotFound, FailInstead, historyVars
<1>12. CASE FailAnswered(w)
  BY <1>0, <1>12 DEF FailAnswered, workerVars, historyVars
<1>13. CASE AllReported(w)
  BY <1>0, <1>13 DEF AllReported, historyVars
<1>14. CASE CallFails(w)
  BY <1>0, <1>14, AbandonedByOne DEF CallFails, StopClaiming, FailInstead, workerVars, historyVars
<1>15. CASE Die(w)
  BY <1>0, <1>15, AbandonedByOne DEF Die
<1> QED
  BY <1>1, <1>2, <1>3, <1>4, <1>5, <1>6, <1>7, <1>8, <1>9, <1>10, <1>11, <1>12, <1>13, <1>14, <1>15
  DEF Work

\* What every step of worker w starts from.
LEMMA Facts ==
    ASSUME Inductive, NEW w \in Workers
    PROVE  /\ WorkerInv(w)
           /\ w \in Lines /\ w \notin Hung
           /\ pc \in [Workers -> {"off", "claim", "prepare", "embed", "complete", "fail"}]
           /\ batch \in [Workers -> Seq(Jobs)] /\ ready \in [Workers -> Seq(Jobs)]
           /\ completed \in [Workers -> Nat]
           /\ received \in [Workers -> SUBSET Jobs] /\ reported \in [Workers -> SUBSET Jobs]
           /\ call \in [Lines -> Calls] /\ call[w].job \in Jobs \cup {NoJob}
           /\ Len(batch[w]) \in Nat /\ Len(ready[w]) \in Nat /\ completed[w] \in Nat
           /\ MaxJobs \in Nat /\ ClaimN(w) \in Int /\ BatchSize[w] \in Nat \ {0}
           /\ Limited(w) => ClaimN(w) <= MaxJobs - completed[w]
           /\ ~Limited(w) => ClaimN(w) > 0
BY WorkerRunAssumption DEF Inductive, TypeOK, Lines, ClaimN, Calls

USE DEF WorkerInv, PlaceInv, CallInv, Remembers, WithinLimit

\* claim_jobs
LEMMA ClaimSteps ==
    ASSUME Inductive, NEW w \in Workers,
           Start(w) \/ EndRun(w) \/ SendClaim(w) \/ NoMoreJobs(w) \/ GotJob(w)
    PROVE  WorkerInv(w)'
<1>0. WorkerInv(w)
  BY Facts
<1>1. CASE Start(w)
  BY <1>1, Facts, Empty DEF Start, ClaimN, Limited
<1>2. CASE EndRun(w)
  BY <1>2, Facts, Empty DEF EndRun, historyVars, NoCall, ClaimN, Limited
<1>3. CASE SendClaim(w)
  <2>1. call'[w].op = "claim" /\ (batch[w] = <<>> \/ Len(batch[w]) < ClaimN(w))
    BY <1>3, Facts DEF SendClaim, Claim
  <2> QED
    BY <1>3, <2>1, Facts, Empty DEF SendClaim, Claim, workerVars, ClaimN, Limited
<1>4. CASE NoMoreJobs(w)
  BY <1>4, Facts, Empty DEF NoMoreJobs, StopClaiming, NoCall, ClaimN, Limited
<1>5. CASE GotJob(w)
  <2>1. call[w].job \in Jobs /\ ready[w] = <<>> /\ Len(batch[w]) < ClaimN(w)
    BY <1>5, Facts DEF GotJob
  <2>2. /\ batch'[w] = Append(batch[w], call[w].job)
        /\ Len(batch'[w]) = Len(batch[w]) + 1
        /\ Range(batch'[w]) = Range(batch[w]) \cup {call[w].job}
    BY <1>5, <2>1, Facts, Appended DEF GotJob
  <2>3. /\ pc'[w] = IF Len(batch'[w]) < ClaimN(w) THEN "claim" ELSE "prepare"
        /\ call'[w] = NoCall
        /\ received'[w] = received[w] \cup {call[w].job}
        /\ reported'[w] = reported[w] \ {call[w].job}
        /\ UNCHANGED <<row, ready, completed>>
    BY <1>5, <2>2, Facts DEF GotJob
  <2>4. PlaceInv(w)' /\ CallInv(w)'
    BY <2>1, <2>2, <2>3, Facts DEF NoCall, ClaimN, Limited
  <2>5. Remembers(w)'
    BY <2>2, <2>3, Facts
  <2>6. WithinLimit(w)'
    BY <2>1, <2>2, <2>3, Facts, Empty DEF Limited
  <2> QED
    BY <2>4, <2>5, <2>6
<1> QED
  BY <1>1, <1>2, <1>3, <1>4, <1>5

\* run_jobs
LEMMA RunSteps ==
    ASSUME Inductive, NEW w \in Workers,
           \/ Prepare(w) \/ Prepared(w) \/ Embed(w) \/ SendNext(w)
           \/ CompleteAcked(w) \/ CompleteNotFound(w) \/ FailAnswered(w) \/ AllReported(w)
    PROVE  WorkerInv(w)'
<1>1. CASE Prepare(w)
  <2>1. /\ Head(batch[w]) \in Jobs /\ batch'[w] = Tail(batch[w])
        /\ Len(batch[w]) > 0 /\ Len(batch'[w]) = Len(batch[w]) - 1
        /\ Range(batch[w]) \subseteq {Head(batch[w])} \cup Range(batch'[w])
    BY <1>1, Facts, HeadAndTail DEF Prepare
  <2>2. /\ pc[w] = "prepare" /\ call[w] = NoCall
        /\ UNCHANGED <<row, pc, completed, received>>
    BY <1>1 DEF Prepare
  <2>3. CASE /\ ready' = [ready EXCEPT ![w] = Append(@, Head(batch[w]))]
             /\ UNCHANGED <<call, reported>>
    <3>1. Len(ready'[w]) = Len(ready[w]) + 1 /\ Range(ready'[w]) = Range(ready[w]) \cup {Head(batch[w])}
      BY <2>1, <2>3, Facts, Appended
    <3> QED
      BY <2>1, <2>2, <2>3, <3>1, Facts DEF NoCall, Limited
  <2>4. CASE SendReport(w, "failed", Head(batch[w])) /\ UNCHANGED ready
    <3>1. reported'[w] = reported[w] \cup {Head(batch[w])} /\ call'[w].op = "failed"
      BY <2>4, Facts DEF SendReport, Report
    <3> QED
      BY <2>1, <2>2, <2>4, <3>1, Facts DEF Limited
  <2> QED
    BY <1>1, <2>3, <2>4 DEF Prepare
<1>2. CASE Prepared(w) \/ AllReported(w)
  BY <1>2, Facts DEF Prepared, AllReported, historyVars, NoCall, Limited
<1>3. CASE Embed(w)
  BY <1>3, Facts DEF Embed, historyVars, Limited
<1>4. CASE SendNext(w)
  <2>1. /\ Head(ready[w]) \in Jobs
        /\ Len(ready[w]) > 0 /\ Len(Tail(ready[w])) = Len(ready[w]) - 1
        /\ Range(ready[w]) \subseteq {Head(ready[w])} \cup Range(Tail(ready[w]))
    BY <1>4, Facts, HeadAndTail DEF SendNext
  <2>2. /\ UNCHANGED <<row, pc, batch, completed, received>>
        /\ reported'[w] = reported[w] \cup {Head(ready[w])}
        /\ \/ pc[w] = "complete" /\ call'[w] = Report("completed", Head(ready[w])) /\ ready' = ready
           \/ pc[w] = "fail" /\ call'[w] = Report("failed", Head(ready[w]))
              /\ ready'[w] = Tail(ready[w])
    BY <1>4, Facts DEF SendNext, SendReport
  <2> QED
    BY <1>4, <2>1, <2>2, Facts DEF SendNext, Report, Limited
<1>5. CASE CompleteAcked(w) \/ CompleteNotFound(w)
  <2>1. ready[w] # <<>> /\ call[w].job = Head(ready[w]) /\ pc[w] = "complete"
        /\ Head(ready[w]) \in reported[w]
    BY <1>5, Facts DEF CompleteAcked, CompleteNotFound
  <2>2. /\ Len(ready[w]) > 0 /\ Len(Tail(ready[w])) = Len(ready[w]) - 1
        /\ Range(ready[w]) \subseteq {Head(ready[w])} \cup Range(Tail(ready[w]))
    BY <2>1, Facts, HeadAndTail
  <2>3. /\ UNCHANGED <<row, pc, batch, received, reported>>
        /\ ready'[w] = Tail(ready[w])
        /\ call'[w].op \in {"none", "failed"}
        /\ completed'[w] \in {completed[w], completed[w] + 1}
    <3>1. CASE CompleteAcked(w)
      BY <3>1, Facts DEF CompleteAcked, NoCall
    <3>2. CASE CompleteNotFound(w)
      BY <3>2, Facts DEF CompleteNotFound, FailInstead, Report, historyVars
    <3> QED
      BY <1>5, <3>1, <3>2
  <2> QED
    BY <2>1, <2>2, <2>3, Facts DEF Limited
<1>6. CASE FailAnswered(w)
  BY <1>6, Facts DEF FailAnswered, workerVars, historyVars, NoCall, ClaimN, Limited
<1> QED
  BY <1>1, <1>2, <1>3, <1>4, <1>5, <1>6

\* Calls that fail, and workers that die.
LEMMA FaultSteps ==
    ASSUME Inductive, NEW w \in Workers, CallFails(w) \/ Die(w)
    PROVE  WorkerInv(w)'
<1>0. TypeOK
  BY DEF Inductive
<1>1. CASE call[w].op = "claim" /\ Abandon(w, NoCall) /\ StopClaiming(w)
  <2>1. call'[w] = NoCall
    BY <1>0, <1>1, AbandonedByOne
  <2> QED
    BY <1>1, <2>1, Facts, Empty DEF StopClaiming, NoCall, ClaimN, Limited
<1>2. CASE call[w].op = "completed" /\ Abandon(w, Report("failed", call[w].job)) /\ FailInstead(w)
  <2>1. call'[w].op = "failed"
    BY <1>0, <1>2, AbandonedByOne DEF Report
  <2>2. ready[w] # <<>> /\ call[w].job = Head(ready[w]) /\ pc[w] = "complete"
        /\ Head(ready[w]) \in reported[w]
    BY <1>2, Facts
  <2>3. /\ Len(ready[w]) > 0 /\ Len(Tail(ready[w])) = Len(ready[w]) - 1
        /\ Range(ready[w]) \subseteq {Head(ready[w])} \cup Range(Tail(ready[w]))
    BY <2>2, Facts, HeadAndTail
  <2>4. /\ UNCHANGED <<row, pc, batch, completed, received, reported>>
        /\ ready'[w] = Tail(ready[w])
    BY <1>2, Facts DEF FailInstead, historyVars
  <2> QED
    BY <2>1, <2>2, <2>3, <2>4, Facts DEF Limited
<1>3. CASE call[w].op = "failed" /\ Abandon(w, NoCall) /\ UNCHANGED <<row, workerVars, historyVars>>
  <2>1. call'[w] = NoCall
    BY <1>0, <1>3, AbandonedByOne
  <2> QED
    BY <1>3, <2>1, Facts DEF workerVars, historyVars, NoCall, ClaimN, Limited
<1>4. CASE Die(w)
  <2>1. call'[w] = NoCall
    BY <1>0, <1>4, AbandonedByOne DEF Die
  <2> QED
    BY <1>4, <2>1, Facts, Empty DEF Die, NoCall, Limited
<1> QED
  BY <1>1, <1>2, <1>3, <1>4 DEF CallFails

LEMMA WorkerStep ==
    ASSUME Inductive, [Next]_vars, NEW w \in Workers PROVE WorkerInv(w)'
<1>0. TypeOK /\ WorkerInv(w)
  BY DEF Inductive
<1>1. ASSUME NEW j \in Jobs, Submit(j) \/ Reclaim(j) PROVE Same(w)
  BY <1>1 DEF Submit, Reclaim, Same, workerVars, historyVars
<1>2. ASSUME NEW l \in Lines, Serve(l) PROVE WorkerInv(w)'
  BY <1>2, ServeStep
<1>3. ASSUME NEW v \in Workers, Start(v) \/ Work(v) \/ CallFails(v) \/ Die(v)
      PROVE  WorkerInv(w)'
  <2>1. CASE v # w
    BY <1>0, <1>3, <2>1, OthersSame, Untouched
  <2>2. CASE v = w
    BY <1>3, <2>2, ClaimSteps, RunSteps, FaultSteps DEF Work
  <2> QED
    BY <2>1, <2>2
<1>4. CASE UNCHANGED vars
  BY <1>0, <1>4, Untouched DEF Same, vars, workerVars, historyVars
<1> HIDE DEF WorkerInv
<1>5. Same(w) => WorkerInv(w)'
  BY <1>0, Untouched
<1> QED
  BY <1>1, <1>2, <1>3, <1>4, <1>5 DEF Next, Normal, Fault

-----------------------------------------------------------------------------
(***************************************************************************)
(* The completes that were answered.                                       *)
(***************************************************************************)
LEMMA AckedStep ==
    ASSUME Inductive, [Next]_vars PROVE AckedIsCompleted'
<1>0. TypeOK /\ AckedIsCompleted /\ acked \subseteq Jobs
  BY DEF Inductive, TypeOK
<1>1. ASSUME acked' = acked PROVE AckedIsCompleted'
  BY <1>0, <1>1, RowKept DEF AckedIsCompleted
<1>2. ASSUME NEW w \in Workers, CompleteAcked(w) PROVE AckedIsCompleted'
  <2>1. call[w].job \in Jobs /\ row[call[w].job] = "completed"
    BY <1>2, Facts, HeadAndTail DEF CompleteAcked
  <2>2. acked' = acked \cup {call[w].job} /\ row' = row
    BY <1>2 DEF CompleteAcked
  <2> QED
    BY <1>0, <2>1, <2>2 DEF AckedIsCompleted
<1>3. ASSUME NEW j \in Jobs, Submit(j) \/ Reclaim(j) PROVE acked' = acked
  BY <1>3 DEF Submit, Reclaim, historyVars
<1>4. ASSUME NEW l \in Lines, Serve(l) PROVE acked' = acked
  BY <1>4 DEF Serve, Choose, Take, Settle, historyVars
<1>5. ASSUME NEW w \in Workers, Start(w) \/ Work(w) \/ CallFails(w) \/ Die(w)
      PROVE  acked' = acked \/ CompleteAcked(w)
  BY <1>5 DEF Start, Work, EndRun, SendClaim, NoMoreJobs, GotJob, Prepare, Prepared, Embed,
              SendNext, CompleteNotFound, FailAnswered, AllReported, CallFails, Die,
              StopClaiming, FailInstead, historyVars
<1>6. CASE UNCHANGED vars
  BY <1>1, <1>6 DEF vars, historyVars
<1> QED
  BY <1>1, <1>2, <1>3, <1>4, <1>5, <1>6 DEF Next, Normal, Fault

LEMMA InductiveStep == Inductive /\ [Next]_vars => Inductive'
<1> SUFFICES ASSUME Inductive, [Next]_vars PROVE Inductive'
  OBVIOUS
<1> HIDE DEF WorkerInv
<1> QED
  BY TypeStep, LineStep, WorkerStep, AckedStep DEF Inductive

-----------------------------------------------------------------------------
(***************************************************************************)
(* The server that the workers call keeps to JobContract.                   *)
(***************************************************************************)
LEMMA StateOfValues ==
    /\ StateOf("absent") = "absent"
    /\ StateOf("pending") = "queued" /\ StateOf("processing") = "running"
    /\ \A o \in Settled : StateOf(o) = "settled"
BY DEF StateOf, Settled

LEMMA ContractInit == Init => Contract!Init
BY StateOfValues DEF Init, Contract!Init, Settled

LEMMA ContractStep ==
    Inductive /\ [Next]_vars => [Contract!Next]_(Contract!contractVars)
<1> SUFFICES ASSUME Inductive, [Next]_vars
             PROVE  [Contract!Next]_(Contract!contractVars)
  OBVIOUS
<1> DEFINE State   == [j \in Jobs |-> StateOf(row[j])]
           Outcome == [j \in Jobs |-> IF row[j] \in Settled THEN row[j] ELSE "none"]
<1>0. /\ row \in [Jobs -> Settled \cup {"absent", "pending", "processing"}]
      /\ {"absent", "pending", "processing"} \cap Settled = {}
  BY DEF Inductive, TypeOK, Settled
<1>1. ASSUME NEW j \in Jobs, Submit(j) PROVE Contract!Submit(j)
  <2>1. row[j] = "absent" /\ row' = [row EXCEPT ![j] = "pending"]
    BY <1>1 DEF Submit
  <2>2. State[j] = "absent" /\ State' = [State EXCEPT ![j] = "queued"] /\ Outcome' = Outcome
    BY <1>0, <2>1, StateOfValues
  <2> QED
    BY <2>2 DEF Contract!Submit
<1>2. ASSUME NEW j \in Jobs, Reclaim(j) PROVE Contract!Requeue({j})
  <2>1. row[j] = "processing" /\ row' = [row EXCEPT ![j] = "pending"]
    BY <1>2 DEF Reclaim
  <2>2. /\ State[j] = "running" /\ Outcome' = Outcome
        /\ State' = [k \in Jobs |-> IF k \in {j} THEN "queued" ELSE State[k]]
    BY <1>0, <2>1, StateOfValues
  <2> QED
    BY <2>2 DEF Contract!Requeue
<1>3. ASSUME NEW l \in Lines, Take(l), row' # row PROVE Contract!Start(call[l].job)
  <2>1. /\ call[l].job \in Jobs /\ row[call[l].job] = "pending"
        /\ row' = [row EXCEPT ![call[l].job] = "processing"]
    BY <1>3 DEF Take, Inductive, LineInv, NamesJob
  <2>2. /\ State[call[l].job] = "queued" /\ State' = [State EXCEPT ![call[l].job] = "running"]
        /\ Outcome' = Outcome
    BY <1>0, <2>1, StateOfValues
  <2> QED
    BY <2>2 DEF Contract!Start
<1>4. ASSUME NEW l \in Lines, Settle(l), row' # row,
             NEW j \in Jobs, j = call[l].job, NEW o \in Settled, o = call[l].op
      PROVE  Contract!Settle(j, o)
  <2>1. row[j] = "processing" /\ row' = [row EXCEPT ![j] = o]
    BY <1>4 DEF Settle
  <2>2. /\ State[j] = "running" /\ State' = [State EXCEPT ![j] = "settled"]
        /\ Outcome' = [Outcome EXCEPT ![j] = o]
    BY <1>0, <2>1, StateOfValues
  <2> QED
    BY <2>2 DEF Contract!Settle
<1>5. CASE row' = row
  BY <1>5 DEF Contract!contractVars
<1>6. ASSUME NEW l \in Lines, Serve(l) PROVE [Contract!Next]_(Contract!contractVars)
  <2>1. CASE Choose(l)
    BY <1>5, <2>1 DEF Choose
  <2>2. CASE Take(l)
    <3>1. row' # row => call[l].job \in Jobs
      BY <2>2 DEF Take, Inductive, LineInv, NamesJob
    <3> QED
      BY <1>3, <1>5, <2>2, <3>1 DEF Contract!Next
  <2>3. CASE Settle(l)
    <3>1. call[l].job \in Jobs /\ call[l].op \in Settled
      BY <2>3 DEF Settle, Inductive, LineInv, NamesJob
    <3>2. CASE row' # row
      <4>1. PICK j \in Jobs, o \in Settled : j = call[l].job /\ o = call[l].op
        BY <3>1
      <4>2. Contract!Settle(j, o) /\ o \in Contract!Outcomes
        BY <1>4, <2>3, <3>2, <4>1 DEF Settled, Contract!Outcomes
      <4> QED
        BY <4>2 DEF Contract!Next
    <3> QED
      BY <1>5, <3>2
  <2> QED
    BY <1>6, <2>1, <2>2, <2>3 DEF Serve
<1>7. ASSUME NEW w \in Workers, Start(w) \/ Work(w) \/ CallFails(w) \/ Die(w) PROVE row' = row
  BY <1>7 DEF Start, Work, EndRun, SendClaim, NoMoreJobs, GotJob, Prepare, Prepared, Embed,
              SendNext, CompleteAcked, CompleteNotFound, FailAnswered, AllReported, CallFails,
              Die, StopClaiming, FailInstead
<1>8. ASSUME NEW j \in Jobs, Submit(j) \/ Reclaim(j) PROVE Contract!Next
  <2>1. {j} \in SUBSET Jobs
    OBVIOUS
  <2> QED
    BY <1>1, <1>2, <1>8, <2>1 DEF Contract!Next
<1> QED
  BY <1>5, <1>6, <1>7, <1>8 DEF Next, Normal, Fault, vars

-----------------------------------------------------------------------------
\* Every reachable state satisfies the invariant that the rest follows from.
THEOREM InductiveInvariant == Spec => []Inductive
BY InitInductive, InductiveStep, PTL DEF Spec

\* The variables keep their types: no sequence of calls, answers and faults puts
\* into a batch or a report anything that is not a job.
THEOREM TypeCorrect == Spec => []TypeOK
<1>1. Inductive => TypeOK
  BY DEF Inductive
<1> QED
  BY <1>1, InductiveInvariant, PTL

\* run_jobs: a worker forgets no job, whichever of the claim, the preparation,
\* the inference and the calls failed.
THEOREM NothingIsForgotten == Spec => []NothingForgotten
<1>1. Inductive => NothingForgotten
  BY DEF Inductive, NothingForgotten
<1> QED
  BY <1>1, InductiveInvariant, PTL

\* CompleteWorkerJob: a complete that was answered 204 is the outcome of the job
\* for good, whatever calls the server serves after their workers gave up.
THEOREM AcksAreFinal == Spec => []AckedIsCompleted
<1>1. Inductive => AckedIsCompleted
  BY DEF Inductive
<1> QED
  BY <1>1, InductiveInvariant, PTL

\* claim_n: a Modal run never holds more jobs than its limit lets it complete.
THEOREM RunsKeepTheLimit == Spec => []HoldsWithinLimit
<1>1. Inductive => HoldsWithinLimit
  BY DEF Inductive, HoldsWithinLimit
<1> QED
  BY <1>1, InductiveInvariant, PTL

\* ClaimJob, FinishJob, the reclaim: what the workers and the calls they left hanging
\* do to the rows is what JobContract, and so JobQueue, allows.
THEOREM ServerKeepsContract == Spec => UsesContract
BY InductiveInvariant, ContractInit, ContractStep, PTL DEF Spec, UsesContract, Contract!Spec

-----------------------------------------------------------------------------
Promised == INSTANCE JobContract_proofs
            WITH state <- [j \in Jobs |-> StateOf(row[j])],
                 outcome <- [j \in Jobs |-> IF row[j] \in Settled THEN row[j] ELSE "none"],
                 told <- [j \in Jobs |-> <<>>]

\* The first report that the server serves decides: whatever calls are still
\* served after their workers gave up or died, no later one changes the outcome.
THEOREM FirstReportDecides ==
    Spec => []Promised!Promise /\ [][Promised!OutcomesAreKept]_(Promised!contractVars)
<1>1. Promised!Spec => []Promised!Promise
    BY Promised!PromiseIsKept
<1>2. Promised!Spec => [][Promised!OutcomesAreKept]_(Promised!contractVars)
    BY Promised!OutcomesAreFinal
<1>3. Contract!Init => Promised!Init
    BY DEF Contract!Init, Promised!Init
<1>4. [Contract!Next]_(Contract!contractVars) => [Promised!Next]_(Promised!contractVars)
    BY DEF Contract!Next, Promised!Next, Contract!contractVars, Promised!contractVars,
           Contract!Submit, Promised!Submit, Contract!Start, Promised!Start,
           Contract!Tell, Promised!Tell, Contract!Settle, Promised!Settle,
           Contract!Requeue, Promised!Requeue, Contract!Purge, Promised!Purge,
           Contract!Outcomes, Promised!Outcomes
<1> QED BY <1>1, <1>2, <1>3, <1>4, ServerKeepsContract, PTL
        DEF UsesContract, Contract!Spec, Promised!Spec
=============================================================================
