------------------------ MODULE ModalTrigger_proofs ------------------------
(***************************************************************************)
(* Theorems of ModalTrigger: turns are spaced and images are not overlooked, *)
(* for any images, any number of concurrent calls, any threshold and         *)
(* interval.                                                               *)
(***************************************************************************)
EXTENDS ModalTrigger, FiniteSetTheorems, TLAPS

\* Between the check and lastTrigger = now the goroutine holds t.mu, and nobody
\* has taken a turn since the check.
LockInv == \A s \in Slots : pc[s] = "set" => lock = s /\ since = MinInterval

\* TypeOK in two parts, as the provers keep Booleans and numbers apart.
TypeButExcused ==
    /\ row \in [Images -> {"absent", "pending", "processing", "settled"}]
    /\ pc \in [Slots -> {"idle", "countProcessing", "countPending", "check", "set", "post"}]
    /\ loop \in Slots \cup {NoSlot} /\ lock \in Slots \cup {NoSlot}
    /\ since \in 0..MinInterval
    /\ starts \in 0..MaxStarts
    /\ run \in {"off", "claim", "work"}
    /\ held \subseteq Images

Inductive == TypeOK /\ LockInv /\ NoneOverlooked

USE DEF Goto, callVars, triggerVars, runVars

\* Nothing pending is less than any threshold.
LEMMA EmptyBelowThreshold ==
    ~(Cardinality({}) >= Threshold)
BY FS_EmptySet, ModalTriggerAssumption

LEMMA InitInductive == Init => Inductive
<1>1. Init => TypeOK /\ LockInv
  <2>1. Init => excused \in BOOLEAN
    BY DEF Init
  <2>2. Init => TypeButExcused /\ LockInv
    BY ModalTriggerAssumption DEF Init, TypeButExcused, LockInv
  <2> QED
    BY <2>1, <2>2 DEF TypeOK, TypeButExcused
<1>2. Init => Pending = {}
  BY DEF Init, Pending, In
<1>3. Init => NoneOverlooked
  BY <1>2, EmptyBelowThreshold DEF NoneOverlooked
<1> QED
  BY <1>1, <1>3 DEF Inductive

\* Where the Boolean is assigned, it is assigned a Boolean.
LEMMA ExcusedIsBoolean == TypeOK /\ [Next]_vars => excused' \in BOOLEAN
<1> SUFFICES ASSUME excused \in BOOLEAN, [Next]_vars PROVE excused' \in BOOLEAN
  BY DEF TypeOK
<1>1. ASSUME NEW s \in Slots, Call(s) PROVE excused' \in BOOLEAN
  BY <1>1 DEF Call, CountProcessing, CountPending, CountFails, TooEarly, CheckInterval,
              SetLastTrigger, PostStarts, PostFails
<1>2. ASSUME NEW s \in Slots, Begin(s) PROVE excused' \in BOOLEAN
  BY <1>2 DEF Begin
<1>3. CASE Run
  BY <1>3 DEF Run, RunStarts, RunFindsNothing, RunClaims, RunReports
<1>4. CASE RunStops
  BY <1>4 DEF RunStops
<1>5. CASE Tick \/ Crash \/ UNCHANGED vars
  BY <1>5 DEF Tick, Crash, vars
<1> QED
  BY <1>1, <1>2, <1>3, <1>4, <1>5 DEF Next, Enqueue, ReclaimOnce

\* The types, action by action.
LEMMA TypePreserved == TypeOK /\ [Next]_vars => TypeOK'
<1> SUFFICES ASSUME TypeButExcused, [Next]_vars PROVE TypeButExcused'
  BY ExcusedIsBoolean DEF TypeOK, TypeButExcused
<1> USE ModalTriggerAssumption DEF TypeButExcused
<1>1. ASSUME NEW s \in Slots, Call(s) PROVE TypeButExcused'
  <2>1. CASE CountProcessing(s) \/ CountPending(s) \/ CountFails(s)
    BY <2>1 DEF CountProcessing, CountPending, CountFails, Return
  <2>2. CASE TooEarly(s) \/ CheckInterval(s) \/ SetLastTrigger(s)
    BY <2>2 DEF TooEarly, CheckInterval, SetLastTrigger
  <2>3. CASE PostStarts(s) \/ PostFails(s)
    BY <2>3 DEF PostStarts, PostFails
  <2> QED
    BY <1>1, <2>1, <2>2, <2>3 DEF Call
<1>2. ASSUME NEW s \in Slots, NEW j \in Images, Enqueue(s, j) PROVE TypeButExcused'
  BY <1>2 DEF Enqueue, Begin
<1>3. ASSUME NEW s \in Slots, NEW stale \in SUBSET Images, ReclaimOnce(s, stale)
      PROVE  TypeButExcused'
  BY <1>3 DEF ReclaimOnce, Begin
<1>4. CASE RunStarts \/ RunFindsNothing \/ RunStops
  BY <1>4 DEF RunStarts, RunFindsNothing, RunStops
<1>5. ASSUME NEW j \in Images, RunClaims(j) \/ RunReports(j) PROVE TypeButExcused'
  BY <1>5 DEF RunClaims, RunReports
<1>6. CASE Tick \/ Crash
  BY <1>6 DEF Tick, Crash
<1>7. CASE UNCHANGED vars
  BY <1>7 DEF vars
<1> QED
  BY <1>1, <1>2, <1>3, <1>4, <1>5, <1>6, <1>7 DEF Next, Run

\* Only its holder leaves "set" and gives t.mu back.
LEMMA LockPreserved == TypeOK /\ LockInv /\ [Next]_vars => LockInv'
<1> SUFFICES ASSUME TypeOK, LockInv, [Next]_vars, NEW t \in Slots, pc'[t] = "set"
             PROVE  lock' = t /\ since' = MinInterval
  BY DEF LockInv
<1> USE ModalTriggerAssumption DEF TypeOK, LockInv
<1>1. ASSUME NEW s \in Slots, Call(s) PROVE lock' = t /\ since' = MinInterval
  <2>1. CASE CountProcessing(s) \/ CountPending(s) \/ CountFails(s)
    BY <2>1 DEF CountProcessing, CountPending, CountFails
  <2>2. CASE TooEarly(s) \/ CheckInterval(s)
    BY <2>2 DEF TooEarly, CheckInterval
  <2>3. CASE SetLastTrigger(s)
    BY <2>3 DEF SetLastTrigger
  <2>4. CASE PostStarts(s) \/ PostFails(s)
    BY <2>4 DEF PostStarts, PostFails
  <2> QED
    BY <1>1, <2>1, <2>2, <2>3, <2>4 DEF Call
<1>2. ASSUME NEW s \in Slots, NEW j \in Images, Enqueue(s, j)
      PROVE  lock' = t /\ since' = MinInterval
  BY <1>2 DEF Enqueue, Begin
<1>3. ASSUME NEW s \in Slots, NEW stale \in SUBSET Images, ReclaimOnce(s, stale)
      PROVE  lock' = t /\ since' = MinInterval
  BY <1>3 DEF ReclaimOnce, Begin
<1>4. CASE Run \/ RunStops \/ UNCHANGED vars
  BY <1>4 DEF Run, RunStarts, RunFindsNothing, RunStops, RunClaims, RunReports, vars
<1>5. CASE Tick
  BY <1>5 DEF Tick
<1>6. CASE Crash
  BY <1>6 DEF Crash
<1> QED
  BY <1>1, <1>2, <1>3, <1>4, <1>5, <1>6 DEF Next

\* The pending jobs after a step that leaves the rows alone.
LEMMA SamePending == UNCHANGED row => Pending' = Pending /\ Processing' = Processing
BY DEF Pending, Processing, In

\* An enqueue or a reclaim begins a call; a call that ends says why, or hands
\* over to a run; a run ends when nothing is pending, or says why.
LEMMA OverlookedPreserved ==
    TypeOK /\ NoneOverlooked /\ [Next]_vars => NoneOverlooked'
<1> SUFFICES ASSUME TypeOK, NoneOverlooked, [Next]_vars,
                    Cardinality(Pending') >= Threshold
             PROVE  \/ excused' \/ Processing' # {} \/ starts' > 0 \/ run' # "off"
                    \/ \E s \in Slots : pc'[s] # "idle"
  BY DEF NoneOverlooked
<1> USE ModalTriggerAssumption DEF TypeOK
<1> DEFINE Goal == \/ excused' \/ Processing' # {} \/ starts' > 0 \/ run' # "off"
                   \/ \E s \in Slots : pc'[s] # "idle"
<1>1. ASSUME NEW s \in Slots, Call(s) PROVE Goal
  <2>1. UNCHANGED row
    BY <1>1 DEF Call, CountProcessing, CountPending, CountFails, TooEarly, CheckInterval,
                SetLastTrigger, PostStarts, PostFails
  <2>2. Pending' = Pending /\ Processing' = Processing
    BY <2>1, SamePending
  <2>3. CASE CountProcessing(s)
    BY <2>2, <2>3 DEF CountProcessing
  <2>4. CASE CountPending(s)
    <3>1. pc'[s] = "check"
      BY <2>2, <2>4 DEF CountPending
    <3> QED
      BY <3>1
  <2>5. CASE CountFails(s) \/ TooEarly(s) \/ PostFails(s)
    BY <2>5 DEF CountFails, TooEarly, PostFails
  <2>6. CASE CheckInterval(s) \/ SetLastTrigger(s)
    <3>1. pc'[s] # "idle"
      BY <2>6 DEF CheckInterval, SetLastTrigger
    <3> QED
      BY <3>1
  <2>7. CASE PostStarts(s)
    BY <2>7 DEF PostStarts
  <2> QED
    BY <1>1, <2>3, <2>4, <2>5, <2>6, <2>7 DEF Call
<1>2. ASSUME NEW s \in Slots, NEW j \in Images, Enqueue(s, j) PROVE Goal
  <2>1. pc'[s] # "idle"
    BY <1>2 DEF Enqueue, Begin
  <2> QED
    BY <2>1
<1>3. ASSUME NEW s \in Slots, NEW stale \in SUBSET Images, ReclaimOnce(s, stale) PROVE Goal
  <2>1. pc'[s] # "idle"
    BY <1>3 DEF ReclaimOnce, Begin
  <2> QED
    BY <2>1
<1>4. CASE RunStarts
  BY <1>4 DEF RunStarts
<1>5. CASE RunFindsNothing
  <2>1. Pending' = {}
    BY <1>5, SamePending DEF RunFindsNothing
  <2> QED
    BY <2>1, EmptyBelowThreshold
<1>6. ASSUME NEW j \in Images, RunClaims(j) \/ RunReports(j) PROVE Goal
  BY <1>6 DEF RunClaims, RunReports
<1>7. CASE RunStops
  BY <1>7, SamePending DEF RunStops
<1>8. CASE Tick \/ UNCHANGED vars
  <2>1. /\ UNCHANGED <<row, pc, starts, run, excused>>
        /\ Pending' = Pending /\ Processing' = Processing
    BY <1>8, SamePending DEF Tick, vars
  <2> QED
    BY <2>1 DEF NoneOverlooked
<1>9. CASE Crash
  BY <1>9 DEF Crash
<1> QED
  BY <1>1, <1>2, <1>3, <1>4, <1>5, <1>6, <1>7, <1>8, <1>9 DEF Next, Run

\* The inductive invariant: types, t.mu, and the reason why a batch waits.
THEOREM InductiveInvariant == Spec => []Inductive
<1>1. Inductive /\ [Next]_vars => Inductive'
  BY TypePreserved, LockPreserved, OverlookedPreserved DEF Inductive
<1> QED
  BY InitInductive, <1>1, PTL DEF Spec

\* Every variable keeps its type.
THEOREM TypeCorrect == Spec => []TypeOK
<1>1. Inductive => TypeOK
  BY DEF Inductive
<1> QED
  BY InductiveInvariant, <1>1, PTL

\* A batch that waits with nothing under way has a reason (NoneOverlooked).
THEOREM ImagesAreNotOverlooked == Spec => []NoneOverlooked
<1>1. Inductive => NoneOverlooked
  BY DEF Inductive
<1> QED
  BY InductiveInvariant, <1>1, PTL

\* lastTrigger is set only when it is MinInterval old (TurnsAreSpaced).
THEOREM TurnsKeepTheInterval == Spec => TurnsAreSpaced
<1>1. Inductive => [\A s \in Slots : pc[s] = "set" /\ pc'[s] = "post" => since = MinInterval]_vars
  BY DEF Inductive, LockInv
<1> QED
  BY InductiveInvariant, <1>1, PTL DEF TurnsAreSpaced
=============================================================================
