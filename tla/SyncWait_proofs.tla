--------------------------- MODULE SyncWait_proofs ---------------------------
(***************************************************************************)
(* Theorems about SyncWait, for every value of its constants.              *)
(***************************************************************************)
EXTENDS SyncWait, FiniteSetTheorems, TLAPS

LEMMA TypeStep == Inductive /\ [Next]_vars => TypeOK'
<1> SUFFICES ASSUME Inductive, [Next]_vars PROVE TypeOK'
    OBVIOUS
<1> USE DEF Inductive, TypeOK, Settled, Listening, Goto, Answer, Return, slotVars,
            notifierVars, queueVars
<1>1. ASSUME NEW s \in Slots, Request(s) PROVE TypeOK'
  <2>1. ASSUME NEW t \in Texts, LookUp(s, t) PROVE TypeOK'
      BY <2>1 DEF LookUp
  <2>2. CASE CountPending(s) \/ CreateFails(s)
      BY <2>2 DEF CountPending, CreateFails
  <2>3. ASSUME NEW j \in Jobs, Create(s, j) PROVE TypeOK'
      BY <2>3 DEF Create
  <2>4. CASE Subscribe(s)
      BY <2>4 DEF Subscribe, SlotInv
  <2>5. CASE FirstRead(s) \/ FinalRead(s)
      BY <2>5 DEF FirstRead, FinalRead, ReadRow
  <2>6. CASE WakeUp(s)
      BY <2>6 DEF WakeUp
  <2>7. ASSUME NEW why \in {"timeout", "cancelled"}, GiveUp(s, why) PROVE TypeOK'
      BY <2>7 DEF GiveUp
  <2>8. CASE Leave(s)
      BY <2>8 DEF Leave
  <2> QED BY <1>1, <2>1, <2>2, <2>3, <2>4, <2>5, <2>6, <2>7, <2>8 DEF Request
<1>2. ASSUME NEW j \in Jobs, Queue(j) PROVE TypeOK'
  <2>1. CASE Claim(j) \/ Requeue(j) \/ Purge(j)
      BY <2>1 DEF Claim, Requeue, Purge
  <2>2. ASSUME NEW o \in Settled, Settle(j, o) \/ SettleUnacked(j, o) PROVE TypeOK'
      BY <2>2 DEF Settle, SettleUnacked
  <2>5. ASSUME NEW t \in Texts, CreateAsync(j, t) PROVE TypeOK'
      BY <2>5 DEF CreateAsync
  <2>3. CASE NotifyTake(j) \/ NotifySend(j)
      BY <2>3 DEF NotifyTake, NotifySend, AfterNotify
  <2>4. CASE SetCache(j)
    \* A job with an outcome has had its row, hence its text.
    <3>1. jobText[j] \in Texts
        BY <2>4 DEF SetCache, RowInv
    <3> QED BY <2>4, <3>1 DEF SetCache
  <2> QED BY <1>2, <2>1, <2>2, <2>3, <2>4, <2>5 DEF Queue
<1>3. ASSUME NEW t \in Texts, Evict(t) PROVE TypeOK'
    BY <1>3 DEF Evict
<1>4. CASE Crash
    BY <1>4 DEF Crash
<1>5. CASE UNCHANGED vars
    BY <1>5 DEF vars
<1> QED BY <1>1, <1>2, <1>3, <1>4, <1>5 DEF Next

-----------------------------------------------------------------------------
\* A queue step leaves the requests alone.
LEMMA QueueFrame ==
    ASSUME NEW j \in Jobs, Queue(j)
    PROVE  UNCHANGED slotVars
BY DEF Queue, CreateAsync, Claim, Requeue, Purge, Settle, SettleUnacked, NotifyTake, NotifySend,
       SetCache, slotVars

LEMMA SlotStep == Inductive /\ [Next]_vars => SlotInv'
<1> SUFFICES ASSUME Inductive, [Next]_vars PROVE SlotInv'
    OBVIOUS
<1> USE SyncWaitAssumption
    DEF Inductive, TypeOK, SlotInv, Settled, Goto, Answer, Return, slotVars, notifierVars, queueVars
<1>1. ASSUME NEW s \in Slots, NEW t \in Texts, LookUp(s, t) PROVE SlotInv'
    BY <1>1 DEF LookUp
<1>2. ASSUME NEW s \in Slots, CountPending(s) \/ CreateFails(s) PROVE SlotInv'
    BY <1>2 DEF CountPending, CreateFails
<1>3. ASSUME NEW s \in Slots, NEW j \in Jobs, Create(s, j) PROVE SlotInv'
    BY <1>3 DEF Create
<1>4. ASSUME NEW s \in Slots, Subscribe(s) PROVE SlotInv'
    BY <1>4 DEF Subscribe
<1>5. ASSUME NEW s \in Slots, FirstRead(s) \/ FinalRead(s) PROVE SlotInv'
    BY <1>5 DEF FirstRead, FinalRead, ReadRow
<1>6. ASSUME NEW s \in Slots, WakeUp(s) PROVE SlotInv'
    BY <1>6 DEF WakeUp, WakeupMeansSettled
<1>7. ASSUME NEW s \in Slots, NEW why \in {"timeout", "cancelled"}, GiveUp(s, why)
      PROVE  SlotInv'
    BY <1>7 DEF GiveUp
<1>8. ASSUME NEW s \in Slots, Leave(s) PROVE SlotInv'
    BY <1>8 DEF Leave
<1>9. ASSUME NEW j \in Jobs, Queue(j) PROVE SlotInv'
    BY <1>9, QueueFrame
    DEF Queue, CreateAsync, Claim, Requeue, Purge, Settle, SettleUnacked, NotifyTake, NotifySend,
        SetCache
<1>10. CASE Crash
    BY <1>10 DEF Crash
<1>11. CASE UNCHANGED <<slotVars, queueVars>>
    BY <1>11
<1> QED
    BY <1>1, <1>2, <1>3, <1>4, <1>5, <1>6, <1>7, <1>8, <1>9, <1>10, <1>11
    DEF Next, Request, Evict, vars

LEMMA FreshStep == Inductive /\ [Next]_vars => FreshIds'
<1> SUFFICES ASSUME Inductive, [Next]_vars PROVE FreshIds'
    OBVIOUS
<1> USE SyncWaitAssumption DEF Inductive, TypeOK, FreshIds, slotVars
<1>1. ASSUME NEW s \in Slots, NEW j \in Jobs, Create(s, j) PROVE FreshIds'
    BY <1>1 DEF Create, SlotInv
<1>2. ASSUME NEW s \in Slots, Leave(s) PROVE FreshIds'
    BY <1>2 DEF Leave
<1>3. CASE Crash
    BY <1>3 DEF Crash
<1>4. CASE UNCHANGED job
    BY <1>4
<1>5. ASSUME NEW j \in Jobs, Queue(j) PROVE FreshIds'
    BY <1>4, <1>5, QueueFrame
<1> QED
    BY <1>1, <1>2, <1>3, <1>4, <1>5
    DEF Next, Request, LookUp, CountPending, CreateFails, Subscribe, FirstRead, FinalRead,
        ReadRow, WakeUp, GiveUp, Evict, vars

LEMMA RowStep == Inductive /\ [Next]_vars => RowInv'
<1> SUFFICES ASSUME Inductive, [Next]_vars PROVE RowInv'
    OBVIOUS
<1> USE DEF Inductive, TypeOK, RowInv, Settled, queueVars
<1>1. ASSUME NEW s \in Slots, NEW j \in Jobs, Create(s, j) PROVE RowInv'
    BY <1>1 DEF Create, SlotInv
<1>2. ASSUME NEW j \in Jobs, Queue(j) PROVE RowInv'
    BY <1>2 DEF Queue, CreateAsync, Claim, Requeue, Purge, Settle, SettleUnacked, NotifyTake,
                NotifySend, SetCache, AfterNotify
<1>3. CASE Crash
    BY <1>3 DEF Crash
<1>4. CASE UNCHANGED queueVars
    BY <1>4
<1> QED
    BY <1>1, <1>2, <1>3, <1>4
    DEF Next, Request, LookUp, CountPending, CreateFails, Subscribe, FirstRead, FinalRead,
        WakeUp, GiveUp, Leave, Evict, vars

LEMMA CacheStep == Inductive /\ [Next]_vars => CacheInv'
<1> SUFFICES ASSUME Inductive, [Next]_vars PROVE CacheInv'
    OBVIOUS
<1> USE DEF Inductive, TypeOK, CacheInv, queueVars
<1>1. ASSUME NEW s \in Slots, NEW j \in Jobs, Create(s, j) PROVE CacheInv'
  \* The id is fresh: the entries in the cache come from other jobs.
  <2>1. verdict[j] # "completed"
      BY <1>1 DEF Create, RowInv
  <2> QED BY <1>1, <2>1 DEF Create
<1>2. ASSUME NEW j \in Jobs, NEW o \in Settled, Settle(j, o) \/ SettleUnacked(j, o)
      PROVE  CacheInv'
  <2>1. verdict[j] # "completed"
      BY <1>2 DEF Settle, SettleUnacked, RowInv
  <2> QED BY <1>2, <2>1 DEF Settle, SettleUnacked
<1>6. ASSUME NEW j \in Jobs, NEW t \in Texts, CreateAsync(j, t) PROVE CacheInv'
  <2>1. verdict[j] # "completed"
      BY <1>6 DEF CreateAsync, RowInv
  <2> QED BY <1>6, <2>1 DEF CreateAsync
<1>3. ASSUME NEW j \in Jobs, SetCache(j) PROVE CacheInv'
    BY <1>3 DEF SetCache, RowInv
<1>4. ASSUME NEW t \in Texts, Evict(t) PROVE CacheInv'
    BY <1>4 DEF Evict
<1>5. CASE UNCHANGED <<cache, jobText, verdict>>
    BY <1>5
<1> QED
    BY <1>1, <1>2, <1>3, <1>4, <1>5, <1>6
    DEF Next, Request, Queue, LookUp, CountPending, CreateFails, Subscribe, FirstRead, FinalRead,
        WakeUp, GiveUp, Leave, Claim, Requeue, Purge, NotifyTake, NotifySend, Crash, vars

LEMMA ChannelStep == Inductive /\ [Next]_vars => ChannelInv'
<1> SUFFICES ASSUME Inductive, [Next]_vars PROVE ChannelInv'
    OBVIOUS
<1> USE SyncWaitAssumption
    DEF Inductive, TypeOK, ChannelInv, Settled, Goto, Answer, Return, slotVars, notifierVars, queueVars
<1>1. ASSUME NEW s \in Slots,
             \/ \E t \in Texts : LookUp(s, t)
             \/ CountPending(s) \/ CreateFails(s)
             \/ \E why \in {"timeout", "cancelled"} : GiveUp(s, why)
      PROVE  ChannelInv'
    BY <1>1 DEF LookUp, CountPending, CreateFails, GiveUp
<1>2. ASSUME NEW s \in Slots, NEW j \in Jobs, Create(s, j) PROVE ChannelInv'
    BY <1>2 DEF Create, SlotInv
<1>3. ASSUME NEW s \in Slots, Subscribe(s) PROVE ChannelInv'
    BY <1>3 DEF Subscribe, FreshIds, SlotInv
\* The row read decides: a request enters the select only if it is not settled.
<1>4. ASSUME NEW s \in Slots, FirstRead(s) \/ FinalRead(s) PROVE ChannelInv'
    BY <1>4 DEF FirstRead, FinalRead, ReadRow
<1>5. ASSUME NEW s \in Slots, WakeUp(s) PROVE ChannelInv'
    BY <1>5 DEF WakeUp, FreshIds, SlotInv
<1>6. ASSUME NEW s \in Slots, Leave(s) PROVE ChannelInv'
    BY <1>6 DEF Leave, FreshIds, SlotInv
<1>7. ASSUME NEW j \in Jobs, Claim(j) \/ Requeue(j) \/ Purge(j) PROVE ChannelInv'
    BY <1>7 DEF Claim, Requeue, Purge, SlotInv
<1>8. ASSUME NEW j \in Jobs, NEW o \in Settled, Settle(j, o) \/ SettleUnacked(j, o)
      PROVE  ChannelInv'
    BY <1>8 DEF Settle, SettleUnacked, SlotInv, RowInv
<1>14. ASSUME NEW j \in Jobs, NEW t \in Texts, CreateAsync(j, t) PROVE ChannelInv'
    BY <1>14 DEF CreateAsync, SlotInv
<1>9. ASSUME NEW j \in Jobs, NotifyTake(j) PROVE ChannelInv'
    BY <1>9 DEF NotifyTake, SlotInv
<1>10. ASSUME NEW j \in Jobs, NotifySend(j) PROVE ChannelInv'
    BY <1>10 DEF NotifySend, SlotInv, Listening
<1>11. ASSUME NEW j \in Jobs, SetCache(j) PROVE ChannelInv'
    BY <1>11 DEF SetCache, SlotInv
<1>12. CASE Crash
    BY <1>12 DEF Crash
<1>13. CASE UNCHANGED <<slotVars, notifierVars, queueVars>>
    BY <1>13
<1> QED
    BY <1>1, <1>2, <1>3, <1>4, <1>5, <1>6, <1>7, <1>8, <1>9, <1>10, <1>11, <1>12, <1>13, <1>14
    DEF Next, Request, Queue, Evict, vars

LEMMA LeakStep == Inductive /\ [Next]_vars => NoLeakedWaiter'
<1> SUFFICES ASSUME Inductive, [Next]_vars PROVE NoLeakedWaiter'
    OBVIOUS
<1> USE SyncWaitAssumption
    DEF Inductive, TypeOK, NoLeakedWaiter, Listening, Goto, Answer, Return, slotVars, notifierVars
<1>1. ASSUME NEW s \in Slots,
             \/ \E t \in Texts : LookUp(s, t)
             \/ CountPending(s) \/ CreateFails(s)
             \/ \E why \in {"timeout", "cancelled"} : GiveUp(s, why)
      PROVE  NoLeakedWaiter'
    BY <1>1 DEF LookUp, CountPending, CreateFails, GiveUp
<1>2. ASSUME NEW s \in Slots, NEW j \in Jobs, Create(s, j) PROVE NoLeakedWaiter'
    BY <1>2 DEF Create
<1>3. ASSUME NEW s \in Slots, Subscribe(s) PROVE NoLeakedWaiter'
    BY <1>3 DEF Subscribe
<1>4. ASSUME NEW s \in Slots, FirstRead(s) \/ FinalRead(s) PROVE NoLeakedWaiter'
    BY <1>4 DEF FirstRead, FinalRead, ReadRow
<1>5. ASSUME NEW s \in Slots, WakeUp(s) PROVE NoLeakedWaiter'
    BY <1>5 DEF WakeUp
<1>6. ASSUME NEW s \in Slots, Leave(s) PROVE NoLeakedWaiter'
  \* Its own channel goes with it; every other one keeps its listener.
  <2>1. /\ waiters' \cup token' \subseteq (waiters \cup token) \ {job[s]}
        /\ \A r \in Slots \ {s} : pc'[r] = pc[r] /\ job'[r] = job[r]
      BY <1>6 DEF Leave
  <2>2. \A j \in waiters' \cup token' : \E r \in Slots \ {s} : job[r] = j /\ pc[r] \in Listening
      BY <2>1
  <2> QED BY <2>1, <2>2
<1>7. ASSUME NEW j \in Jobs, NotifyTake(j) PROVE NoLeakedWaiter'
    BY <1>7 DEF NotifyTake
<1>8. ASSUME NEW j \in Jobs, NotifySend(j) PROVE NoLeakedWaiter'
    BY <1>8 DEF NotifySend
<1>9. CASE Crash
    BY <1>9 DEF Crash
<1>10. CASE UNCHANGED <<slotVars, notifierVars>>
    BY <1>10
<1> QED
    BY <1>1, <1>2, <1>3, <1>4, <1>5, <1>6, <1>7, <1>8, <1>9, <1>10
    DEF Next, Request, Queue, CreateAsync, Claim, Requeue, Purge, Settle, SettleUnacked, SetCache,
        Evict, vars

LEMMA WakeStep == Inductive /\ [Next]_vars => WakeupMeansSettled'
<1> SUFFICES ASSUME Inductive, [Next]_vars PROVE WakeupMeansSettled'
    OBVIOUS
<1> USE SyncWaitAssumption
    DEF Inductive, TypeOK, WakeupMeansSettled, Goto, Answer, Return, slotVars, notifierVars, queueVars
<1>1. ASSUME NEW s \in Slots,
             \/ \E t \in Texts : LookUp(s, t)
             \/ CountPending(s) \/ CreateFails(s)
             \/ \E why \in {"timeout", "cancelled"} : GiveUp(s, why)
      PROVE  WakeupMeansSettled'
    BY <1>1 DEF LookUp, CountPending, CreateFails, GiveUp, SlotInv, Settled
<1>2. ASSUME NEW s \in Slots, NEW j \in Jobs, Create(s, j) PROVE WakeupMeansSettled'
  \* Nobody listens on a fresh id.
  <2>1. j \notin token
      BY <1>2 DEF Create, NoLeakedWaiter, SlotInv
  <2> QED BY <1>2, <2>1 DEF Create, SlotInv
<1>3. ASSUME NEW s \in Slots, Subscribe(s) PROVE WakeupMeansSettled'
    BY <1>3 DEF Subscribe
<1>4. ASSUME NEW s \in Slots, FirstRead(s) PROVE WakeupMeansSettled'
    BY <1>4 DEF FirstRead, ReadRow, Settled
<1>5. ASSUME NEW s \in Slots, FinalRead(s) PROVE WakeupMeansSettled'
  <2>1. row[job[s]] \in Settled \cup {"purged"}
      BY <1>5 DEF FinalRead, SlotInv, RowInv, Settled
  <2> QED BY <1>5, <2>1 DEF FinalRead, ReadRow, Settled
<1>6. ASSUME NEW s \in Slots, WakeUp(s) \/ Leave(s) PROVE WakeupMeansSettled'
    BY <1>6 DEF WakeUp, Leave
<1>7. ASSUME NEW j \in Jobs, Claim(j) \/ Requeue(j) \/ Purge(j) PROVE WakeupMeansSettled'
    BY <1>7 DEF Claim, Requeue, Purge, SlotInv, Settled
<1>8. ASSUME NEW j \in Jobs, NEW o \in Settled, Settle(j, o) \/ SettleUnacked(j, o)
      PROVE  WakeupMeansSettled'
    BY <1>8 DEF Settle, SettleUnacked, SlotInv, Settled
<1>12. ASSUME NEW j \in Jobs, NEW t \in Texts, CreateAsync(j, t) PROVE WakeupMeansSettled'
    BY <1>12 DEF CreateAsync, SlotInv, Settled
<1>9. ASSUME NEW j \in Jobs, NotifyTake(j) \/ NotifySend(j) \/ SetCache(j)
      PROVE  WakeupMeansSettled'
    BY <1>9 DEF NotifyTake, NotifySend, SetCache, RowInv
<1>10. CASE Crash
    BY <1>10 DEF Crash
<1>11. CASE UNCHANGED <<slotVars, notifierVars, queueVars>>
    BY <1>11
<1> QED
    BY <1>1, <1>2, <1>3, <1>4, <1>5, <1>6, <1>7, <1>8, <1>9, <1>10, <1>11, <1>12
    DEF Next, Request, Queue, Evict, vars

LEMMA TruthStep == Inductive /\ [Next]_vars => TruthfulAnswer'
<1> SUFFICES ASSUME Inductive, [Next]_vars PROVE TruthfulAnswer'
    OBVIOUS
<1> USE SyncWaitAssumption
    DEF Inductive, TypeOK, TruthfulAnswer, Settled, Goto, Answer, Return, slotVars, queueVars
<1>1. ASSUME NEW s \in Slots, NEW t \in Texts, LookUp(s, t) PROVE TruthfulAnswer'
  <2>1. t \in cache => \E j \in Jobs : jobText[j] = t /\ verdict[j] = "completed"
      BY DEF CacheInv
  <2>2. /\ text'[s] = t /\ answer'[s] \in {"none", "hit", "error"}
        /\ answer'[s] = "hit" => t \in cache
        /\ \A r \in Slots \ {s} : text'[r] = text[r] /\ answer'[r] = answer[r]
        /\ UNCHANGED <<job, jobText, verdict>>
      BY <1>1 DEF LookUp, SlotInv
  <2> QED BY <2>1, <2>2
<1>2. ASSUME NEW s \in Slots,
             \/ CountPending(s) \/ CreateFails(s)
             \/ \E why \in {"timeout", "cancelled"} : GiveUp(s, why)
      PROVE  TruthfulAnswer'
    BY <1>2 DEF CountPending, CreateFails, GiveUp
<1>3. ASSUME NEW s \in Slots, NEW j \in Jobs, Create(s, j) PROVE TruthfulAnswer'
  <2>1. verdict[j] = "none" /\ answer[s] \notin Settled
      BY <1>3 DEF Create, RowInv, SlotInv
  <2>2. answer[s] # "hit"
      BY <1>3 DEF Create, SlotInv
  <2> QED BY <1>3, <2>1, <2>2 DEF Create
<1>4. ASSUME NEW s \in Slots, Subscribe(s) \/ WakeUp(s) \/ Leave(s) PROVE TruthfulAnswer'
    BY <1>4 DEF Subscribe, WakeUp, Leave
<1>5. ASSUME NEW s \in Slots, FirstRead(s) \/ FinalRead(s) PROVE TruthfulAnswer'
    BY <1>5 DEF FirstRead, FinalRead, ReadRow, SlotInv, RowInv
<1>6. ASSUME NEW j \in Jobs, NEW o \in Settled, Settle(j, o) \/ SettleUnacked(j, o)
      PROVE  TruthfulAnswer'
  <2>1. verdict[j] = "none"
      BY <1>6 DEF Settle, SettleUnacked, RowInv
  <2> QED BY <1>6, <2>1 DEF Settle, SettleUnacked, SlotInv
<1>9. ASSUME NEW j \in Jobs, NEW t \in Texts, CreateAsync(j, t) PROVE TruthfulAnswer'
  <2>1. verdict[j] = "none"
      BY <1>9 DEF CreateAsync, RowInv
  <2> QED BY <1>9, <2>1 DEF CreateAsync, SlotInv
<1>7. CASE Crash
    BY <1>7 DEF Crash
<1>8. CASE UNCHANGED <<slotVars, jobText, verdict>>
    BY <1>8
<1> QED
    BY <1>1, <1>2, <1>3, <1>4, <1>5, <1>6, <1>7, <1>8, <1>9
    DEF Next, Request, Queue, Claim, Requeue, Purge, NotifyTake, NotifySend, SetCache, Evict, vars

-----------------------------------------------------------------------------
LEMMA InductiveInit == Init => Inductive
BY SyncWaitAssumption
   DEF Init, Inductive, TypeOK, SlotInv, FreshIds, RowInv, ChannelInv, CacheInv,
       WakeupMeansSettled, TruthfulAnswer, NoLeakedWaiter, Settled, Listening

\* The invariant that carries the theorems below.
THEOREM InductiveInvariant == Spec => []Inductive
<1>1. Inductive /\ [Next]_vars => Inductive'
    BY TypeStep, SlotStep, FreshStep, RowStep, ChannelStep, CacheStep, WakeStep, TruthStep,
       LeakStep DEF Inductive
<1> QED BY InductiveInit, <1>1, PTL DEF Spec

\* Every variable keeps its type, for any set of requests, jobs and texts.
THEOREM TypeCorrect == Spec => []TypeOK
<1>1. Inductive => TypeOK
    BY DEF Inductive
<1> QED BY InductiveInvariant, <1>1, PTL

\* Subscribe before the first read, and Notify after the row: whatever the
\* interleaving and however many requests wait, none sleeps on a settled job
\* with nobody left to wake it.
THEOREM WakeupsAreNotLost == Spec => []NoLostWakeup
<1>1. Inductive => NoLostWakeup
    BY DEF Inductive, ChannelInv, NoLostWakeup
<1> QED BY InductiveInvariant, <1>1, PTL

\* A message in a channel implies an outcome in the row, until it is deleted.
THEOREM WakeupsAreNotEarly == Spec => []WakeupMeansSettled
<1>1. Inductive => WakeupMeansSettled
    BY DEF Inductive
<1> QED BY InductiveInvariant, <1>1, PTL

\* A request is answered with the outcome of its own job or a cached result of
\* its own text.
THEOREM AnswersAreTruthful == Spec => []TruthfulAnswer
<1>1. Inductive => TruthfulAnswer
    BY DEF Inductive
<1> QED BY InductiveInvariant, <1>1, PTL

\* The notifier keeps no channel of a request that has gone.
THEOREM WaitersDoNotLeak == Spec => []NoLeakedWaiter
<1>1. Inductive => NoLeakedWaiter
    BY DEF Inductive
<1> QED BY InductiveInvariant, <1>1, PTL

-----------------------------------------------------------------------------
(***************************************************************************)
(* The admission limit.                                                    *)
(***************************************************************************)
LEMMA CountsAreFinite ==
           /\ IsFiniteSet(Fresh) /\ Cardinality(Fresh) \in Nat
           /\ IsFiniteSet(PendingJobs) /\ Cardinality(PendingJobs) \in Nat
           /\ Cardinality(Fresh) <= Cardinality(PendingJobs)
           /\ IsFiniteSet(Passed) /\ Cardinality(Passed) \in Nat
           /\ Cardinality(Slots) \in Nat
<1>1. IsFiniteSet(Jobs) /\ IsFiniteSet(Slots)
    BY SyncWaitAssumption
<1>2. PendingJobs \subseteq Jobs /\ Fresh \subseteq PendingJobs /\ Passed \subseteq Slots
    BY DEF PendingJobs, Fresh, Passed
<1>3. IsFiniteSet(PendingJobs) /\ IsFiniteSet(Passed)
    BY <1>1, <1>2, FS_Subset
<1>4. IsFiniteSet(Fresh) /\ Cardinality(Fresh) <= Cardinality(PendingJobs)
    BY <1>2, <1>3, FS_Subset
<1> QED BY <1>1, <1>3, <1>4, FS_CardinalityType

LEMMA OverrunInit == Init => BoundedOverrun
<1> SUFFICES ASSUME Init PROVE BoundedOverrun
    OBVIOUS
<1>1. Fresh = {} /\ Passed = {}
    BY DEF Init, Fresh, PendingJobs, Passed
<1>2. Cardinality(Fresh) = 0 /\ Cardinality(Passed) = 0
    BY <1>1, FS_EmptySet
<1>3. Cardinality(Slots) \in Nat
    BY SyncWaitAssumption, FS_CardinalityType
<1> QED BY <1>2, <1>3, SyncWaitAssumption DEF BoundedOverrun

LEMMA OverrunStep ==
    Inductive /\ BoundedOverrun /\ [Next]_vars => BoundedOverrun'
<1> SUFFICES ASSUME Inductive, BoundedOverrun, [Next]_vars PROVE BoundedOverrun'
    OBVIOUS
<1> USE DEF slotVars, notifierVars, queueVars
<1>0. /\ IsFiniteSet(Fresh) /\ IsFiniteSet(Passed)
      /\ IsFiniteSet(Fresh') /\ IsFiniteSet(Passed')
      /\ Cardinality(Fresh) \in Nat /\ Cardinality(Passed) \in Nat
      /\ Cardinality(Fresh') \in Nat /\ Cardinality(Passed') \in Nat
      /\ Cardinality(Slots) \in Nat /\ MaxPending \in Nat
  <2>1. Fresh' \subseteq Jobs /\ Passed' \subseteq Slots
      BY DEF Fresh, PendingJobs, Passed
  <2>2. IsFiniteSet(Fresh') /\ IsFiniteSet(Passed')
      BY <2>1, FS_Subset, SyncWaitAssumption
  <2> QED BY <2>2, CountsAreFinite, FS_CardinalityType, SyncWaitAssumption
\* Most steps add nothing to either count.
<1>1. ASSUME Fresh' \subseteq Fresh, Passed' \subseteq Passed PROVE BoundedOverrun'
  <2>1. Cardinality(Fresh') <= Cardinality(Fresh) /\ Cardinality(Passed') <= Cardinality(Passed)
      BY <1>0, <1>1, FS_Subset
  <2> QED BY <1>0, <2>1 DEF BoundedOverrun
\* A request passes the check: fewer than MaxPending jobs are pending, and the
\* requests that have passed are requests.
<1>2. ASSUME NEW s \in Slots, CountPending(s) PROVE BoundedOverrun'
  <2>1. CASE pc' = [pc EXCEPT ![s] = "create"] /\ Cardinality(PendingJobs) < MaxPending
    <3>1. Fresh' = Fresh
        BY <1>2 DEF CountPending, Fresh, PendingJobs
    <3>2. Cardinality(Fresh) <= MaxPending - 1
        BY <2>1, CountsAreFinite, SyncWaitAssumption
    <3>3. Cardinality(Passed') <= Cardinality(Slots)
      <4>1. Passed' \subseteq Slots
          BY DEF Passed
      <4> QED BY <4>1, FS_Subset, SyncWaitAssumption
    <3> QED BY <1>0, <3>1, <3>2, <3>3 DEF BoundedOverrun
  <2>2. CASE pc' = [pc EXCEPT ![s] = "leave"]
    <3>1. Fresh' \subseteq Fresh
        BY <1>2 DEF CountPending, Fresh, PendingJobs
    <3>2. Passed' \subseteq Passed
        BY <2>2 DEF Passed, Inductive, TypeOK
    <3> QED BY <1>1, <3>1, <3>2
  <2> QED BY <1>2, <2>1, <2>2 DEF CountPending, Goto, Return
\* Its insert moves it from one count to the other.
<1>3. ASSUME NEW s \in Slots, NEW j \in Jobs, Create(s, j) PROVE BoundedOverrun'
  <2>1. Fresh' \subseteq Fresh \cup {j}
      BY <1>3 DEF Create, Fresh, PendingJobs, Inductive, TypeOK
  <2>2. s \in Passed /\ Passed' = Passed \ {s}
      BY <1>3 DEF Create, Passed, Goto, Inductive, TypeOK
  <2>3. Cardinality(Passed') = Cardinality(Passed) - 1
      BY <1>0, <2>2, FS_RemoveElement
  <2>4. Cardinality(Fresh') <= Cardinality(Fresh) + 1
    <3>1. /\ IsFiniteSet(Fresh \cup {j})
          /\ Cardinality(Fresh \cup {j}) \in {Cardinality(Fresh), Cardinality(Fresh) + 1}
        BY <1>0, FS_AddElement
    <3>2. Cardinality(Fresh') <= Cardinality(Fresh \cup {j})
        BY <2>1, <3>1, FS_Subset
    <3> QED BY <1>0, <3>1, <3>2
  <2> QED BY <1>0, <2>3, <2>4 DEF BoundedOverrun
<1>4. ASSUME NEW s \in Slots, Request(s), ~CountPending(s), \A j \in Jobs : ~Create(s, j)
      PROVE  BoundedOverrun'
  <2>1. Fresh' \subseteq Fresh
      BY <1>4 DEF Request, LookUp, CreateFails, Subscribe, FirstRead, FinalRead, WakeUp, GiveUp,
                  Leave, Fresh, PendingJobs
  <2>2. Passed' \subseteq Passed
      BY <1>4 DEF Request, LookUp, CreateFails, Subscribe, FirstRead, FinalRead, ReadRow, WakeUp,
                  GiveUp, Leave, Goto, Return, Passed, Inductive, TypeOK
  <2> QED BY <1>1, <2>1, <2>2
\* The reclaim makes jobs pending, and marks them.
<1>5. ASSUME NEW j \in Jobs, Queue(j) PROVE BoundedOverrun'
  <2>1. Fresh' \subseteq Fresh
      BY <1>5 DEF Queue, CreateAsync, Claim, Requeue, Purge, Settle, SettleUnacked, NotifyTake,
                  NotifySend, SetCache, Fresh, PendingJobs, Inductive, TypeOK, Settled
  <2>2. Passed' \subseteq Passed
      BY <1>5, QueueFrame DEF Passed
  <2> QED BY <1>1, <2>1, <2>2
<1>6. CASE UNCHANGED vars \/ Crash \/ \E t \in Texts : Evict(t)
  <2>1. Fresh' \subseteq Fresh /\ Passed' \subseteq Passed
      BY <1>6 DEF vars, Crash, Evict, Fresh, PendingJobs, Passed
  <2> QED BY <1>1, <2>1
<1> QED BY <1>2, <1>3, <1>4, <1>5, <1>6 DEF Next

\* The limit of pending text jobs is overrun by fewer jobs than there are
\* requests, for every limit and every number of requests.
THEOREM OverrunIsBounded == Spec => []BoundedOverrun
<1> QED BY InductiveInvariant, OverrunInit, OverrunStep, PTL DEF Spec

-----------------------------------------------------------------------------
(***************************************************************************)
(* The queue that SyncWait waits on keeps to JobContract.                   *)
(***************************************************************************)
LEMMA StateOfValues ==
    /\ StateOf("absent") = "absent" /\ StateOf("purged") = "purged"
    /\ StateOf("pending") = "queued" /\ StateOf("processing") = "running"
    /\ \A o \in Settled : StateOf(o) = "settled"
BY DEF StateOf, Settled

LEMMA ContractInit == Init => Contract!Init
BY StateOfValues DEF Init, Contract!Init

LEMMA ContractStep ==
    Inductive /\ [Next]_vars => [Contract!Next]_(Contract!contractVars)
<1> SUFFICES ASSUME Inductive, [Next]_vars
             PROVE  [Contract!Next]_(Contract!contractVars)
    OBVIOUS
<1> DEFINE State == [j \in Jobs |-> StateOf(row[j])]
<1> USE DEF Inductive, TypeOK, queueVars
<1>1. ASSUME NEW s \in Slots, NEW j \in Jobs, Create(s, j) PROVE Contract!Submit(j)
  <2>1. /\ row[j] = "absent" /\ row' = [row EXCEPT ![j] = "pending"]
        /\ UNCHANGED verdict
      BY <1>1 DEF Create
  <2>2. State[j] = "absent" /\ State' = [State EXCEPT ![j] = "queued"]
      BY <2>1, StateOfValues
  <2> QED BY <2>1, <2>2 DEF Contract!Submit
<1>2. ASSUME NEW j \in Jobs, Claim(j) PROVE Contract!Start(j)
  <2>1. /\ row[j] = "pending" /\ row' = [row EXCEPT ![j] = "processing"]
        /\ UNCHANGED verdict
      BY <1>2 DEF Claim
  <2>2. State[j] = "queued" /\ State' = [State EXCEPT ![j] = "running"]
      BY <2>1, StateOfValues
  <2> QED BY <2>1, <2>2 DEF Contract!Start
<1>3. ASSUME NEW j \in Jobs, Requeue(j) PROVE Contract!Requeue({j})
  <2>1. /\ row[j] = "processing" /\ row' = [row EXCEPT ![j] = "pending"]
        /\ UNCHANGED verdict
      BY <1>3 DEF Requeue
  <2>2. /\ State[j] = "running"
        /\ State' = [k \in Jobs |-> IF k \in {j} THEN "queued" ELSE State[k]]
      BY <2>1, StateOfValues
  <2> QED BY <2>1, <2>2 DEF Contract!Requeue
<1>4. ASSUME NEW j \in Jobs, Purge(j) PROVE Contract!Purge({j})
  <2>1. /\ row[j] \in Settled \cup {"pending", "processing"}
        /\ row' = [row EXCEPT ![j] = "purged"]
        /\ UNCHANGED verdict
      BY <1>4 DEF Purge
  <2>2. /\ State[j] \in {"queued", "running", "settled"}
        /\ State' = [k \in Jobs |-> IF k \in {j} THEN "purged" ELSE State[k]]
      BY <2>1, StateOfValues
  <2> QED BY <2>1, <2>2 DEF Contract!Purge
<1>5. ASSUME NEW j \in Jobs, NEW o \in Settled, Settle(j, o) \/ SettleUnacked(j, o)
      PROVE  Contract!Settle(j, o)
  <2>1. /\ row[j] = "processing" /\ row' = [row EXCEPT ![j] = o]
        /\ verdict' = [verdict EXCEPT ![j] = o]
      BY <1>5 DEF Settle, SettleUnacked
  <2>2. State[j] = "running" /\ State' = [State EXCEPT ![j] = "settled"]
      BY <2>1, StateOfValues
  <2> QED BY <2>1, <2>2 DEF Contract!Settle
<1>9. ASSUME NEW j \in Jobs, NEW t \in Texts, CreateAsync(j, t) PROVE Contract!Submit(j)
  <2>1. /\ row[j] = "absent" /\ row' = [row EXCEPT ![j] = "pending"]
        /\ UNCHANGED verdict
      BY <1>9 DEF CreateAsync
  <2>2. State[j] = "absent" /\ State' = [State EXCEPT ![j] = "queued"]
      BY <2>1, StateOfValues
  <2> QED BY <2>1, <2>2 DEF Contract!Submit
<1>6. CASE UNCHANGED <<row, verdict>>
    BY <1>6 DEF Contract!contractVars
<1>7. ASSUME NEW s \in Slots, Request(s) PROVE [Contract!Next]_(Contract!contractVars)
    BY <1>1, <1>6, <1>7
    DEF Request, LookUp, CountPending, CreateFails, Subscribe, FirstRead, FinalRead, WakeUp,
        GiveUp, Leave, Contract!Next
<1>8. ASSUME NEW j \in Jobs, Queue(j) PROVE [Contract!Next]_(Contract!contractVars)
    BY <1>2, <1>3, <1>4, <1>5, <1>6, <1>8, <1>9
    DEF Queue, NotifyTake, NotifySend, SetCache, Contract!Next, Contract!Outcomes, Settled
<1> QED BY <1>6, <1>7, <1>8 DEF Next, Evict, Crash, vars

\* What SyncWait assumes of the queue is what JobContract, and so JobQueue,
\* allows.
THEOREM QueueKeepsContract == Spec => UsesContract
<1> QED BY InductiveInvariant, ContractInit, ContractStep, PTL
        DEF Spec, UsesContract, Contract!Spec

-----------------------------------------------------------------------------
Promised == INSTANCE JobContract_proofs
            WITH state <- [j \in Jobs |-> StateOf(row[j])],
                 outcome <- verdict,
                 told <- [j \in Jobs |-> <<>>]

\* The outcome a request waits for is settled once: reading it late, after the
\* channel, the deadline or a restart, gives what the report recorded.
THEOREM QueueKeepsPromises ==
    Spec => []Promised!Promise /\ [][Promised!OutcomesAreKept]_(Promised!contractVars)
<1>1. Promised!Spec => []Promised!Promise
    BY Promised!PromiseIsKept
<1>2. Promised!Spec => [][Promised!OutcomesAreKept]_(Promised!contractVars)
    BY Promised!OutcomesAreFinal
<1>3. Contract!Init => Promised!Init
    BY DEF Contract!Init, Promised!Init
<1>4. [Contract!Next]_(Contract!contractVars) => [Promised!Next]_(Promised!contractVars)
    BY DEF Contract!Next, Promised!Next, Contract!contractVars, Promised!contractVars,
           Contract!Submit, Promised!Submit, Contract!Start, Promised!Start,
           Contract!Tell, Promised!Tell, Contract!Settle, Promised!Settle,
           Contract!Requeue, Promised!Requeue, Contract!Purge, Promised!Purge,
           Contract!Outcomes, Promised!Outcomes
<1> QED BY <1>1, <1>2, <1>3, <1>4, QueueKeepsContract, PTL
        DEF UsesContract, Contract!Spec, Promised!Spec
=============================================================================
