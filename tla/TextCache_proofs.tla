-------------------------- MODULE TextCache_proofs --------------------------
(***************************************************************************)
(* Theorems of TextCache: what a prune may do to the table between its three *)
(* statements, for any texts, requests and limit.                          *)
(***************************************************************************)
EXTENDS TextCache, FiniteSetTheorems, TLAPS

\* With n entries too many counted, the table without n of its entries holds the
\* limit, and no more than that and what was added behind the count.
Counted(n) ==
    /\ Cardinality(Entries) >= MaxEntries + n
    /\ Cardinality(Entries) <= MaxEntries + n + addedSince

\* What a prune relies on: the count, then the choice as well.
PruneInv ==
    /\ cleaner \in {"choose", "delete"} => Counted(excess)
    /\ cleaner = "delete" => victims \subseteq Entries /\ Cardinality(victims) = excess

Inductive == TypeOK /\ PruneInv /\ BoundedSize

-----------------------------------------------------------------------------
(***************************************************************************)
(* The set of entries.                                                     *)
(***************************************************************************)
LEMMA EntriesFinite ==
    /\ IsFiniteSet(Entries) /\ Cardinality(Entries) \in Nat
    /\ \A V \in SUBSET Entries :
          /\ IsFiniteSet(V) /\ Cardinality(V) \in Nat
          /\ Cardinality(Entries \ V) = Cardinality(Entries) - Cardinality(V)
<1>1. IsFiniteSet(Entries)
  BY TextCacheAssumption, FS_Subset DEF Entries
<1>2. ASSUME NEW V \in SUBSET Entries
      PROVE  /\ IsFiniteSet(V) /\ Cardinality(V) \in Nat
             /\ Cardinality(Entries \ V) = Cardinality(Entries) - Cardinality(V)
  <2>1. IsFiniteSet(V)
    BY <1>1, FS_Subset
  <2>2. Entries \cap V = V
    OBVIOUS
  <2> QED
    BY <1>1, <2>1, <2>2, FS_Difference, FS_CardinalityType
<1> QED
  BY <1>1, <1>2, FS_CardinalityType

\* A statement writes an entry that is there: the keys stay the same.
LEMMA WritesOver ==
    ASSUME TypeOK, NEW t \in Entries, NEW s \in Times, Write(t, s)
    PROVE  Entries' = Entries
BY TextCacheAssumption DEF TypeOK, Entries, Write, Times

\* One that writes another adds it.
LEMMA WritesNew ==
    ASSUME TypeOK, NEW t \in Texts \ Entries, NEW s \in Times, Write(t, s)
    PROVE  Entries' = Entries \cup {t} /\ Cardinality(Entries') = Cardinality(Entries) + 1
<1>1. Entries' = Entries \cup {t}
  BY TextCacheAssumption DEF TypeOK, Entries, Write, Times
<1> QED
  BY <1>1, EntriesFinite, FS_AddElement

\* The statement that a handler is about to send.
LEMMA Sent ==
    ASSUME TypeOK, NEW h \in Handlers, request[h].op \in {"touch", "store"}
    PROVE  request[h].text \in Texts /\ request[h].stamp \in Times
BY DEF TypeOK, Statements, Idle

-----------------------------------------------------------------------------
LEMMA InitInductive == Init => Inductive
<1> SUFFICES ASSUME Init PROVE Inductive
  OBVIOUS
<1>1. TypeOK
  <2>1. now \in Times
    BY TextCacheAssumption DEF Init, Times
  <2> QED
    BY <2>1 DEF Init, TypeOK
<1>2. PruneInv /\ BoundedSize
  BY DEF Init, PruneInv, BoundedSize
<1> QED
  BY <1>1, <1>2 DEF Inductive

LEMMA TypeStep ==
    ASSUME Inductive, [Next]_vars PROVE TypeOK'
<1> USE DEF TypeOK
<1>0. TypeOK
  BY DEF Inductive
<1>1. CASE Tick
  BY <1>0, <1>1, TextCacheAssumption DEF Tick, Times, pruneVars, historyVars
<1>2. ASSUME NEW h \in Handlers, NEW t \in Texts, NEW op \in {"touch", "store"}, Send(h, op, t)
      PROVE  TypeOK'
  BY <1>0, <1>2 DEF Send, Statements, pruneVars, historyVars
<1>3. ASSUME NEW h \in Handlers, Touch(h) \/ Store(h) \/ StoreFails(h) PROVE TypeOK'
  <2>1. request[h].op \in {"touch", "store"} => request[h].text \in Texts /\ request[h].stamp \in Times
    BY <1>0, Sent
  <2>2. last' \in [Texts -> {0} \cup Times]
    BY <1>0, <1>3, <2>1 DEF Touch, Store, StoreFails, Write
  <2>3. request' \in [Handlers -> Statements \cup {Idle}]
    BY <1>0, <1>3 DEF Touch, Store, StoreFails
  <2> QED
    BY <1>0, <1>3, <2>2, <2>3 DEF Touch, Store, StoreFails, pruneVars, historyVars
<1>4. CASE StartJobs \/ JobsDone \/ StartPrune \/ PruneFails
  BY <1>0, <1>4 DEF StartJobs, JobsDone, StartPrune, PruneFails, Goto, pruneVars, historyVars
<1>5. CASE CountEntries
  <2>1. Over(Cardinality(Entries)) \in Nat
    BY EntriesFinite, TextCacheAssumption DEF Over
  <2>2. /\ UNCHANGED <<last, now, request>>
        /\ cleaner' \in {"select", "choose"}
        /\ excess' \in {0, Over(Cardinality(Entries))} /\ victims' \in {{}, victims}
        /\ added' \in {0, added} /\ addedSince' = 0 /\ pruned' \in {TRUE, pruned}
    BY <1>5 DEF CountEntries, Finish, Goto
  <2>3. last' \in [Texts -> {0} \cup Times] /\ now' \in Times
        /\ request' \in [Handlers -> Statements \cup {Idle}]
    BY <1>0, <2>2
  <2>4. excess' \in Nat /\ added' \in Nat /\ addedSince' \in Nat
    BY <1>0, <2>1, <2>2
  <2>5. victims' \subseteq Texts /\ pruned' \in BOOLEAN
    BY <1>0, <2>2
  <2> QED
    BY <2>2, <2>3, <2>4, <2>5
<1>6. CASE ChooseVictims
  BY <1>0, <1>6 DEF ChooseVictims, Goto, Entries, historyVars
<1>7. CASE DeleteVictims
  BY <1>0, <1>7 DEF DeleteVictims, Finish, Goto
<1>8. CASE Restart
  BY <1>0, <1>8 DEF Restart, Goto, historyVars
<1>9. CASE UNCHANGED vars
  BY <1>0, <1>9 DEF vars, pruneVars, historyVars
<1> HIDE DEF TypeOK
<1> QED
  BY <1>1, <1>2, <1>3, <1>4, <1>5, <1>6, <1>7, <1>8, <1>9
  DEF Next, Handler, Read, BeginStore, Cleanup

\* Only the DELETE removes entries, and only an INSERT adds one; every entry
\* added is counted.
LEMMA EntriesStep ==
    ASSUME Inductive, [Next]_vars, ~DeleteVictims
    PROVE  /\ Entries \subseteq Entries'
           /\ \/ Entries' = Entries
              \/ /\ Cardinality(Entries') = Cardinality(Entries) + 1
                 /\ added' = added + 1 /\ addedSince' = addedSince + 1
                 /\ UNCHANGED <<cleaner, excess, victims, pruned>>
<1>0. TypeOK
  BY DEF Inductive
<1>1. ASSUME last' = last PROVE Entries' = Entries
  BY <1>1 DEF Entries
<1>2. ASSUME NEW h \in Handlers, Touch(h) PROVE Entries' = Entries
  <2>1. CASE last' = last
    BY <1>1, <2>1
  <2>2. CASE request[h].text \in Entries /\ Write(request[h].text, request[h].stamp)
    BY <1>0, <1>2, <2>2, Sent, WritesOver DEF Touch
  <2> QED
    BY <1>2, <2>1, <2>2 DEF Touch
<1>3. ASSUME NEW h \in Handlers, Store(h), request[h].text \in Entries PROVE Entries' = Entries
  BY <1>0, <1>3, Sent, WritesOver DEF Store
<1>4. ASSUME NEW h \in Handlers, Store(h), request[h].text \notin Entries
      PROVE  /\ Entries \subseteq Entries'
             /\ Cardinality(Entries') = Cardinality(Entries) + 1
             /\ added' = added + 1 /\ addedSince' = addedSince + 1
             /\ UNCHANGED <<cleaner, excess, victims, pruned>>
  <2>1. request[h].text \in Texts \ Entries /\ request[h].stamp \in Times
    BY <1>0, <1>4, Sent DEF Store
  <2>2. Entries' = Entries \cup {request[h].text} /\ Cardinality(Entries') = Cardinality(Entries) + 1
    BY <1>0, <1>4, <2>1, WritesNew DEF Store
  <2> QED
    BY <1>4, <2>2 DEF Store, pruneVars
<1>5. ASSUME NEW h \in Handlers, Handler(h), ~Touch(h), ~Store(h) PROVE last' = last
  BY <1>5 DEF Handler, Read, BeginStore, Send, StoreFails
<1>6. ASSUME Cleanup \/ Tick \/ Restart \/ UNCHANGED vars PROVE last' = last
  BY <1>6
  DEF Cleanup, StartJobs, JobsDone, StartPrune, CountEntries, ChooseVictims, PruneFails, Tick,
      Restart, vars
<1> QED
  BY <1>1, <1>2, <1>3, <1>4, <1>5, <1>6 DEF Next

\* Nothing but the cleanup itself and a restart moves the cleanup.
LEMMA CleanerStep ==
    ASSUME Inductive, [Next]_vars, ~CountEntries, ~ChooseVictims, ~DeleteVictims
    PROVE  \/ /\ UNCHANGED <<cleaner, excess, victims, pruned>>
              /\ \/ UNCHANGED <<added, addedSince>>
                 \/ added' = added + 1 /\ addedSince' = addedSince + 1
           \/ cleaner' \notin {"choose", "delete"} /\ UNCHANGED <<added, addedSince, pruned>>
BY DEF Next, Tick, Handler, Read, BeginStore, Send, Touch, Store, StoreFails, Cleanup, StartJobs,
       JobsDone, StartPrune, PruneFails, Restart, Goto, vars, pruneVars, historyVars

-----------------------------------------------------------------------------
LEMMA DeleteEntries ==
    ASSUME Inductive, DeleteVictims
    PROVE  /\ Entries' = Entries \ victims
           /\ Cardinality(Entries') >= MaxEntries
           /\ Cardinality(Entries') <= MaxEntries + addedSince
<1>1. Entries' = Entries \ victims
  BY DEF DeleteVictims, Entries
<1>2. /\ victims \in SUBSET Entries /\ Cardinality(victims) = excess
      /\ Counted(excess) /\ excess \in Nat /\ addedSince \in Nat
  BY DEF Inductive, PruneInv, DeleteVictims, TypeOK
<1>3. Cardinality(Entries') = Cardinality(Entries) - excess
  BY <1>1, <1>2, EntriesFinite
<1> QED
  BY <1>1, <1>2, <1>3, EntriesFinite, TextCacheAssumption DEF Counted

LEMMA PruneStep ==
    ASSUME Inductive, [Next]_vars PROVE PruneInv' /\ BoundedSize'
<1>0. /\ PruneInv /\ BoundedSize /\ excess \in Nat /\ added \in Nat /\ addedSince \in Nat
      /\ MaxEntries \in Nat /\ Cardinality(Entries) \in Nat
  BY EntriesFinite, TextCacheAssumption DEF Inductive, TypeOK
<1>1. CASE DeleteVictims
  <2>1. cleaner' = "select" /\ added' = addedSince
    BY <1>1 DEF DeleteVictims, Finish, Goto
  <2> QED
    BY <1>1, <2>1, DeleteEntries DEF PruneInv, BoundedSize
<1>2. CASE CountEntries
  <2>1. Entries' = Entries
    BY <1>2 DEF CountEntries, Entries
  <2>2. CASE Over(Cardinality(Entries)) = 0
    BY <1>0, <1>2, <2>1, <2>2 DEF CountEntries, Over, Finish, Goto, PruneInv, BoundedSize
  <2>3. CASE Over(Cardinality(Entries)) > 0
    <3>1. /\ cleaner' = "choose" /\ excess' = Cardinality(Entries) - MaxEntries
          /\ addedSince' = 0 /\ UNCHANGED <<added, pruned>>
      BY <1>0, <1>2, <2>3 DEF CountEntries, Over, Goto
    <3> QED
      BY <1>0, <2>1, <3>1 DEF PruneInv, BoundedSize, Counted
  <2> QED
    BY <1>0, <2>2, <2>3 DEF Over
<1>3. CASE ChooseVictims
  <2>1. Entries' = Entries
    BY <1>3 DEF ChooseVictims, Entries
  <2> QED
    BY <1>0, <1>3, <2>1 DEF ChooseVictims, Goto, PruneInv, BoundedSize, Counted, historyVars
<1>4. CASE ~DeleteVictims /\ ~CountEntries /\ ~ChooseVictims
  <2>1. CASE Entries' = Entries
    BY <1>0, <1>4, <2>1, CleanerStep DEF PruneInv, BoundedSize, Counted
  <2>2. CASE /\ Entries \subseteq Entries'
             /\ Cardinality(Entries') = Cardinality(Entries) + 1
             /\ added' = added + 1 /\ addedSince' = addedSince + 1
             /\ UNCHANGED <<cleaner, excess, victims, pruned>>
    BY <1>0, <2>2 DEF PruneInv, BoundedSize, Counted
  <2> QED
    BY <1>4, <2>1, <2>2, EntriesStep
<1> QED
  BY <1>1, <1>2, <1>3, <1>4

LEMMA InductiveStep == Inductive /\ [Next]_vars => Inductive'
BY TypeStep, PruneStep DEF Inductive

-----------------------------------------------------------------------------
\* Every reachable state satisfies the invariant that the rest follows from.
THEOREM InductiveInvariant == Spec => []Inductive
BY InitInductive, InductiveStep, PTL DEF Spec

\* The variables keep their types, last_accessed_at included: a touch or a store
\* writes the time it was stamped with, never a time that marks no entry.
THEOREM TypeCorrect == Spec => []TypeOK
<1>1. Inductive => TypeOK
  BY DEF Inductive
<1> QED
  BY <1>1, InductiveInvariant, PTL

\* PruneCache: after a prune the table exceeds its limit by no more than what
\* was added since that prune counted.
THEOREM SizeIsBounded == Spec => []BoundedSize
<1>1. Inductive => BoundedSize
  BY DEF Inductive
<1> QED
  BY <1>1, InductiveInvariant, PTL

\* PruneCache: whatever is added, touched or read between the count, the choice
\* and the delete, no prune takes the table under its limit.
THEOREM LimitIsKept == Spec => KeepsLimit
<1>1. Inductive /\ [Next]_vars =>
        [Entries' \subseteq Entries /\ Entries' # Entries => Cardinality(Entries') >= MaxEntries]_vars
  BY DeleteEntries, EntriesStep
<1> QED
  BY <1>1, InductiveInvariant, PTL DEF Spec, KeepsLimit

\* PruneCache: an entry that is chosen has as many entries as the limit allows
\* that have been used no earlier, although the count is older than the choice.
THEOREM VictimsAreOld == Spec => VictimsAreLeastRecent
<1> DEFINE Old == cleaner = "choose" /\ cleaner' = "delete" =>
                    \A v \in victims' :
                       Cardinality({t \in Entries \ victims' : last[t] >= last[v]}) >= MaxEntries
<1>1. ASSUME Inductive, [Next]_vars, cleaner = "choose", cleaner' = "delete" PROVE Old
  <2>1. ChooseVictims
    BY <1>1
    DEF Next, Tick, Handler, Read, BeginStore, Send, Touch, Store, StoreFails, Cleanup, StartJobs,
        JobsDone, StartPrune, CountEntries, DeleteVictims, PruneFails, Restart, Goto, vars
  <2>2. PICK V \in SUBSET Entries : Cardinality(V) = excess /\ Oldest(V) /\ victims' = V
    BY <2>1 DEF ChooseVictims
  <2>3. Cardinality(Entries \ V) >= MaxEntries
    <3>1. Cardinality(Entries) >= MaxEntries + excess /\ excess \in Nat
      BY <1>1 DEF Inductive, PruneInv, Counted, TypeOK
    <3>2. Cardinality(Entries \ V) = Cardinality(Entries) - excess /\ Cardinality(Entries) \in Nat
      BY <2>2, EntriesFinite
    <3> QED
      BY <3>1, <3>2, TextCacheAssumption
  <2>4. ASSUME NEW v \in V PROVE {t \in Entries \ V : last[t] >= last[v]} = Entries \ V
    BY <1>1, <2>2 DEF Oldest, Inductive, TypeOK, Times, Entries
  <2> QED
    BY <2>2, <2>3, <2>4
<1>2. Inductive /\ [Next]_vars => [Old]_vars
  BY <1>1
<1> QED
  BY <1>2, InductiveInvariant, PTL DEF Spec, VictimsAreLeastRecent
=============================================================================
