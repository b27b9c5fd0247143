------------------------------ MODULE TextCache ------------------------------
(***************************************************************************)
(* The embedding_caches table: requests read and touch entries, reports    *)
(* store results, and the goroutine of CleanupService prunes what exceeds   *)
(* the limit, least recently used first, in statements that are not in one  *)
(* transaction.                                                            *)
(*                                                                         *)
(* An entry is its text (the SHA-256 key) and its last_accessed_at, stamped *)
(* by the server before the statement is sent.  What is stored is left out: *)
(* only SetTextCache writes it, in one statement.                           *)
(***************************************************************************)
EXTENDS Naturals, FiniteSets

CONSTANTS Texts,       \* normalised texts
          Handlers,    \* HTTP requests the server can be serving at once
          MaxEntries,  \* maxEmbeddingCacheEntries (3000 in the code)
          MaxClock     \* bound: later times are not told apart

ASSUME TextCacheAssumption ==
    /\ IsFiniteSet(Texts)
    /\ MaxEntries \in Nat
    /\ MaxClock \in Nat \ {0}

VARIABLES
    last,     \* last_accessed_at of each entry (0: no entry)
    now,
    request,  \* the statement a handler is about to send
    cleaner,  \* what the cleanup goroutine does next
    excess,   \* entries over the limit, as it counted them
    victims,  \* the keys its DELETE has selected
    \* history: new entries since the last prune that succeeded counted, those
    \* of them added since the count of the prune under way, and whether any
    \* prune has succeeded
    added, addedSince, pruned

pruneVars == <<excess, victims>>
historyVars == <<added, addedSince, pruned>>
vars == <<last, now, request, cleaner, pruneVars, historyVars>>

Idle == [op |-> "none"]
Times == 1 .. MaxClock
Statements == [op : {"touch", "store"}, text : Texts, stamp : Times]

Entries == {t \in Texts : last[t] > 0}

TypeOK ==
    /\ last \in [Texts -> {0} \cup Times]
    /\ now \in Times
    /\ request \in [Handlers -> Statements \cup {Idle}]
    /\ cleaner \in {"startup", "select", "jobs", "count", "choose", "delete"}
    /\ excess \in Nat /\ victims \subseteq Texts
    /\ added \in Nat /\ addedSince \in Nat
    /\ pruned \in BOOLEAN

Init ==
    /\ last = [t \in Texts |-> 0]
    /\ now = 1
    /\ request = [h \in Handlers |-> Idle]
    /\ cleaner = "startup"
    /\ excess = 0 /\ victims = {}
    /\ added = 0 /\ addedSince = 0 /\ pruned = FALSE

Tick ==
    /\ now < MaxClock
    /\ now' = now + 1
    /\ UNCHANGED <<last, request, cleaner, pruneVars, historyVars>>

-----------------------------------------------------------------------------
(***************************************************************************)
(* GetTextCache and SetTextCache.                                          *)
(***************************************************************************)
\* Mutant of Send: the statement carries no time.
SendUnstamped(h, op, t) ==
    /\ request[h] = Idle
    /\ request' = [request EXCEPT ![h] = [op |-> op, text |-> t, stamp |-> 0]]
    /\ UNCHANGED <<last, now, cleaner, pruneVars, historyVars>>

Send(h, op, t) ==
    /\ request[h] = Idle
    /\ request' = [request EXCEPT ![h] = [op |-> op, text |-> t, stamp |-> now]]
    /\ UNCHANGED <<last, now, cleaner, pruneVars, historyVars>>

\* The SELECT finds an entry; a miss changes nothing.
Read(h, t) == t \in Entries /\ Send(h, "touch", t)

BeginStore(h, t) == Send(h, "store", t)

Write(t, stamp) == last' = [last EXCEPT ![t] = stamp]

\* Mutant of Touch: an upsert, as in SetTextCache.
TouchOrInsert(h) ==
    /\ request[h].op = "touch"
    /\ Write(request[h].text, request[h].stamp)
    /\ request' = [request EXCEPT ![h] = Idle]
    /\ UNCHANGED <<now, cleaner, pruneVars, historyVars>>

\* The UPDATE of last_accessed_at; it may go back in time, and it finds no row
\* when the entry has been pruned.
Touch(h) ==
    /\ request[h].op = "touch"
    /\ \/ request[h].text \in Entries /\ Write(request[h].text, request[h].stamp)
       \/ UNCHANGED last
    /\ request' = [request EXCEPT ![h] = Idle]
    /\ UNCHANGED <<now, cleaner, pruneVars, historyVars>>

\* INSERT ... ON CONFLICT (key) DO UPDATE.
Store(h) ==
    /\ request[h].op = "store"
    /\ Write(request[h].text, request[h].stamp)
    /\ IF request[h].text \in Entries THEN UNCHANGED historyVars
       ELSE added' = added + 1 /\ addedSince' = addedSince + 1 /\ UNCHANGED pruned
    /\ request' = [request EXCEPT ![h] = Idle]
    /\ UNCHANGED <<now, cleaner, pruneVars>>

StoreFails(h) ==
    /\ request[h].op = "store"
    /\ request' = [request EXCEPT ![h] = Idle]
    /\ UNCHANGED <<last, now, cleaner, pruneVars, historyVars>>

-----------------------------------------------------------------------------
(***************************************************************************)
(* CleanupService.Run: one goroutine for the jobs and the cache.            *)
(***************************************************************************)
Goto(where) == cleaner' = where

\* The rounds at the start, then one per tick.
StartJobs ==
    /\ cleaner = "select" /\ Goto("jobs")
    /\ UNCHANGED <<last, now, request, pruneVars, historyVars>>

\* cleanupExpiredJobs returns, with or without an error.
JobsDone ==
    /\ \/ cleaner = "startup" /\ Goto("count")
       \/ cleaner = "jobs" /\ Goto("select")
    /\ UNCHANGED <<last, now, request, pruneVars, historyVars>>

StartPrune ==
    /\ cleaner = "select" /\ Goto("count")
    /\ UNCHANGED <<last, now, request, pruneVars, historyVars>>

\* The prune has done its work, or found none.
Finish(addedNow) ==
    /\ Goto("select")
    /\ excess' = 0 /\ victims' = {}
    /\ added' = addedNow /\ addedSince' = 0 /\ pruned' = TRUE

\* Mutant of Over: the limit counts as over.
OverOrAt(n) == IF n >= MaxEntries THEN n + 1 - MaxEntries ELSE 0

\* Mutant of Over: one entry too many is tolerated.
OverByTwo(n) == IF n > MaxEntries + 1 THEN n - MaxEntries - 1 ELSE 0

Over(n) == IF n > MaxEntries THEN n - MaxEntries ELSE 0

CountEntries ==
    /\ cleaner = "count"
    /\ LET over == Over(Cardinality(Entries)) IN
          \/ over = 0 /\ Finish(0)
          \/ over > 0 /\ Goto("choose") /\ excess' = over /\ addedSince' = 0
                      /\ UNCHANGED <<victims, added, pruned>>
    /\ UNCHANGED <<last, now, request>>

\* Mutant of Oldest: ORDER BY last_accessed_at DESC.
Newest(V) == \A v \in V, t \in Entries \ V : last[v] >= last[t]

\* ORDER BY last_accessed_at ASC; ties in any order.
Oldest(V) == \A v \in V, t \in Entries \ V : last[v] <= last[t]

\* The subquery of the DELETE reads its snapshot.
ChooseVictims ==
    /\ cleaner = "choose"
    /\ \E V \in SUBSET Entries :
          Cardinality(V) = excess /\ Oldest(V) /\ victims' = V
    /\ Goto("delete")
    /\ UNCHANGED <<last, now, request, excess, historyVars>>

\* Its rows go even if they have been touched or stored again since.
DeleteVictims ==
    /\ cleaner = "delete"
    /\ last' = [t \in Texts |-> IF t \in victims THEN 0 ELSE last[t]]
    /\ Finish(addedSince)
    /\ UNCHANGED <<now, request>>

\* A statement fails: logged, and the next tick tries again.
PruneFails ==
    /\ cleaner \in {"count", "choose", "delete"}
    /\ Goto("select") /\ excess' = 0 /\ victims' = {}
    /\ UNCHANGED <<last, now, request, historyVars>>

\* The process is stopped, at any point, and started again.
Restart ==
    /\ request' = [h \in Handlers |-> Idle]
    /\ Goto("startup") /\ excess' = 0 /\ victims' = {}
    /\ UNCHANGED <<last, now, historyVars>>

-----------------------------------------------------------------------------
Handler(h) ==
    \/ \E t \in Texts : Read(h, t) \/ BeginStore(h, t)
    \/ Touch(h) \/ Store(h) \/ StoreFails(h)

Cleanup ==
    \/ StartJobs \/ JobsDone \/ StartPrune
    \/ CountEntries \/ ChooseVictims \/ DeleteVictims \/ PruneFails

Next ==
    \/ Tick
    \/ \E h \in Handlers : Handler(h)
    \/ Cleanup
    \/ Restart

Spec == Init /\ [][Next]_vars

\* The ticker keeps ticking and select is fair to it; the cleanup of jobs
\* returns, and a statement that is tried again and again succeeds in the end.
PruneFairness ==
    /\ SF_vars(JobsDone) /\ SF_vars(StartPrune)
    /\ SF_vars(CountEntries) /\ SF_vars(ChooseVictims) /\ SF_vars(DeleteVictims)

-----------------------------------------------------------------------------
\* The count is stale when the rows are chosen, and the choice when they are
\* deleted, yet a prune never takes the table under its limit.
KeepsLimit ==
    [][Entries' \subseteq Entries /\ Entries' # Entries
         => Cardinality(Entries') >= MaxEntries]_vars

\* After a prune the table exceeds the limit by no more than the entries added
\* since that prune counted: neither a touch of a row that was pruned nor a row
\* added behind the count escapes the next one.
BoundedSize ==
    pruned => Cardinality(Entries) <= MaxEntries + added

\* What is chosen is least recently used: when it is, MaxEntries other entries
\* have been used no earlier (the comment on last_accessed_at in GetTextCache).
VictimsAreLeastRecent ==
    [][cleaner = "choose" /\ cleaner' = "delete" =>
         \A v \in victims' :
            Cardinality({t \in Entries \ victims' : last[t] >= last[v]}) >= MaxEntries]_vars

\* The cleanup alone brings the table back to its limit once no new texts come,
\* whatever is touched or stored again meanwhile (PruneCache).
ShrinksBack ==
    PruneFairness => (<>[][Entries' \subseteq Entries]_vars
                        => <>[](Cardinality(Entries) <= MaxEntries))
=============================================================================
