\* Two requests at a time, two jobs, the limit at one pending job (liveness, so
\* no symmetry).
SPECIFICATION FairSpec
CONSTANTS
    s1 = s1  s2 = s2  j1 = j1  j2 = j2  x = x  NoJob = NoJob  NoText = NoText
    Slots <- TwoSlots
    Jobs <- TwoJobs
    Texts <- OneText
    MaxPending = 1
INVARIANTS TypeOK NoLostWakeup WakeupMeansSettled TruthfulAnswer NoLeakedWaiter BoundedOverrun
PROPERTIES SettledWakes UsesContract
