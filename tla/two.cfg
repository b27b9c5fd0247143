\* Two text jobs: claims, reports, the reclaim and the purge across jobs.
SPECIFICATION Spec
CONSTANTS
    t1 = t1  t2 = t2  i1 = i1  h1 = h1  h2 = h2  NoJob = NoJob
    TextJobs <- TwoTexts
    ImageJobs <- NoJobs
    Handlers <- TwoHandlers
    NumImages = 1
    Filters <- AnyKind
SYMMETRY TextSymmetry
INVARIANT OneGrant
