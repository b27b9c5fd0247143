\* One image job: its images and its row under the cleanup.
SPECIFICATION Spec
CONSTANTS
    t1 = t1  t2 = t2  i1 = i1  h1 = h1  h2 = h2  NoJob = NoJob
    TextJobs <- NoJobs
    ImageJobs <- OneImage
    Handlers <- TwoHandlers
    NumImages = 2
    Filters <- AnyKind
INVARIANT ImagesLeftToCleanup
