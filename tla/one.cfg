\* One image job with two images, two requests at a time, every filter (liveness, so no symmetry).
SPECIFICATION Spec
CONSTANTS
    t1 = t1  t2 = t2  i1 = i1  h1 = h1  h2 = h2  NoJob = NoJob
    TextJobs <- NoJobs
    ImageJobs <- OneImage
    Handlers <- TwoHandlers
    NumImages = 2
    Filters <- AllFilters
INVARIANTS TypeOK EffectsFollowVerdict ImagesAvailable ListedImagesGone
PROPERTIES ImplementsContract NeverStuckProcessing RowsPurged
