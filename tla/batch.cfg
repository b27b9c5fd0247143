\* Three images, a Modal run that claims two at a time, limited to two jobs, or by time.
SPECIFICATION Spec
CONSTANTS
    t1 = t1  i1 = i1  i2 = i2  i3 = i3  r1 = r1  m1 = m1  g1 = g1  NoJob = NoJob
    TextJobs <- NoJobs
    ImageJobs <- ThreeImages
    Resident <- NoWorkers
    Modal <- OneModal
    Hung <- OneHung
    BatchSize <- Batches
    MaxJobs = 2
    TimeLimited = TRUE
SYMMETRY ImageSymmetry
INVARIANTS NothingForgotten HoldsWithinLimit
