\* Two images and a Modal run limited to one job.
SPECIFICATION Spec
CONSTANTS
    t1 = t1  i1 = i1  i2 = i2  i3 = i3  r1 = r1  m1 = m1  g1 = g1  NoJob = NoJob
    TextJobs <- NoJobs
    ImageJobs <- TwoImages
    Resident <- NoWorkers
    Modal <- OneModal
    Hung <- NoWorkers
    BatchSize <- Batches
    MaxJobs = 1
    TimeLimited = FALSE
INVARIANT ProcessesWithinLimit
