\* One text, one image: the resident worker and a Modal run want the text.
SPECIFICATION Spec
CONSTANTS
    t1 = t1  i1 = i1  i2 = i2  i3 = i3  r1 = r1  m1 = m1  g1 = g1  NoJob = NoJob
    TextJobs <- OneText
    ImageJobs <- OneImage
    Resident <- OneResident
    Modal <- OneModal
    Hung <- NoWorkers
    BatchSize <- Batches
    MaxJobs = 0
    TimeLimited = FALSE
PROPERTY DrainsQueue
