\* One text, both workers, a call that outlives its caller.
SPECIFICATION FairSpec
CONSTANTS
    t1 = t1  i1 = i1  i2 = i2  i3 = i3  r1 = r1  m1 = m1  g1 = g1  NoJob = NoJob
    TextJobs <- OneText
    ImageJobs <- NoJobs
    Resident <- OneResident
    Modal <- OneModal
    Hung <- OneHung
    BatchSize <- Batches
    MaxJobs = 0
    TimeLimited = FALSE
INVARIANTS TypeOK AckedIsCompleted
PROPERTIES UsesContract TextsFinish RunsEnd
