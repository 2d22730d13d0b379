CONSTANTS
    max_jobs = 1
    max_job_time = 0
    fork_timeout = 0
    Disturb = {}
    MaxStarts = 2
    Book = {b1}
    Handler = {h1, h2}
    Convert = Convert
    NoJob = NoJob
SPECIFICATION FairServerSpec
INVARIANTS QueuedIsPending
PROPERTIES UsesJobsManager RenderingEnds RunningUntilDone
CHECK_DEADLOCK FALSE
