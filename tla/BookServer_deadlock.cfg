CONSTANTS
    max_jobs = 1
    max_job_time = 0
    fork_timeout = 0
    Disturb = {}
    MaxStarts = 2
    Book = {b1, b2}
    Handler = {h1}
    Convert = Convert
    NoJob = NoJob
SPECIFICATION FairServerSpec
PROPERTY RenderingEnds
CHECK_DEADLOCK FALSE
