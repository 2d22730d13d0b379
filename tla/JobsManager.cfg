CONSTANTS
    max_jobs = 1
    max_job_time = 1
    fork_timeout = 2
    Disturb = {"spawn"}
    MaxStarts = 3
SPECIFICATION FairSpec
INVARIANTS EveryJobIsKnown DoneOnce NothingIsForgotten
PROPERTIES OverdueIsAborted EveryJobFinishes ShutdownEndsAll
CHECK_DEADLOCK FALSE
