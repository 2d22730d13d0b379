CONSTANTS
    max_workers = 2
    Disturb = {"crash", "spawn", "shutdown", "data"}
    MaxJobs = 3
    MaxRounds = 2
SPECIFICATION FairSpec
INVARIANTS CommonDataIsCurrent TrackerCounts OneResultEach NothingWaits
PROPERTY EveryJobEnds
CHECK_DEADLOCK FALSE
