CONSTANTS
    Thread = {t1, t2, t3}
    NoThread = NoThread
    MaxCalls = 3
SPECIFICATION FairSpec
INVARIANTS HolderNeverWaits NoLostWakeup CountsMatchBlocks
PROPERTIES Contract NoStarvation
